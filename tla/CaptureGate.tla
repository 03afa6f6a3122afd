---------------------------- MODULE CaptureGate ----------------------------
(***************************************************************************)
(* What the capture IP promises to the RX DMA and to the software, without *)
(* its detector and counters: a window is CaptureLen words handed over     *)
(* without a gap in the numbering, PENDING is entered with the last of     *)
(* them, the active length follows the window until at least HangLen words *)
(* have been written, and nothing but a trigger (or the hardware reset)    *)
(* disturbs the count and the active length of a window.                   *)
(***************************************************************************)
EXTENDS Naturals

CONSTANTS
  CaptureLen,  \* CAPTURE_SAMPLES
  HangLen      \* HANG_SAMPLES

ASSUME GateAssumption == CaptureLen \in Nat \ {0} /\ HangLen \in Nat \ {0}

VARIABLES
  phase,   \* the STATE register
  count,   \* words of the current window handed to the RX DMA
  active   \* the ACTIVE_SAMPLES register

gateVars == <<phase, count, active>>

GateInit == phase = "IDLE" /\ count = 0 /\ active = 0

Arm ==
  /\ phase \in {"IDLE", "PENDING"}
  /\ phase' = "SCAN"
  /\ UNCHANGED <<count, active>>

Trigger ==
  /\ phase = "SCAN"
  /\ phase' = "CAPTURE"
  /\ count' = 0
  /\ active' = 0

\* The active length either keeps up with the window or has stopped for good.
Forward ==
  /\ phase = "CAPTURE"
  /\ count < CaptureLen
  /\ count' = count + 1
  /\ \/ active = count /\ active' = count + 1
     \/ active >= HangLen /\ active' = active
  /\ phase' \in {IF count' = CaptureLen THEN "PENDING" ELSE "CAPTURE", "IDLE"}

BeginReplay ==
  /\ phase = "PENDING"
  /\ phase' = "REPLAY"
  /\ UNCHANGED <<count, active>>

EndReplay ==
  /\ phase = "REPLAY"
  /\ phase' = "PENDING"
  /\ UNCHANGED <<count, active>>

Abort ==
  /\ phase' = "IDLE"
  /\ UNCHANGED <<count, active>>

PowerUp ==
  /\ phase' = "IDLE"
  /\ count' = 0
  /\ active' = 0

GateNext ==
  \/ Arm \/ Trigger \/ Forward \/ BeginReplay \/ EndReplay \/ Abort \/ PowerUp

GateSpec == GateInit /\ [][GateNext]_gateVars
=============================================================================
