-------------------------- MODULE RecordAndReplay --------------------------
(***************************************************************************)
(* What the machine of capture_loop promises to whoever listens to it: it  *)
(* listens only while it is silent, records at most one take each time,    *)
(* and what it puts on the air then is the take it has just recorded, from *)
(* its first word on, unchanged until it falls silent.  No take is ever on *)
(* the air twice, and none that was given up.                              *)
(***************************************************************************)
EXTENDS Naturals

CONSTANTS
  CaptureLen,   \* words of a take
  NumCaptures   \* takes at most

VARIABLES
  stage,  \* "rest", "listening", "recording", "playing"
  take,   \* takes so far
  air     \* what is played, over and over: words by their places

machineVars == <<stage, take, air>>

Silence == [i \in 1 .. 0 |-> 0]

\* The first n words of a take, scaled.
Part(k, n) == [i \in 1 .. n |-> [win |-> k, idx |-> i, scaled |-> TRUE]]

Init == stage = "rest" /\ take = 0 /\ air = Silence

Listen ==
  /\ stage = "rest"
  /\ stage' = "listening"
  /\ UNCHANGED <<take, air>>

Record ==
  /\ stage = "listening" /\ take < NumCaptures
  /\ stage' = "recording"
  /\ take' = take + 1
  /\ UNCHANGED air

Replay ==
  /\ stage = "recording"
  /\ stage' = "playing"
  /\ \E n \in 1 .. CaptureLen : air' = Part(take, n)
  /\ UNCHANGED take

\* At the end of a replay, or having given up on the way to it.
Rest ==
  /\ stage' = "rest"
  /\ air' = Silence
  /\ UNCHANGED take

Next == Listen \/ Record \/ Replay \/ Rest

MachineSpec == Init /\ [][Next]_machineVars
=============================================================================
