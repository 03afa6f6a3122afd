---------------------------- MODULE CommandPath ----------------------------
(***************************************************************************)
(* How a write to the CMD register becomes a pulse in the data domain:     *)
(* axi_lite_cfg flips the written bits of cmd_tgl, gate_cdc carries        *)
(* {cmd_tgl, threshold} across as one snapshot (module CdcLink) and        *)
(* pulses the bits that differ from the previous snapshot.  Only the AXI   *)
(* side is reset; the div side keeps its last snapshot.                    *)
(***************************************************************************)
EXTENDS Naturals

CONSTANTS
  Commands,       \* bits of the CMD register
  None,
  MaxThreshold,   \* the threshold register is written at most this often
  MaxOwed,        \* a command is written at most this often ahead of its pulses
  MaxResets,      \* resets of the AXI domain
  Paced           \* TRUE: the software lets a command arrive before it goes on

ASSUME PathAssumption ==
  /\ MaxThreshold \in Nat /\ MaxOwed \in Nat \ {0} /\ MaxResets \in Nat
  /\ Paced \in BOOLEAN

VARIABLES
  cmd_tgl,      \* axi_lite_cfg.cmd_tgl: the bits that are 1
  threshold,    \* axi_lite_cfg.threshold_reg: which of the written values it
                \* holds, in the order of writing; 0 is the reset value
  src_rst, src_send, src_data, src_rcv,
  level, dest_req, dest_data,
  div,          \* gate_cdc.cmd_tgl_div and threshold_div
  cmd_pulse,    \* gate_cdc.cmd_pulse_div
  owed,         \* history: writes of each bit not yet followed by a pulse
  needs,        \* history: the threshold in force when the bit was last written
  spurious,     \* history: pulses of this cycle that no write asked for
  resets        \* history: AXI resets so far

axiVars == <<cmd_tgl, threshold>>
srcVars == <<src_rst, src_send, src_data, src_rcv>>
destVars == <<level, dest_req, dest_data, div>>
historyVars == <<owed, needs>>
vars == <<axiVars, srcVars, destVars, cmd_pulse, historyVars, spurious, resets>>

Snapshot == [tgl : SUBSET Commands, thr : 0 .. MaxThreshold]

ASSUME NoneAssumption == None \notin Snapshot

Link == INSTANCE CdcLink
          WITH Payload <- Snapshot,
               in <- [tgl |-> cmd_tgl, thr |-> threshold], out <- div

Xor(s, t) == (s \ t) \cup (t \ s)

-----------------------------------------------------------------------------
(* Writes of the software, after rfc_cmd and rfc_write *)

\* Every rfc_cmd and every change of the threshold is followed by UART output that
\* takes milliseconds, thousands of times what a snapshot needs.
Settled == div.tgl = cmd_tgl /\ cmd_pulse = {}

\* Mutant: the written bits are set instead of flipped.
WriteCmdSets(bits) ==
  /\ ~src_rst
  /\ Paced => Settled
  /\ \A c \in bits : owed[c] < MaxOwed
  /\ cmd_tgl' = cmd_tgl \cup bits
  /\ owed' = [c \in Commands |-> IF c \in bits THEN owed[c] + 1 ELSE owed[c]]
  /\ needs' = [c \in Commands |-> IF c \in bits THEN threshold ELSE needs[c]]
  /\ UNCHANGED <<threshold, srcVars, destVars, cmd_pulse, spurious, resets>>

WriteCmd(bits) ==
  /\ ~src_rst
  /\ Paced => Settled
  /\ \A c \in bits : owed[c] < MaxOwed
  /\ cmd_tgl' = Xor(cmd_tgl, bits)
  /\ owed' = [c \in Commands |-> IF c \in bits THEN owed[c] + 1 ELSE owed[c]]
  /\ needs' = [c \in Commands |-> IF c \in bits THEN threshold ELSE needs[c]]
  /\ UNCHANGED <<threshold, srcVars, destVars, cmd_pulse, spurious, resets>>

WriteThreshold ==
  /\ ~src_rst
  /\ Paced => Settled
  /\ threshold < MaxThreshold
  /\ threshold' = threshold + 1
  /\ UNCHANGED <<cmd_tgl, srcVars, destVars, cmd_pulse, historyVars, spurious, resets>>

-----------------------------------------------------------------------------
(* Clock edges *)

AxiEdge ==
  /\ UNCHANGED <<axiVars, cmd_pulse, historyVars, spurious, resets>>
  /\ Link!SrcEdge

\* Mutant: the threshold survives the reset of its domain.
AxiResetKeepsThreshold ==
  /\ resets < MaxResets
  /\ ~src_rst
  /\ cmd_tgl' = {}
  /\ src_rst' = TRUE
  /\ src_send' = FALSE
  /\ resets' = resets + 1
  /\ UNCHANGED <<threshold, src_data, src_rcv, destVars, cmd_pulse, historyVars, spurious>>

\* The registers of axi_lite_cfg and the sending side of gate_cdc are cleared.
AxiResetBegins ==
  /\ resets < MaxResets
  /\ ~src_rst
  /\ cmd_tgl' = {}
  /\ threshold' = 0
  /\ src_rst' = TRUE
  /\ src_send' = FALSE
  /\ resets' = resets + 1
  /\ UNCHANGED <<src_data, src_rcv, destVars, cmd_pulse, historyVars, spurious>>

\* What was written before the reset has arrived by now or never will.
AxiResetEnds ==
  /\ UNCHANGED <<axiVars, cmd_pulse, spurious, resets>>
  /\ Link!EndReset
  /\ owed' = [c \in Commands |-> 0]
  /\ needs' = [c \in Commands |-> 0]

\* Mutants: the pulse is the new level, and the threshold is stored one snapshot late.
DivEdgeLevel ==
  /\ UNCHANGED <<axiVars, needs, resets>>
  /\ Link!DestEdge
  /\ cmd_pulse' = IF dest_req THEN dest_data.tgl ELSE {}
  /\ owed' = [c \in Commands |->
                IF c \in cmd_pulse' /\ owed[c] > 0 THEN owed[c] - 1 ELSE owed[c]]
  /\ spurious' = {c \in cmd_pulse' : owed[c] = 0}

DivEdgeOldThreshold ==
  /\ UNCHANGED <<axiVars, srcVars, needs, resets>>
  /\ level' \in {level, src_send}
  /\ dest_req' = (~level /\ level')
  /\ dest_data' = IF dest_req' THEN src_data ELSE dest_data
  /\ div' = IF dest_req THEN [dest_data EXCEPT !.thr = div.thr] ELSE div
  /\ cmd_pulse' = IF dest_req THEN Xor(div.tgl, dest_data.tgl) ELSE {}
  /\ owed' = [c \in Commands |->
                IF c \in cmd_pulse' /\ owed[c] > 0 THEN owed[c] - 1 ELSE owed[c]]
  /\ spurious' = {c \in cmd_pulse' : owed[c] = 0}

DivEdge ==
  /\ UNCHANGED <<axiVars, needs, resets>>
  /\ Link!DestEdge
  /\ cmd_pulse' = IF dest_req THEN Xor(div.tgl, dest_data.tgl) ELSE {}
  /\ owed' = [c \in Commands |->
                IF c \in cmd_pulse' /\ owed[c] > 0 THEN owed[c] - 1 ELSE owed[c]]
  /\ spurious' = {c \in cmd_pulse' : owed[c] = 0}

Init ==
  /\ cmd_tgl = {} /\ threshold = 0
  /\ src_rst = FALSE /\ src_send = FALSE /\ src_rcv = FALSE
  /\ level = FALSE /\ dest_req = FALSE
  /\ src_data = [tgl |-> {}, thr |-> 0]
  /\ dest_data = [tgl |-> {}, thr |-> 0]
  /\ div = [tgl |-> {}, thr |-> 0]
  /\ cmd_pulse = {} /\ spurious = {} /\ resets = 0
  /\ owed = [c \in Commands |-> 0]
  /\ needs = [c \in Commands |-> 0]

Next ==
  \/ \E bits \in SUBSET Commands \ {{}} : WriteCmd(bits)
  \/ WriteThreshold
  \/ AxiEdge
  \/ DivEdge
  \/ AxiResetBegins
  \/ AxiResetEnds

Spec == Init /\ [][Next]_vars

\* Both clocks run, and a level that stays is seen in the end.
Fairness ==
  /\ WF_vars(AxiEdge /\ src_rcv' = level)
  /\ WF_vars(DivEdge /\ level' = src_send)
  /\ WF_vars(AxiResetEnds)

FairSpec == Spec /\ Fairness

-----------------------------------------------------------------------------
(* Properties *)

TypeOK ==
  /\ Link!LinkTypeOK
  /\ cmd_pulse \subseteq Commands /\ spurious \subseteq cmd_pulse
  /\ owed \in [Commands -> 0 .. MaxOwed]
  /\ needs \in [Commands -> 0 .. MaxThreshold]
  /\ resets \in 0 .. MaxResets

Slot == Link!Slot

\* The bits that differ between the two sides are those of the writes that are owed
\* a pulse, or (Boot) the AXI side has come out of a reset and not been written.
InStep ==
  {c \in Commands : owed[c] > 0} = Xor(cmd_tgl, div.tgl)

Boot ==
  /\ resets > 0 /\ cmd_tgl = {} /\ threshold = 0
  /\ \A c \in Commands : owed[c] = 0
  /\ Slot = None \/ Slot = [tgl |-> {}, thr |-> 0]

\* A snapshot on its way flips only bits whose write it reports, together with a
\* threshold that is no older; or it reports the reset.
SlotExplained ==
  Slot # None =>
    /\ src_rst \/ Slot.tgl \in {div.tgl, cmd_tgl}
    /\ \/ /\ Slot.tgl = {} /\ Slot.thr = 0 /\ resets > 0
          /\ \A c \in Xor(Slot.tgl, div.tgl) : owed[c] = 0
       \/ \A c \in Xor(Slot.tgl, div.tgl) : owed[c] > 0 /\ needs[c] <= Slot.thr

PathInv ==
  /\ TypeOK
  /\ Link!LinkInv
  /\ \A c \in Commands : owed[c] <= 1
  /\ ~src_rst => InStep \/ Boot
  /\ src_rst => cmd_tgl = {} /\ threshold = 0 /\ resets > 0
  /\ ~src_rst => \A c \in Commands : needs[c] <= threshold
  /\ SlotExplained

\* final_project/README.md:55: a written 1 flips its bit, and in the data domain
\* this becomes one pulse.  Once nothing is on its way, no write is owed a pulse.
EveryWritePulses == Settled /\ ~src_rst => \A c \in Commands : owed[c] = 0

\* A pulse that no write asked for comes only from the toggles that an AXI reset
\* cleared on one side, and then with the threshold's reset value, the one at
\* which nothing can trigger.
SpuriousIsHarmless ==
  spurious # {} => resets > 0 /\ div.thr = 0

\* A command never overtakes the threshold written before it: its pulse meets a
\* threshold at least as recent as the one in force when the command was written.
ThresholdFirst ==
  \A c \in cmd_pulse \ spurious : div.thr >= needs[c]

\* A command that was written arrives.
CommandArrives ==
  \A c \in Commands : owed[c] > 0 ~> owed[c] = 0
=============================================================================
