------------------------- MODULE CommandPath_proofs -------------------------
(***************************************************************************)
(* When the software lets each command arrive before its next write, every *)
(* write to CMD becomes exactly one pulse, a pulse meets a threshold at    *)
(* least as recent as its command, and a pulse that nobody asked for meets *)
(* the reset threshold: for every set of commands and any number of writes *)
(* and resets.  The lemmas on the handshake are those of CdcLink_proofs.   *)
(***************************************************************************)
EXTENDS CommandPath, TLAPS

LinkP == INSTANCE CdcLink_proofs
           WITH Payload <- Snapshot,
                in <- [tgl |-> cmd_tgl, thr |-> threshold], out <- div

in == [tgl |-> cmd_tgl, thr |-> threshold]

LEMMA LinkFacts ==
  /\ LinkP!LinkAssumption
  /\ Link!LinkInv <=> LinkP!LinkInv
  /\ Link!SrcEdge <=> LinkP!SrcEdge
  /\ Link!DestEdge <=> LinkP!DestEdge
  /\ [Link!Next]_(Link!linkVars) <=> [LinkP!Next]_(LinkP!linkVars)
  /\ Link!LinkInv <=> Link!LinkTypeOK /\ Link!FourPhase
  /\ Link!Slot = LinkP!Slot
<1>1. LinkP!LinkAssumption
  BY NoneAssumption DEF LinkP!LinkAssumption
<1> QED
  BY <1>1 DEF Link!LinkInv, LinkP!LinkInv, Link!LinkTypeOK, LinkP!LinkTypeOK,
     Link!FourPhase, LinkP!FourPhase, Link!SrcEdge, LinkP!SrcEdge,
     Link!ReceiptCrosses, LinkP!ReceiptCrosses, Link!DestEdge, LinkP!DestEdge,
     Link!BeginReset, LinkP!BeginReset, Link!EndReset, LinkP!EndReset,
     Link!Write, LinkP!Write, Link!Next, LinkP!Next, Link!srcVars, LinkP!srcVars,
     Link!destVars, LinkP!destVars, Link!linkVars, LinkP!linkVars, Link!Slot, LinkP!Slot

\* The steps of the handshake preserve its invariant.
LEMMA LinkStep ==
  ASSUME Link!LinkInv, [Link!Next]_(Link!linkVars)
  PROVE  Link!LinkInv'
<1>1. LinkP!LinkInv /\ [LinkP!Next]_(LinkP!linkVars)
  BY LinkFacts
<1>2. LinkP!LinkTypeOK' /\ LinkP!FourPhase'
  BY <1>1, LinkFacts, LinkP!LinkTypeStep, LinkP!LinkPhaseStep
<1> QED
  BY <1>2 DEF Link!LinkInv, Link!LinkTypeOK, LinkP!LinkTypeOK, Link!FourPhase, LinkP!FourPhase

LEMMA SrcEdgeStep ==
  ASSUME Link!LinkInv, Link!SrcEdge
  PROVE  \/ Slot' = Slot
         \/ Slot = None /\ Slot' = in /\ ~src_rst
         \/ Slot' = None
<1>1. LinkP!LinkInv /\ LinkP!SrcEdge
  BY LinkFacts
<1> QED
  BY <1>1, LinkFacts, LinkP!SrcEdgeSlot DEF Slot, in, Link!Slot, LinkP!Slot

LEMMA DestEdgeStep ==
  ASSUME Link!LinkInv, Link!DestEdge
  PROVE  /\ dest_req => Slot # None /\ Slot = dest_data /\ div' = Slot /\ Slot' = None
         /\ ~dest_req => UNCHANGED <<Slot, div>>
<1>1. LinkP!LinkInv /\ LinkP!DestEdge
  BY LinkFacts
<1> QED
  BY <1>1, LinkFacts, LinkP!DestEdgeSlot DEF Slot, Link!Slot, LinkP!Slot

-----------------------------------------------------------------------------

FullInv == PathInv /\ SpuriousIsHarmless /\ ThresholdFirst

LEMMA InitFullInv == Init => FullInv
<1> SUFFICES ASSUME Init PROVE FullInv
  OBVIOUS
<1> USE PathAssumption, NoneAssumption DEF Init
<1>1. Slot = None
  BY DEF Slot, Link!Slot
<1>2. [tgl |-> {}, thr |-> 0] \in Snapshot
  BY DEF Snapshot
<1>3. Link!LinkTypeOK
  BY <1>2 DEF Link!LinkTypeOK
<1>4. TypeOK
  BY <1>3 DEF TypeOK
<1>5. Link!LinkInv
  BY <1>3 DEF Link!LinkInv, Link!FourPhase
<1>6. InStep
  BY DEF InStep, Xor
<1>7. SlotExplained
  BY <1>1 DEF SlotExplained
<1>8. PathInv
  BY <1>4, <1>5, <1>6, <1>7 DEF PathInv
<1> QED BY <1>8 DEF FullInv, SpuriousIsHarmless, ThresholdFirst

LEMMA TypeFacts ==
  ASSUME TypeOK
  PROVE  /\ cmd_tgl \subseteq Commands /\ threshold \in 0 .. MaxThreshold
         /\ div \in Snapshot /\ dest_data \in Snapshot /\ src_data \in Snapshot
         /\ Slot # None => Slot \in Snapshot
         /\ \A c \in Commands : owed[c] \in Nat /\ needs[c] \in Nat
  BY PathAssumption DEF TypeOK, Link!LinkTypeOK, Snapshot, Slot, Link!Slot

LEMMA XorMember ==
  ASSUME NEW s, NEW t
  PROVE  /\ \A c : c \in Xor(s, t) <=> ~(c \in s <=> c \in t)
         /\ s = t => Xor(s, t) = {}
  BY DEF Xor

\* Writes find the two sides in agreement, so nothing is owed and the snapshot on
\* its way, if any, flips nothing.
LEMMA SettledFacts ==
  ASSUME FullInv, Settled, ~src_rst
  PROVE  /\ InStep
         /\ \A c \in Commands : owed[c] = 0
         /\ Slot # None => Slot.tgl = div.tgl
<1> USE DEF FullInv, PathInv
<1>1. Xor(cmd_tgl, div.tgl) = {}
  BY XorMember DEF Settled
<1>2. \A c \in Commands : owed[c] \in Nat
  BY TypeFacts
<1>3. InStep /\ \A c \in Commands : owed[c] = 0
  BY <1>1, <1>2 DEF InStep, Boot
<1>4. Slot # None => Slot.tgl = div.tgl
  BY DEF SlotExplained, Settled, Boot
<1> QED BY <1>3, <1>4

LEMMA WriteCmdStep ==
  ASSUME Paced, FullInv, NEW bits \in SUBSET Commands, WriteCmd(bits)
  PROVE  FullInv'
<1> USE PathAssumption DEF WriteCmd, FullInv, PathInv
<1>1. Settled /\ ~src_rst
  OBVIOUS
<1>2. /\ InStep
      /\ \A c \in Commands : owed[c] = 0
      /\ Slot # None => Slot.tgl = div.tgl
  BY <1>1, SettledFacts
<1>3. UNCHANGED <<threshold, div, Slot, cmd_pulse, spurious, resets, src_rst>>
  BY DEF srcVars, destVars, Slot, Link!Slot
<1>4. cmd_tgl' \subseteq Commands
  BY TypeFacts DEF Xor
<1>5. Link!LinkInv'
  <2>1. in' \in Snapshot
    BY <1>3, <1>4, TypeFacts DEF in, Snapshot
  <2>2. [Link!Next]_(Link!linkVars)
    BY <2>1 DEF Link!Next, Link!Write, Link!linkVars, Link!srcVars, Link!destVars,
       srcVars, destVars, in
  <2> QED BY <2>2, LinkStep
<1>6. \A c \in Commands : /\ owed'[c] = IF c \in bits THEN 1 ELSE 0
                         /\ needs'[c] = IF c \in bits THEN threshold ELSE needs[c]
  BY <1>2
<1>7. TypeOK'
  <2>1. threshold \in 0 .. MaxThreshold
    BY TypeFacts
  <2>2. owed' \in [Commands -> 0 .. MaxOwed] /\ needs' \in [Commands -> 0 .. MaxThreshold]
    BY <1>2, <1>6, <2>1 DEF TypeOK
  <2> QED BY <1>3, <1>5, <2>2 DEF TypeOK, Link!LinkInv
<1>8. InStep'
  <2>1. cmd_tgl = div.tgl /\ cmd_tgl' = Xor(cmd_tgl, bits) /\ div' = div
    BY <1>1, <1>3 DEF Settled
  <2>2. Xor(cmd_tgl', div'.tgl) = bits
    BY <2>1 DEF Xor
  <2>3. {c \in Commands : owed'[c] > 0} = bits
    BY <1>6
  <2> QED BY <2>2, <2>3 DEF InStep
<1>9. SlotExplained'
  <2>1. Slot # None => Xor(Slot.tgl, div.tgl) = {}
    BY <1>2, XorMember
  <2>2. Slot # None => Slot'.tgl \in {div'.tgl, cmd_tgl'} /\ Xor(Slot'.tgl, div'.tgl) = {}
    BY <1>2, <1>3, <2>1
  <2> QED BY <1>3, <2>2 DEF SlotExplained
<1>10. \A c \in Commands : owed'[c] <= 1 /\ needs'[c] <= threshold'
  BY <1>1, <1>3, <1>6, TypeFacts
<1>11. SpuriousIsHarmless'
  BY <1>3 DEF SpuriousIsHarmless
<1>12. ThresholdFirst'
  BY <1>1, <1>3 DEF ThresholdFirst, Settled
<1> QED BY <1>1, <1>3, <1>5, <1>7, <1>8, <1>9, <1>10, <1>11, <1>12

LEMMA WriteThresholdStep ==
  ASSUME Paced, FullInv, WriteThreshold
  PROVE  FullInv'
<1> USE PathAssumption DEF WriteThreshold, FullInv, PathInv
<1>1. /\ Settled /\ ~src_rst /\ threshold' = threshold + 1
      /\ threshold \in 0 .. MaxThreshold /\ threshold < MaxThreshold
  BY TypeFacts
<1>2. /\ InStep
      /\ Slot # None => Slot.tgl = div.tgl
  BY <1>1, SettledFacts
<1>3. UNCHANGED <<cmd_tgl, div, Slot, cmd_pulse, spurious, resets, src_rst, owed, needs>>
  BY DEF srcVars, destVars, historyVars, Slot, Link!Slot
<1>4. Link!LinkInv'
  <2>1. in' \in Snapshot
    BY <1>1, <1>3, TypeFacts DEF in, Snapshot
  <2>2. [Link!Next]_(Link!linkVars)
    BY <2>1 DEF Link!Next, Link!Write, Link!linkVars, Link!srcVars, Link!destVars,
       srcVars, destVars, in
  <2> QED BY <2>2, LinkStep
<1>5. TypeOK'
  BY <1>3, <1>4 DEF TypeOK, Link!LinkInv
<1>6. InStep'
  BY <1>2, <1>3 DEF InStep
<1>7. SlotExplained'
  <2>1. Slot # None => Xor(Slot.tgl, div.tgl) = {}
    BY <1>2, XorMember
  <2> QED BY <1>2, <1>3, <2>1 DEF SlotExplained
<1>8. \A c \in Commands : owed'[c] <= 1 /\ needs'[c] <= threshold'
  BY <1>1, <1>3, TypeFacts
<1>9. SpuriousIsHarmless' /\ ThresholdFirst'
  BY <1>3 DEF SpuriousIsHarmless, ThresholdFirst
<1> QED BY <1>1, <1>3, <1>4, <1>5, <1>6, <1>7, <1>8, <1>9

LEMMA AxiEdgeStep ==
  ASSUME FullInv, AxiEdge
  PROVE  FullInv'
<1> USE PathAssumption DEF FullInv, PathInv
<1>1. /\ UNCHANGED <<cmd_tgl, threshold, div, cmd_pulse, owed, needs, spurious, resets, src_rst>>
      /\ Link!SrcEdge
  BY DEF AxiEdge, axiVars, historyVars, Link!SrcEdge, Link!destVars
<1>2. Link!LinkInv'
  BY <1>1, LinkStep DEF Link!Next
<1>3. TypeOK'
  BY <1>1, <1>2 DEF TypeOK, Link!LinkInv
<1>4. \/ Slot' = Slot
      \/ Slot = None /\ Slot' = in /\ ~src_rst
      \/ Slot' = None
  BY <1>1, SrcEdgeStep
<1>5. /\ in.tgl = cmd_tgl /\ in.thr = threshold
      /\ cmd_tgl = {} /\ threshold = 0 => in = [tgl |-> {}, thr |-> 0]
  BY DEF in
<1>6. ~src_rst' => InStep' \/ Boot'
  <2>1. InStep => InStep'
    BY <1>1 DEF InStep
  <2>2. Boot => Boot'
    BY <1>1, <1>4, <1>5 DEF Boot
  <2> QED BY <1>1, <2>1, <2>2
<1>7. SlotExplained'
  <2>1. CASE Slot' = Slot
    BY <1>1, <2>1 DEF SlotExplained
  <2>2. CASE Slot' = in /\ ~src_rst /\ InStep
    <3>1. \A c \in Xor(cmd_tgl, div.tgl) : owed[c] > 0 /\ needs[c] <= threshold
      BY <2>2, TypeFacts DEF InStep
    <3> QED BY <1>1, <1>5, <2>2, <3>1 DEF SlotExplained
  <2>3. CASE Slot' = in /\ ~src_rst /\ Boot
    <3>1. \A c \in Xor(cmd_tgl, div.tgl) : c \in Commands
      BY TypeFacts DEF Xor, Snapshot
    <3> QED BY <1>1, <1>5, <2>3, <3>1 DEF SlotExplained, Boot
  <2>4. CASE Slot' = None
    BY <2>4 DEF SlotExplained
  <2> QED BY <1>4, <2>1, <2>2, <2>3, <2>4
<1>8. SpuriousIsHarmless' /\ ThresholdFirst'
  BY <1>1 DEF SpuriousIsHarmless, ThresholdFirst
<1> QED BY <1>1, <1>2, <1>3, <1>6, <1>7, <1>8

LEMMA AxiResetBeginsStep ==
  ASSUME FullInv, AxiResetBegins
  PROVE  FullInv'
<1> USE PathAssumption DEF FullInv, PathInv
<1>1. /\ cmd_tgl' = {} /\ threshold' = 0 /\ src_rst' = TRUE /\ src_send' = FALSE
      /\ resets' = resets + 1 /\ resets \in Nat /\ resets' \in 0 .. MaxResets
      /\ UNCHANGED <<div, cmd_pulse, owed, needs, spurious>>
  BY DEF AxiResetBegins, TypeOK, historyVars, destVars
<1>2. Slot' = Slot \/ Slot' = None
  BY <1>1 DEF AxiResetBegins, destVars, Slot, Link!Slot
<1>3. Link!LinkInv'
  <2>1. in' \in Snapshot
    BY <1>1 DEF in, Snapshot
  <2>2. Link!BeginReset
    BY <2>1 DEF AxiResetBegins, Link!BeginReset, Link!destVars, destVars, in
  <2> QED BY <2>2, LinkStep DEF Link!Next
<1>4. TypeOK'
  BY <1>1, <1>3 DEF TypeOK, Link!LinkInv
<1>5. SlotExplained'
  BY <1>1, <1>2 DEF SlotExplained
<1>6. SpuriousIsHarmless' /\ ThresholdFirst'
  BY <1>1 DEF SpuriousIsHarmless, ThresholdFirst
<1> QED BY <1>1, <1>3, <1>4, <1>5, <1>6

LEMMA AxiResetEndsStep ==
  ASSUME FullInv, AxiResetEnds
  PROVE  FullInv'
<1> USE PathAssumption DEF FullInv, PathInv
<1>1. /\ src_rst /\ ~src_send /\ ~level /\ ~src_rst'
      /\ UNCHANGED <<cmd_tgl, threshold, div, cmd_pulse, spurious, resets, src_send, level,
                     dest_req, dest_data, src_data>>
      /\ owed' = [c \in Commands |-> 0] /\ needs' = [c \in Commands |-> 0]
  BY DEF AxiResetEnds, Link!EndReset, axiVars, Link!destVars
<1>2. Slot' = None
  BY <1>1 DEF Slot, Link!Slot, Link!LinkInv, Link!FourPhase
<1>3. Link!LinkInv'
  BY LinkStep DEF AxiResetEnds, Link!Next
<1>4. TypeOK'
  BY <1>1, <1>3 DEF TypeOK, Link!LinkInv
<1>5. Boot'
  BY <1>1, <1>2 DEF Boot
<1>6. SlotExplained'
  BY <1>2 DEF SlotExplained
<1>7. SpuriousIsHarmless' /\ ThresholdFirst'
  <2>1. div.thr >= 0
    BY TypeFacts DEF Snapshot
  <2>2. cmd_pulse \subseteq Commands
    BY DEF TypeOK
  <2> QED BY <1>1, <2>1, <2>2 DEF SpuriousIsHarmless, ThresholdFirst
<1> QED BY <1>1, <1>3, <1>4, <1>5, <1>6, <1>7, TypeFacts

\* What the pulses of an edge are: the bits in which the snapshot that is stored
\* differs from the one before it, all of them owed or none.
LEMMA PulseFacts ==
  ASSUME FullInv, DivEdge, dest_req
  PROVE  /\ Slot # None /\ Slot \in Snapshot /\ div' = Slot /\ Slot' = None
         /\ cmd_pulse' = Xor(Slot.tgl, div.tgl) /\ cmd_pulse' \subseteq Commands
         /\ src_rst \/ Slot.tgl \in {div.tgl, cmd_tgl}
         /\ \/ /\ Slot.thr = 0 /\ resets > 0
               /\ \A c \in cmd_pulse' : owed[c] = 0
            \/ \A c \in cmd_pulse' : owed[c] > 0 /\ needs[c] <= Slot.thr
         /\ Boot => Slot.tgl = {} /\ Slot.thr = 0
<1> USE DEF FullInv, PathInv
<1>1. /\ Slot # None /\ Slot = dest_data /\ div' = Slot /\ Slot' = None
      /\ Slot \in Snapshot /\ div \in Snapshot
  BY DestEdgeStep, TypeFacts DEF DivEdge
<1>2. cmd_pulse' = Xor(Slot.tgl, div.tgl)
  BY <1>1 DEF DivEdge, Xor
<1>3. cmd_pulse' \subseteq Commands
  BY <1>1, <1>2 DEF Xor, Snapshot
<1> QED BY <1>1, <1>2, <1>3 DEF SlotExplained, Boot

LEMMA DivEdgeStep ==
  ASSUME FullInv, DivEdge
  PROVE  FullInv'
<1> USE PathAssumption DEF FullInv, PathInv
<1>1. /\ UNCHANGED <<cmd_tgl, threshold, needs, resets, src_rst>>
      /\ Link!DestEdge
      /\ owed' = [c \in Commands |->
                    IF c \in cmd_pulse' /\ owed[c] > 0 THEN owed[c] - 1 ELSE owed[c]]
      /\ spurious' = {c \in cmd_pulse' : owed[c] = 0}
  BY DEF DivEdge, axiVars, Link!DestEdge, Link!srcVars
<1>2. Link!LinkInv'
  BY <1>1, LinkStep DEF Link!Next
<1>3. \A c \in Commands : owed[c] \in 0 .. MaxOwed /\ owed[c] <= 1
  BY DEF TypeOK
<1>4. CASE ~dest_req
  <2>1. UNCHANGED <<Slot, div>>
    BY <1>1, <1>4, DestEdgeStep
  <2>2. cmd_pulse' = {}
    BY <1>4 DEF DivEdge
  <2>3. spurious' = {} /\ \A c \in Commands : owed'[c] = owed[c]
    BY <1>1, <2>2
  <2>4. owed' \in [Commands -> 0 .. MaxOwed]
    BY <1>1, <1>3, <2>2
  <2>5. TypeOK'
    BY <1>1, <1>2, <2>2, <2>3, <2>4 DEF TypeOK, Link!LinkInv
  <2>6. InStep => InStep'
    BY <1>1, <2>1, <2>3 DEF InStep
  <2>7. Boot => Boot'
    BY <1>1, <2>1, <2>3 DEF Boot
  <2>8. SlotExplained'
    <3>1. Slot # None => \A c \in Xor(Slot.tgl, div.tgl) : c \in Commands
      BY TypeFacts DEF Xor, Snapshot
    <3> QED BY <1>1, <2>1, <2>3, <3>1 DEF SlotExplained
  <2>9. SpuriousIsHarmless' /\ ThresholdFirst'
    BY <2>2, <2>3 DEF SpuriousIsHarmless, ThresholdFirst
  <2> QED BY <1>1, <1>2, <2>3, <2>5, <2>6, <2>7, <2>8, <2>9
<1>5. CASE dest_req
  <2>1. /\ Slot # None /\ Slot \in Snapshot /\ div' = Slot /\ Slot' = None
        /\ cmd_pulse' = Xor(Slot.tgl, div.tgl) /\ cmd_pulse' \subseteq Commands
        /\ src_rst \/ Slot.tgl \in {div.tgl, cmd_tgl}
        /\ \/ /\ Slot.thr = 0 /\ resets > 0
              /\ \A c \in cmd_pulse' : owed[c] = 0
           \/ \A c \in cmd_pulse' : owed[c] > 0 /\ needs[c] <= Slot.thr
        /\ Boot => Slot.tgl = {} /\ Slot.thr = 0
    BY <1>5, PulseFacts
  <2>2. \A c \in Commands : owed'[c] = IF c \in cmd_pulse' THEN 0 ELSE owed[c]
    BY <1>1, <1>3
  <2>3. owed' \in [Commands -> 0 .. MaxOwed]
    BY <1>1, <1>3, <2>2
  <2>4. TypeOK'
    BY <1>1, <1>2, <2>1, <2>3 DEF TypeOK, Link!LinkInv
  <2>5. ~src_rst /\ InStep => InStep'
    <3> SUFFICES ASSUME ~src_rst, InStep PROVE InStep'
      OBVIOUS
    <3>1. \A c \in Commands : owed[c] > 0 <=> c \in Xor(cmd_tgl, div.tgl)
      BY DEF InStep
    <3>2. \A c \in Commands : owed'[c] > 0 <=> c \notin cmd_pulse' /\ owed[c] > 0
      BY <1>3, <2>2
    <3>3. Xor(cmd_tgl, div'.tgl) \subseteq Commands
      BY <2>1, TypeFacts DEF Xor, Snapshot
    <3>4. \A c \in Commands : owed'[c] > 0 <=> c \in Xor(cmd_tgl, div'.tgl)
      <4>1. CASE Slot.tgl = div.tgl
        BY <2>1, <3>1, <3>2, <4>1, XorMember
      <4>2. CASE Slot.tgl = cmd_tgl
        BY <2>1, <3>1, <3>2, <4>2, XorMember
      <4> QED BY <2>1, <4>1, <4>2
    <3> QED BY <1>1, <3>3, <3>4 DEF InStep
  <2>6. Boot => Boot'
    BY <1>1, <2>1, <2>2 DEF Boot
  <2>7. SlotExplained'
    BY <2>1 DEF SlotExplained
  <2>8. SpuriousIsHarmless' /\ ThresholdFirst'
    BY <1>1, <2>1 DEF SpuriousIsHarmless, ThresholdFirst
  <2>9. \A c \in Commands : owed'[c] <= 1
    BY <1>3, <2>2
  <2> QED BY <1>1, <1>2, <2>4, <2>5, <2>6, <2>7, <2>8, <2>9
<1> QED BY <1>4, <1>5

LEMMA StutterStep ==
  ASSUME FullInv, UNCHANGED vars
  PROVE  FullInv'
<1> USE DEF FullInv, PathInv
<1>1. UNCHANGED <<cmd_tgl, threshold, div, cmd_pulse, owed, needs, spurious, resets, src_rst,
                  Slot>>
  BY DEF vars, axiVars, srcVars, destVars, historyVars, Slot, Link!Slot
<1>2. Link!LinkInv'
  BY LinkStep DEF vars, axiVars, srcVars, destVars, Link!linkVars, Link!srcVars, Link!destVars
<1>3. TypeOK'
  BY <1>1, <1>2 DEF TypeOK, Link!LinkInv
<1>4. SlotExplained' /\ (InStep => InStep') /\ (Boot => Boot')
  BY <1>1 DEF SlotExplained, InStep, Boot
<1> QED BY <1>1, <1>2, <1>3, <1>4 DEF SpuriousIsHarmless, ThresholdFirst

LEMMA FullInvHolds == ASSUME Paced PROVE Spec => []FullInv
<1>1. FullInv /\ [Next]_vars => FullInv'
  <2> SUFFICES ASSUME FullInv, [Next]_vars PROVE FullInv'
    OBVIOUS
  <2>1. ASSUME NEW bits \in SUBSET Commands, WriteCmd(bits) PROVE FullInv'
    BY <2>1, WriteCmdStep
  <2> QED BY <2>1, WriteThresholdStep, AxiEdgeStep, AxiResetBeginsStep, AxiResetEndsStep,
             DivEdgeStep, StutterStep DEF Next
<1> QED BY <1>1, InitFullInv, PTL DEF Spec

\* Every write to CMD is followed by its pulse: when nothing is on its way any
\* more, no write is owed one (the toggle register of axi_lite_cfg, gate_cdc).
THEOREM EveryWritePulsesHolds == ASSUME Paced PROVE Spec => []EveryWritePulses
<1>1. FullInv => EveryWritePulses
  <2> SUFFICES ASSUME FullInv, Settled, ~src_rst PROVE \A c \in Commands : owed[c] = 0
    BY DEF EveryWritePulses
  <2> QED BY SettledFacts
<1> QED BY <1>1, FullInvHolds, PTL

\* A pulse that no write asked for comes with the reset threshold, after an AXI
\* reset only (axi_lite_cfg clears cmd_tgl, gate_cdc keeps cmd_tgl_div).
THEOREM SpuriousIsHarmlessHolds == ASSUME Paced PROVE Spec => []SpuriousIsHarmless
<1>1. FullInv => SpuriousIsHarmless
  BY DEF FullInv
<1> QED BY <1>1, FullInvHolds, PTL

\* A command's pulse meets a threshold at least as recent as the one in force when
\* the command was written (gate_cdc carries both in one snapshot).
THEOREM ThresholdFirstHolds == ASSUME Paced PROVE Spec => []ThresholdFirst
<1>1. FullInv => ThresholdFirst
  BY DEF FullInv
<1> QED BY <1>1, FullInvHolds, PTL

\* The two registers never disagree on a bit whose write is not owed a pulse.
THEOREM PathInvHolds == ASSUME Paced PROVE Spec => []PathInv
<1>1. FullInv => PathInv
  BY DEF FullInv
<1> QED BY <1>1, FullInvHolds, PTL
=============================================================================
