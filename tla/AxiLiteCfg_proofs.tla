-------------------------- MODULE AxiLiteCfg_proofs --------------------------
(***************************************************************************)
(* For every set of addresses and data and every master that obeys AXI:    *)
(* one answer per request, and every legal write takes effect once.        *)
(***************************************************************************)
EXTENDS AxiLiteCfg, TLAPS

LEMMA ClearedInv ==
  /\ Init => AxiInv
  /\ Reset => AxiInv'
<1>1. Init => TypeOK /\ ReadyIsAsked
  <2> SUFFICES ASSUME Init PROVE TypeOK /\ ReadyIsAsked
    OBVIOUS
  <2>1. bready \in BOOLEAN /\ rready \in BOOLEAN /\ wr_ready \in BOOLEAN /\ ar_ready \in BOOLEAN
    BY Zenon DEF Init
  <2> QED BY <2>1 DEF Init, TypeOK, ReadyIsAsked
<1>2. Init => OneAnswerEach /\ WritesCountOnce
  BY DEF Init, OneAnswerEach, WritesCountOnce
<1>3. Reset => TypeOK' /\ ReadyIsAsked'
  <2> SUFFICES ASSUME Reset PROVE TypeOK' /\ ReadyIsAsked'
    OBVIOUS
  <2>1. /\ bready' \in BOOLEAN /\ rready' \in BOOLEAN
        /\ wr_ready' \in BOOLEAN /\ ar_ready' \in BOOLEAN
    BY Zenon DEF Reset
  <2> QED BY <2>1 DEF Reset, TypeOK, ReadyIsAsked
<1>4. Reset => OneAnswerEach' /\ WritesCountOnce'
  BY DEF Reset, OneAnswerEach, WritesCountOnce
<1> QED BY <1>1, <1>2, <1>3, <1>4 DEF AxiInv

\* A channel that meets no ready keeps its payload; a new one is a legal payload.
LEMMA MasterHolds ==
  ASSUME AxiInv, Master
  PROVE  /\ aw' \in Addresses \cup {None} /\ w' \in Writes \cup {None}
         /\ ar' \in Addresses \cup {None}
         /\ bready' \in BOOLEAN /\ rready' \in BOOLEAN
         /\ aw # None /\ ~wr_ready => aw' = aw
         /\ w # None /\ ~wr_ready => w' = w
         /\ ar # None /\ ~ar_ready => ar' = ar
  BY DEF AxiInv, TypeOK, Master, Hold

\* The write channels, at an edge that accepts a write and at one that does not.
LEMMA WriteStep ==
  ASSUME AxiInv, Edge
  PROVE  /\ wr_ready' \in BOOLEAN /\ b' \in {"OK", "DECERR", None}
         /\ wr_ready' => aw' # None /\ w' # None /\ b' = None
         /\ unanswered' = IF b' = None THEN 0 ELSE 1
         /\ cmd_tgl' = toggled' /\ threshold_reg' = last'
         /\ threshold_reg' \in Data \cup {MAX_THRESHOLD}
<1> USE DEF AxiInv, TypeOK, ReadyIsAsked, OneAnswerEach, WritesCountOnce
<1>1. WriteReady /\ WriteRegisters /\ Account /\ Master
  BY DEF Edge
<1>2. CASE wr_ready
  <2>1. aw # None /\ w # None /\ b = None /\ unanswered = 0 /\ ~wr_ready'
    BY <1>1, <1>2 DEF WriteReady
  <2>2. b' \in {"OK", "DECERR"} /\ b' # None
    BY <1>1, <1>2, DataAssumption DEF WriteRegisters
  <2>3. unanswered' = 1
    BY <1>1, <1>2, <2>1 DEF Account
  <2>4. cmd_tgl' = toggled' /\ threshold_reg' = last'
    BY <1>1, <1>2, <2>1 DEF WriteRegisters, Writable, Account
  <2>5. threshold_reg' \in Data \cup {MAX_THRESHOLD}
    BY <1>1, <1>2, <2>1 DEF WriteRegisters, Writable, Writes
  <2> QED BY <1>1, <2>1, <2>2, <2>3, <2>4, <2>5 DEF WriteReady
<1>3. CASE ~wr_ready
  <2>1. /\ b' = IF bready THEN None ELSE b
        /\ cmd_tgl' = cmd_tgl /\ threshold_reg' = threshold_reg
        /\ toggled' = toggled /\ last' = last
    BY <1>1, <1>3 DEF WriteRegisters, Account
  <2>2. unanswered' = IF b' = None THEN 0 ELSE 1
    BY <1>1, <1>3, <2>1 DEF Account
  <2>3. wr_ready' => aw # None /\ w # None /\ b = None
    BY <1>1 DEF WriteReady
  <2>4. wr_ready' => aw' # None /\ w' # None /\ b' = None
    BY <1>1, <1>3, <2>1, <2>3, MasterHolds
  <2>5. wr_ready' \in BOOLEAN
    BY <1>1 DEF WriteReady
  <2> QED BY <2>1, <2>2, <2>4, <2>5
<1> QED BY <1>2, <1>3

LEMMA ReadStep ==
  ASSUME AxiInv, Edge
  PROVE  /\ ar_ready' \in BOOLEAN
         /\ ar_ready' => ar' # None /\ r' = None
         /\ unread' = IF r' = None THEN 0 ELSE 1
<1> USE DEF AxiInv, TypeOK, ReadyIsAsked, OneAnswerEach
<1>1. ReadReady /\ Account /\ Master /\ \E status \in Status : ReadResponse(status)
  BY DEF Edge
<1>2. PICK status \in Status : ReadResponse(status)
  BY <1>1
<1>3. CASE ar_ready
  <2>1. ar # None /\ r = None /\ unread = 0 /\ ~ar_ready'
    BY <1>1, <1>3 DEF ReadReady
  <2>2. r' # None
    <3>1. ReadData(status) \in [data : Data \cup Status \cup {MAX_THRESHOLD},
                                resp : {"OK", "DECERR"}]
      BY DataAssumption DEF ReadData
    <3>2. r' = ReadData(status)
      BY <1>2, <1>3, <2>1 DEF ReadResponse
    <3> QED BY <3>1, <3>2, DataAssumption
  <2>3. unread' = 1
    BY <1>1, <1>3, <2>1 DEF Account
  <2> QED BY <1>1, <2>1, <2>2, <2>3 DEF ReadReady
<1>4. CASE ~ar_ready
  <2>1. r' = IF rready THEN None ELSE r
    BY <1>2, <1>4 DEF ReadResponse
  <2>2. unread' = IF r' = None THEN 0 ELSE 1
    BY <1>1, <1>4, <2>1 DEF Account
  <2>3. ar_ready' => ar # None /\ r = None
    BY <1>1 DEF ReadReady
  <2>4. ar_ready' => ar' # None /\ r' = None
    BY <1>1, <1>4, <2>1, <2>3, MasterHolds
  <2>5. ar_ready' \in BOOLEAN
    BY <1>1 DEF ReadReady
  <2> QED BY <2>2, <2>4, <2>5
<1> QED BY <1>3, <1>4

LEMMA StepInv == AxiInv /\ [Next]_vars => AxiInv'
<1> SUFFICES ASSUME AxiInv, [Next]_vars PROVE AxiInv'
  OBVIOUS
<1>1. CASE Edge
  <2>1. Master
    BY <1>1 DEF Edge
  <2>2. unanswered' \in Nat /\ unread' \in Nat
    BY <1>1, WriteStep, ReadStep
  <2> QED BY <1>1, <2>1, <2>2, MasterHolds, WriteStep, ReadStep
          DEF AxiInv, TypeOK, ReadyIsAsked, OneAnswerEach, WritesCountOnce
<1>2. CASE Reset
  BY <1>2, ClearedInv
<1>3. CASE UNCHANGED vars
  BY <1>3 DEF vars, masterVars, writeVars, readVars, historyVars,
     AxiInv, TypeOK, ReadyIsAsked, OneAnswerEach, WritesCountOnce
<1> QED BY <1>1, <1>2, <1>3 DEF Next

\* The invariant of the slave port holds in every state.
THEOREM AxiInvHolds == Spec => []AxiInv
<1> QED BY ClearedInv, StepInv, PTL DEF Spec

\* No request is left without an answer, and none gets two (the bvalid and rvalid
\* conditions of the ready registers in axi_lite_cfg).
THEOREM OneAnswerEachHolds == Spec => []OneAnswerEach
<1>1. AxiInv => OneAnswerEach
  BY DEF AxiInv
<1> QED BY <1>1, AxiInvHolds, PTL

\* Every legal write takes effect exactly once, and no other one does.
THEOREM WritesCountOnceHolds == Spec => []WritesCountOnce
<1>1. AxiInv => WritesCountOnce
  BY DEF AxiInv
<1> QED BY <1>1, AxiInvHolds, PTL

\* An answer stays as it is until the master has taken it.
THEOREM AnswersHoldHolds == Spec => AnswersHold
<1>1. AxiInv /\ [Next]_vars =>
        [/\ b # None /\ ~bready => b' = b \/ Reset
         /\ r # None /\ ~rready => r' = r \/ Reset]_vars
  BY DEF Next, Edge, AxiInv, TypeOK, ReadyIsAsked, WriteRegisters, ReadResponse
<1> QED BY <1>1, AxiInvHolds, PTL DEF Spec, AnswersHold
=============================================================================
