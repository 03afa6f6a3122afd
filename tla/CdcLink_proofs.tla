--------------------------- MODULE CdcLink_proofs ---------------------------
(***************************************************************************)
(* For any set of payloads, a link of gate_cdc is a mailbox: it copies     *)
(* whole snapshots of its register, one at a time and in order, whatever   *)
(* the two clocks, the crossing delays and the resets do.                  *)
(***************************************************************************)
EXTENDS CdcLink, TLAPS

LEMMA LinkInitInv == Init => LinkInv
  BY DEF Init, LinkInv, LinkTypeOK, FourPhase

LEMMA LinkTypeStep == LinkInv /\ [Next]_linkVars => LinkTypeOK'
<1> SUFFICES ASSUME LinkInv, [Next]_linkVars PROVE LinkTypeOK'
  OBVIOUS
<1> USE DEF LinkInv, LinkTypeOK
<1>1. CASE SrcEdge
  BY <1>1 DEF SrcEdge, ReceiptCrosses, destVars
<1>2. CASE DestEdge
  <2>1. level' \in BOOLEAN /\ dest_req' \in BOOLEAN
    BY <1>2 DEF DestEdge
  <2>2. dest_data' \in Payload /\ out' \in Payload
    BY <1>2 DEF DestEdge
  <2> QED BY <1>2, <2>1, <2>2 DEF DestEdge, srcVars
<1>3. CASE BeginReset
  BY <1>3 DEF BeginReset, destVars
<1>4. CASE EndReset
  BY <1>4 DEF EndReset, destVars
<1>5. CASE Write
  BY <1>5 DEF Write, srcVars, destVars
<1>6. CASE UNCHANGED linkVars
  BY <1>6 DEF linkVars, srcVars, destVars
<1> QED BY <1>1, <1>2, <1>3, <1>4, <1>5, <1>6 DEF Next

LEMMA LinkPhaseStep == LinkInv /\ [Next]_linkVars => FourPhase'
<1> SUFFICES ASSUME LinkInv, [Next]_linkVars PROVE FourPhase'
  OBVIOUS
<1> USE DEF LinkInv, LinkTypeOK, FourPhase
<1>1. CASE SrcEdge
  <2>1. UNCHANGED <<src_rst, level, dest_req>>
    BY <1>1 DEF SrcEdge, destVars
  <2>2. (src_rcv' <=> src_rcv) \/ (src_rcv' <=> level)
    BY <1>1 DEF SrcEdge, ReceiptCrosses
  <2>3. CASE src_send' = FALSE
    <3>1. ~src_rst /\ level => src_rcv
      BY <1>1, <2>3 DEF SrcEdge
    <3> QED BY <2>1, <2>2, <2>3, <3>1
  <2>4. CASE src_send' = TRUE
    <3>1. ~src_rcv
      BY <1>1, <2>4 DEF SrcEdge
    <3> QED BY <2>1, <2>2, <2>4, <3>1
  <2> QED BY <1>1, <2>3, <2>4 DEF SrcEdge
<1>2. CASE DestEdge
  <2>1. UNCHANGED <<src_rst, src_send, src_rcv>>
    BY <1>2 DEF DestEdge, srcVars
  <2>2. (level' <=> level) \/ (level' <=> src_send)
    BY <1>2 DEF DestEdge
  <2>3. dest_req' => level'
    BY <1>2 DEF DestEdge
  <2> QED BY <2>1, <2>2, <2>3
<1>3. CASE BeginReset
  BY <1>3 DEF BeginReset, destVars
<1>4. CASE EndReset
  BY <1>4 DEF EndReset, destVars
<1>5. CASE Write
  BY <1>5 DEF Write, srcVars, destVars
<1>6. CASE UNCHANGED linkVars
  BY <1>6 DEF linkVars, srcVars, destVars
<1> QED BY <1>1, <1>2, <1>3, <1>4, <1>5, <1>6 DEF Next

\* The handshake keeps its registers in range and its four phases in turn, through
\* resets too.
THEOREM LinkInvHolds == LinkSpec => []LinkInv
<1>1. LinkInv /\ [Next]_linkVars => LinkInv'
  BY LinkTypeStep, LinkPhaseStep DEF LinkInv
<1> QED BY LinkInitInv, <1>1, PTL DEF LinkSpec

\* An edge of the source leaves the snapshot on its way, takes a new one when there
\* is none, or (in reset) loses it.
LEMMA SrcEdgeSlot ==
  ASSUME LinkInv, SrcEdge
  PROVE  /\ UNCHANGED <<in, out>>
         /\ \/ Slot' = Slot
            \/ Slot = None /\ Slot' = in /\ ~src_rst
            \/ Slot' = None
<1> USE LinkAssumption DEF LinkInv, LinkTypeOK, FourPhase, Slot
<1>1. UNCHANGED <<in, level, dest_req, dest_data, out>>
  BY DEF SrcEdge, destVars
<1>2. CASE ~src_rst /\ ~src_rcv /\ ~src_send /\ src_send' = TRUE /\ src_data' = in
  <2>1. ~level /\ ~dest_req
    BY <1>2
  <2> QED BY <1>1, <1>2, <2>1
<1>3. CASE UNCHANGED <<src_send, src_data>>
  BY <1>1, <1>3
<1>4. CASE src_send' = FALSE /\ UNCHANGED src_data
  BY <1>1, <1>4
<1> QED BY <1>2, <1>3, <1>4 DEF SrcEdge

\* An edge of the destination stores the snapshot that was announced, or leaves it.
LEMMA DestEdgeSlot ==
  ASSUME LinkInv, DestEdge
  PROVE  /\ UNCHANGED in
         /\ dest_req => Slot # None /\ Slot = dest_data /\ out' = Slot /\ Slot' = None
         /\ ~dest_req => UNCHANGED <<Slot, out>>
<1> USE LinkAssumption DEF LinkInv, LinkTypeOK, FourPhase, Slot
<1>1. /\ UNCHANGED <<in, src_send, src_data>>
      /\ level' \in {level, src_send}
      /\ dest_req' = (~level /\ level')
      /\ dest_data' = IF dest_req' THEN src_data ELSE dest_data
      /\ out' = IF dest_req THEN dest_data ELSE out
  BY DEF DestEdge, srcVars
<1>2. CASE dest_req
  <2>1. level /\ ~dest_req' /\ out' = dest_data
    BY <1>1, <1>2, Zenon
  <2>2. Slot # None /\ Slot = dest_data
    BY <1>2, <2>1
  <2>3. Slot' = None
    BY <1>1, <2>1, Zenon
  <2> QED BY <1>1, <1>2, <2>1, <2>2, <2>3
<1>3. CASE ~dest_req
  <2>1. out' = out
    BY <1>1, <1>3
  <2>2. CASE dest_req'
    <3>1. ~level /\ src_send /\ dest_data' = src_data
      BY <1>1, <2>2, Zenon
    <3> QED BY <1>1, <1>3, <2>1, <2>2, <3>1
  <2>3. CASE ~dest_req'
    <3>1. (src_send /\ ~level') <=> (src_send /\ ~level)
      BY <1>1, <2>3, Zenon
    <3> QED BY <1>1, <1>3, <2>1, <2>3, <3>1
  <2> QED BY <2>2, <2>3
<1> QED BY <1>2, <1>3

\* Entering reset leaves an announced snapshot and loses any other.
LEMMA BeginResetSlot ==
  ASSUME LinkInv, UNCHANGED <<level, dest_req, dest_data>>, src_send' = FALSE
  PROVE  Slot' \in {Slot, None}
  BY DEF LinkInv, FourPhase, Slot

\* Every step of the handshake takes, delivers, loses or leaves a snapshot.
LEMMA LinkStepIsMail ==
  ASSUME LinkInv, [Next]_linkVars
  PROVE  Mail!Next \/ UNCHANGED <<in, Slot, out>>
<1>1. CASE SrcEdge
  BY <1>1, SrcEdgeSlot DEF LinkInv, LinkTypeOK, Mail!Next, Mail!Take, Mail!Lose
<1>2. CASE DestEdge
  BY <1>2, DestEdgeSlot DEF Mail!Next, Mail!Deliver
<1>3. CASE BeginReset
  <2>1. /\ in' \in Payload /\ src_send' = FALSE
        /\ UNCHANGED <<out, dest_req, dest_data, level>>
    BY <1>3 DEF BeginReset, destVars
  <2>2. Slot' \in {Slot, None}
    BY <2>1, BeginResetSlot
  <2> QED BY <2>1, <2>2 DEF Mail!Next, Mail!Lose, Mail!Set
<1>4. CASE EndReset
  BY <1>4 DEF EndReset, destVars, Slot
<1>5. CASE Write
  <2>1. in' \in Payload /\ UNCHANGED <<Slot, out>>
    BY <1>5 DEF Write, srcVars, destVars, Slot
  <2> QED BY <2>1 DEF Mail!Next, Mail!Set
<1>6. CASE UNCHANGED linkVars
  BY <1>6 DEF linkVars, srcVars, destVars, Slot
<1> QED BY <1>1, <1>2, <1>3, <1>4, <1>5, <1>6 DEF Next

\* A link of gate_cdc implements the mailbox.
THEOREM ImplementsMailboxHolds == LinkSpec => ImplementsMailbox
<1>1. Init => Mail!Init
  BY DEF Init, Slot, Mail!Init
<1>2. LinkInv /\ [Next]_linkVars => LinkInv'
  BY LinkTypeStep, LinkPhaseStep DEF LinkInv
<1>3. LinkInv /\ [Next]_linkVars => [Mail!Next]_(Mail!mailVars)
  BY LinkStepIsMail DEF Mail!mailVars
<1> QED BY LinkInitInv, <1>1, <1>2, <1>3, PTL DEF LinkSpec, ImplementsMailbox, Mail!MailSpec
=============================================================================
