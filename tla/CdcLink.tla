------------------------------ MODULE CdcLink ------------------------------
(***************************************************************************)
(* One of the two handshakes of gate_cdc.  The source side samples its     *)
(* register into src_data, raises src_send and holds both until the        *)
(* xpm_cdc_handshake reports the receipt (src_rcv); the destination side   *)
(* gets the data with a dest_req that is one cycle long (DEST_EXT_HSK = 0) *)
(* and registers it.  The source starts over as soon as src_rcv is low, so *)
(* the link keeps copying its register for ever.                           *)
(*                                                                         *)
(* The two sides have unrelated clocks: an edge of one is a step of its    *)
(* own.  A level that crosses (src_send to the destination, the receipt    *)
(* back) may take any number of edges to be seen.                          *)
(***************************************************************************)
CONSTANTS
  Payload,  \* values of the source register
  None

ASSUME LinkAssumption == None \notin Payload

VARIABLES
  in,         \* the register to be copied, on the source clock
  src_rst,    \* the source side is held in reset
  src_send,
  src_data,
  src_rcv,
  level,      \* src_send as the destination sees it
  dest_req,
  dest_data,
  out         \* the copy, on the destination clock

srcVars == <<src_rst, src_send, src_data, src_rcv>>
destVars == <<level, dest_req, dest_data, out>>
linkVars == <<in, srcVars, destVars>>

\* The receipt has, or has not, crossed back by this edge.
ReceiptCrosses == src_rcv' \in {src_rcv, level}

\* Mutants: src_send is one cycle long, follows its register while it is high, or
\* is not lowered on the receipt.
SrcEdgePulse ==
  /\ ReceiptCrosses
  /\ src_send' = (~src_rst /\ ~src_send)
  /\ src_data' = IF src_send' THEN in ELSE src_data
  /\ UNCHANGED <<in, src_rst, destVars>>

SrcEdgeFollows ==
  /\ ReceiptCrosses
  /\ src_send' = (~src_rst /\ ~src_rcv)
  /\ src_data' = IF src_send' THEN in ELSE src_data
  /\ UNCHANGED <<in, src_rst, destVars>>

SrcEdgeOnce ==
  /\ ReceiptCrosses
  /\ src_send' = ~src_rst
  /\ src_data' = IF src_send' /\ ~src_send THEN in ELSE src_data
  /\ UNCHANGED <<in, src_rst, destVars>>

SrcEdge ==
  /\ ReceiptCrosses
  /\ \/ src_rst /\ src_send' = FALSE /\ UNCHANGED src_data
     \/ ~src_rst /\ src_rcv /\ src_send' = FALSE /\ UNCHANGED src_data
     \/ ~src_rst /\ ~src_rcv /\ ~src_send /\ src_send' = TRUE /\ src_data' = in
     \/ ~src_rst /\ ~src_rcv /\ src_send /\ UNCHANGED <<src_send, src_data>>
  /\ UNCHANGED <<in, src_rst, destVars>>

DestEdge ==
  /\ level' \in {level, src_send}
  /\ dest_req' = (~level /\ level')
  /\ dest_data' = IF dest_req' THEN src_data ELSE dest_data
  /\ out' = IF dest_req THEN dest_data ELSE out
  /\ UNCHANGED <<in, srcVars>>

\* The register may be reset too.  The reset lasts longer than the synchronisers
\* are deep, so both levels have come down before it is released.
BeginReset ==
  /\ ~src_rst
  /\ src_rst' = TRUE
  /\ src_send' = FALSE
  /\ in' \in Payload
  /\ UNCHANGED <<src_data, src_rcv, destVars>>

EndReset ==
  /\ src_rst /\ ~src_send /\ ~level /\ ~src_rcv
  /\ src_rst' = FALSE
  /\ UNCHANGED <<in, src_send, src_data, src_rcv, destVars>>

Init ==
  /\ in \in Payload
  /\ src_rst = FALSE /\ src_send = FALSE /\ src_rcv = FALSE
  /\ level = FALSE /\ dest_req = FALSE
  /\ src_data = in /\ dest_data = in /\ out = in

\* The register is written by its own domain, to any value.
Write == in' \in Payload \ {in} /\ UNCHANGED <<srcVars, destVars>>

Next == SrcEdge \/ DestEdge \/ BeginReset \/ EndReset \/ Write

LinkSpec == Init /\ [][Next]_linkVars

\* Both clocks run, and a level that stays is seen in the end.
LinkFairness ==
  /\ WF_linkVars(SrcEdge /\ src_rcv' = level)
  /\ WF_linkVars(DestEdge /\ level' = src_send)
  /\ WF_linkVars(EndReset)

FairLinkSpec == LinkSpec /\ LinkFairness

-----------------------------------------------------------------------------
(* Properties *)

LinkTypeOK ==
  /\ in \in Payload /\ src_data \in Payload /\ dest_data \in Payload /\ out \in Payload
  /\ src_rst \in BOOLEAN /\ src_send \in BOOLEAN /\ src_rcv \in BOOLEAN
  /\ level \in BOOLEAN /\ dest_req \in BOOLEAN

\* The levels of the four-phase handshake rise and fall in turn: out of reset the
\* source never raises src_send before the previous receipt is gone on both sides.
FourPhase ==
  /\ src_send /\ ~level => ~src_rcv
  /\ ~src_rst /\ level /\ ~src_send => src_rcv
  /\ dest_req => level

\* The snapshot on its way, from the edge that takes it to the edge that stores it.
Slot ==
  IF dest_req THEN dest_data
  ELSE IF src_send /\ ~level THEN src_data
  ELSE None

LinkInv == LinkTypeOK /\ FourPhase

Mail == INSTANCE Mailbox WITH slot <- Slot

\* gate_cdc copies whole snapshots, one at a time and in order.
ImplementsMailbox == Mail!MailSpec

\* A value that stays in the source register arrives, unless resets never end.
Arrives ==
  \A v \in Payload :
    <>[](in = v) /\ []<>~src_rst /\ <>[][~BeginReset]_linkVars => <>[](out = v)
=============================================================================
