------------------------------ MODULE Mailbox ------------------------------
(***************************************************************************)
(* What a clock-domain crossing of gate_cdc promises: the receiving        *)
(* register takes on snapshots of the sending one, one at a time, whole    *)
(* and in the order they were taken.  A snapshot may be lost only before   *)
(* it arrives, when the sender is reset.                                   *)
(***************************************************************************)
CONSTANTS
  Payload,  \* values of the sending register
  None      \* no snapshot on its way

VARIABLES
  in,    \* the sending register
  slot,  \* the snapshot on its way
  out    \* the receiving register

mailVars == <<in, slot, out>>

Init == in \in Payload /\ slot = None /\ out = in

Set == in' \in Payload /\ UNCHANGED <<slot, out>>

Take == slot = None /\ slot' = in /\ UNCHANGED <<in, out>>

Deliver == slot # None /\ out' = slot /\ slot' = None /\ UNCHANGED in

Lose == in' \in Payload /\ slot' = None /\ UNCHANGED out

Next == Set \/ Take \/ Deliver \/ Lose

MailSpec == Init /\ [][Next]_mailVars
=============================================================================
