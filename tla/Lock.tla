-------------------------------- MODULE Lock --------------------------------
(* lock_controller_top of homework 3: the four bits of a digit, each behind  *)
(* a debouncer of its own, and the state machine that waits for the code.    *)
(* `progress' is history: the digits of the code entered so far, one after   *)
(* the other, each shown for any number of clocks.                           *)
EXTENDS Debouncer, Sequences

VARIABLES
  db,             \* the debouncer of each bit, bits numbered from 0
  current_state,
  progress        \* history

vars == <<db, current_state, progress>>

Bits == 0 .. 3
Digits == [Bits -> BOOLEAN]

\* Digits that matter: 3, 5 and 7 as bit patterns.
Digit(n) == [b \in Bits |-> (n \div 2^b) % 2 = 1]
Code == <<Digit(3), Digit(5), Digit(7)>>

digit_in_reg == [b \in Bits |-> db[b].out]

\* Mutant: a digit may be held.
NextStateHeld(digit) ==
  CASE current_state = "LOCKED" /\ digit = Code[1]   -> "WAIT_D2"
    [] current_state = "WAIT_D2" /\ digit = Code[1]  -> "WAIT_D2"
    [] current_state = "WAIT_D2" /\ digit = Code[2]  -> "WAIT_D3"
    [] current_state = "WAIT_D3" /\ digit = Code[2]  -> "WAIT_D3"
    [] current_state = "WAIT_D3" /\ digit = Code[3]  -> "UNLOCKED"
    [] current_state = "UNLOCKED"                    -> "UNLOCKED"
    [] OTHER                                         -> "LOCKED"

NextState(digit) ==
  CASE current_state = "LOCKED" /\ digit = Code[1]   -> "WAIT_D2"
    [] current_state = "WAIT_D2" /\ digit = Code[2]  -> "WAIT_D3"
    [] current_state = "WAIT_D3" /\ digit = Code[3]  -> "UNLOCKED"
    [] current_state = "UNLOCKED"                    -> "UNLOCKED"
    [] OTHER                                         -> "LOCKED"

NextProgress(digit) ==
  IF progress < 3 /\ digit = Code[progress + 1] THEN progress + 1
  ELSE IF progress > 0 /\ digit = Code[progress] THEN progress
  ELSE IF progress = 3 THEN 3
  ELSE IF digit = Code[1] THEN 1 ELSE 0

Edge(digit_in) ==
  /\ db' = [b \in Bits |-> Debounce(db[b], digit_in[b])]
  /\ current_state' = NextState(digit_in_reg)
  /\ progress' = NextProgress(digit_in_reg)

Reset ==
  /\ db' = [b \in Bits |-> Cleared]
  /\ current_state' = "LOCKED"
  /\ progress' = 0

Init ==
  /\ db = [b \in Bits |-> Cleared]
  /\ current_state = "LOCKED"
  /\ progress = 0

Next == Reset \/ \E digit_in \in Digits : Edge(digit_in)

Spec == Init /\ [][Next]_vars

-----------------------------------------------------------------------------

TypeOK ==
  /\ db \in [Bits -> Debouncers]
  /\ current_state \in {"LOCKED", "WAIT_D2", "WAIT_D3", "UNLOCKED"}
  /\ progress \in 0 .. 3

\* What keeps the lock shut.  The code shows bit 1 as 1, 0, 1 in three clocks in a
\* row, and a debounced bit that has just changed stays for PERIOD clocks.
JustFell ==
  /\ current_state = "WAIT_D2" /\ ~db[1].out => db[1].counter = 0
  /\ current_state = "WAIT_D3" => ~db[1].out

\* Behind its debouncers the lock does not open, whatever is entered and for
\* however long: the state machine wants a new digit on every clock.
NeverOpens == current_state # "UNLOCKED"

LockInv == TypeOK /\ JustFell /\ NeverOpens

\* tb_lock_controller.sv:38-46 enters 3, 5 and 7 one after the other and expects
\* the lock to be open: "third number correct".  Here the digits come through the
\* debouncers, as in lock_controller_top.
CodeOpens == progress = 3 => current_state = "UNLOCKED"
=============================================================================
