----------------------------- MODULE Debouncer -----------------------------
(* The debouncer of homework 3 and 6 as a function of its registers: a      *)
(* synchroniser of two flip-flops and a counter of WIDTH bits.  The output  *)
(* follows the input when it has differed for as long as the counter lasts. *)
EXTENDS Naturals

CONSTANT PERIOD  \* 2^WIDTH, the number of values of the counter, at least 2

Debouncers == [s0 : BOOLEAN, s1 : BOOLEAN, counter : 0 .. PERIOD - 1, out : BOOLEAN]

Cleared == [s0 |-> FALSE, s1 |-> FALSE, counter |-> 0, out |-> FALSE]

\* Mutant: the counter is not cleared when the input bounces back.
DebounceNoRestart(d, btn) ==
  LET full == d.s1 # d.out /\ d.counter = PERIOD - 1
  IN  [s0 |-> btn,
       s1 |-> d.s0,
       counter |-> IF full THEN 0 ELSE IF d.s1 # d.out THEN d.counter + 1 ELSE d.counter,
       out |-> IF full THEN d.s1 ELSE d.out]

\* One clock edge.
Debounce(d, btn) ==
  LET full == d.s1 # d.out /\ d.counter = PERIOD - 1
  IN  [s0 |-> btn,
       s1 |-> d.s0,
       counter |-> IF d.s1 # d.out /\ ~full THEN d.counter + 1 ELSE 0,
       out |-> IF full THEN d.s1 ELSE d.out]
=============================================================================
