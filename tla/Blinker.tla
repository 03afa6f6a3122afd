------------------------------ MODULE Blinker ------------------------------
(* led_blinker of homework 6: a button behind a debouncer toggles an LED.   *)
(* The history is the button as a user means it: `steady' is the last level *)
(* the synchronised input held for PERIOD clocks, `presses' the number of   *)
(* times that level rose, modulo two.                                       *)
EXTENDS Debouncer, Sequences

VARIABLES
  db,        \* the registers of debouncer_inst
  btn_prev,
  o_led,
  recent,    \* history: the last PERIOD levels of btn_state[1], newest first
  steady,    \* history
  presses    \* history

vars == <<db, btn_prev, o_led, recent, steady, presses>>

SameLevel(v) == \A i \in 1 .. PERIOD : v[i] = v[1]

Toggle == IF db.out /\ ~btn_prev THEN ~o_led ELSE o_led

Edge(btn) ==
  /\ db' = Debounce(db, btn)
  /\ btn_prev' = db.out
  /\ o_led' = Toggle
  /\ recent' = [i \in 1 .. PERIOD |-> IF i = 1 THEN db.s1 ELSE recent[i - 1]]
  /\ steady' = IF SameLevel(recent') THEN recent'[1] ELSE steady
  /\ presses' = IF ~steady /\ steady' THEN 1 - presses ELSE presses

Reset ==
  /\ db' = Cleared
  /\ btn_prev' = FALSE
  /\ o_led' = FALSE
  /\ recent' = [i \in 1 .. PERIOD |-> FALSE]
  /\ steady' = FALSE
  /\ presses' = 0

Init ==
  /\ db = Cleared
  /\ btn_prev = FALSE /\ o_led = FALSE
  /\ recent = [i \in 1 .. PERIOD |-> FALSE]
  /\ steady = FALSE /\ presses = 0

EdgeStep == \E btn \in BOOLEAN : Edge(btn)

Next == EdgeStep \/ Reset

Spec == Init /\ [][Next]_vars

-----------------------------------------------------------------------------

\* A press toggles the LED exactly once, whatever bounces come before, during and
\* after it; the toggle is one clock behind the debounced edge.
OneTogglePerPress ==
  o_led = (IF db.out /\ ~btn_prev THEN presses = 0 ELSE presses = 1)
=============================================================================
