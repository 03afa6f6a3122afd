----------------------------- MODULE MovingMax -----------------------------
(* The moving maximum of homework 7: `window' is a shift register in which  *)
(* the sample that enters last stands first.  A call handles N_SAMPLES      *)
(* samples; `heard' is history, the samples of this call, newest first.     *)
EXTENDS Integers, Sequences

CONSTANTS
  WINDOW,
  N_SAMPLES,
  Values,   \* sample values
  INT_MIN   \* below all of them

VARIABLES window, n, out_data, heard

vars == <<window, n, out_data, heard>>

Places == 0 .. WINDOW - 1

\* Mutant: the shift runs upwards and smears the first sample over the window.
ShiftUp(w, x) == [k \in Places |-> IF k = 0 THEN x ELSE w[0]]

\* SHIFT_LOOP and the new sample.
Shift(w, x) == [k \in Places |-> IF k = 0 THEN x ELSE w[k - 1]]

\* MAX_LOOP, which leaves max_val after its pass at k.
MaxLoop(w) ==
  LET max[k \in Places] ==
        IF k = 0 THEN w[0] ELSE IF w[k] > max[k - 1] THEN w[k] ELSE max[k - 1]
  IN  max[WINDOW - 1]

Call ==
  /\ n = N_SAMPLES
  /\ window' = [k \in Places |-> INT_MIN]
  /\ n' = 0
  /\ heard' = <<>>
  /\ UNCHANGED out_data

Sample(x) ==
  /\ n < N_SAMPLES
  /\ window' = Shift(window, x)
  /\ out_data' = MaxLoop(window')
  /\ n' = n + 1
  /\ heard' = <<x>> \o heard

Init ==
  /\ window = [k \in Places |-> INT_MIN]
  /\ n = 0
  /\ out_data = INT_MIN
  /\ heard = <<>>

Next == Call \/ \E x \in Values : Sample(x)

Spec == Init /\ [][Next]_vars

-----------------------------------------------------------------------------

\* The reference of the test bench (main_tb.cpp:7-15), which looks back from the
\* newest sample for as long as there are samples, and at most WINDOW of them.
Reference(s) ==
  LET reach == IF Len(s) < WINDOW THEN Len(s) ELSE WINDOW
      max[i \in 1 .. reach] ==
        IF i = 1 THEN s[1] ELSE IF s[i] > max[i - 1] THEN s[i] ELSE max[i - 1]
  IN  max[reach]

\* The output is the maximum of the last WINDOW samples of this call, also while
\* there are fewer, and never of a sample of the call before.
OutIsMax == n > 0 => out_data = Reference(heard)
=============================================================================
