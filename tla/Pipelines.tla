----------------------------- MODULE Pipelines -----------------------------
(* The registered arithmetic of homework 3: the ALU with registers before    *)
(* and after it, and the sum of two squares in its two versions.  `fed' is   *)
(* history: the operands of the last edges, newest first.                    *)
EXTENDS Integers

CONSTANTS
  Operands,  \* values of a and b, four bits
  DEPTH      \* how many edges back `fed' reaches, at least 3

VARIABLES
  a_r, b_r, op_r,   \* input registers (a_reg, b_reg and op_reg of the ALU)
  result_reg,       \* the ALU's output
  sum_comb,         \* sum_sq_out of pythagoras_squares_comb
  b_sqr, sum_pipe,  \* the registers of pythagoras_squares_pipelined
  fed               \* history

vars == <<a_r, b_r, op_r, result_reg, sum_comb, b_sqr, sum_pipe, fed>>

Ops == {"add", "sub", "and", "or"}

Bit(n, i) == (n \div 2^i) % 2
Bitwise4(f(_, _), a, b) ==
  f(Bit(a, 0), Bit(b, 0)) + 2 * f(Bit(a, 1), Bit(b, 1))
    + 4 * f(Bit(a, 2), Bit(b, 2)) + 8 * f(Bit(a, 3), Bit(b, 3))

\* Four bits in, four bits out.
Alu(op, a, b) ==
  CASE op = "add" -> (a + b) % 16
    [] op = "sub" -> (16 + a - b) % 16
    [] op = "and" -> Bitwise4(LAMBDA x, y : x * y, a, b)
    [] op = "or"  -> Bitwise4(LAMBDA x, y : IF x + y > 0 THEN 1 ELSE 0, a, b)

Idle == [a |-> 0, b |-> 0, op |-> "add"]

\* Mutant: the operation does not wait in a register for its operands.
EdgeOpEarly(a, b, op) ==
  /\ a_r' = a /\ b_r' = b /\ op_r' = op
  /\ result_reg' = Alu(op, a_r, b_r)
  /\ sum_comb' = a_r * a_r + b_r * b_r
  /\ b_sqr' = b_r * b_r
  /\ sum_pipe' = a_r * a_r + b_sqr
  /\ fed' = [i \in 1 .. DEPTH |-> IF i = 1 THEN [a |-> a, b |-> b, op |-> op] ELSE fed[i - 1]]

Edge(a, b, op) ==
  /\ a_r' = a /\ b_r' = b /\ op_r' = op
  /\ result_reg' = Alu(op_r, a_r, b_r)
  /\ sum_comb' = a_r * a_r + b_r * b_r
  /\ b_sqr' = b_r * b_r
  /\ sum_pipe' = a_r * a_r + b_sqr
  /\ fed' = [i \in 1 .. DEPTH |-> IF i = 1 THEN [a |-> a, b |-> b, op |-> op] ELSE fed[i - 1]]

NothingFed == [i \in 1 .. DEPTH |-> Idle]

Reset ==
  /\ a_r' = 0 /\ b_r' = 0 /\ op_r' = "add"
  /\ result_reg' = 0 /\ sum_comb' = 0 /\ b_sqr' = 0 /\ sum_pipe' = 0
  /\ fed' = NothingFed

Init ==
  /\ a_r = 0 /\ b_r = 0 /\ op_r = "add"
  /\ result_reg = 0 /\ sum_comb = 0 /\ b_sqr = 0 /\ sum_pipe = 0
  /\ fed = NothingFed

Next == Reset \/ \E a \in Operands, b \in Operands, op \in Ops : Edge(a, b, op)

Spec == Init /\ [][Next]_vars

-----------------------------------------------------------------------------

Squares(pair) == pair.a * pair.a + pair.b * pair.b

\* What comes out of the ALU belongs to the operation that came in with its operands.
AluInStep ==
  LET in == fed[2]
      AllBits(P(_, _)) ==
        \A i \in 0 .. 3 : Bit(result_reg, i) = 1 <=> P(Bit(in.a, i) = 1, Bit(in.b, i) = 1)
  IN  CASE in.op = "add" -> (result_reg - in.a - in.b) % 16 = 0
        [] in.op = "sub" -> (result_reg + in.b - in.a) % 16 = 0
        [] in.op = "and" -> AllBits(LAMBDA p, q : p /\ q)
        [] in.op = "or"  -> AllBits(LAMBDA p, q : p \/ q)

\* The sums come out with the operands they are made of: the plain one with those of
\* the edge before the last, the pipelined one when its operands have stood for
\* two edges.
SumsInStep ==
  /\ sum_comb = Squares(fed[2])
  /\ fed[2] = fed[3] => sum_pipe = Squares(fed[2])

\* Operation and operands meet again behind the registers.
InStep == AluInStep /\ SumsInStep

\* Whatever the latency of the pipelined sum, sum_sq_out is that of the two squares of
\* one edge, as in the version without a pipeline (pythagoras_squares_comb.sv:19).
SumOfOnePair == \E i \in 2 .. DEPTH : sum_pipe = Squares(fed[i])
=============================================================================
