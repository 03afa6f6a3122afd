------------------------ MODULE HomeworkBoard_proofs ------------------------
(***************************************************************************)
(* The homework designs, each on a board of its own, for debouncers of any *)
(* width, memories and FIFOs of any depth, frames of any size and any      *)
(* operands and bytes.  For each design: an invariant of its own module    *)
(* that its Init establishes and its Next keeps, and the property of       *)
(* HomeworkBoard that follows.                                             *)
(***************************************************************************)
EXTENDS HomeworkBoard, WellFoundedInduction, TLAPS

-----------------------------------------------------------------------------
(* The lock of homework 3 *)

\* A debouncer stays in its registers' widths, its counter is cleared with every change
\* of its output, and the output does not change before the counter is full.
LEMMA LockDebounce ==
  ASSUME NEW d \in TheLock!Debouncers, NEW btn \in BOOLEAN
  PROVE  /\ TheLock!Debounce(d, btn) \in TheLock!Debouncers
         /\ TheLock!Debounce(d, btn).out # d.out =>
              TheLock!Debounce(d, btn).counter = 0 /\ d.counter = PERIOD - 1
  BY BoardAssumption DEF TheLock!Debounce, TheLock!Debouncers

\* Bit 1 of the code's digits reads 1, 0, 1.
LEMMA CodeBits == TheLock!Code[1][1] /\ ~TheLock!Code[2][1] /\ TheLock!Code[3][1]
<1>1. 1 \in TheLock!Bits
  BY DEF TheLock!Bits
<1>2. 2^1 = 2 /\ (3 \div 2) % 2 = 1 /\ (5 \div 2) % 2 = 0 /\ (7 \div 2) % 2 = 1
  OBVIOUS
<1>3. /\ TheLock!Digit(3)[1] <=> (3 \div 2^1) % 2 = 1
      /\ TheLock!Digit(5)[1] <=> (5 \div 2^1) % 2 = 1
      /\ TheLock!Digit(7)[1] <=> (7 \div 2^1) % 2 = 1
  BY <1>1, Zenon DEF TheLock!Digit
<1>4. TheLock!Digit(3)[1] /\ ~TheLock!Digit(5)[1] /\ TheLock!Digit(7)[1]
  BY <1>2, <1>3
<1> QED BY <1>4 DEF TheLock!Code

LEMMA LockInit == TheLock!Init => TheLock!LockInv
  BY BoardAssumption DEF TheLock!Init, TheLock!Cleared, TheLock!Debouncers, TheLock!LockInv, TheLock!TypeOK,
     TheLock!JustFell, TheLock!NeverOpens, TheLock!Bits

LEMMA LockStep == TheLock!LockInv /\ TheLock!Next => TheLock!LockInv'
<1> SUFFICES ASSUME TheLock!LockInv, TheLock!Next PROVE TheLock!LockInv'
  OBVIOUS
<1> USE BoardAssumption DEF TheLock!LockInv, TheLock!TypeOK, TheLock!JustFell, TheLock!NeverOpens
<1>1. CASE TheLock!Reset
  BY <1>1 DEF TheLock!Reset, TheLock!Cleared, TheLock!Debouncers, TheLock!Bits
<1>2. ASSUME NEW digit_in \in TheLock!Digits, TheLock!Edge(digit_in)
      PROVE  TheLock!LockInv'
  <2>1. \A b \in TheLock!Bits : lock_db'[b] = TheLock!Debounce(lock_db[b], digit_in[b])
    BY <1>2 DEF TheLock!Edge
  <2>2. lock_db' \in [TheLock!Bits -> TheLock!Debouncers]
    BY <1>2, LockDebounce DEF TheLock!Edge, TheLock!Digits
  <2>3. progress' \in 0 .. 3
    BY <1>2 DEF TheLock!Edge, TheLock!NextProgress
  <2>4. 1 \in TheLock!Bits /\ TheLock!digit_in_reg[1] = lock_db[1].out
    BY DEF TheLock!Bits, TheLock!digit_in_reg
  <2>5. /\ current_state' \in {"LOCKED", "WAIT_D2", "WAIT_D3", "UNLOCKED"}
        /\ current_state' = "WAIT_D2" => lock_db[1].out
        /\ current_state' = "WAIT_D3" => current_state = "WAIT_D2" /\ ~lock_db[1].out
        /\ current_state' = "UNLOCKED" => current_state = "WAIT_D3" /\ lock_db[1].out
    BY <1>2, <2>4, CodeBits DEF TheLock!Edge, TheLock!NextState
  <2>6. /\ lock_db'[1].out # lock_db[1].out =>
             lock_db'[1].counter = 0 /\ lock_db[1].counter = PERIOD - 1
    BY <2>1, <2>4, LockDebounce DEF TheLock!Digits
  <2> QED BY <2>2, <2>3, <2>4, <2>5, <2>6 DEF TheLock!Debouncers
<1> QED BY <1>1, <1>2 DEF TheLock!Next

-----------------------------------------------------------------------------
(* The RAM of homework 5 *)

\* How far the slave is in the burst under way, against what the master still expects.
\* Before the first beat is shown the slave's address is the master's; then it runs one
\* word ahead, and the counter one beat more; the last beat is reached with the counter
\* at zero, and may be shown once more after the master has taken it.
RamCounters ==
  /\ wr.left \in Nat /\ rd.left \in Nat /\ wburst_cnt \in Nat /\ rburst_cnt \in Nat
  /\ wstate \in {"WRIDLE", "WRDATA", "WRRESP"} /\ rstate \in {"RDIDLE", "RDDATA"}
  /\ rvalid \in BOOLEAN /\ rlast \in BOOLEAN

ReadAhead ==
  /\ rstate = "RDDATA" /\ ~rvalid => rd.left = rburst_cnt + 1 /\ rd.addr = raddr_cur
  /\ rstate = "RDDATA" /\ rvalid /\ ~rlast =>
       rd.left = rburst_cnt + 2 /\ raddr_cur = Ram!Step(rd.addr)
  /\ rstate = "RDDATA" /\ rvalid /\ rlast => rd.left = 1 /\ rburst_cnt = 0
  /\ rstate = "RDIDLE" /\ rvalid => rd.left <= 1

RamInv == RamCounters /\ ReadAhead /\ Ram!BurstsInOrder

LEMMA RamInit == Ram!Init => RamInv
<1> SUFFICES ASSUME Ram!Init PROVE RamInv
  OBVIOUS
<1>1. ~rvalid /\ rvalid \in BOOLEAN /\ rlast \in BOOLEAN
  BY Zenon DEF Ram!Init
<1>2. /\ wr.left = 0 /\ rd.left = 0 /\ wburst_cnt = 0 /\ rburst_cnt = 0
      /\ wstate = "WRIDLE" /\ rstate = "RDIDLE" /\ mem = intent
  BY DEF Ram!Init, Ram!Nothing
<1> QED BY <1>1, <1>2 DEF RamInv, RamCounters, ReadAhead, Ram!BurstsInOrder, Ram!WritesLand, Ram!BeatsInOrder

LEMMA RamStep == RamInv /\ Ram!Next => RamInv'
<1> SUFFICES ASSUME RamInv, Ram!Next PROVE RamInv'
  OBVIOUS
<1> USE BoardAssumption DEF RamInv, RamCounters, ReadAhead, Ram!BurstsInOrder, Ram!WritesLand, Ram!BeatsInOrder
<1>1. CASE Ram!Reset
  BY <1>1 DEF Ram!Reset, Ram!Nothing
<1>2. CASE Ram!Edge
  <2>1. /\ wr'.left \in Nat /\ wburst_cnt' \in Nat
        /\ wstate' \in {"WRIDLE", "WRDATA", "WRRESP"}
        /\ Ram!WritesLand'
    <3>1. ASSUME NEW req \in Ram!Requests, Ram!AwHandshake(req)
          PROVE  <2>1!1 /\ <2>1!2 /\ <2>1!3
      BY <3>1 DEF Ram!AwHandshake, Ram!Requests
    <3>2. ASSUME NEW beat \in Ram!Beats, Ram!WHandshake(beat)
          PROVE  <2>1!1 /\ <2>1!2 /\ <2>1!3
      <4>1. wr.addr = waddr_cur /\ wr.left = wburst_cnt + 1 /\ wstate = "WRDATA"
        BY <3>2 DEF Ram!WHandshake
      <4>2. mem' = intent'
        BY <4>1, <3>2, Zenon DEF Ram!WHandshake
      <4>3. wr'.addr = waddr_cur' /\ wr'.left = wr.left - 1
        BY <4>1, <3>2 DEF Ram!WHandshake
      <4>4. IF wburst_cnt = 0 THEN wstate' = "WRRESP" /\ wburst_cnt' = wburst_cnt
              ELSE wburst_cnt' = wburst_cnt - 1 /\ wstate' = wstate
        BY <3>2, Zenon DEF Ram!WHandshake
      <4> QED BY <4>1, <4>2, <4>3, <4>4
    <3>3. CASE Ram!WritePause \/ \E bready \in BOOLEAN : Ram!Respond(bready)
      BY <3>3 DEF Ram!WritePause, Ram!writeVars, Ram!Respond
    <3> QED BY <1>2, <3>1, <3>2, <3>3 DEF Ram!Edge, Ram!WriteEdge
  <2>2. /\ rd'.left \in Nat /\ rburst_cnt' \in Nat
        /\ rstate' \in {"RDIDLE", "RDDATA"}
        /\ rvalid' \in BOOLEAN /\ rlast' \in BOOLEAN
        /\ ReadAhead' /\ Ram!BeatsInOrder'
    <3>1. ASSUME NEW req \in Ram!Requests, Ram!ReadIdle(req)
          PROVE  <2>2!1 /\ <2>2!2 /\ <2>2!3 /\ <2>2!4
      <4>1. Ram!Taken.left \in Nat /\ (rvalid /\ rready => Ram!Taken.left = 0)
        BY <3>1 DEF Ram!ReadIdle, Ram!Taken
      <4>2. ~rvalid' /\ rvalid' \in BOOLEAN
        BY <3>1, Zenon DEF Ram!ReadIdle
      <4>3. /\ rlast' = rlast
            /\ \/ /\ rstate' = "RDDATA" /\ rburst_cnt' = req.len /\ raddr_cur' = req.addr
                  /\ rd' = [addr |-> req.addr, left |-> req.len + 1]
               \/ rd' = Ram!Taken /\ rstate' = "RDIDLE" /\ rburst_cnt' = rburst_cnt
        BY <3>1 DEF Ram!ReadIdle
      <4> QED BY <4>1, <4>2, <4>3 DEF Ram!Requests
    <3>2. CASE Ram!ReadData
      <4>1. CASE rvalid /\ ~rready
        BY <3>2, <4>1 DEF Ram!ReadData, Ram!Taken
      <4>2. CASE ~rvalid \/ rready
        <5>1. /\ rd' = Ram!Taken /\ shown' = raddr_cur
              /\ rburst_cnt' = IF rburst_cnt # 0 THEN rburst_cnt - 1 ELSE rburst_cnt
              /\ raddr_cur' = IF rburst_cnt # 0 THEN Ram!Step(raddr_cur) ELSE raddr_cur
              /\ rstate' = IF rburst_cnt = 0 /\ rvalid /\ rready THEN "RDIDLE" ELSE "RDDATA"
          BY <3>2, <4>2 DEF Ram!ReadData
        <5>2. rvalid' /\ rvalid' \in BOOLEAN /\ rlast' \in BOOLEAN /\ (rlast' <=> rburst_cnt = 0)
          BY <3>2, <4>2, Zenon DEF Ram!ReadData
        <5>3. CASE ~rvalid
          BY <5>1, <5>2, <5>3, <3>2 DEF Ram!ReadData, Ram!Taken
        <5>4. CASE rvalid /\ rlast
          BY <5>1, <5>2, <5>4, <4>2, <3>2 DEF Ram!ReadData, Ram!Taken
        <5>5. CASE rvalid /\ ~rlast
          BY <5>1, <5>2, <5>5, <4>2, <3>2 DEF Ram!ReadData, Ram!Taken
        <5> QED BY <5>3, <5>4, <5>5
      <4> QED BY <4>1, <4>2
    <3> QED BY <1>2, <3>1, <3>2 DEF Ram!Edge, Ram!ReadEdge
  <2> QED BY <2>1, <2>2
<1> QED BY <1>1, <1>2 DEF Ram!Next

-----------------------------------------------------------------------------
(* The LED blinker of homework 6 *)

\* The counter is the length of the run of levels, newest first, that differ from the
\* debounced output; so the output is the last level that stayed for PERIOD clocks.
CountsTheRun ==
  /\ recent[db.counter + 1] = db.out
  /\ \A i \in 1 .. db.counter : recent[i] # db.out

BlinkInv ==
  /\ db \in Blink!Debouncers
  /\ btn_prev \in BOOLEAN /\ o_led \in BOOLEAN
  /\ recent \in [1 .. PERIOD -> BOOLEAN]
  /\ CountsTheRun
  /\ steady = db.out
  /\ presses \in {0, 1}
  /\ Blink!OneTogglePerPress

LEMMA BlinkInit == Blink!Init => BlinkInv
<1> SUFFICES ASSUME Blink!Init PROVE BlinkInv
  OBVIOUS
<1>1. /\ db \in Blink!Debouncers /\ db.counter = 0 /\ recent \in [1 .. PERIOD -> BOOLEAN]
      /\ db.out = FALSE /\ recent[1] = FALSE
  BY BoardAssumption DEF Blink!Init, Blink!Cleared, Blink!Debouncers
<1>2. /\ btn_prev \in BOOLEAN /\ o_led \in BOOLEAN /\ ~o_led /\ presses = 0
      /\ steady = FALSE
  BY Zenon DEF Blink!Init
<1>3. steady = db.out /\ recent[1] = db.out
  BY <1>1, <1>2, Zenon
<1>4. Blink!OneTogglePerPress
  <2>1. ~(db.out /\ ~btn_prev) /\ presses # 1 /\ o_led = FALSE
    BY <1>1, <1>2
  <2> QED BY <2>1, Zenon DEF Blink!OneTogglePerPress
<1> QED BY <1>1, <1>2, <1>3, <1>4 DEF BlinkInv, CountsTheRun

LEMMA BlinkReset == Blink!Reset => BlinkInv'
<1> SUFFICES ASSUME Blink!Reset PROVE BlinkInv'
  OBVIOUS
<1>1. /\ db' \in Blink!Debouncers /\ db'.counter = 0 /\ recent' \in [1 .. PERIOD -> BOOLEAN]
      /\ db'.out = FALSE /\ recent'[1] = FALSE
  BY BoardAssumption DEF Blink!Reset, Blink!Cleared, Blink!Debouncers
<1>2. /\ btn_prev' \in BOOLEAN /\ o_led' \in BOOLEAN /\ ~o_led' /\ presses' = 0
      /\ steady' = FALSE
  BY Zenon DEF Blink!Reset
<1>3. steady' = db'.out /\ recent'[1] = db'.out
  BY <1>1, <1>2, Zenon
<1>4. Blink!OneTogglePerPress'
  <2>1. ~(db'.out /\ ~btn_prev') /\ presses' # 1 /\ o_led' = FALSE
    BY <1>1, <1>2
  <2> QED BY <2>1, Zenon DEF Blink!OneTogglePerPress
<1> QED BY <1>1, <1>2, <1>3, <1>4 DEF BlinkInv, CountsTheRun

LEMMA BlinkEdge == BlinkInv /\ Blink!EdgeStep => BlinkInv'
<1> SUFFICES ASSUME BlinkInv, NEW btn \in BOOLEAN, Blink!Edge(btn) PROVE BlinkInv'
  BY DEF Blink!EdgeStep
<1> USE BoardAssumption DEF BlinkInv
<1>1. /\ db' \in Blink!Debouncers
      /\ db'.out = IF db.s1 # db.out /\ db.counter = PERIOD - 1 THEN db.s1 ELSE db.out
      /\ db'.counter = IF db.s1 # db.out /\ db.counter # PERIOD - 1 THEN db.counter + 1 ELSE 0
      /\ db.counter \in 0 .. PERIOD - 1 /\ db.out \in BOOLEAN /\ db.s1 \in BOOLEAN
  BY DEF Blink!Edge, Blink!Debounce, Blink!Debouncers
<1>2. /\ recent' \in [1 .. PERIOD -> BOOLEAN]
      /\ recent'[1] = db.s1
      /\ \A i \in 2 .. PERIOD : recent'[i] = recent[i - 1]
  BY <1>1 DEF Blink!Edge
<1>3. CountsTheRun'
  <2>1. CASE db.s1 # db.out /\ db.counter # PERIOD - 1
    <3>1. db'.counter = db.counter + 1 /\ db'.out = db.out /\ db.counter + 1 \in 1 .. PERIOD - 1
      BY <1>1, <2>1
    <3>2. recent'[db.counter + 2] = recent[db.counter + 1]
      BY <1>1, <1>2, <3>1
    <3>3. \A i \in 2 .. db.counter + 1 : recent'[i] # db.out
      BY <1>1, <1>2, <3>1 DEF CountsTheRun
    <3> QED BY <1>1, <1>2, <2>1, <3>1, <3>2, <3>3 DEF CountsTheRun
  <2>2. CASE ~(db.s1 # db.out /\ db.counter # PERIOD - 1)
    BY <1>1, <1>2, <2>2 DEF CountsTheRun
  <2> QED BY <2>1, <2>2
<1>4. steady' = db'.out
  <2>1. CASE Blink!SameLevel(recent')
    <3>1. steady' = recent'[1]
      BY <2>1 DEF Blink!Edge
    <3>2. db'.counter + 1 \in 1 .. PERIOD
      BY <1>1 DEF Blink!Debouncers
    <3>3. recent'[db'.counter + 1] = recent'[1]
      BY <2>1, <3>2, Zenon DEF Blink!SameLevel
    <3> QED BY <1>3, <3>1, <3>3, Zenon DEF CountsTheRun
  <2>2. CASE ~Blink!SameLevel(recent')
    <3>1. db'.out = db.out
      <4> SUFFICES ASSUME db.s1 # db.out, db.counter = PERIOD - 1 PROVE Blink!SameLevel(recent')
        BY <1>1, <2>2
      <4>1. \A i \in 2 .. PERIOD : i - 1 \in 1 .. db.counter /\ recent'[i] \in BOOLEAN
        BY <1>2
      <4>2. \A i \in 2 .. PERIOD : recent'[i] # db.out
        BY <1>2, <4>1 DEF CountsTheRun
      <4>3. \A i \in 1 .. PERIOD : recent'[i] = db.s1
        <5>1. \A x \in BOOLEAN : x # db.out => x = db.s1
          BY <1>1
        <5> QED BY <1>2, <4>1, <4>2, <5>1
      <4> QED BY <4>3 DEF Blink!SameLevel
    <3> QED BY <2>2, <3>1 DEF Blink!Edge
  <2> QED BY <2>1, <2>2
<1>5. btn_prev' = db.out /\ o_led' = (presses = 1) /\ o_led' \in BOOLEAN
  BY <1>1 DEF Blink!Edge, Blink!Toggle, Blink!OneTogglePerPress
<1>6. presses' = IF ~db.out /\ db'.out THEN 1 - presses ELSE presses
  BY <1>4 DEF Blink!Edge
<1>7. presses' \in {0, 1} /\ Blink!OneTogglePerPress'
  BY <1>1, <1>5, <1>6 DEF Blink!OneTogglePerPress, Blink!Debouncers
<1> QED BY <1>1, <1>2, <1>3, <1>4, <1>5, <1>7

LEMMA BlinkStep == BlinkInv /\ Blink!Next => BlinkInv'
  BY BlinkEdge, BlinkReset DEF Blink!Next

-----------------------------------------------------------------------------
(* The pipelines of homework 3 *)

\* The input registers hold the operands of the newest edge, the pipelined sum's
\* register the square of the b of the one before.
ArithInv ==
  /\ fed \in [1 .. DEPTH -> [a : 0 .. 15, b : 0 .. 15, op : Arith!Ops]]
  /\ a_r = fed[1].a /\ b_r = fed[1].b /\ op_r = fed[1].op
  /\ b_sqr = fed[2].b * fed[2].b
  /\ Arith!InStep

\* A bit is 0 or 1, and four bits put together give them back.
LEMMA BitValue ==
  ASSUME NEW x \in 0 .. 15, NEW i \in 0 .. 3
  PROVE  Arith!Bit(x, i) \in {0, 1}
<1>1. 2^0 = 1 /\ 2^1 = 2 /\ 2^2 = 4 /\ 2^3 = 8
  OBVIOUS
<1>2. 2^i \in {1, 2, 4, 8}
  <2>1. i = 0 \/ i = 1 \/ i = 2 \/ i = 3
    OBVIOUS
  <2> QED BY <1>1, <2>1
<1> QED BY <1>2 DEF Arith!Bit

LEMMA BitsBack ==
  ASSUME NEW p \in {0, 1}, NEW q \in {0, 1}, NEW r \in {0, 1}, NEW s \in {0, 1}
  PROVE  /\ Arith!Bit(p + 2 * q + 4 * r + 8 * s, 0) = p
         /\ Arith!Bit(p + 2 * q + 4 * r + 8 * s, 1) = q
         /\ Arith!Bit(p + 2 * q + 4 * r + 8 * s, 2) = r
         /\ Arith!Bit(p + 2 * q + 4 * r + 8 * s, 3) = s
<1>1. 2^0 = 1 /\ 2^1 = 2 /\ 2^2 = 4 /\ 2^3 = 8
  OBVIOUS
<1> QED BY <1>1 DEF Arith!Bit

\* What the ALU computes is what the property asks of the operation.
LEMMA AluComputes ==
  ASSUME NEW a \in 0 .. 15, NEW b \in 0 .. 15, NEW y
  PROVE  /\ y = Arith!Alu("add", a, b) => (y - a - b) % 16 = 0
         /\ y = Arith!Alu("sub", a, b) => (y + b - a) % 16 = 0
         /\ y = Arith!Alu("and", a, b) =>
              \A i \in 0 .. 3 : Arith!Bit(y, i) = 1 <=> Arith!Bit(a, i) = 1 /\ Arith!Bit(b, i) = 1
         /\ y = Arith!Alu("or", a, b) =>
              \A i \in 0 .. 3 : Arith!Bit(y, i) = 1 <=> Arith!Bit(a, i) = 1 \/ Arith!Bit(b, i) = 1
<1>1. /\ Arith!Alu("add", a, b) = (a + b) % 16
      /\ Arith!Alu("sub", a, b) = (16 + a - b) % 16
  BY DEF Arith!Alu
<1>2. Arith!Alu("and", a, b) =
        Arith!Bit(a, 0) * Arith!Bit(b, 0) + 2 * (Arith!Bit(a, 1) * Arith!Bit(b, 1))
          + 4 * (Arith!Bit(a, 2) * Arith!Bit(b, 2)) + 8 * (Arith!Bit(a, 3) * Arith!Bit(b, 3))
  BY DEF Arith!Alu, Arith!Bitwise4
<1> DEFINE Or(i) == IF Arith!Bit(a, i) + Arith!Bit(b, i) > 0 THEN 1 ELSE 0
<1>3. Arith!Alu("or", a, b) = Or(0) + 2 * Or(1) + 4 * Or(2) + 8 * Or(3)
  BY DEF Arith!Alu, Arith!Bitwise4
<1>4. \A i \in 0 .. 3 : Arith!Bit(a, i) \in {0, 1} /\ Arith!Bit(b, i) \in {0, 1}
  BY BitValue
<1>5. \A i \in 0 .. 3 :
        /\ Arith!Bit(a, i) * Arith!Bit(b, i) \in {0, 1}
        /\ Arith!Bit(a, i) * Arith!Bit(b, i) = 1 <=> Arith!Bit(a, i) = 1 /\ Arith!Bit(b, i) = 1
        /\ Or(i) \in {0, 1}
        /\ Or(i) = 1 <=> Arith!Bit(a, i) = 1 \/ Arith!Bit(b, i) = 1
  BY <1>4
<1>6. \A i \in 0 .. 3 :
        /\ Arith!Bit(Arith!Alu("and", a, b), i) = Arith!Bit(a, i) * Arith!Bit(b, i)
        /\ Arith!Bit(Arith!Alu("or", a, b), i) = Or(i)
  <2> HIDE DEF Or
  <2> QED BY <1>2, <1>3, <1>5, BitsBack
<1>7. \A x, z \in 0 .. 15 : (((x + z) % 16) - x - z) % 16 = 0 /\ (((16 + x - z) % 16) + z - x) % 16 = 0
  OBVIOUS
<1> QED BY <1>1, <1>5, <1>6, <1>7

LEMMA ArithInit == Arith!Init => ArithInv
<1> SUFFICES ASSUME Arith!Init PROVE ArithInv
  OBVIOUS
<1>1. /\ fed \in [1 .. DEPTH -> [a : 0 .. 15, b : 0 .. 15, op : Arith!Ops]]
      /\ fed[1] = Arith!Idle /\ fed[2] = Arith!Idle /\ fed[3] = Arith!Idle
  BY BoardAssumption DEF Arith!Init, Arith!NothingFed, Arith!Idle, Arith!Ops
<1>2. Arith!Idle.a = 0 /\ Arith!Idle.b = 0 /\ Arith!Idle.op = "add"
  BY DEF Arith!Idle
<1>3. Arith!AluInStep
  BY <1>1, <1>2 DEF Arith!Init, Arith!AluInStep
<1> QED BY <1>1, <1>2, <1>3 DEF Arith!Init, ArithInv, Arith!InStep, Arith!SumsInStep, Arith!Squares

LEMMA ArithStep == ArithInv /\ Arith!Next => ArithInv'
<1> SUFFICES ASSUME ArithInv, Arith!Next PROVE ArithInv'
  OBVIOUS
<1>1. CASE Arith!Reset
  <2>1. /\ fed' \in [1 .. DEPTH -> [a : 0 .. 15, b : 0 .. 15, op : Arith!Ops]]
        /\ fed'[1] = Arith!Idle /\ fed'[2] = Arith!Idle /\ fed'[3] = Arith!Idle
    BY <1>1, BoardAssumption DEF Arith!Reset, Arith!NothingFed, Arith!Idle, Arith!Ops
  <2>2. Arith!Idle.a = 0 /\ Arith!Idle.b = 0 /\ Arith!Idle.op = "add"
    BY DEF Arith!Idle
  <2>3. Arith!AluInStep'
    BY <1>1, <2>1, <2>2 DEF Arith!Reset, Arith!AluInStep
  <2> QED BY <1>1, <2>1, <2>2, <2>3 DEF Arith!Reset, ArithInv, Arith!InStep, Arith!SumsInStep, Arith!Squares
<1>2. ASSUME NEW a \in Operands, NEW b \in Operands, NEW op \in Arith!Ops, Arith!Edge(a, b, op)
      PROVE  ArithInv'
  <2>1. /\ a \in 0 .. 15 /\ b \in 0 .. 15 /\ DEPTH \in Nat /\ DEPTH >= 3
    BY BoardAssumption
  <2>2. /\ fed' \in [1 .. DEPTH -> [a : 0 .. 15, b : 0 .. 15, op : Arith!Ops]]
        /\ fed'[1] = [a |-> a, b |-> b, op |-> op] /\ fed'[2] = fed[1] /\ fed'[3] = fed[2]
    BY <1>2, <2>1 DEF Arith!Edge, ArithInv
  <2>3. fed[1] \in [a : 0 .. 15, b : 0 .. 15, op : Arith!Ops]
    BY <2>1 DEF ArithInv
  <2>4. Arith!SumsInStep'
    BY <1>2, <2>2 DEF Arith!Edge, ArithInv, Arith!SumsInStep, Arith!Squares
  <2>5. Arith!AluInStep'
    <3>1. result_reg' = Arith!Alu(fed[1].op, fed[1].a, fed[1].b)
      BY <1>2 DEF Arith!Edge, ArithInv
    <3> DEFINE x == fed[1].a  z == fed[1].b
    <3>6. x \in 0 .. 15 /\ z \in 0 .. 15 /\ fed'[2].a = x /\ fed'[2].b = z
      BY <2>2, <2>3
    <3>7. result_reg' = Arith!Alu(fed[1].op, x, z)
      BY <3>1
    <3> HIDE DEF x, z
    <3>2. CASE fed[1].op = "add"
      <4>1. (result_reg' - fed'[2].a - fed'[2].b) % 16 = 0
        BY <3>2, <3>6, <3>7, AluComputes
      <4> QED BY <2>2, <3>2, <4>1 DEF Arith!AluInStep
    <3>3. CASE fed[1].op = "sub"
      <4>1. (result_reg' + fed'[2].b - fed'[2].a) % 16 = 0
        BY <3>3, <3>6, <3>7, AluComputes
      <4> QED BY <2>2, <3>3, <4>1 DEF Arith!AluInStep
    <3>4. CASE fed[1].op = "and"
      <4>1. \A i \in 0 .. 3 : Arith!Bit(result_reg', i) = 1 <=>
                                Arith!Bit(fed'[2].a, i) = 1 /\ Arith!Bit(fed'[2].b, i) = 1
        BY <3>4, <3>6, <3>7, AluComputes
      <4> QED BY <2>2, <3>4, <4>1 DEF Arith!AluInStep
    <3>5. CASE fed[1].op = "or"
      <4>1. \A i \in 0 .. 3 : Arith!Bit(result_reg', i) = 1 <=>
                                Arith!Bit(fed'[2].a, i) = 1 \/ Arith!Bit(fed'[2].b, i) = 1
        BY <3>5, <3>6, <3>7, AluComputes
      <4> QED BY <2>2, <3>5, <4>1 DEF Arith!AluInStep
    <3> QED BY <2>3, <3>2, <3>3, <3>4, <3>5 DEF Arith!Ops
  <2> QED BY <1>2, <2>2, <2>4, <2>5 DEF Arith!Edge, ArithInv, Arith!InStep
<1> QED BY <1>1, <1>2 DEF Arith!Next

-----------------------------------------------------------------------------
(* The picture frame transmitter of homework 5 *)

\* Remainders: division, the remainder it leaves, and a sum one of whose terms is
\* reduced already.
LEMMA Division ==
  ASSUME NEW m \in Nat \ {0}, NEW x \in Nat
  PROVE  \E q \in Nat, r \in 0 .. m - 1 : x = m * q + r
<1> DEFINE q == x \div m
<1>1. x % m \in 0 .. m - 1
  OBVIOUS
<1>2. q \in Int /\ x = m * q + (x % m)
  OBVIOUS
<1>3. q >= 0
  <2> HIDE DEF q
  <2> SUFFICES ASSUME q <= -1 PROVE FALSE
    BY <1>2
  <2>1. m * (-1 - q) >= 0
    BY <1>2
  <2>2. m * (-1 - q) = -m - m * q
    BY <1>2
  <2> QED BY <1>1, <1>2, <2>1, <2>2
<1>4. q \in Nat
  BY <1>2, <1>3
<1> HIDE DEF q
<1> WITNESS q \in Nat, x % m \in 0 .. m - 1
<1> QED BY <1>2

LEMMA Remainder ==
  ASSUME NEW m \in Nat \ {0}, NEW q \in Nat, NEW r \in 0 .. m - 1
  PROVE  (m * q + r) % m = r
  OBVIOUS

LEMMA SumRemainder ==
  ASSUME NEW m \in Nat \ {0}, NEW x \in Nat, NEW y \in Nat
  PROVE  ((x % m) + y) % m = (x + y) % m
<1>1. PICK q \in Nat, r \in 0 .. m - 1 : x = m * q + r
  BY Division
<1>2. x % m = r
  BY <1>1, Remainder
<1>3. PICK p \in Nat, s \in 0 .. m - 1 : r + y = m * p + s
  <2>1. r + y \in Nat
    OBVIOUS
  <2> QED BY <2>1, Division
<1>4. (r + y) % m = s
  BY <1>3, Remainder
<1>5. x + y = m * (q + p) + s
  <2>1. m * (q + p) = m * q + m * p
    OBVIOUS
  <2> QED BY <1>1, <1>3, <2>1
<1>6. (m * (q + p) + s) % m = s
  <2>1. q + p \in Nat
    OBVIOUS
  <2> QED BY <2>1, Remainder
<1> QED BY <1>2, <1>4, <1>5, <1>6

\* The place of the first byte of the word in final_data, once a word was handed on.
Handed == IF pixel_counter = 0 THEN Frame!FrameBytes - 4 ELSE 4 * pixel_counter - 4

Pixels == {Frame!Pixel(k) : k \in 0 .. Frame!FrameBytes - 1}

FrameRegisters ==
  /\ words_counter \in 0 .. 3 /\ pixel_counter \in 0 .. WORDS_IN_PICTURE - 1
  /\ due \in 0 .. Frame!FrameBytes - 1 /\ falling \in Nat
  /\ data_valid \in BOOLEAN /\ ready \in BOOLEAN
  /\ fifo \in Seq(Pixels)

\* The two counters number the bytes, and the bytes of a word begun are in their places.
Packing ==
  /\ place = 4 * pixel_counter + words_counter
  /\ words_counter >= 1 => shift_data[4] = place - 1
  /\ words_counter >= 2 => shift_data[3] = place - 2
  /\ words_counter >= 3 => shift_data[2] = place - 3

\* A word that is offered is the one just completed, and the FIFO takes it.
Offer ==
  data_valid => /\ ready /\ words_counter = 0
                /\ [bytes |-> final_data, last |-> data_last] = Frame!Pixel(Handed)

\* A full FIFO that is still ready closes before the next word is complete.
ClosesInTime ==
  /\ Len(fifo) <= FIFO_DEPTH
  /\ ready /\ Len(fifo) = FIFO_DEPTH => ~data_valid /\ falling >= 1 /\ words_counter + falling \in 0 .. 3

\* The word that follows those in the FIFO.
Following == (due + 4 * Len(fifo)) % Frame!FrameBytes

FrameInv ==
  /\ FrameRegisters /\ Packing /\ Offer /\ ClosesInTime
  /\ Following = IF data_valid THEN Handed ELSE 4 * pixel_counter
  /\ Frame!FrameOrder

LEMMA FrameInit == Frame!Init => FrameInv
<1> SUFFICES ASSUME Frame!Init PROVE FrameInv
  OBVIOUS
<1>1. ~data_valid /\ ~ready /\ data_valid \in BOOLEAN /\ ready \in BOOLEAN
  BY Zenon DEF Frame!Init
<1>2. /\ words_counter = 0 /\ pixel_counter = 0 /\ due = 0 /\ falling = 0 /\ place = 0
      /\ fifo = <<>> /\ Len(fifo) = 0
  BY DEF Frame!Init
<1>3. 0 % (4 * WORDS_IN_PICTURE) = 0
  BY BoardAssumption
<1> QED BY <1>1, <1>2, <1>3, BoardAssumption DEF FrameInv, FrameRegisters, Packing, Offer, ClosesInTime,
     Following, Frame!FrameOrder, Frame!FrameBytes

LEMMA FrameReset == Frame!Reset => FrameInv'
<1> SUFFICES ASSUME Frame!Reset PROVE FrameInv'
  OBVIOUS
<1>1. ~data_valid' /\ ~ready' /\ data_valid' \in BOOLEAN /\ ready' \in BOOLEAN
  BY Zenon DEF Frame!Reset
<1>2. /\ words_counter' = 0 /\ pixel_counter' = 0 /\ due' = 0 /\ falling' = 0 /\ place' = 0
      /\ fifo' = <<>> /\ Len(fifo') = 0
  BY DEF Frame!Reset
<1>3. 0 % (4 * WORDS_IN_PICTURE) = 0
  BY BoardAssumption
<1> QED BY <1>1, <1>2, <1>3, BoardAssumption DEF FrameInv, FrameRegisters, Packing, Offer, ClosesInTime,
     Following, Frame!FrameOrder, Frame!FrameBytes

LEMMA FrameRead == FrameInv /\ Frame!Read => FrameInv'
<1> SUFFICES ASSUME FrameInv, Frame!Read PROVE FrameInv'
  OBVIOUS
<1> DEFINE m == Frame!FrameBytes
<1>1. m \in Nat \ {0} /\ m >= 4
  BY BoardAssumption DEF Frame!FrameBytes
<1>2. /\ fifo' = Tail(fifo) /\ Len(fifo') = Len(fifo) - 1 /\ fifo' \in Seq(Pixels)
      /\ Len(fifo) \in Nat \ {0}
      /\ \A i \in 1 .. Len(fifo') : fifo'[i] = fifo[i + 1]
  BY DEF Frame!Read, FrameInv, FrameRegisters
<1>3. due \in Nat /\ due' = (due + 4) % m
  BY DEF Frame!Read, FrameInv, FrameRegisters
<1>4. \A y \in Nat : (due' + y) % m = (due + 4 + y) % m
  <2>1. due + 4 \in Nat
    BY <1>3
  <2> HIDE DEF m
  <2> QED BY <1>1, <1>3, <2>1, SumRemainder
<1>5. due' \in 0 .. m - 1
  BY <1>1, <1>3
<1>6. Following' = Following
  <2>1. 4 * Len(fifo') \in Nat /\ due + 4 + 4 * Len(fifo') = due + 4 * Len(fifo)
    BY <1>2, <1>3
  <2>2. Following' = (due + 4 + 4 * Len(fifo')) % m
    BY <1>4, <2>1 DEF Following, Frame!FrameBytes
  <2> QED BY <2>1, <2>2 DEF Following
<1>7. Frame!FrameOrder'
  <2> SUFFICES ASSUME NEW i \in 1 .. Len(fifo')
               PROVE  fifo'[i] = Frame!Pixel((due' + 4 * (i - 1)) % m)
    BY DEF Frame!FrameOrder, Frame!Pixel, Frame!FrameBytes
  <2>1. i + 1 \in 1 .. Len(fifo) /\ 4 * (i - 1) \in Nat /\ due + 4 + 4 * (i - 1) = due + 4 * ((i + 1) - 1)
    BY <1>2, <1>3
  <2>2. (due' + 4 * (i - 1)) % m = (due + 4 * ((i + 1) - 1)) % m
    BY <1>4, <2>1
  <2>3. fifo[i + 1] = Frame!Pixel((due + 4 * ((i + 1) - 1)) % m)
    BY <2>1 DEF FrameInv, Frame!FrameOrder
  <2> QED BY <1>2, <2>2, <2>3
<1>8. UNCHANGED <<shift_data, final_data, data_valid, data_last, words_counter, pixel_counter, ready, falling, place>>
  BY DEF Frame!Read, Frame!txVars
<1>9. FrameRegisters' /\ Packing' /\ Offer' /\ ClosesInTime'
  <2>1. FrameRegisters' /\ Packing'
    BY <1>2, <1>5, <1>8 DEF FrameInv, FrameRegisters, Packing
  <2>2. Handed' = Handed
    BY <1>8 DEF Handed
  <2>3. Offer'
    BY <1>8, <2>2 DEF FrameInv, Offer, Frame!Pixel
  <2>4. ClosesInTime'
    <3>1. Len(fifo) <= FIFO_DEPTH
      BY DEF FrameInv, ClosesInTime
    <3>2. Len(fifo') < FIFO_DEPTH /\ FIFO_DEPTH \in Nat /\ Len(fifo') \in Nat
      BY <1>2, <3>1, BoardAssumption
    <3>3. Len(fifo') <= FIFO_DEPTH /\ Len(fifo') # FIFO_DEPTH
      BY <3>2
    <3> QED BY <3>3, Zenon DEF ClosesInTime
  <2> QED BY <2>1, <2>3, <2>4
<1> QED BY <1>6, <1>7, <1>8, <1>9 DEF FrameInv, Handed, Frame!FrameBytes

\* What the shift register and its counters do on an edge.
LEMMA FramePack ==
  ASSUME FrameInv, NEW enabled \in BOOLEAN, Frame!Pack(enabled)
  PROVE  /\ words_counter' \in 0 .. 3 /\ pixel_counter' \in 0 .. WORDS_IN_PICTURE - 1
         /\ data_valid' \in BOOLEAN /\ (data_valid' => ready /\ words_counter = 3)
         /\ words_counter # 3 => words_counter' \in {words_counter, words_counter + 1}
         /\ Packing'
         /\ data_valid' => /\ words_counter' = 0
                          /\ [bytes |-> final_data', last |-> data_last'] = Frame!Pixel(Handed')
                          /\ Handed' = 4 * pixel_counter
         /\ ~data_valid' => pixel_counter' = pixel_counter
<1> DEFINE m == Frame!FrameBytes
<1>1. m = 4 * WORDS_IN_PICTURE /\ WORDS_IN_PICTURE \in Nat \ {0}
  BY BoardAssumption DEF Frame!FrameBytes
<1>2. /\ words_counter \in 0 .. 3 /\ pixel_counter \in 0 .. WORDS_IN_PICTURE - 1
      /\ place = 4 * pixel_counter + words_counter
  BY DEF FrameInv, FrameRegisters, Packing
<1>3. CASE enabled /\ ready
  <2>1. /\ words_counter' = IF words_counter = 3 THEN 0 ELSE words_counter + 1
        /\ place' = IF place = m - 1 THEN 0 ELSE place + 1
    <3>1. words_counter' = (words_counter + 1) % 4 /\ place' = (place + 1) % m
      BY <1>3 DEF Frame!Pack
    <3>2. place \in 0 .. m - 1 /\ m \in Nat \ {0}
      BY <1>1, <1>2
    <3> QED BY <1>2, <3>1, <3>2
  <2>2. /\ data_valid' \in BOOLEAN /\ (data_valid' <=> words_counter = 3)
        /\ data_last' \in BOOLEAN
        /\ data_last' <=> words_counter = 3 /\ pixel_counter = WORDS_IN_PICTURE - 1
    BY <1>3, Zenon DEF Frame!Pack, Frame!WordComplete, Frame!LastPixel
  <2>3. /\ shift_data'[4] = place /\ shift_data'[3] = shift_data[4] /\ shift_data'[2] = shift_data[3]
        /\ shift_data'[1] = shift_data[2]
        /\ shift_data' = <<shift_data'[1], shift_data'[2], shift_data'[3], shift_data'[4]>>
    BY <1>3 DEF Frame!Pack, Frame!Shifted
  <2>4. CASE words_counter = 3
    <3>1. /\ final_data' = shift_data'
          /\ pixel_counter' = IF pixel_counter = WORDS_IN_PICTURE - 1 THEN 0 ELSE pixel_counter + 1
      BY <1>3, <2>4 DEF Frame!Pack, Frame!WordComplete, Frame!LastPixel
    <3>2. Handed' = 4 * pixel_counter
      BY <1>1, <1>2, <3>1 DEF Handed
    <3>3. final_data' = <<place - 3, place - 2, place - 1, place>>
      BY <2>3, <2>4, <3>1 DEF FrameInv, Packing
    <3>4. data_last' = (4 * pixel_counter = m - 4)
      BY <1>1, <1>2, <2>2, <2>4
    <3>5. [bytes |-> final_data', last |-> data_last'] = Frame!Pixel(4 * pixel_counter)
      BY <1>2, <2>4, <3>3, <3>4 DEF Frame!Pixel
    <3>6. place' = 4 * pixel_counter' /\ words_counter' = 0 /\ pixel_counter' \in 0 .. WORDS_IN_PICTURE - 1
      BY <1>1, <1>2, <2>1, <2>4, <3>1
    <3> QED BY <1>3, <2>2, <2>4, <3>2, <3>5, <3>6 DEF Packing
  <2>5. CASE words_counter # 3
    <3>1. pixel_counter' = pixel_counter
      BY <1>3, <2>5 DEF Frame!Pack, Frame!WordComplete
    <3>2. place' = place + 1 /\ words_counter' = words_counter + 1
      BY <1>1, <1>2, <2>1, <2>5
    <3>3. Packing'
      BY <1>2, <2>3, <2>5, <3>1, <3>2 DEF FrameInv, Packing
    <3> QED BY <1>2, <2>2, <2>5, <3>1, <3>2, <3>3
  <2> QED BY <2>4, <2>5
<1>4. CASE ~(enabled /\ ready)
  <2>1. ~data_valid' /\ data_valid' \in BOOLEAN
    BY <1>4, Zenon DEF Frame!Pack
  <2>2. UNCHANGED <<shift_data, words_counter, pixel_counter, place>>
    BY <1>4 DEF Frame!Pack
  <2> QED BY <1>2, <2>1, <2>2 DEF FrameInv, Packing
<1> QED BY <1>3, <1>4

\* What the FIFO holds after an edge, and that it closes in time.
LEMMA FrameFifo ==
  ASSUME FrameInv, NEW enabled \in BOOLEAN, Frame!ExternalEdge(enabled)
  PROVE  /\ fifo' = IF data_valid THEN Append(fifo, Frame!Pixel(Handed)) ELSE fifo
         /\ falling' \in Nat /\ ready' \in BOOLEAN
         /\ data_valid' => ready'
         /\ ClosesInTime'
<1>1. /\ words_counter \in 0 .. 3 /\ fifo \in Seq(Pixels) /\ falling \in Nat
      /\ data_valid \in BOOLEAN /\ ready \in BOOLEAN
      /\ data_valid => /\ ready /\ words_counter = 0
                      /\ [bytes |-> final_data, last |-> data_last] = Frame!Pixel(Handed)
  BY DEF FrameInv, FrameRegisters, Offer
<1>2. Len(fifo) \in Nat /\ Len(fifo) <= FIFO_DEPTH /\ FIFO_DEPTH \in Nat \ {0}
  BY <1>1, BoardAssumption DEF FrameInv, ClosesInTime
<1>3. ready /\ Len(fifo) = FIFO_DEPTH => ~data_valid /\ falling >= 1 /\ words_counter + falling \in 0 .. 3
  BY DEF FrameInv, ClosesInTime
<1>4. /\ words_counter' \in 0 .. 3
      /\ data_valid' \in BOOLEAN /\ (data_valid' => ready /\ words_counter = 3)
      /\ words_counter # 3 => words_counter' \in {words_counter, words_counter + 1}
  BY FramePack DEF Frame!ExternalEdge
<1>5. fifo' = IF data_valid THEN Append(fifo, Frame!Pixel(Handed)) ELSE fifo
  BY <1>1 DEF Frame!ExternalEdge, Frame!FifoWrite
<1>6. Len(fifo') = (IF data_valid THEN Len(fifo) + 1 ELSE Len(fifo)) /\ Len(fifo') <= FIFO_DEPTH
  <2>1. Frame!Pixel(Handed) \in Pixels \cup {Frame!Pixel(Handed)}
    OBVIOUS
  <2>2. fifo \in Seq(Pixels \cup {Frame!Pixel(Handed)})
    BY <1>1
  <2> QED BY <1>1, <1>2, <1>3, <1>5, <2>1, <2>2
<1>7. \/ Len(fifo') < FIFO_DEPTH /\ ready' \in {ready, TRUE} /\ falling' = 0
      \/ /\ Len(fifo') >= FIFO_DEPTH /\ ready
         /\ \E wait \in IF data_valid THEN 0 .. SLACK ELSE {falling - 1} : falling' = wait /\ ready' = (wait # 0)
      \/ Len(fifo') >= FIFO_DEPTH /\ ~ready /\ ready' = ready /\ falling' = falling
  BY <1>1 DEF Frame!ExternalEdge, Frame!FifoWrite
<1>8. CASE Len(fifo') < FIFO_DEPTH
  <2>1. ~(Len(fifo') >= FIFO_DEPTH)
    BY <1>2, <1>6, <1>8
  <2>2. ready' \in {ready, TRUE} /\ falling' = 0
    BY <1>7, <2>1, Zenon
  <2>3. ready' \in BOOLEAN /\ (ready => ready')
    BY <1>1, <2>2
  <2> QED BY <1>2, <1>4, <1>5, <1>6, <1>8, <2>2, <2>3 DEF ClosesInTime
<1>9. CASE Len(fifo') >= FIFO_DEPTH /\ ready
  <2>1. ~(Len(fifo') < FIFO_DEPTH)
    BY <1>2, <1>6, <1>9
  <2>2. PICK wait : /\ wait \in IF data_valid THEN 0 .. SLACK ELSE {falling - 1}
                    /\ falling' = wait /\ ready' = (wait # 0)
    BY <1>7, <1>9, <2>1, Zenon
  <2>3. ready' \in BOOLEAN /\ (ready' <=> wait # 0) /\ falling' = wait
    BY <2>2, Zenon
  <2>4. CASE data_valid
    <3>1. wait \in 0 .. 2
      BY <2>2, <2>4, BoardAssumption
    <3>2. words_counter = 0 /\ words_counter' \in {0, 1} /\ ~data_valid'
      BY <1>1, <1>4, <2>4
    <3>3. ready' => falling' >= 1 /\ words_counter' + falling' \in 0 .. 3
      <4>1. falling' \in 0 .. 2 /\ (ready' => falling' # 0) /\ words_counter' \in {0, 1}
        BY <2>3, <3>1, <3>2
      <4>2. words_counter' + falling' \in 0 .. 3
        <5>1. falling' \in 0 .. 2 /\ (words_counter' = 0 \/ words_counter' = 1)
          BY <4>1
        <5> QED BY <5>1
      <4>3. ready' => falling' >= 1
        BY <4>1
      <4> QED BY <4>2, <4>3
    <3>4. ClosesInTime'
      BY <1>6, <3>2, <3>3, Zenon DEF ClosesInTime
    <3> QED BY <1>5, <2>3, <3>1, <3>2, <3>4
  <2>5. CASE ~data_valid
    <3>1. Len(fifo') = Len(fifo) /\ Len(fifo) = FIFO_DEPTH
      BY <1>2, <1>6, <1>9, <2>5
    <3>2. wait = falling - 1 /\ falling >= 1 /\ words_counter + falling \in 0 .. 3
      BY <1>3, <1>9, <2>2, <2>5, <3>1
    <3>3. wait \in Nat /\ words_counter < 3
      BY <1>1, <3>2
    <3>4. words_counter' + wait \in 0 .. 3
      <4>1. words_counter' \in {words_counter, words_counter + 1}
        BY <1>1, <1>4, <3>3
      <4>2. words_counter + wait <= 2 /\ wait \in Nat /\ words_counter \in Nat
        BY <1>1, <3>2
      <4>3. CASE words_counter' = words_counter
        BY <4>2, <4>3
      <4>4. CASE words_counter' = words_counter + 1
        BY <4>2, <4>4
      <4> QED BY <4>1, <4>3, <4>4
    <3>5. ~data_valid'
      BY <1>1, <1>4, <3>3
    <3>6. ready' => falling' >= 1 /\ words_counter' + falling' \in 0 .. 3
      BY <2>3, <3>3, <3>4
    <3>7. ClosesInTime'
      BY <1>6, <3>5, <3>6, Zenon DEF ClosesInTime
    <3> QED BY <1>5, <2>3, <3>3, <3>5, <3>7
  <2> QED BY <2>4, <2>5
<1>10. CASE Len(fifo') >= FIFO_DEPTH /\ ~ready
  <2>1. ~(Len(fifo') < FIFO_DEPTH)
    BY <1>2, <1>6, <1>10
  <2>2. ready' = ready /\ falling' = falling
    BY <1>7, <1>10, <2>1, Zenon
  <2>3. ~ready' /\ ready' \in BOOLEAN
    BY <1>1, <1>10, <2>2
  <2> QED BY <1>1, <1>4, <1>5, <1>6, <1>10, <2>2, <2>3 DEF ClosesInTime
<1> QED BY <1>2, <1>6, <1>8, <1>9, <1>10

LEMMA FrameExternal ==
  ASSUME FrameInv, NEW enabled \in BOOLEAN, Frame!ExternalEdge(enabled)
  PROVE  FrameInv'
<1> DEFINE m == Frame!FrameBytes
<1>1. m = 4 * WORDS_IN_PICTURE /\ WORDS_IN_PICTURE \in Nat \ {0} /\ m \in Nat \ {0}
  BY BoardAssumption DEF Frame!FrameBytes
<1>2. /\ pixel_counter \in 0 .. WORDS_IN_PICTURE - 1 /\ pixel_counter' \in 0 .. WORDS_IN_PICTURE - 1
      /\ due \in 0 .. m - 1 /\ due' = due /\ fifo \in Seq(Pixels) /\ data_valid \in BOOLEAN
  BY FramePack DEF Frame!ExternalEdge, FrameInv, FrameRegisters
<1>3. Following = IF data_valid THEN Handed ELSE 4 * pixel_counter
  BY DEF FrameInv
<1>4. Handed \in 0 .. m - 1 /\ (Handed + 4) % m = 4 * pixel_counter
  BY <1>1, <1>2 DEF Handed
<1>5. /\ fifo' \in Seq(Pixels)
      /\ Len(fifo') = IF data_valid THEN Len(fifo) + 1 ELSE Len(fifo)
      /\ \A i \in 1 .. Len(fifo) : fifo'[i] = fifo[i]
      /\ data_valid => fifo'[Len(fifo) + 1] = Frame!Pixel(Handed)
  <2>1. Frame!Pixel(Handed) \in Pixels
    BY <1>4 DEF Pixels
  <2> QED BY <1>2, <2>1, FrameFifo
<1>6. Len(fifo) \in Nat
  BY <1>2
<1>7. Following' = 4 * pixel_counter
  <2>1. CASE data_valid
    <3> DEFINE x == due + 4 * Len(fifo)
    <3>1. x \in Nat /\ due' + 4 * Len(fifo') = x + 4 /\ x % m = Handed
      BY <1>2, <1>3, <1>5, <1>6, <2>1 DEF Following
    <3>2. Following' = (x + 4) % m
      BY <3>1 DEF Following
    <3> HIDE DEF x, m
    <3>3. (x + 4) % m = ((x % m) + 4) % m
      BY <1>1, <3>1, SumRemainder
    <3> QED BY <1>4, <3>1, <3>2, <3>3 DEF m
  <2>2. CASE ~data_valid
    BY <1>2, <1>3, <1>5, <2>2 DEF Following
  <2> QED BY <2>1, <2>2
<1>8. Following' = IF data_valid' THEN Handed' ELSE 4 * pixel_counter'
  BY <1>7, FramePack DEF Frame!ExternalEdge
<1>9. Frame!FrameOrder'
  <2>1. SUFFICES ASSUME NEW i \in 1 .. Len(fifo')
                 PROVE  fifo'[i] = Frame!Pixel((due + 4 * (i - 1)) % m)
    BY <1>2 DEF Frame!FrameOrder, Frame!Pixel, Frame!FrameBytes
  <2>2. CASE i \in 1 .. Len(fifo)
    <3>1. fifo[i] = Frame!Pixel((due + 4 * (i - 1)) % m)
      BY <2>2 DEF FrameInv, Frame!FrameOrder
    <3> QED BY <1>5, <2>2, <3>1
  <2>3. CASE i \notin 1 .. Len(fifo)
    <3>1. data_valid /\ i = Len(fifo) + 1
      BY <1>5, <1>6, <2>3
    <3>2. (due + 4 * (i - 1)) % m = Handed
      BY <1>2, <1>3, <1>6, <3>1 DEF Following
    <3> QED BY <1>5, <3>1, <3>2
  <2> QED BY <2>2, <2>3
<1>10. FrameRegisters' /\ Packing' /\ Offer' /\ ClosesInTime'
  <2>1. FrameRegisters'
    BY <1>2, <1>5, FramePack, FrameFifo DEF Frame!ExternalEdge, FrameRegisters, Frame!FrameBytes
  <2>2. Packing' /\ Offer' /\ ClosesInTime'
    BY FramePack, FrameFifo DEF Frame!ExternalEdge, Offer
  <2> QED BY <2>1, <2>2
<1> QED BY <1>8, <1>9, <1>10 DEF FrameInv

LEMMA FrameStep == FrameInv /\ Frame!Next => FrameInv'
  BY FrameReset, FrameRead, FrameExternal DEF Frame!Next

-----------------------------------------------------------------------------
(* The moving maximum of homework 7 *)

\* Every set of natural numbers has a least one: the induction over data of this part.
LEMMA LeastNat ==
  ASSUME NEW T, T \subseteq Nat, T # {}
  PROVE  \E k \in T : \A j \in T : k <= j
<1> DEFINE R == OpToRel(<, Nat)
<1>1. IsWellFoundedOn(R, Nat)
  BY NatLessThanWellFounded
<1>2. PICK k \in T : \A j \in T : <<j, k>> \notin R
  <2> HIDE DEF R
  <2> QED BY <1>1, WFMin
<1>3. \A j \in T : ~(j < k)
  BY <1>2, Zenon DEF OpToRel
<1> QED BY <1>3

\* The loops of the code and of its test bench, in one form: the maximum so far of v, from lo on.
SoFar(f, v, lo, hi) ==
  f = [i \in lo .. hi |-> IF i = lo THEN v[lo] ELSE IF v[i] > f[i - 1] THEN v[i] ELSE f[i - 1]]

Running(v, lo, hi) == CHOOSE f : SoFar(f, v, lo, hi)

LEMMA RunningExists ==
  ASSUME NEW v, NEW lo \in Nat, NEW hi \in Nat, lo <= hi
  PROVE  SoFar(Running(v, lo, hi), v, lo, hi)
<1> DEFINE T == {k \in lo .. hi : ~\E f : SoFar(f, v, lo, k)}
<1>1. T = {}
  <2> SUFFICES ASSUME T # {} PROVE FALSE
    OBVIOUS
  <2>1. PICK k \in T : \A j \in T : k <= j
    <3>1. T \subseteq Nat
      OBVIOUS
    <3> QED BY <3>1, LeastNat
  <2>2. k \in lo .. hi /\ ~\E f : SoFar(f, v, lo, k)
    OBVIOUS
  <2>3. CASE k = lo
    <3>1. SoFar([i \in lo .. lo |-> v[lo]], v, lo, lo)
      BY DEF SoFar
    <3> QED BY <2>2, <2>3, <3>1
  <2>4. CASE k # lo
    <3>1. k - 1 \in lo .. hi /\ k - 1 \notin T
      BY <2>1, <2>2, <2>4
    <3>2. PICK f : SoFar(f, v, lo, k - 1)
      BY <3>1
    <3> DEFINE g == [i \in lo .. k |->
                       IF i = k THEN IF v[k] > f[k - 1] THEN v[k] ELSE f[k - 1] ELSE f[i]]
    <3>3. \A i \in lo .. k - 1 : g[i] = f[i]
      BY <2>2
    <3>4. ASSUME NEW i \in lo .. k
          PROVE  g[i] = IF i = lo THEN v[lo] ELSE IF v[i] > g[i - 1] THEN v[i] ELSE g[i - 1]
      <4>1. CASE i = k
        <5>1. g[k - 1] = f[k - 1]
          BY <2>2, <2>4, <3>3
        <5> QED BY <2>4, <4>1, <5>1
      <4>2. CASE i # k
        <5>1. i \in lo .. k - 1 /\ g[i] = f[i]
          BY <2>2, <4>2
        <5>2. f[i] = IF i = lo THEN v[lo] ELSE IF v[i] > f[i - 1] THEN v[i] ELSE f[i - 1]
          BY <3>2, <5>1, Zenon DEF SoFar
        <5>3. i # lo => g[i - 1] = f[i - 1]
          BY <3>3, <5>1
        <5> HIDE DEF g
        <5> QED BY <5>1, <5>2, <5>3
      <4> QED BY <4>1, <4>2
    <3>5. SoFar(g, v, lo, k)
      <4> DEFINE h == [i \in lo .. k |-> IF i = lo THEN v[lo] ELSE IF v[i] > g[i - 1] THEN v[i] ELSE g[i - 1]]
      <4>1. g = h
        <5>1. \A i \in lo .. k : g[i] = h[i]
          BY <3>4, Zenon
        <5> QED BY <5>1
      <4> QED BY <4>1, Zenon DEF SoFar
    <3> QED BY <2>2, <3>5
  <2> QED BY <2>3, <2>4
<1>2. \E f : SoFar(f, v, lo, hi)
  <2>1. hi \in lo .. hi
    OBVIOUS
  <2> QED BY <1>1, <2>1
<1> QED BY <1>2, Zenon DEF Running

\* What such a loop leaves behind is one of the values it has seen, and none is above it.
LEMMA RunningIsMax ==
  ASSUME NEW v, NEW lo \in Nat, NEW hi \in Nat, lo <= hi,
         \A i \in lo .. hi : v[i] \in Int
  PROVE  /\ \E j \in lo .. hi : Running(v, lo, hi)[hi] = v[j]
         /\ \A j \in lo .. hi : v[j] <= Running(v, lo, hi)[hi]
<1> DEFINE f == Running(v, lo, hi)
           Good(k) == /\ \E j \in lo .. k : f[k] = v[j]
                      /\ \A j \in lo .. k : v[j] <= f[k]
           T == {k \in lo .. hi : ~Good(k)}
<1>1. \A i \in lo .. hi : f[i] = IF i = lo THEN v[lo] ELSE IF v[i] > f[i - 1] THEN v[i] ELSE f[i - 1]
  <2>1. SoFar(f, v, lo, hi)
    BY RunningExists
  <2> HIDE DEF f
  <2> QED BY <2>1, Zenon DEF SoFar
<1> HIDE DEF f
<1>2. T = {}
  <2> SUFFICES ASSUME T # {} PROVE FALSE
    OBVIOUS
  <2>1. PICK k \in T : \A j \in T : k <= j
    <3>1. T \subseteq Nat
      OBVIOUS
    <3> QED BY <3>1, LeastNat
  <2>2. k \in lo .. hi /\ ~Good(k)
    OBVIOUS
  <2>3. CASE k = lo
    <3>1. f[k] = v[lo]
      BY <1>1, <2>2, <2>3
    <3> QED BY <2>2, <2>3, <3>1
  <2>4. CASE k # lo
    <3>1. k - 1 \in lo .. hi /\ Good(k - 1)
      <4>1. k - 1 \in lo .. hi /\ k - 1 \notin T
        BY <2>1, <2>2, <2>4
      <4> QED BY <4>1
    <3>2. f[k] = IF v[k] > f[k - 1] THEN v[k] ELSE f[k - 1]
      BY <1>1, <2>2, <2>4
    <3>3. f[k - 1] \in Int /\ v[k] \in Int
      BY <2>2, <3>1
    <3>4. \E j \in lo .. k : f[k] = v[j]
      BY <2>2, <3>1, <3>2
    <3>5. ASSUME NEW j \in lo .. k
          PROVE  v[j] <= f[k]
      <4>1. CASE j = k
        BY <3>2, <3>3, <4>1
      <4>2. CASE j # k
        <5>1. j \in lo .. k - 1 /\ v[j] \in Int
          BY <2>2, <4>2
        <5>2. v[j] <= f[k - 1]
          BY <3>1, <5>1
        <5> QED BY <3>2, <3>3, <5>1, <5>2
      <4> QED BY <4>1, <4>2
    <3> QED BY <2>2, <3>4, <3>5
  <2> QED BY <2>3, <2>4
<1>3. Good(hi)
  <2>1. hi \in lo .. hi
    OBVIOUS
  <2> QED BY <1>2, <2>1
<1> QED BY <1>3 DEF f

LEMMA LoopIsRunning ==
  ASSUME NEW w
  PROVE  Max!MaxLoop(w) = Running(w, 0, WINDOW - 1)[WINDOW - 1]
  BY Zenon DEF Max!MaxLoop, Max!Places, Running, SoFar

LEMMA ReferenceIsRunning ==
  ASSUME NEW s, NEW reach, reach = IF Len(s) < WINDOW THEN Len(s) ELSE WINDOW
  PROVE  Max!Reference(s) = Running(s, 1, reach)[reach]
  BY Zenon DEF Max!Reference, Running, SoFar

\* The window holds the samples of this call, newest first, and below them what the
\* call has cleared it to.
HoldsTheNewest ==
  window = [k \in Max!Places |-> IF k < n THEN heard[k + 1] ELSE INT_MIN]

MaxInv ==
  /\ n \in Nat /\ heard \in Seq(Values) /\ Len(heard) = n
  /\ HoldsTheNewest
  /\ Max!OutIsMax

LEMMA LoopMeetsReference ==
  ASSUME NEW s \in Seq(Values), Len(s) > 0,
         NEW w, w = [k \in Max!Places |-> IF k < Len(s) THEN s[k + 1] ELSE INT_MIN]
  PROVE  Max!MaxLoop(w) = Max!Reference(s)
<1> DEFINE reach == IF Len(s) < WINDOW THEN Len(s) ELSE WINDOW
           x == Running(w, 0, WINDOW - 1)[WINDOW - 1]
           y == Running(s, 1, reach)[reach]
<1>1. /\ WINDOW \in Nat /\ 0 <= WINDOW - 1 /\ WINDOW - 1 \in Nat
      /\ Values \subseteq Int /\ INT_MIN \in Int /\ \A z \in Values : INT_MIN <= z
  BY BoardAssumption
<1>2. Len(s) \in Nat /\ reach \in Nat /\ 1 <= reach /\ reach <= Len(s) /\ reach <= WINDOW
  BY <1>1
<1>3. \A k \in 0 .. WINDOW - 1 : w[k] = IF k < Len(s) THEN s[k + 1] ELSE INT_MIN
  BY DEF Max!Places
<1>4. \A i \in 1 .. reach : s[i] \in Values /\ s[i] \in Int /\ i - 1 \in 0 .. WINDOW - 1 /\ w[i - 1] = s[i]
  <2> SUFFICES ASSUME NEW i \in 1 .. reach
               PROVE  s[i] \in Values /\ s[i] \in Int /\ i - 1 \in 0 .. WINDOW - 1 /\ w[i - 1] = s[i]
    OBVIOUS
  <2>1. i \in 1 .. Len(s) /\ i - 1 \in 0 .. WINDOW - 1 /\ i - 1 < Len(s) /\ (i - 1) + 1 = i
    BY <1>1, <1>2
  <2>2. w[i - 1] = s[(i - 1) + 1]
    BY <1>3, <2>1
  <2>3. s[i] \in Values
    BY <2>1
  <2> QED BY <1>1, <2>1, <2>2, <2>3
<1>5. ASSUME NEW k \in 0 .. WINDOW - 1
      PROVE  (k + 1 \in 1 .. reach /\ w[k] = s[k + 1]) \/ w[k] = INT_MIN
  BY <1>1, <1>2, <1>3
<1>6. \A k \in 0 .. WINDOW - 1 : w[k] \in Int
  BY <1>1, <1>4, <1>5
<1>7. (\E j \in 0 .. WINDOW - 1 : x = w[j]) /\ (\A j \in 0 .. WINDOW - 1 : w[j] <= x)
  <2>1. 0 \in Nat
    OBVIOUS
  <2> QED BY <1>1, <1>6, <2>1, RunningIsMax
<1>8. (\E j \in 1 .. reach : y = s[j]) /\ (\A j \in 1 .. reach : s[j] <= y)
  <2>1. 1 \in Nat /\ \A i \in 1 .. reach : s[i] \in Int
    BY <1>4
  <2> HIDE DEF reach
  <2> QED BY <1>2, <2>1, RunningIsMax
<1>9. Max!MaxLoop(w) = x /\ Max!Reference(s) = y
  BY LoopIsRunning, ReferenceIsRunning
<1> HIDE DEF x, y, reach
<1>10. x \in Int /\ y \in Int /\ y \in Values
  BY <1>4, <1>6, <1>7, <1>8
<1>11. y <= x
  BY <1>4, <1>7, <1>8
<1>12. x <= y
  BY <1>1, <1>5, <1>7, <1>8, <1>10
<1> QED BY <1>9, <1>10, <1>11, <1>12

LEMMA MaxInit == Max!Init => MaxInv
  BY DEF Max!Init, MaxInv, HoldsTheNewest, Max!OutIsMax, Max!Places

LEMMA MaxStep == MaxInv /\ Max!Next => MaxInv'
<1> SUFFICES ASSUME MaxInv, Max!Next PROVE MaxInv'
  OBVIOUS
<1>1. CASE Max!Call
  BY <1>1 DEF Max!Call, MaxInv, HoldsTheNewest, Max!OutIsMax, Max!Places
<1>2. ASSUME NEW x \in Values, Max!Sample(x)
      PROVE  MaxInv'
  <2>1. /\ heard' \in Seq(Values) /\ Len(heard') = n + 1 /\ n \in Nat
        /\ heard'[1] = x /\ \A i \in 1 .. n : heard'[i + 1] = heard[i]
    BY <1>2 DEF Max!Sample, MaxInv
  <2>2. n' = n + 1
    BY <1>2 DEF Max!Sample
  <2>3. HoldsTheNewest'
    <3>1. window' = [k \in Max!Places |-> IF k = 0 THEN x ELSE window[k - 1]]
      BY <1>2 DEF Max!Sample, Max!Shift
    <3>2. ASSUME NEW k \in Max!Places
          PROVE  (IF k = 0 THEN x ELSE window[k - 1]) = IF k < n' THEN heard'[k + 1] ELSE INT_MIN
      <4>1. CASE k = 0
        BY <2>1, <2>2, <4>1
      <4>2. CASE k # 0
        <5>1. k - 1 \in Max!Places /\ k \in Nat
          BY <4>2, BoardAssumption DEF Max!Places
        <5>2. window[k - 1] = IF k - 1 < n THEN heard[k] ELSE INT_MIN
          BY <5>1 DEF MaxInv, HoldsTheNewest
        <5>3. k - 1 < n => k \in 1 .. n
          BY <2>1, <4>2, <5>1
        <5> QED BY <2>1, <2>2, <4>2, <5>1, <5>2, <5>3
      <4> QED BY <4>1, <4>2
    <3> QED BY <3>1, <3>2 DEF HoldsTheNewest
  <2>4. Max!OutIsMax'
    <3>1. out_data' = Max!MaxLoop(window')
      BY <1>2 DEF Max!Sample
    <3>2. Max!MaxLoop(window') = Max!Reference(heard')
      BY <2>1, <2>2, <2>3, LoopMeetsReference DEF HoldsTheNewest
    <3> QED BY <3>1, <3>2 DEF Max!OutIsMax, Max!Reference
  <2> QED BY <2>1, <2>2, <2>3, <2>4 DEF MaxInv
<1> QED BY <1>1, <1>2 DEF Max!Next

-----------------------------------------------------------------------------
(* The board *)

\* The lock stays shut whatever is entered: its invariant says of bit 1 why the second
\* digit of the code is never followed at once by the third.
THEOREM LockHolds == Spec => []LockInv
<1> DEFINE I == bitstream = "lock" => TheLock!LockInv
<1>1. Init => I
  BY LockInit DEF Init
<1>2. I /\ [Next]_vars => I'
  <2> SUFFICES ASSUME I, [Next]_vars PROVE I'
    OBVIOUS
  <2>1. CASE Locks
    BY <2>1, LockStep DEF Locks
  <2>2. CASE UNCHANGED <<bitstream, lockVars>>
    BY <2>2 DEF lockVars, TheLock!LockInv, TheLock!TypeOK, TheLock!JustFell, TheLock!NeverOpens
  <2> QED
    BY <2>1, <2>2 DEF Next, vars, Blinks, Calculates, Remembers, Transmits, Filters
<1>3. I => LockInv
  BY DEF LockInv
<1> QED BY <1>1, <1>2, <1>3, PTL DEF Spec

\* Bursts of the RAM land and arrive word by word, for a memory of any depth, bursts of
\* any length and a master that pauses anywhere.
THEOREM BurstsHold == Spec => []BurstsInOrder
<1> DEFINE I == bitstream = "ram" => RamInv
<1>1. Init => I
  BY RamInit DEF Init
<1>2. I /\ [Next]_vars => I'
  <2> SUFFICES ASSUME I, [Next]_vars PROVE I'
    OBVIOUS
  <2>1. CASE Remembers
    BY <2>1, RamStep DEF Remembers
  <2>2. CASE UNCHANGED <<bitstream, ramVars>>
    BY <2>2 DEF ramVars, RamInv, RamCounters, ReadAhead, Ram!BurstsInOrder, Ram!WritesLand, Ram!BeatsInOrder, Ram!Step
  <2> QED
    BY <2>1, <2>2 DEF Next, vars, Blinks, Locks, Calculates, Transmits, Filters
<1>3. I => BurstsInOrder
  BY DEF BurstsInOrder, RamInv
<1> QED BY <1>1, <1>2, <1>3, PTL DEF Spec

\* Result and operands of the pipelines belong together, for all operands of four bits.
THEOREM ArithmeticHolds == Spec => []InStep
<1> DEFINE I == bitstream = "arithmetic" => ArithInv
<1>1. Init => I
  BY ArithInit DEF Init
<1>2. I /\ [Next]_vars => I'
  <2> SUFFICES ASSUME I, [Next]_vars PROVE I'
    OBVIOUS
  <2>1. CASE Calculates
    BY <2>1, ArithStep DEF Calculates
  <2>2. CASE UNCHANGED <<bitstream, arithVars>>
    BY <2>2 DEF arithVars, ArithInv, Arith!InStep, Arith!AluInStep, Arith!SumsInStep, Arith!Squares
  <2> QED
    BY <2>1, <2>2 DEF Next, vars, Blinks, Locks, Remembers, Transmits, Filters
<1>3. I => InStep
  BY DEF InStep, ArithInv
<1> QED BY <1>1, <1>2, <1>3, PTL DEF Spec

\* One toggle of the LED for a press, for a debouncer of any width and any bouncing.
THEOREM PressesHold == Spec => []OneTogglePerPress
<1> DEFINE I == bitstream = "blinker" => BlinkInv
<1>1. Init => I
  BY BlinkInit DEF Init
<1>2. I /\ [Next]_vars => I'
  <2> SUFFICES ASSUME I, [Next]_vars PROVE I'
    OBVIOUS
  <2>1. CASE Blinks
    BY <2>1, BlinkStep DEF Blinks
  <2>2. CASE UNCHANGED <<bitstream, blinkVars>>
    BY <2>2 DEF blinkVars, BlinkInv, CountsTheRun, Blink!OneTogglePerPress
  <2> QED
    BY <2>1, <2>2 DEF Next, vars, Locks, Calculates, Remembers, Transmits, Filters
<1>3. I => OneTogglePerPress
  BY DEF OneTogglePerPress, BlinkInv
<1> QED BY <1>1, <1>2, <1>3, PTL DEF Spec

\* The stream reads whole frames, for pictures of any size, a FIFO of any depth and one
\* that takes up to two clocks to lower its ready.
THEOREM FramesHold == Spec => []FrameOrder
<1> DEFINE I == bitstream = "frame_tx" => FrameInv
<1>1. Init => I
  BY FrameInit DEF Init
<1>2. I /\ [Next]_vars => I'
  <2> SUFFICES ASSUME I, [Next]_vars PROVE I'
    OBVIOUS
  <2>1. CASE Transmits
    BY <2>1, FrameStep DEF Transmits
  <2>2. CASE UNCHANGED <<bitstream, frameVars>>
    BY <2>2 DEF frameVars, FrameInv, FrameRegisters, Packing, Offer, ClosesInTime, Following, Handed, Frame!FrameOrder
  <2> QED
    BY <2>1, <2>2 DEF Next, vars, Blinks, Locks, Calculates, Remembers, Filters
<1>3. I => FrameOrder
  BY DEF FrameOrder, FrameInv
<1> QED BY <1>1, <1>2, <1>3, PTL DEF Spec

\* The loop over the window computes what the test bench's reference does, for windows,
\* calls and samples of any size, and also for the first samples of a call.
THEOREM MaximumHolds == Spec => []OutIsMax
<1> DEFINE I == bitstream = "moving_max" => MaxInv
<1>1. Init => I
  BY MaxInit DEF Init
<1>2. I /\ [Next]_vars => I'
  <2> SUFFICES ASSUME I, [Next]_vars PROVE I'
    OBVIOUS
  <2>1. CASE Filters
    BY <2>1, MaxStep DEF Filters
  <2>2. CASE UNCHANGED <<bitstream, maxVars>>
    BY <2>2 DEF maxVars, MaxInv, HoldsTheNewest, Max!OutIsMax
  <2> QED
    BY <2>1, <2>2 DEF Next, vars, Blinks, Locks, Calculates, Remembers, Transmits
<1>3. I => OutIsMax
  BY DEF OutIsMax, MaxInv
<1> QED BY <1>1, <1>2, <1>3, PTL DEF Spec
=============================================================================
