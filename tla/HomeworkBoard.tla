--------------------------- MODULE HomeworkBoard ---------------------------
(* The board of the homeworks: the bitstream that is loaded runs, the other *)
(* designs do not exist, and their registers have the value Unloaded.       *)
EXTENDS Integers, Sequences

CONSTANTS Unloaded, PERIOD, Operands, DEPTH, MEM_DEPTH, Bytes, MaxLen,
          WORDS_IN_PICTURE, FIFO_DEPTH, SLACK, WINDOW, N_SAMPLES, Values, INT_MIN

ASSUME BoardAssumption ==
  /\ PERIOD \in Nat /\ PERIOD >= 2
  /\ Operands \subseteq 0 .. 15 /\ 0 \in Operands /\ DEPTH \in Nat /\ DEPTH >= 3
  /\ MEM_DEPTH \in Nat \ {0} /\ MaxLen \in Nat /\ Bytes # {}
  /\ WORDS_IN_PICTURE \in Nat \ {0} /\ FIFO_DEPTH \in Nat \ {0} /\ SLACK \in 0 .. 2
  /\ WINDOW \in Nat \ {0} /\ N_SAMPLES \in Nat \ {0}
  /\ Values \subseteq Int /\ INT_MIN \in Int /\ \A v \in Values : INT_MIN <= v

VARIABLES
  bitstream,
  db, btn_prev, o_led, recent, steady, presses,
  lock_db, current_state, progress,
  a_r, b_r, op_r, result_reg, sum_comb, b_sqr, sum_pipe, fed,
  mem, wstate, waddr_cur, wburst_cnt, bvalid, rstate, raddr_cur, rburst_cnt, rvalid, rlast,
  rready, shown, wr, rd, intent,
  shift_data, final_data, data_valid, data_last, words_counter, pixel_counter,
  fifo, ready, falling, place, due,
  window, n, out_data, heard

Blink == INSTANCE Blinker
TheLock == INSTANCE Lock WITH db <- lock_db
Arith == INSTANCE Pipelines
Ram == INSTANCE FullRam
Frame == INSTANCE FrameTx
Max == INSTANCE MovingMax

Bitstreams == {"blinker", "lock", "arithmetic", "ram", "frame_tx", "moving_max"}

blinkVars == <<db, btn_prev, o_led, recent, steady, presses>>
lockVars == <<lock_db, current_state, progress>>
arithVars == <<a_r, b_r, op_r, result_reg, sum_comb, b_sqr, sum_pipe, fed>>
ramVars == <<mem, wstate, waddr_cur, wburst_cnt, bvalid, rstate, raddr_cur, rburst_cnt,
             rvalid, rlast, rready, shown, wr, rd, intent>>
frameVars == <<shift_data, final_data, data_valid, data_last, words_counter,
               pixel_counter, fifo, ready, falling, place, due>>
maxVars == <<window, n, out_data, heard>>

Init ==
  /\ bitstream \in Bitstreams
  /\ IF bitstream = "blinker" THEN Blink!Init
       ELSE db = Unloaded /\ btn_prev = Unloaded /\ o_led = Unloaded /\ recent = Unloaded
            /\ steady = Unloaded /\ presses = Unloaded
  /\ IF bitstream = "lock" THEN TheLock!Init
       ELSE lock_db = Unloaded /\ current_state = Unloaded /\ progress = Unloaded
  /\ IF bitstream = "arithmetic" THEN Arith!Init
       ELSE a_r = Unloaded /\ b_r = Unloaded /\ op_r = Unloaded /\ result_reg = Unloaded
            /\ sum_comb = Unloaded /\ b_sqr = Unloaded /\ sum_pipe = Unloaded /\ fed = Unloaded
  /\ IF bitstream = "ram" THEN Ram!Init
       ELSE mem = Unloaded /\ wstate = Unloaded /\ waddr_cur = Unloaded /\ wburst_cnt = Unloaded
            /\ bvalid = Unloaded /\ rstate = Unloaded /\ raddr_cur = Unloaded
            /\ rburst_cnt = Unloaded /\ rvalid = Unloaded /\ rlast = Unloaded
            /\ rready = Unloaded /\ shown = Unloaded /\ wr = Unloaded /\ rd = Unloaded
            /\ intent = Unloaded
  /\ IF bitstream = "frame_tx" THEN Frame!Init
       ELSE shift_data = Unloaded /\ final_data = Unloaded /\ data_valid = Unloaded
            /\ data_last = Unloaded /\ words_counter = Unloaded /\ pixel_counter = Unloaded
            /\ fifo = Unloaded /\ ready = Unloaded /\ falling = Unloaded
            /\ place = Unloaded /\ due = Unloaded
  /\ IF bitstream = "moving_max" THEN Max!Init
       ELSE window = Unloaded /\ n = Unloaded /\ out_data = Unloaded /\ heard = Unloaded

Blinks ==
  bitstream = "blinker" /\ Blink!Next
    /\ UNCHANGED <<bitstream, lockVars, arithVars, ramVars, frameVars, maxVars>>
Locks ==
  bitstream = "lock" /\ TheLock!Next
    /\ UNCHANGED <<bitstream, blinkVars, arithVars, ramVars, frameVars, maxVars>>
Calculates ==
  bitstream = "arithmetic" /\ Arith!Next
    /\ UNCHANGED <<bitstream, blinkVars, lockVars, ramVars, frameVars, maxVars>>
Remembers ==
  bitstream = "ram" /\ Ram!Next
    /\ UNCHANGED <<bitstream, blinkVars, lockVars, arithVars, frameVars, maxVars>>
Transmits ==
  bitstream = "frame_tx" /\ Frame!Next
    /\ UNCHANGED <<bitstream, blinkVars, lockVars, arithVars, ramVars, maxVars>>
Filters ==
  bitstream = "moving_max" /\ Max!Next
    /\ UNCHANGED <<bitstream, blinkVars, lockVars, arithVars, ramVars, frameVars>>

Next == Blinks \/ Locks \/ Calculates \/ Remembers \/ Transmits \/ Filters

vars == <<bitstream, blinkVars, lockVars, arithVars, ramVars, frameVars, maxVars>>

Spec == Init /\ [][Next]_vars

-----------------------------------------------------------------------------

\* Each property of a homework, for the board that runs it (see its module).
OneTogglePerPress == bitstream = "blinker" => Blink!OneTogglePerPress
LockInv == bitstream = "lock" => TheLock!LockInv
InStep == bitstream = "arithmetic" => Arith!InStep
BurstsInOrder == bitstream = "ram" => Ram!BurstsInOrder
FrameOrder == bitstream = "frame_tx" => Frame!FrameOrder
OutIsMax == bitstream = "moving_max" => Max!OutIsMax
=============================================================================
