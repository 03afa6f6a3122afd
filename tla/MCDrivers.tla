----------------------------- MODULE MCDrivers -----------------------------
(* Three boards; a chip that does all it is asked, one whose quadrature      *)
(* calibration converges at few phases, one whose receive filter does not    *)
(* tune, one whose quadrature calibration does not end.  A DMA that moves at *)
(* most four bytes at once, for transfers of one to three segments.          *)
EXTENDS Drivers, Ad9361Board

MCBoards == {default_init_param, TddBoard, Ad9363Board}
MCChips == {
  [hang |-> {}, converges |-> Phases, junk |-> FALSE],
  [hang |-> {}, converges |-> 20 .. 27, junk |-> FALSE],
  [hang |-> {"RX_BB_TUNE_CAL"}, converges |-> Phases, junk |-> FALSE],
  [hang |-> {"TX_QUAD_CAL"}, converges |-> {}, junk |-> TRUE]}
MCSessions == {"rates", "filters", "lo", "fastlock", "gain", "calib", "interface"}
MCMaxCalls ==
  [s \in MCSessions |-> IF s \in {"filters", "calib", "interface"} THEN 2
                       ELSE IF s = "fastlock" THEN 4 ELSE 3]
MCCaps == [mem : SUBSET {"src", "dest"}, cyclic : BOOLEAN, irq : {"IRQ_ENABLED", "IRQ_DISABLED"}]
MCSizes == {2, 4, 6, 10}
=============================================================================
