CONSTANTS
  Unloaded = Unloaded
  PERIOD = 2
  Operands <- MCOperands
  DEPTH = 3
  MEM_DEPTH = 2
  Bytes <- MCBytes
  MaxLen = 2
  WORDS_IN_PICTURE = 5
  FIFO_DEPTH = 3
  SLACK = 2
  WINDOW = 3
  N_SAMPLES = 7
  Values <- MCValues
  INT_MIN <- MCIntMin
SPECIFICATION Spec
INVARIANTS
  OneTogglePerPress
  LockInv
  InStep
  BurstsInOrder
  FrameOrder
  OutIsMax
