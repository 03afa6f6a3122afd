CONSTANTS
  CaptureLen = 2
  HangLen = 1
  NumCaptures = 2
  FifoDepth = 1
  MaxResets = 1
  None = None
SPECIFICATION FairSpec
INVARIANTS
  TypeOK
  ReplaysCapture
  ReplaysActivePart
  NeverHearsItself
  CleanArm
  NoFalseAlarm
PROPERTIES
  ImplementsMachine
  LoopEnds
