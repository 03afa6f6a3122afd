CONSTANTS
  Unloaded = Unloaded
  Boards <- MCBoards
  Chips <- MCChips
  Sessions <- MCSessions
  MaxCalls <- MCMaxCalls
  Caps <- MCCaps
  MaxLength = 3
  Sizes <- MCSizes
  MaxStarts = 2
SPECIFICATION Spec
CHECK_DEADLOCK FALSE
INVARIANTS
  SegmentsTile
  Tuned
  RatesFit
PROPERTIES
  EnsmReturns
  NoPulling
  FastlockFresh
