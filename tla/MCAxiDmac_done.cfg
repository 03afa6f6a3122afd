CONSTANTS
  Caps <- MCCaps
  MaxLength = 3
  Sizes = {2, 4, 6, 10}
  MaxStarts = 2
SPECIFICATION Spec
CHECK_DEADLOCK FALSE
INVARIANT DoneMeansMoved
