CONSTANTS
  Commands = {SCAN, RESET}
  None = None
  MaxThreshold = 2
  MaxOwed = 2
  MaxResets = 1
  Paced = FALSE
SPECIFICATION Spec
INVARIANTS
  EveryWritePulses
