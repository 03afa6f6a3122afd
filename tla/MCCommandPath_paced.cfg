CONSTANTS
  Commands = {SCAN, RESET}
  None = None
  MaxThreshold = 2
  MaxOwed = 2
  MaxResets = 2
  Paced = TRUE
SPECIFICATION FairSpec
INVARIANTS
  PathInv
  EveryWritePulses
  SpuriousIsHarmless
  ThresholdFirst
PROPERTIES
  CommandArrives
