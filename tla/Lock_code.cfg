CONSTANTS
  PERIOD = 2
SPECIFICATION Spec
INVARIANTS
  CodeOpens
