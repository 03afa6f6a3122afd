CONSTANTS
  Operands = {0, 5, 15}
  DEPTH = 3
SPECIFICATION Spec
INVARIANTS
  SumOfOnePair
