CONSTANTS
  HIT_LEN = 4
  CAPTURE_SAMPLES = 1
  HANG_SAMPLES = 1
  Power <- MCPower
  Thresholds <- MCThresholds
  Pulses <- MCPulses
SPECIFICATION Spec
INVARIANTS
  EveryRunHits
