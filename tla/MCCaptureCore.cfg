CONSTANTS
  HIT_LEN = 5
  CAPTURE_SAMPLES = 5
  HANG_SAMPLES = 3
  Power <- MCPower
  Thresholds <- MCThresholds
  Pulses <- MCPulses
SPECIFICATION FairSpec
INVARIANTS
  HitIsRun
  NoSelfTrigger
  CoreInv
  FullWindow
  ActivePhase
PROPERTIES
  CaptureEnds
  ImplementsGate
