CONSTANTS
  Addresses <- MCAddresses
  Data <- MCData
  Status <- MCStatus
  MAX_THRESHOLD <- MCMaxThreshold
  None = None
SPECIFICATION FairSpec
INVARIANTS
  AxiInv
  OneAnswerEach
  WritesCountOnce
PROPERTIES
  AnswersHold
  RequestsServed
