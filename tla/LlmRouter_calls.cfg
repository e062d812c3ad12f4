CONSTANTS
  p1 = p1
  p2 = p2
  None = None
  Models <- MCModels
  Request <- MCRequest
  Call = {c1, c2}
  Provider = {p1}
  Threshold = 2
  MaxRetries = 2
  MaxChunks = 2
SPECIFICATION FairSpec
CHECK_DEADLOCK FALSE
INVARIANTS
  OneVoice
  FailuresContained
PROPERTY
  CircuitIsDecided
