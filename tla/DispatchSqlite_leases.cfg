CONSTANTS
  c1 = c1
  c2 = c2
  Entry <- MCEntry
  Consumer <- MCConsumer
  None = None
  MaxInFlight = 1
  LeaseDuration = 1
  MaxSequence = 2
  Republish = FALSE
  MayNack = TRUE
  Skew = 0
  MaxTime = 2
  MaxPublish = 2
  MaxClaims = 3
SPECIFICATION Spec
CHECK_DEADLOCK FALSE
INVARIANTS
  NoOverlap
PROPERTY
  ImplementsLeaseQueue
