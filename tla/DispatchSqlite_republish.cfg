CONSTANTS
  c1 = c1
  c2 = c2
  Entry <- MCEntry
  Consumer <- MCConsumer
  None = None
  MaxInFlight = 2
  LeaseDuration = 1
  MaxSequence = 1
  Republish = TRUE
  MayNack = TRUE
  Skew = 1
  MaxTime = 1
  MaxPublish = 2
  MaxClaims = 3
SPECIFICATION Spec
CHECK_DEADLOCK FALSE
INVARIANT
  NewestIsKept
