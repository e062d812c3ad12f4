CONSTANTS
  m1 = m1
  m2 = m2
  m3 = m3
  c1 = c1
  c2 = c2
  Request <- MCThree
  Command <- MCOneCommand
  Frontend = "telegram"
  PriorStatus = {}
  MaxPauses = 2
  MaxFaults = 1
  MaxCrashes = 1
SPECIFICATION FairSpec
CHECK_DEADLOCK FALSE
INVARIANTS
  ResumedAtMostOnce
  AwaitedIsKept
PROPERTY
  EveryoneIsAnswered
