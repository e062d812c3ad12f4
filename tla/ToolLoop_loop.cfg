CONSTANTS
  StepBudget = 5
  RecoveryBudget = 1
  SubSteps = 2
  Retain = 5
  BreakerLimit = 1
  MaxBatch = 2
  MaxPrior = 1
  MaxSummary = 2
SPECIFICATION FairSpec
CHECK_DEADLOCK FALSE
INVARIANTS
  TypeOK
  TurnsArePaid
  CallsAnswered
  ResultsAttached
PROPERTIES
  Terminates
