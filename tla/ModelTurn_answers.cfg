CONSTANTS
  Tool = {t1, t2}
  Capacity = 2
  MaxAttempts = 2
  MaxText = 1
  MaxPieces = 1
SPECIFICATION FairTurn
CHECK_DEADLOCK FALSE
INVARIANTS
  NothingLost
  ScreenShowsAnswer
PROPERTY
  Answered
