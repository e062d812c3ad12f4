CONSTANTS
  Session = {1, 2, 3, 4, 5, 6, 7}
  None = 0
  Prior = 1
  Kind = {"request", "new", "cancel", "clear", "compact", "setting", "select", "delete"}
  MaxUpdates = 2
  Batch = 2
  Retain = 1
  MaxFailures = 2
SPECIFICATION FairSpec
CHECK_DEADLOCK FALSE
INVARIANTS
  DispatchedOnce
  AnswersFollow
  DeletedIsGone
PROPERTY
  ChatServes
