SPECIFICATION Spec
CONSTANTS
  Task = {t1, t2}
  Caller = {c1, c2}
  None = None
  Entry = {"execute", "decide", "cancel"}
  MaxAttempts = 3
  Durable = TRUE
  FreshIds = TRUE
  Serialized = TRUE
  MaxFaults = 1
INVARIANTS
  TypeOK
  WaitingIsDecidable
  LogTellsState
PROPERTIES
  KeepsApprovalProtocol
  SettledStays
  ApprovedSettles
CHECK_DEADLOCK FALSE
