SPECIFICATION Spec
CONSTANTS
  Task = {t1}
  Caller = {c1, c2}
  None = None
  Entry = {"execute", "decide", "cancel"}
  MaxAttempts = 3
  Durable = TRUE
  FreshIds = TRUE
  Serialized = FALSE
  MaxFaults = 2
SYMMETRY Symmetry
INVARIANTS
  WaitingHasTicket
  SucceededIsBacked
  LogIsAhead
CHECK_DEADLOCK FALSE
