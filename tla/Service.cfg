SPECIFICATION FairSpec
CONSTANTS
  Nodes = {1, 2}
  Ops = {"put", "get", "delete", "range", "compact"}
  MaxAttempts = 2
  MaxEvents = 3
INVARIANTS TypeOK AnswerIsTrue AppliedOnce StoreOutlivesUsers
PROPERTIES CallsReturn CloseReturns
CHECK_DEADLOCK FALSE
