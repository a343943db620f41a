\* One caller, one change: the failure that follows a durable commit.
SPECIFICATION SafetySpec
CONSTANTS
  c1 = c1
  Callers = {c1}
  NoOperation = NoOperation
  InitialRevision = 1
  MaxRevision = 3
  GapRequests = FALSE
PROPERTIES
  FailurePreservesSnapshot
CHECK_DEADLOCK FALSE
