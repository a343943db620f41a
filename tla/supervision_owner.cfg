SPECIFICATION Spec
CONSTANTS
  Starters = {c1}
  Stoppers = {c1}
  Service = svc
  MaxWorkers = 2
  MaxFaults = 0
  MaxDeaths = 1
  Attempts = 2
  RestartMaxAttempts = 1
  None = None
INVARIANTS
  SingleOwner
CHECK_DEADLOCK FALSE
