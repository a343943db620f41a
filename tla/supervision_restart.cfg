SPECIFICATION FairSpec
CONSTANTS
  Starters = {c1}
  Stoppers = {}
  Service = svc
  MaxWorkers = 2
  MaxFaults = 1
  MaxDeaths = 0
  Attempts = 2
  RestartMaxAttempts = 1
  None = None
PROPERTIES
  CrashedIsRestarted
CHECK_DEADLOCK FALSE
