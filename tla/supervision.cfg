\* One client that starts the project or stops it.
SPECIFICATION FairSpec
CONSTANTS
  Starters = {c1}
  Stoppers = {c1}
  Service = svc
  MaxWorkers = 3
  MaxFaults = 1
  MaxDeaths = 1
  Attempts = 1
  RestartMaxAttempts = 1
  None = None
INVARIANTS
  OnlyALostLeaseIsShared
PROPERTIES
  OrphansAreRetired
  DeadEntriesAreResolved
  CallsReturn
  HungWorkersAreEnded
CHECK_DEADLOCK FALSE
