SPECIFICATION FairSpec
CONSTANTS
  Runs = {r1, r2}
  Capacity = 2
  None = None
  MaxOutput = 1
  MaxDeaths = 1
  MaxFaults = 2
INVARIANTS
  EventsTellTheResult
  ActiveRunsAreHeld
PROPERTIES
  RunsEnd
  CancelsAreAnswered
  ResultsAreKept
\* Every run may have ended, and the runtime need not stop.
CHECK_DEADLOCK FALSE
