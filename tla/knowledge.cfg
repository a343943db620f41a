SPECIFICATION FairSpec
CONSTANTS
  Chunks = {a, b}
  Workers = {w1, w2}
  MaxVersion = 1
  MaxFaults = 1
  None = None
  Torn = Torn
INVARIANTS
  SearchMatchesRows
  MissesOnlyLostScans
PROPERTIES
  RebuildKeepsServing
  BecomesSearchableAgain
CHECK_DEADLOCK FALSE
