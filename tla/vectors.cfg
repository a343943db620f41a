SPECIFICATION Spec
CONSTANTS
  Ids = {a, b}
  SegmentSize = 2
  MaxWrites = 4
  MaxFlushes = 2
  MaxCrashes = 2
  None = None
  Torn = Torn
INVARIANTS
  FlushedSurvives
  ReadsSeeWrites
  MappedIdsAreSearchable
\* The bounds stop the writes, and an unreadable file every open.
CHECK_DEADLOCK FALSE
