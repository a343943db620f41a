SPECIFICATION Spec
CONSTANTS
  Ids = {a, b}
  SegmentSize = 2
  MaxWrites = 4
  MaxFlushes = 2
  MaxCrashes = 2
  None = None
  Torn = Torn
INVARIANT
  CompactionIsCrashSafe
CHECK_DEADLOCK FALSE
