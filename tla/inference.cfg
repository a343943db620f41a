\* Two interactive operations, one background operation, two host processes.
SPECIFICATION Spec
CONSTANTS
  i1 = i1
  i2 = i2
  b1 = b1
  m1 = m1
  m2 = m2
  m3 = m3
  Operations = {i1, i2, b1}
  Models = {m1, m2, m3}
  Unfit = {m3}
  Slots = {s1, s2}
  None = None
  Priority <- MCPriority
  Kind <- MCKind
  Model <- MCModel
  Bytes <- MCBytes
  MaximumQueueRequests = 2
  MaximumQueueBytes = 4
INVARIANTS
  QueueAccounting
  BoundedOvertaking
  NoOrphanHost
  InFlightIsServed
PROPERTIES
  OperationsAreAnswered
  StopEndsEverything
\* The bounds stop the changes, and a stopped component does nothing more.
CHECK_DEADLOCK FALSE
