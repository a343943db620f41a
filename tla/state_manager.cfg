\* Two callers and the watcher, three changes after the initial revision.
SPECIFICATION Spec
CONSTANTS
  c1 = c1
  c2 = c2
  Callers = {c1, c2}
  NoOperation = NoOperation
  InitialRevision = 1
  MaxRevision = 4
  GapRequests = FALSE
INVARIANTS
  NewestRevisionIsOwned
  NoOverlap
PROPERTIES
  WaitersAreAnswered
  ShutdownCompletes
  ImplementsPublication
\* The bounds stop the changes, and a stopped component does nothing more.
CHECK_DEADLOCK FALSE
