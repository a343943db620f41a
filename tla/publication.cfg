SPECIFICATION FairSpec
CONSTANTS
  Runtime = runtime
  Workers = {w1, w2}
  Indexers = {k1}
  Generations = {g1, g2, g3, g4, g5}
  None = None
  Unchanged = Unchanged
  MaxRevision = 3
  MaxCrashes = 2
  MaxRestarts = 1
INVARIANTS
  PublishedGraphIsComplete
  PublicationIsUndisturbed
  OpensNeverFail
  AtMostTwoGenerations
PROPERTIES
  ChangesSettle
\* The bounds stop the changes and the deaths.
CHECK_DEADLOCK FALSE
