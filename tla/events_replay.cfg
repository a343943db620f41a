\* One watcher. A publication appends up to three events; a replay of three
\* does not fit the stream's queue and one of four is beyond the limit.
SPECIFICATION FairSpec
CONSTANTS
  Watchers = {gui}
  Followers = {}
  NoCursor = noCursor
  RetentionCount = 4
  RetentionAge = 1
  ReplayLimit = 3
  QueueLimit = 2
  MaxSequence = 4
  MaxTime = 2
  MaxFaults = 1
PROPERTIES
  ReconnectingSuffices
\* The bounds stop the changes, and a stopped component does nothing more.
CHECK_DEADLOCK FALSE
