\* One watcher and the follower of a check run. A publication appends up to three
\* events; a replay of two does not fit a stream's queue, one of three is beyond
\* the limit, and events of an earlier time have expired.
SPECIFICATION FairSpec
CONSTANTS
  Watchers = {gui}
  Followers = {cli}
  NoCursor = noCursor
  RetentionCount = 3
  RetentionAge = 0
  ReplayLimit = 2
  QueueLimit = 1
  MaxSequence = 3
  MaxTime = 1
  MaxFaults = 2
INVARIANTS
  NothingElseIsMissed
  MissedPublicationWasOvertaken
  ExpiredHistoryResyncs
PROPERTIES
  WatchersCatchUp
  FollowersFinish
\* The bounds stop the changes, and a stopped component does nothing more.
CHECK_DEADLOCK FALSE
