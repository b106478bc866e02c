SPECIFICATION FairSpec
CONSTANTS
  Sources = {s1, s2}
  Watchers = {1, 2, 3}
  MaxChecks = 1
INVARIANT TypeOK
INVARIANT WatchedOnce
INVARIANT StopEndsWatching
PROPERTY WatchedAgain
CHECK_DEADLOCK FALSE
