SPECIFICATION FairSpec
CONSTANTS
  Calls = {c1, c2}
  MaxSpawns = 3
INVARIANT TypeOK
INVARIANT OneProcess
INVARIANT PendingIsCurrent
PROPERTY ProcessIsKept
PROPERTY IsFailStop
PROPERTY EveryCallSettles
CHECK_DEADLOCK FALSE
