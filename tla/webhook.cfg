SPECIFICATION FairSpec
CONSTANTS
  Keys = {k1, k2}
  MaxPending = 2
  MaxAttempts = 2
  MaxSubjects = 1
  MaxAlerts = 4
INVARIANT TypeOK
INVARIANT OneDrain
INVARIANT InOrder
INVARIANT LatestStateIsSent
PROPERTY NothingAfterStop
PROPERTY QueueEmpties
CHECK_DEADLOCK FALSE
