SPECIFICATION FairSpec
CONSTANTS
  Urls = {u1, u2}
  MaxWaiting = 2
  MaxNotifiers = 5
INVARIANT TypeOK
INVARIANT OldIsSilent
INVARIANT ServesItsFile
INVARIANT SilentOnceClosed
PROPERTY StopReturns
CHECK_DEADLOCK FALSE
