SPECIFICATION Spec
CONSTANTS
  Calls = {c1, c2}
  MaxSpawns = 3
INVARIANT OperationsFindThePlugin
CHECK_DEADLOCK FALSE
