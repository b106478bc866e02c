SPECIFICATION Spec
CONSTANTS
  c1 = c1
  c2 = c2
  r1 = r1
  Calls = {c1, c2}
  Reports = {r1}
  Threshold = 2
  Isolated = TRUE
SYMMETRY Slots
INVARIANT EnabledIsStored
INVARIANT StatusMatchesEnabled
INVARIANT AnnouncedQuarantineIsStored
PROPERTY CrashesQuarantine
PROPERTY QuarantineIsSticky
