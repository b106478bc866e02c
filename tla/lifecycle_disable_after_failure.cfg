SPECIFICATION Spec
CONSTANTS
  c1 = c1
  c2 = c2
  r1 = r1
  Calls = {c1}
  Reports = {}
  Threshold = 2
  Isolated = TRUE
SYMMETRY Slots
INVARIANT InactiveIsNotRunning
