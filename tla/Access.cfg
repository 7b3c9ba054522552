SPECIFICATION MCSpec
SYMMETRY Symmetry
INVARIANTS
  Administered
  RegisteredOnce
  LoginsHold
CONSTANTS
  p1 = p1
  p2 = p2
  s1 = s1
  s2 = s2
  e1 = e1
  e2 = e2
  Process = {p1, p2}
  MaxUser = 3
  Slug = {s1, s2}
  Email = {e1, e2}
  Days = 1
  MaxClock = 1
  MaxRows = 3
  MaxFaults = 1
CHECK_DEADLOCK FALSE
