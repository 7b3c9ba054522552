SPECIFICATION MCSpec
CONSTRAINT Bounded
SYMMETRY Symmetry
INVARIANTS
  CapturedIsKept
  ContentlessWasAskedFor
  ListedIsArchived
  ProfileGoverns
CONSTANTS
  d1 = d1
  s1 = s1
  s2 = s2
  x1 = x1
  c1 = c1
  c2 = c2
  Download = {d1}
  Slot = {s1, s2}
  MaxId = 2
  Watching = TRUE
  Session = {x1}
  Config = {c1, c2}
CHECK_DEADLOCK FALSE
