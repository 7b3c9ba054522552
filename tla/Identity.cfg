SPECIFICATION MCSpec
CONSTRAINT RunBounds
SYMMETRY Symmetry
INVARIANTS
  AgentHolds
  PoolHolds
  ImagesHold
CONSTANTS
  p1 = p1
  p2 = p2
  a1 = a1
  x1 = x1
  early = early
  late = late
  Process = {p1, p2}
  Page = {early, late}
  Open = {early}
  MaxFaults = 1
  MaxEdits = 1
  MaxCrashes = 1
  Admin = {a1}
  Holder = {x1}
  MaxImage = 2
  Version <- Versions
CHECK_DEADLOCK FALSE
