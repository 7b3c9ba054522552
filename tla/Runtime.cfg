SPECIFICATION MCSpec
CONSTRAINT Bounded
SYMMETRY Symmetry
INVARIANTS
  TokenSafety
  RoutedAsAsked
  ProfileHolds
CONSTANTS
  p1 = p1
  p2 = p2
  clash = clash
  i1 = i1
  i2 = i2
  Process = {p1, p2}
  Profile = {clash}
  Identity = {i1, i2}
CHECK_DEADLOCK FALSE
