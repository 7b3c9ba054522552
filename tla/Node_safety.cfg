SPECIFICATION MCSpec
CONSTRAINT Bounded
SYMMETRY Symmetry
INVARIANTS
  ExecutedAtMostOnce
  ResultMeansExecuted
  WithdrawnIsNotExecuted
  SignInHolds
  InstallHolds
PROPERTIES
  CompletedIsFinal
CONSTANTS
  p1 = p1
  p2 = p2
  k1 = k1
  k2 = k2
  c1 = c1
  None = None
  Process = {p1, p2}
  Conn = {k1, k2}
  Command = {c1}
  MaxRequest = 2
  MaxCode = 2
  MaxLoop = 3
  MaxRun = 3
  i1 = i1
  i2 = i2
  Instance = {i1, i2}
  NoInstance = NoInstance
  MaxStop = 1
CHECK_DEADLOCK FALSE
