SPECIFICATION BrowsersSpec
CONSTRAINT BrowsersBounds
SYMMETRY Symmetry
INVARIANTS
  LoneOperations
  LaunchedOnce
  DriverKeepsPlace
CONSTANTS
  p1 = p1
  p2 = p2
  a1 = a1
  x1 = x1
  early = early
  late = late
  None = None
  Process = {p1, p2}
  Objects = {"e1", "e2", "e3", "e4"}
  Wd = {"w1", "w2", "w3", "w4", "w5", "w6", "w7"}
  Ops = {"current", "click-element", "change"}
  DriverOps = {"read", "click", "tabs", "switch"}
  MaxFaults = 1
  Page = {}
  Open = {}
  MaxEdits = 0
  MaxCrashes = 0
  Admin = {}
  Holder = {}
  MaxImage = 0
  Version <- Versions
CHECK_DEADLOCK FALSE
