SPECIFICATION FairSpec
PROPERTIES
  RowsSettle
  EveryCallEnds
CONSTANTS
  p1 = p1
  p2 = p2
  k1 = k1
  k2 = k2
  k3 = k3
  c1 = c1
  c2 = c2
  None = None
  Process = {p1}
  Conn = {k1, k2}
  Command = {c1}
