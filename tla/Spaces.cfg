SPECIFICATION Spec
CONSTRAINT Bounded
INVARIANTS
  DrivesItsOwn
  ControlSurvives
  NewNumbers
  NothingIsForgotten
CONSTANTS
  a1 = a1
  Agent = {a1}
  Nobody = Nobody
  MaxId = 2
  MaxWrites = 1
