SPECIFICATION Spec
CONSTANTS
  p1 = p1  i1 = i1  i2 = i2
  None = None
  Pairs <- OnePair  Inputs <- TwoInputs
  MaxOps = 3  MaxTasks = 2
INVARIANTS RevokedHasNoCurrent
CHECK_DEADLOCK FALSE
