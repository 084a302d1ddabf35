SPECIFICATION Spec
CONSTANTS
  p1 = p1  i1 = i1  i2 = i2
  None = None
  Pairs <- OnePair  Inputs <- TwoInputs
  MaxOps = 4  MaxTasks = 3
INVARIANTS SealsSound SerialChain
PROPERTIES NothingBegunAfterRevocation
CHECK_DEADLOCK FALSE
