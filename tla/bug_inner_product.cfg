SPECIFICATION Spec
CONSTANTS
  M = 3
  Ef = 0
  Points <- OneToFour
  Distance <- InnerProduct
  Wave = 2
  MaxLevel = 0
  MaxRows = 4
  MaxBatch = 2
  MaxTwins = 0
  MaxReload = 2
  Ops = {"insert"}
CHECK_DEADLOCK FALSE
INVARIANT Reloadable
