SPECIFICATION Spec
CONSTANTS
  M = 2
  Ef = 0
  Points <- RulerThree
  Distance <- LineDistance
  Wave = 2
  MaxLevel = 1
  MaxRows = 4
  MaxBatch = 3
  Caller = main
  Helpers = {h1, h2}
CHECK_DEADLOCK FALSE
INVARIANTS TypeOK OwnSlot ScheduleUnseen
PROPERTY CallReturns
