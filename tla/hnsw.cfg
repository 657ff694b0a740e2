SPECIFICATION Spec
CONSTANTS
  M = 2
  Ef = 0
  Points <- RulerThree
  Distance <- LineDistance
  Wave = 2
  MaxLevel = 1
  MaxRows = 4
  MaxBatch = 3
  MaxTwins = 1
  MaxReload = 1
  Ops = {"insert", "bulk", "remove", "reload"}
CHECK_DEADLOCK FALSE
INVARIANT TypeOK
INVARIANT GraphSound
INVARIANT LinksOnce
INVARIANT RoundTrip
INVARIANT SearchIsReachability
INVARIANT NoNearerNeighbour
