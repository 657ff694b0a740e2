SPECIFICATION Spec
CONSTANTS
  a = a
  b = b
  c = c
  p1 = p1
  p2 = p2
  Ids = {a, b, c}
  Vecs <- Short
  NoVec = NoVec
  Paths = {p1, p2}
  NoPath = NoPath
  Ops = {"insert", "bulk", "remove"}
  MaxBatch = 2
  MaxRows = 3
SYMMETRY Symmetry
CHECK_DEADLOCK FALSE
INVARIANT TypeOK
INVARIANT SearchExact
INVARIANT ViewBacked
PROPERTY SavedIsLoadable
