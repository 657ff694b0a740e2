SPECIFICATION Spec
CONSTANTS
  a = a
  b = b
  c = c
  p1 = p1
  p2 = p2
  Ids = {a, b, c}
  Vecs <- Line
  NoVec = NoVec
  Paths = {p1, p2}
  NoPath = NoPath
  Ops = {"insert", "remove", "reinsert"}
  MaxBatch = 2
  MaxRows = 3
INVARIANT SearchExact
