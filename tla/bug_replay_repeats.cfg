SPECIFICATION Spec
CONSTANTS
  a = a
  b = b
  v = v
  w = w
  Ids = {a, b}
  Vecs = {v, w}
  NoVec = NoVec
  Policies = {"always"}
  CrashKinds = {"process"}
  Faults = {}
  Ops = {"insert", "bulk", "remove"}
  MaxBatch = 2
  MaxStates = 4
  MaxLog = 4
  MaxMishaps = 1
SYMMETRY Symmetry
INVARIANT Reopenable
