SPECIFICATION Spec
CONSTANTS
  a = a
  b = b
  v = v
  w = w
  Ids = {a, b}
  Vecs = {v, w}
  NoVec = NoVec
  Policies = {"always"}
  CrashKinds = {"process", "machine"}
  Faults = {"torn"}
  Ops = {"insert"}
  MaxBatch = 2
  MaxStates = 4
  MaxLog = 4
  MaxMishaps = 2
SYMMETRY Symmetry
INVARIANT PromiseKept
