SPECIFICATION CoveredSpec
CONSTANTS
  a = a
  b = b
  v = v
  w = w
  Ids = {a, b}
  Vecs = {v, w}
  NoVec = NoVec
  Policies = {"always", "checkpoint", "close"}
  CrashKinds = {"process", "machine"}
  Faults = {"ckpt"}
  Ops = {"insert", "remove", "reinsert"}
  MaxBatch = 2
  MaxStates = 4
  MaxLog = 3
  MaxMishaps = 3
SYMMETRY Symmetry
INVARIANT TypeOK
INVARIANT TablesOK
INVARIANT PromiseKept
PROPERTY KeepsPromise
