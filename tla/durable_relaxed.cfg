SPECIFICATION Spec
CONSTANTS
  a = a
  b = b
  v = v
  Ids = {a, b}
  Vecs = {v}
  NoVec = NoVec
  Policies = {"always", "checkpoint", "close"}
  CrashKinds = {"process", "machine"}
  Faults = {"torn", "append", "ckpt"}
  Ops = {"insert", "bulk", "remove", "reinsert"}
  MaxBatch = 2
  MaxStates = 3
  MaxLog = 3
  MaxMishaps = 2
SYMMETRY Symmetry
INVARIANT RecoveryContract
INVARIANT NoGap
INVARIANT OnlyRepeatsRefused
PROPERTY DropOnlyDurable
