SPECIFICATION Spec
CONSTANTS
  a = a
  b = b
  v = v
  w = w
  x = x
  y = y
  z = z
  Ids = {a, b}
  Vecs = {v, w}
  NoVec = NoVec
  Threads = {x, y, z}
  NoThread = NoThread
  Calls <- Workload
  Loaded <- Buffers
  Garbage = Garbage
  MaxCalls = 3
CHECK_DEADLOCK FALSE
INVARIANTS TypeOK DiskCoversMemory
PROPERTIES Linearizable EveryCallReturns
