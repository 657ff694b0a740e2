SPECIFICATION Spec
CONSTANTS
  w1 = w1
  w2 = w2
  Schemas <- SomeSchemas
  Writes = {w1, w2}
  Old = old
  Absent = Absent
  Empty = Empty
  Faults = {"call", "crash", "power", "operator"}
  MaxMishaps = 4
SYMMETRY Symmetry
INVARIANTS TypeOK SchemaStable Complete
PROPERTY RefusalJustified
