SPECIFICATION Spec
CONSTANTS
  Calls = {c1, c2}
  Keys = {x, y}
  Values = {old, new}
  Batches <- GateBatches
  First <- Initially
  None = None
  Modes = {"pessimistic", "locked"}
  Faults = {"net", "lost", "expire", "rollback"}
  c1 = c1
  c2 = c2
  x = x
  y = y
  old = old
  new = new
SYMMETRY CallSymmetry
INVARIANTS
  TypeOK
  NoTornBatch
PROPERTY
  KeepsContract
CHECK_DEADLOCK FALSE
