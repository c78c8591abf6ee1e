SPECIFICATION Spec
CONSTANTS
  Procs = {p1, p2}
  Ids = {a, b}
  Named = {a}
  Mine <- Anyone
  Collectors = {p1, p2}
  Shapes = {s}
  MaxLeases = 1
  MaxSlot = 1
  PortCheck = FALSE
  Faults = {"down", "torn"}
  None = None
  p1 = p1
  p2 = p2
  p3 = p3
  a = a
  b = b
SYMMETRY ProcSymmetry
INVARIANTS
  TypeOK
  UniqueSlots
  GcOwnsGenerated
PROPERTY
  ClaimIsFinal
