SPECIFICATION Spec
CONSTANTS
  Procs = {p1, p2, p3}
  Ids = {a, b}
  Named = {a, b}
  Mine <- Anyone
  Collectors = {}
  Shapes = {s}
  MaxLeases = 1
  MaxSlot = 1
  PortCheck = TRUE
  Faults = {}
  None = None
  p1 = p1
  p2 = p2
  p3 = p3
  a = a
  b = b
SYMMETRY ProcSymmetry
INVARIANT
  OwnPortBlock
