SPECIFICATION FairSpec
CONSTANTS
  Procs = {p1}
  Ids = {a, b}
  Named = {a, b}
  Mine <- Anyone
  Collectors = {p1}
  Shapes = {s}
  MaxLeases = 1
  MaxSlot = 1
  PortCheck = TRUE
  Faults = {"crash", "up", "down"}
  None = None
  p1 = p1
  p2 = p2
  p3 = p3
  a = a
  b = b
PROPERTY
  OverdueIsReleased
