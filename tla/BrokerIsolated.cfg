SPECIFICATION Spec
CONSTANTS
  Procs = {p1, p2}
  Ids = {a, b}
  Named = {a, b}
  Mine <- OwnOnly
  Collectors = {}
  Shapes = {s, t}
  MaxLeases = 1
  MaxSlot = 2
  PortCheck = FALSE
  Faults = {"crash", "torn", "up", "ready", "down"}
  None = None
  p1 = p1
  p2 = p2
  p3 = p3
  a = a
  b = b
INVARIANTS
  NothingLost
PROPERTY
  HandsOutOwnCluster
