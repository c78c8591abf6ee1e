SPECIFICATION CrossFairSpec
CONSTANTS
  MaxByte = 255
  None = None
  lo <- Lo
  hi <- Hi
  split_at <- SplitAt
  Endpoints = 2
  Good = {2}
  PD_TIMEOUT = 1
  TIMEOUT = 3
  SLEEP = 1
  Cuts <- SomeCuts
  MaxId = 3
INVARIANTS
  CrossTypeOK
  VerdictOfOneMoment
  ReachableIsReached
  BoundedOverrun
PROPERTY
  CallEnds
CHECK_DEADLOCK FALSE
