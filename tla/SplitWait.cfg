SPECIFICATION FairSpec
CONSTANTS
  limit = 9
  rewrite_every = 3
  poll = 2
  PdMax = 2
  Lag = 1
INVARIANTS
  TypeOK
  BoundedOverrun
  RewritesAreSpaced
PROPERTY
  WaitEnds
CHECK_DEADLOCK FALSE
