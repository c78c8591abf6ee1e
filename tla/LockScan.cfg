SPECIFICATION FairSpec
CONSTANTS
  Keys <- FiveKeys
  Batches = {0, 1, 2, 3}
  None = None
INVARIANTS
  TypeOK
  NoLockSkipped
  NoLockTwice
PROPERTY
  ScanEnds
CHECK_DEADLOCK FALSE
