SPECIFICATION FairSpec
CONSTANTS
  MaxByte = 2
  None = None
  Keys <- SomeKeys
  Values = {"v"}
  Batches <- SomeBatches
  Requests <- SomeRequests
  SCAN_PAGE = 2
  MaxCommits = 2
INVARIANTS
  TypeOK
  NothingTwice
PROPERTIES
  ReadsOneMoment
  ReadEnds
CHECK_DEADLOCK FALSE
