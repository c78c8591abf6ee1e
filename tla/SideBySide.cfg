SPECIFICATION Spec
CONSTANTS
  Scenarios <- Written
  Facts <- KnownFacts
  Several <- ErrorSets
  MaxFaults = 1
  MaxApart = 1
  Leftover <- Orphans
  Rank <- Order
CHECK_DEADLOCK FALSE
INVARIANTS
  TypeOK
  DivergencesAreTheClients
  NoFactSmoothedOver
  HarnessFailsAlike
  OwnResidueOnly
  ContrastIsReal
