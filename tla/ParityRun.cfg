SPECIFICATION FairSpec
CONSTANTS
  Steps = 2
  Asserted = {1}
  Worlds = {w1, w2}
  MAX_ATTEMPTS = 3
  MaxEdits = 2
  None = None
  w1 = w1
  w2 = w2
INVARIANT
  TypeOK
PROPERTIES
  ImplementsResults
  MakeEnds
