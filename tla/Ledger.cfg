SPECIFICATION Spec
CONSTANTS
  p0 = p0  p1 = p1
  clean = clean  dirty = dirty  old = old  new = new
  None = None
  Clean = clean
  Steps = 1
  Harnesses <- MCHarnesses
  Clients <- MCClients
  Evidence <- MCEvidence
  Contains <- MCContains
  MaxMakes = 2
  MaxEdits = 2
INVARIANTS
  SettledByThePinnedWorld
  CandidateJudgedByItsBase
  NoVerdictSurvives
PROPERTIES
  JudgesItsOwnRun
