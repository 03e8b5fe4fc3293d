SPECIFICATION FairSpec
CONSTANTS
  MaxRuns = 2
  Pages = 2
  MaxGen = 2
  FaultLimit = 1
  Setups <- ThreeSetups
  NoRun = NoRun
INVARIANTS
  TypeOK
  
PROPERTY
  DeckSettles
CHECK_DEADLOCK FALSE
