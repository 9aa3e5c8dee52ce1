SPECIFICATION FairSpec
CONSTANTS
  Ranks = {0, 1, 2, 3}
  Setups <- PairSetups
INVARIANTS
  TypeOK
  NearestFound
  ValuesReach
  MessagesFit
PROPERTIES
  RefinesLoopProgram
  Completes
CHECK_DEADLOCK FALSE
