SPECIFICATION FairSpec
CONSTANTS
  N = 3
  Setups <- PassSetups
  Flags <- RunFlags
  TimeSteps = {1, 2}
  MaxRounds = 2
  None = None
INVARIANTS
  TypeOK
  NothingLeft
PROPERTIES
  RefinesGroupSync
  SyncReturns
CHECK_DEADLOCK FALSE
