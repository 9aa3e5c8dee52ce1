SPECIFICATION FairSpec
CONSTANTS
  N = 3
  Setups <- LeavingSetups
  Flags <- RunFlags
  TimeSteps = {1}
  MaxRounds = 2
  None = None
PROPERTIES
  SyncReturns
CHECK_DEADLOCK FALSE
