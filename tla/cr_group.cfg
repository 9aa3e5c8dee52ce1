SPECIFICATION FairSpec
CONSTANTS
  a1 = a1
  a2 = a2
  a3 = a3
  Apps = {a1, a2, a3}
  TimeSteps = {0, 1, 2}
  Offers <- AllValues
  Starts <- RunStarts
  None = None
  Setups <- PassGroups
  MaxSteps = 3
  MaxEdits = 1
INVARIANTS
  TypeOK
  Agreement
  Lockstep
  CommonEnd
  OnlyRefusedAbort
  SameTimeStep
  StopsProperly
PROPERTIES
  Terminates
CHECK_DEADLOCK FALSE
