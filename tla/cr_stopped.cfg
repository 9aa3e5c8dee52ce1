SPECIFICATION Spec
CONSTANTS
  a1 = a1
  a2 = a2
  a3 = a3
  Apps = {a1, a2, a3}
  TimeSteps = {0, 1, 2}
  Offers <- AllValues
  Starts <- RunStarts
  None = None
  Setups <- StoppedGroups
  MaxSteps = 3
  MaxEdits = 1
INVARIANTS
  StopsProperly
CHECK_DEADLOCK FALSE
