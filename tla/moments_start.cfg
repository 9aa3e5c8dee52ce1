CONSTANTS
  Setups <- StartChain
  Data <- Values
  UserWeight <- Weights
  TimeSteps = {2, 4}
  Unit = 4
  CheckpointSteps = {2, 4}
  MaxStep = 6
SPECIFICATION Spec
INVARIANT AveragesRight
CHECK_DEADLOCK FALSE
