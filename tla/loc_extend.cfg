SPECIFICATION Spec
CONSTANTS
  Ranks = {0, 1, 2, 3}
  Setups <- PartlySetups
INVARIANTS
  NearestFound
CHECK_DEADLOCK FALSE
