SPECIFICATION FairSpec
CONSTANTS
  Ranks = {0, 1, 2, 3}
  Setups <- FileSetups
INVARIANTS
  TypeOK
  OffsetsAgree
  ReadsParts
PROPERTIES
  RefinesPlacedBlocks
  Completes
CHECK_DEADLOCK FALSE
