SPECIFICATION FairSpec
CONSTANTS
  Setups <- RouterSetups
  NewGnum <- New
INVARIANTS
  TypeOK
  Pairing
  NoOverflow
  Renumbered
PROPERTIES
  RefinesAllToAll
  Returns
CHECK_DEADLOCK FALSE
