SPECIFICATION LiveSpec
CONSTANTS
  N = 4
  Nbrs <- Square
  Cap = 1
INVARIANTS
  PassedOn
  CopiesAreWays
PROPERTIES
  Spreads
  MasterFinishes
CHECK_DEADLOCK FALSE
