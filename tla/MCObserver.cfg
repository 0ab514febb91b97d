CONSTANTS
  Scope = {"a"}
  PageSize = 2
  MaxPages = 2
  MaxLog = 5
  MaxFaults = 1
  MaxRestarts = 1
SPECIFICATION FairSpec
INVARIANTS
  Inv
PROPERTIES
  ObserverCatchesUp
CHECK_DEADLOCK FALSE
