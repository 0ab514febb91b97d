SPECIFICATION FairSpec
CONSTANTS
  Lanes = {"binding", "library"}
  NameOnly = TRUE
  MaxEdits = 3
  MaxFaults = 3
INVARIANTS
  Inv
PROPERTIES
  RebuiltFromRecord
  DriftStopsTheRun
CHECK_DEADLOCK FALSE
