CONSTANTS
  Assignment = {"a", "b"}
  Bad = {"b"}
  NoAsg = NoAsg
  MaxFaults = 1
  MaxRestarts = 1
  MaxDeleted = 1
  MaxMisjudged = 2
SPECIFICATION FairSpec
INVARIANTS
  Inv
  RowAnswersRun
PROPERTIES
  EveryAssignmentCloses
CHECK_DEADLOCK FALSE
