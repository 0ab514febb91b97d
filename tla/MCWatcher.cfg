CONSTANTS
  Lanes = {"legacy", "castle"}
  MaxRuns = 3
  Scenes <- MCScenes
SPECIFICATION FairSpec
INVARIANTS
  Inv
PROPERTIES
  RefireNeedsEntry
  DoneIsVerified
  RearmIsAnswered
  FailedRunIsParked
CHECK_DEADLOCK FALSE
