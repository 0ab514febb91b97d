CONSTANTS
  Run = {1, 2}
  Dispatched = {2}
  Streams = {1, 2}
  Events <- MCEvents
  MaxEntries = 5
  MaxFaults = 1
  MaxRestarts = 1
SPECIFICATION FairSpec
INVARIANTS
  Inv
  RestartDoesNotFork
PROPERTIES
  EngineIsHeard
CHECK_DEADLOCK FALSE
