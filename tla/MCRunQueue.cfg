CONSTANTS
  Run <- MCRun
  QueueKey <- MCQueueKey
  KeyOf <- MCKeyOf
  NoRun = NoRun
SPECIFICATION QueueFairSpec
INVARIANTS
  LinesInv
  PositionIsDistanceToAdmission
PROPERTIES
  SlotPassesInOrder
  ImplementsLock
  QueuedIsServed
