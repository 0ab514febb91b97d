CONSTANTS
  Run = {1, 2, 3}
  QueueKey = {"dev", "triage"}
  KeyOf <- KeyOfTwo
  NoRun = NoRun
  TicketOf <- TicketOfTwo
  CreatedAt <- InOrder
  Scenes <- SafetyScenes
SPECIFICATION Spec
INVARIANTS
  Inv
PROPERTIES
  ArchivedBeforeReaped
  FinalizerGuardsEvidence
  RestartGuardHolds
  FinishedRunIsNotRerun
CHECK_DEADLOCK FALSE
