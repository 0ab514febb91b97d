CONSTANTS
  Run = {1}
  QueueKey = {"dev"}
  KeyOf <- OneKeyOnly
  NoRun = NoRun
  TicketOf <- OneTicket
  CreatedAt <- InOrder
  Scenes <- WedgeScenes
SPECIFICATION WedgeSpec
PROPERTIES
  WedgedRunIsFailed
  TerminalRunIsCleaned
  DeletedRunGoes
  VerdictIsDelivered
CHECK_DEADLOCK FALSE
