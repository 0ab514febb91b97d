CONSTANTS
  Run = {1, 2, 3}
  QueueKey = {"dev"}
  KeyOf <- OneKeyOnly
  NoRun = NoRun
  TicketOf <- OneTicket
  CreatedAt <- InOrder
  Scenes <- ContentionScene
SPECIFICATION FairSpec
PROPERTIES
  EveryRunSettles
CHECK_DEADLOCK FALSE
