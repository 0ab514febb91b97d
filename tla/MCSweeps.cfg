SPECIFICATION FairSpec
CONSTANTS
  Name = {"a", "b"}
  Obj = {"job", "pod"}
  Adapter = {"pod"}
  Ticket <- MCTicket
  RunOf <- MCRunOf
  KeepLast = 1
  Scenes <- MCScenes
  MidPass = FALSE
INVARIANTS
  Inv
PROPERTIES
  OnlyOrphansAreReaped
  ParkedIsKept
  SweepsFinish
