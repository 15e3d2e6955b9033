CONSTANTS
  Clients = {c1, c2}
  MaxReports = 3
  QLimit = 0
  Faults = {"create", "spurious", "finished"}
SPECIFICATION FairSpec
INVARIANTS
  TypeOK
  NoSleeperLeft
  OneAwakePerReport
  QueueIsNewestRun
  RunLoopAlive
PROPERTIES
  ImplementsChannel
  CloseReturns
  DisconnectEndsRead
CHECK_DEADLOCK FALSE
