CONSTANTS
  Clients = {c1, c2}
  MaxReports = 3
  QLimit = 0
  Faults = {"interrupt", "transfer", "submit"}
SPECIFICATION Spec
SYMMETRY Symmetry
INVARIANTS
  TypeOK
  NoSleeperLeft
  QueueIsNewestRun
  OpenIsReady
  FreeIsExclusive
PROPERTY ImplementsChannel
