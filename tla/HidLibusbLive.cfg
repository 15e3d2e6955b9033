CONSTANTS
  Clients = {c1}
  MaxReports = 2
  QLimit = 0
  Faults = {"create", "submit", "interrupt", "fatal"}
SPECIFICATION FairSpec
PROPERTIES
  CloseReturns
  ReadReturns
CHECK_DEADLOCK FALSE
