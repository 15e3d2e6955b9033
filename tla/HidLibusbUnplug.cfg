CONSTANTS
  Clients = {c1}
  MaxReports = 1
  QLimit = 0
  Faults = {}
SPECIFICATION FairSpec
PROPERTY DisconnectEndsRead
