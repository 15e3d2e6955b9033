CONSTANTS
  Clients = {c1, c2}
  MaxReports = 2
  QLimit = 0
  Faults = {}
SPECIFICATION FairSpec
PROPERTY WaitsForData
