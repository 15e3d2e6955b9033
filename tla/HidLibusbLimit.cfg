CONSTANTS
  Clients = {c1}
  MaxReports = 3
  QLimit = 1
  Faults = {}
SPECIFICATION Spec
INVARIANT WithinLimit
