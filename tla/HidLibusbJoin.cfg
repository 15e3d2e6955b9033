CONSTANTS
  Clients = {c1}
  MaxReports = 0
  QLimit = 0
  Faults = {}
SPECIFICATION Spec
INVARIANT TransferIdleAtFree
