CONSTANTS
  MaxReports = 4
  RingSize = 2
  Faults = {"begin", "complete"}
SPECIFICATION FairSpec
INVARIANTS
  TypeOK
  Accounted
PROPERTIES
  ZeroMeansNothing
  ReadReturns
