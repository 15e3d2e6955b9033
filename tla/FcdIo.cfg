CONSTANTS
  Callers = {p1, p2}
  Registers = {"dc", "iq"}
  ByteValues = {}
  Args <- WordArgs
  Half = 1
  MaxCalls = 3
  Faults = {"refuse", "timeout", "crash", "unplug"}
SPECIFICATION FairSpec
INVARIANTS
  TypeOK
  OwnReply
PROPERTIES
  ImplementsDongle
  CallReturns
CHECK_DEADLOCK FALSE
