CONSTANTS
  Openers = {o1, o2}
  fcd = fcd
  kbd = kbd
  Devices <- TreeDevices
  Addresses <- TreeAddresses
  Product <- TreeProduct
  Serial <- TreeSerial
  Settings <- TreeSettings
  Wanted = {"fcd"}
  Null = Null
SYMMETRY Symmetry
SPECIFICATION Spec
INVARIANTS TypeOK NullLeavesNothing HandleIsPath AskedFor AloneSucceeds VisitsAll
