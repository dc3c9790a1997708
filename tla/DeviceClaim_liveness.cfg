\* Fair terminals and handlers; no symmetry, because the property is a liveness property.
SPECIFICATION FairSpec
CONSTANTS
  t1 = t1
  t2 = t2
  s1 = s1
  s2 = s2
  h1 = h1
  h2 = h2
  Tenants = {t1}
  Serials = {s1, s2}
  Handlers = {h1, h2}
  MaxDevices = 2
  CreateSlots = 2
  DeviceLimit <- OneEach
  NoLimit = NoLimit
  NoSerial = NoSerial
  NoTenant = NoTenant
PROPERTY TerminalGetsServed
CHECK_DEADLOCK FALSE
