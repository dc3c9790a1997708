\* Two terminals, two handlers, one tenant with a plan of one device.
SPECIFICATION Spec
CONSTANTS
  t1 = t1
  t2 = t2
  s1 = s1
  s2 = s2
  h1 = h1
  h2 = h2
  Tenants = {t1}
  Serials = {s1, s2}
  Handlers = {h1, h2}
  MaxDevices = 3
  CreateSlots = 2
  DeviceLimit <- OneEach
  NoLimit = NoLimit
  NoSerial = NoSerial
  NoTenant = NoTenant
SYMMETRY Symmetry
INVARIANTS
  TypeOK
  UniqueLiveSerial
  ActiveWasBoundAndClaimed
  OvershootBounded
PROPERTIES
  ImplementsRegistry
CHECK_DEADLOCK FALSE
