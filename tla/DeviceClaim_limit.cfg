\* One create request at a time: the limit is still exceeded, by a late verification.
SPECIFICATION Spec
CONSTANTS
  t1 = t1
  t2 = t2
  s1 = s1
  s2 = s2
  h1 = h1
  h2 = h2
  Tenants = {t1}
  Serials = {s1}
  Handlers = {h1}
  MaxDevices = 3
  CreateSlots = 1
  DeviceLimit <- OneEach
  NoLimit = NoLimit
  NoSerial = NoSerial
  NoTenant = NoTenant
INVARIANT PlanLimitHolds
CHECK_DEADLOCK FALSE
