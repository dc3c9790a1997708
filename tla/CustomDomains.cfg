SPECIFICATION Spec
CONSTANTS
  t1 = t1
  t2 = t2
  n1 = n1
  n2 = n2
  i1 = i1
  i2 = i2
  i3 = i3
  r1 = r1
  r2 = r2
  Tenants = {t1, t2}
  Names = {n1}
  Ids = {i1, i2}
  Requests = {r1, r2}
  DomainLimit = 1
  NoRow = NoRow
  NoName = NoName
  NoRequest = NoRequest
SYMMETRY Symmetry
INVARIANTS
  TypeOK
  HostsProved
  OnePrimary
  NobodyIsStuck
PROPERTIES
  ImplementsHostBook
CHECK_DEADLOCK FALSE
