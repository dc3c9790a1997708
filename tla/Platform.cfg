\* Two requests at once: signups over two e-mails and slugs, two administrators, a bucket of two.
SPECIFICATION Spec
CONSTANTS
  u1 = u1
  u2 = u2
  t1 = t1
  t2 = t2
  Parts = {"signup", "access", "limiter"}
  Requests = {r1, r2}
  Signups = {r1, r2}
  Calls = {r1, r2}
  Emails = {e1, e2}
  Slugs = {s1, s2, www}
  Reserved = {www}
  Apex = Apex
  NoEmail = NoEmail
  NoSlug = NoSlug
  Users = {u1, u2}
  Tenants = {t1, t2}
  Owner <- OwnerOfEach
  Keys = {k1}
  NoUser = NoUser
  NoTenant = NoTenant
  NoKey = NoKey
  Capacity = 2
  Refill = 1
  Lifetime = 2
  Grace = 1
  Latency = 1
  Threshold = 2
  DisabledFor = 2
  MaxTime = 5
SYMMETRY Symmetry
INVARIANTS
  PlatformTypeOK
  SignupWhole
  LossesExplained
  StrangersWereAudited
  LimitHolds
  TimeoutsBounded
PROPERTIES
  LastAdminFallsToStaleCaller
  ImplementsWorkspaces
