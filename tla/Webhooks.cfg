CONSTANTS
  u1 = u1
  u2 = u2
  s1 = s1
  s2 = s2
  t1 = t1
  t2 = t2
  Null = Null
  Users = {u1, u2}
  Slots = {s1, s2}
  ActiveSlots = {s1, s2}
  Tenants = {t1, t2}
  TenantOf <- TwoTenants
  BookingIds = {b1}
  Requests = {r1}
  Registrars = {g1, g2}
  Dispatches = {d1, d2}
  MaxSecrets = 2
  Workers = {w1}
  PartySizes = {1}
  Capacity <- OneSeatEach
  Seeded <- NoneSeeded
  ReserveTtl = 0
  BatchSize = 1
  MaxTime = 1
  MaxRollbacks = 1
SPECIFICATION WSpec
SYMMETRY Symmetry
INVARIANTS
  WTypeOK
  AnnouncedOnce
  PayloadNotOlder
  SignedForTenant
  HookTrail
  TenantIsolation
