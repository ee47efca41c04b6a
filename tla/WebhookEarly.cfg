CONSTANTS
  u1 = u1
  u2 = u2
  s1 = s1
  s2 = s2
  t1 = t1
  t2 = t2
  Null = Null
  Users = {u1}
  Slots = {s1}
  ActiveSlots = {s1}
  Tenants = {t1}
  TenantOf <- OneTenant
  BookingIds = {b1}
  Requests = {r1}
  Registrars = {g1}
  Dispatches = {d1}
  MaxSecrets = 1
  Workers = {w1}
  PartySizes = {1}
  Capacity <- OneSeatEach
  Seeded <- NoneSeeded
  ReserveTtl = 0
  BatchSize = 1
  MaxTime = 1
  MaxRollbacks = 1
SPECIFICATION WSpec
INVARIANTS
  EventsHappened
