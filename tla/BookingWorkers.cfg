CONSTANTS
  u1 = u1
  s1 = s1
  s2 = s2
  t1 = t1
  Null = Null
  Users = {u1}
  Slots = {s1}
  ActiveSlots = {s1}
  BookingIds = {b1, b2}
  Requests = {r1}
  Workers = {w1, w2}
  Tenants = {t1}
  TenantOf <- OneTenant
  Capacity <- FourSeats
  Seeded <- NoneSeeded
  PartySizes = {2}
  ReserveTtl = 0
  BatchSize = 2
  MaxTime = 2
SPECIFICATION Spec
INVARIANTS
  ExpiredOnce
  LocksHeld
  ClaimedNotConfirmable
PROPERTIES
  HoldsEnd
