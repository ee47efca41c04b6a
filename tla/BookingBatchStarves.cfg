CONSTANTS
  u1 = u1
  s1 = s1
  s2 = s2
  t1 = t1
  Null = Null
  Users = {u1}
  Slots = {s1, s2}
  ActiveSlots = {s1, s2}
  BookingIds = {b1, b2, b3}
  Requests = {r1}
  Workers = {w1}
  Tenants = {t1}
  TenantOf <- OneTenantTwoSlots
  Capacity <- TwoAndOne
  Seeded <- NoneSeeded
  PartySizes = {1}
  ReserveTtl = 0
  BatchSize = 1
  MaxTime = 1
SPECIFICATION Spec
PROPERTIES
  HealthyHoldsEnd
