CONSTANTS
  u1 = u1
  s1 = s1
  s2 = s2
  t1 = t1
  Null = Null
  Users = {u1}
  Slots = {s1}
  ActiveSlots = {s1}
  BookingIds = {b1, b2}
  Requests = {r1, r2}
  Workers = {w1}
  Tenants = {t1}
  TenantOf <- OneTenant
  Capacity <- TwoSeats
  Seeded <- NoneSeeded
  PartySizes = {1}
  ReserveTtl = 0
  BatchSize = 1
  MaxTime = 1
SPECIFICATION SafetySpec
PROPERTIES
  AllowedTransitionsOnly
