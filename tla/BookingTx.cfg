CONSTANTS
  u1 = u1
  s1 = s1
  t1 = t1
  Null = Null
  Users = {u1}
  Slots = {s1}
  ActiveSlots = {s1}
  BookingIds = {b1}
  Requests = {r1, r2}
  Workers = {w1, w2}
  Tenants = {t1}
  TenantOf <- OneTenant
  Capacity <- ThreeSeats
  Seeded <- OneSeeded
  PartySizes = {1}
  ReserveTtl = 0
  BatchSize = 1
  MaxTime = 1
SPECIFICATION Spec
INVARIANTS
  TypeOK
  DeadlocksAreOverdueHolds
PROPERTIES
  ImplementsBooking
  TransactionsEnd
