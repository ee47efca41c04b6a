CONSTANTS
  u1 = u1
  s1 = s1
  s2 = s2
  s3 = s3
  s4 = s4
  t1 = t1
  t2 = t2
  e1 = e1
  e2 = e2
  e3 = e3
  Null = Null
  Users = {u1}
  Slots = {s1, s2, s3, s4}
  ActiveSlots = {s1, s2, s3, s4}
  BookingIds = {b1, b2}
  Requests = {r1}
  Workers = {}
  Tenants = {t1, t2}
  TenantOf <- Tenancy
  Capacity <- TwoSeats
  Seeded <- OneSeeded
  PartySizes = {2}
  ReserveTtl = 0
  BatchSize = 1
  MaxTime = 1
  Experiences = {e1, e2, e3}
  ExperienceOf <- Catalog
  OwnerOf <- Owners
  Room <- Rooms
  BasePrice <- Prices
  Title <- Titles
  StartsAt <- Days
  PriceOf <- SlotPrices
  SearchQueries <- Searches
  ListQueries <- Lists
  MaxLag = 1
SPECIFICATION LSpec
SYMMETRY Symmetry
INVARIANTS
  AnswerExact
  PriceOrder
  PageFull
  WalkComplete
