CONSTANTS
  Tenants = {t1, t2}
  Queries = {q1, q2}
  Readers = {r1}
  Writers = {w1}
  Invalidations = {i1}
  Ttl = 1
  MaxChanges = 1
  None = None
SPECIFICATION Spec
INVARIANTS
  TypeOK
  StaleIsDoomed
  CacheIsolation
PROPERTIES
  CacheConverges
