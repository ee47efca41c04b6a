CONSTANTS
  Tenants = {t1}
  Queries = {q1}
  Readers = {r1}
  Writers = {w1}
  Invalidations = {i1}
  Ttl = 1
  MaxChanges = 2
  None = None
SPECIFICATION SafetySpec
INVARIANTS
  ChangesInvalidate
