CONSTANTS
  Users = {u1}
  FamilyIds = {f1, f2}
  TokenIds = {x1, x2, x3, x4}
  Requests = {r1, r2}
  RefreshTtl = 1
  MaxLogouts = 1
  MaxTime = 1
  Null = Null
SPECIFICATION Spec
SYMMETRY Symmetry
INVARIANTS
  TypeOK
  LiveTokensCounted
  HonestSession
  LostAnswerFatal
PROPERTIES
  ClosedStaysClosed
