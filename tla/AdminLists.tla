----------------------------- MODULE AdminLists -----------------------------
(***************************************************************************)
(* The lists of the administration (src/services/admin-booking.service.ts, *)
(* audit-log.service.ts), walked page by page by a client while the        *)
(* booking service goes on.  `$transaction([count, findMany])` runs its    *)
(* two queries one after the other at READ COMMITTED: each sees what is    *)
(* committed when it runs, and a page is a slice at an offset.             *)
(*                                                                         *)
(* createdAt is taken when a row is written and seen when its transaction  *)
(* commits: `stamp` keeps the times, which lag behind by at most MaxLag,   *)
(* so that rows need not appear in the order of their times.  It is empty  *)
(* for the rows of the seed, which nobody lists here.                      *)
(***************************************************************************)
EXTENDS Search

CONSTANTS
  ListQueries,  \* queries that the schemas of admin.requests.ts let through
  MaxLag        \* bound on the time between writing a row and its COMMIT

VARIABLE stamp  \* createdAt of the audit rows of every booking, in the order of `audit`

lvars == <<slots, bookings, history, audit, req, worker, now, reader, stamp>>

NoFilter == Null

BookingSort == {"created_at", "status", "total_price", "slot_starts_at"}

\* adminBookingListQuerySchema and auditLogListQuerySchema.  created_from and created_to
\* are a set of days; experience_id, slot_from and slot_to a set of slots.
WellFormedList(q) ==
  /\ q.list \in {"bookings", "audit"}
  /\ q.status \in Status \cup {NoFilter}
  /\ q.days \subseteq Nat
  /\ q.among \subseteq Slots
  /\ q.sortBy \in IF q.list = "bookings" THEN BookingSort ELSE {"created_at"}
  /\ q.desc \in BOOLEAN
  /\ q.pageSize \in 1..100

ASSUME ListQueriesAssumption ==
  \A q \in ListQueries :
     /\ WellFormedList(q) /\ q.tenant \in Tenants
     /\ q.user \in Users \cup {NoFilter} /\ q.booking \in BookingIds \cup {NoFilter}

ASSUME LagAssumption == MaxLag \in Nat

\* What a filter lets through: everything, unless it is given.
Lets(filter, value) == filter \in {NoFilter, value}

\* createdAt of a booking is that of its first audit row: one transaction writes both.
CreatedAt(row) == stamp[row[1]][IF row[2] = 0 THEN 1 ELSE row[2]]

\* Rows are named <<b, 0>> for booking b and <<b, i>> for its i-th audit row.
BookingRows(q) ==
  {<<b, 0>> : b \in {c \in DOMAIN bookings :
     /\ bookings[c].tenantId = q.tenant
     /\ Lets(q.status, bookings[c].status)
     /\ Lets(q.user, bookings[c].userId)
     /\ Lets(q.booking, c)
     /\ bookings[c].slotId \in q.among
     /\ CreatedAt(<<c, 0>>) \in q.days}}

\* Of the audit log, the rows about bookings: entity_type "Booking".
AuditRows(q) ==
  {row \in UNION {{b} \X DOMAIN audit[b] : b \in DOMAIN audit} :
     /\ bookings[row[1]].tenantId = q.tenant
     /\ Lets(q.status, audit[row[1]][row[2]].event)
     /\ Lets(q.user, audit[row[1]][row[2]].actorUserId)
     /\ Lets(q.booking, row[1])
     /\ CreatedAt(row) \in q.days}

ListRows(q) == IF q.list = "bookings" THEN BookingRows(q) ELSE AuditRows(q)

\* Enumerations are ordered as they are declared.
StatusRank == [RESERVED |-> 0, CONFIRMED |-> 1, CANCELLED |-> 2, EXPIRED |-> 3]

\* buildBookingOrderBy
SortByStatus(q, row) ==
  IF q.list = "bookings" THEN StatusRank[bookings[row[1]].status] ELSE CreatedAt(row)

SortBy(q, row) ==
  CASE q.sortBy = "status" -> StatusRank[bookings[row[1]].status]
    [] q.sortBy = "total_price" -> PriceOf[bookings[row[1]].slotId] * bookings[row[1]].partySize
    [] q.sortBy = "slot_starts_at" -> StartsAt[bookings[row[1]].slotId]
    [] q.sortBy = "created_at" -> CreatedAt(row)

(***************************************************************************)
(* One page of the walk.  `missing` and `late` are auxiliary: the rows     *)
(* there were when the walk began and that were not shown yet, and how     *)
(* many rows came between the page's count and its findMany.               *)
(***************************************************************************)
WalkStarts(q) ==
  /\ reader.pc = "idle"
  /\ reader' = [pc |-> "listCount", query |-> q, page |-> 1, missing |-> ListRows(q)]

ListCount(q) == Cardinality(ListRows(q))

\* count
ListCounts ==
  LET q == reader.query IN
  /\ reader.pc = "listCount"
  /\ reader' = [pc |-> "listFind", query |-> q, page |-> reader.page,
                missing |-> reader.missing, total |-> ListCount(q)]

\* findMany, and the answer
ListFinds ==
  LET q == reader.query
      rows == ListRows(q) IN
  /\ reader.pc = "listFind"
  /\ \E order \in Orders(rows, [row \in rows |-> SortBy(q, row)], q.desc) :
       LET items == Page(order, reader.page, q.pageSize) IN
       reader' = [pc |-> "listed", query |-> q, page |-> reader.page, total |-> reader.total,
                  missing |-> reader.missing \ Range(items), length |-> Len(items),
                  late |-> Cardinality(rows) - reader.total]

LastPage == reader.page >= totalPages(reader.total, reader.query.pageSize)

\* The client asks for the next page, or has seen the last.
WalkOn ==
  /\ reader.pc = "listed"
  /\ ~ LastPage
  /\ reader' = [pc |-> "listCount", query |-> reader.query, page |-> reader.page + 1,
                missing |-> reader.missing]

WalkEnds ==
  /\ reader.pc \in {"listCount", "listFind", "listed"}
  /\ reader' = ReaderIdle

ListStep ==
  \/ \E q \in ListQueries : WalkStarts(q)
  \/ ListCounts
  \/ ListFinds
  \/ WalkOn
  \/ WalkEnds

\* The times of the audit rows that a step of the booking service writes.
Stamps ==
  \E t \in Max({0, now - MaxLag})..now :
     stamp' = [b \in DOMAIN audit' |->
       IF b \notin DOMAIN audit THEN <<t>>
       ELSE IF Len(audit'[b]) > Len(audit[b]) THEN Append(stamp[b], t)
       ELSE stamp[b]]

LInit ==
  /\ Init
  /\ reader = ReaderIdle
  /\ stamp = EmptyTable

LNext ==
  \/ Next /\ Stamps /\ UNCHANGED reader
  \/ (SearchStep \/ ListStep) /\ UNCHANGED <<vars, stamp>>

LSpec == LInit /\ [][LNext]_lvars

(***************************************************************************)
(* Properties.                                                             *)
(***************************************************************************)
\* What a query filters and sorts by never changes once a row is written.
Settled(q) == q.list = "audit" \/ (q.status = NoFilter /\ q.sortBy # "status")

\* With these filters a page is never shorter than the total in the same answer makes it:
\* the count comes first, and rows are only ever added.
PageFull ==
  (reader.pc = "listed" /\ Settled(reader.query)) =>
    LET size == reader.query.pageSize IN
    reader.length >= Min({size, reader.total - (reader.page - 1) * size})

\* A row that sorts together with another one, whose order the database does not fix.
Tied(q, row) == \E other \in ListRows(q) \ {row} : SortBy(q, other) = SortBy(q, row)

\* A client that walks through all pages of such a list sees the rows that were there when
\* it began, however many are added in the meantime and wherever they sort in.  Of the rows
\* that tie with no other it misses at most as many as were committed between the count and
\* the findMany of its last page: the total that tells it to stop is older than the page.
WalkComplete ==
  (reader.pc = "listed" /\ LastPage /\ Settled(reader.query)) =>
    Cardinality({row \in reader.missing : ~ Tied(reader.query, row)}) <= reader.late

=============================================================================
