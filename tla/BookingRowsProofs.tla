-------------------------- MODULE BookingRowsProofs --------------------------
(* What the rows of the tables say of one another: the history of a booking   *)
(* tells its status, the history of a slot tells its seats and its version,   *)
(* and a booking, its user and who acts on it belong together.                *)
EXTENDS BookingProofs

\* What appending one row does to the timeline of a booking and its audit log.
LEMMA ChangedRows ==
  ASSUME TypeOK, NEW b \in DOMAIN bookings, NEW from \in Status \cup {Null}, NEW to \in Status,
         NEW actor \in Users \cup {Null}, Changed(b, from, to, actor)
  PROVE  /\ DOMAIN bookings' = DOMAIN bookings
         /\ \A c \in DOMAIN bookings : c # b => /\ bookings'[c] = bookings[c]
                                                /\ history'[c] = history[c]
                                                /\ audit'[c] = audit[c]
         /\ bookings'[b].status = to
         /\ bookings'[b].slotId = bookings[b].slotId
         /\ bookings'[b].partySize = bookings[b].partySize
         /\ history[b] \in Seq(HistoryRow) /\ audit[b] \in Seq(AuditRow)
         /\ history'[b] = Append(history[b],
              [fromStatus |-> from, toStatus |-> to, actorUserId |-> actor])
         /\ audit'[b] = Append(audit[b], [event |-> to, actorUserId |-> actor])
  <1>1. /\ DOMAIN bookings' = DOMAIN bookings
        /\ \A c \in DOMAIN bookings : c # b => bookings'[c] = bookings[c]
        /\ bookings'[b].status = to
        /\ bookings'[b].slotId = bookings[b].slotId
        /\ bookings'[b].partySize = bookings[b].partySize
    BY DEF Changed, SetStatus, TypeOK, BookingRow
  <1>2. /\ \A c \in DOMAIN bookings : c # b => history'[c] = history[c]
        /\ history[b] \in Seq(HistoryRow)
        /\ history'[b] = Append(history[b],
              [fromStatus |-> from, toStatus |-> to, actorUserId |-> actor])
    BY DEF Changed, appendStatusHistory, TypeOK
  <1>3. /\ \A c \in DOMAIN bookings : c # b => audit'[c] = audit[c]
        /\ audit[b] \in Seq(AuditRow)
        /\ audit'[b] = Append(audit[b], [event |-> to, actorUserId |-> actor])
    BY DEF Changed, logAudit, TypeOK
  <1> QED BY <1>1, <1>2, <1>3

\* A new booking has one row in each table, and no other row changes.
LEMMA CreatedRows ==
  ASSUME TypeOK, NEW b \in BookingIds \ DOMAIN bookings, NEW row \in BookingRow, Created(b, row)
  PROVE  /\ DOMAIN bookings' = DOMAIN bookings \cup {b}
         /\ \A c \in DOMAIN bookings : c # b => /\ bookings'[c] = bookings[c]
                                                /\ history'[c] = history[c]
                                                /\ audit'[c] = audit[c]
         /\ bookings'[b] = row
         /\ history'[b] =
              << [fromStatus |-> Null, toStatus |-> "RESERVED", actorUserId |-> row.userId] >>
         /\ audit'[b] = << [event |-> "RESERVED", actorUserId |-> row.userId] >>
  BY DEF Created, Insert, TypeOK

\* Equal rows have equal trails.
LEMMA SameTrail ==
  ASSUME NEW c, TrailOf(c), history'[c] = history[c], audit'[c] = audit[c],
         bookings'[c].status = bookings[c].status
  PROVE  TrailOf(c)'
  BY Zenon DEF TrailOf

\* A status change with its history row and its audit row keeps the trail complete.
LEMMA ChangedTrail ==
  ASSUME TypeOK, NEW b \in DOMAIN bookings, NEW from \in Status \cup {Null}, NEW to \in Status,
         NEW actor \in Users \cup {Null}, Changed(b, from, to, actor), TrailComplete
  PROVE  TrailComplete'
  <1> SUFFICES ASSUME NEW c \in DOMAIN bookings PROVE TrailOf(c)'
    BY ChangedRows DEF TrailComplete
  <1>1. TrailOf(c)
    BY DEF TrailComplete
  <1>2. CASE c # b
    <2>1. history'[c] = history[c] /\ audit'[c] = audit[c] /\ bookings'[c] = bookings[c]
      BY <1>2, ChangedRows
    <2> QED BY <1>1, <2>1, SameTrail
  <1>3. CASE c = b
    <2> DEFINE h == history[b]
               a == audit[b]
               hrow == [fromStatus |-> from, toStatus |-> to, actorUserId |-> actor]
               arow == [event |-> to, actorUserId |-> actor]
    <2>1. /\ h \in Seq(HistoryRow) /\ a \in Seq(AuditRow)
          /\ history'[b] = Append(h, hrow) /\ audit'[b] = Append(a, arow)
          /\ bookings'[b].status = to
      BY ChangedRows
    <2>2. h # << >> /\ Len(a) = Len(h) /\ Len(h) \in Nat /\ Len(h) >= 1
      BY <1>1, <1>3, <2>1 DEF TrailOf
    <2>3. /\ hrow.toStatus = to /\ hrow.actorUserId = actor
          /\ arow = [event |-> hrow.toStatus, actorUserId |-> hrow.actorUserId]
      OBVIOUS
    <2>4. /\ Len(Append(h, hrow)) = Len(h) + 1 /\ Len(Append(a, arow)) = Len(h) + 1
          /\ \A i \in 1..Len(h) : Append(h, hrow)[i] = h[i] /\ Append(a, arow)[i] = a[i]
          /\ Append(h, hrow)[Len(h) + 1] = hrow /\ Append(a, arow)[Len(h) + 1] = arow
          /\ DOMAIN h = 1..Len(h) /\ DOMAIN Append(h, hrow) = 1..(Len(h) + 1)
      <3> HIDE DEF h, a, hrow, arow
      <3>1. hrow \in HistoryRow /\ arow \in AuditRow
        BY DEF hrow, arow, HistoryRow, AuditRow
      <3> QED BY <2>1, <2>2, <3>1
    <2>5. \A i \in 1..Len(h) : a[i] = [event |-> h[i].toStatus, actorUserId |-> h[i].actorUserId]
      BY <1>1, <1>3, <2>4 DEF TrailOf
    <2>6. h[1].fromStatus = Null
      BY <1>1, <1>3 DEF TrailOf
    <2> HIDE DEF h, a, hrow, arow
    <2>7. \A i \in 1..(Len(h) + 1) :
            Append(a, arow)[i] = [event |-> Append(h, hrow)[i].toStatus,
                                  actorUserId |-> Append(h, hrow)[i].actorUserId]
      <3> SUFFICES ASSUME NEW i \in 1..(Len(h) + 1)
                   PROVE  Append(a, arow)[i] = [event |-> Append(h, hrow)[i].toStatus,
                                  actorUserId |-> Append(h, hrow)[i].actorUserId]
        OBVIOUS
      <3>1. CASE i \in 1..Len(h)
        BY <2>4, <2>5, <3>1
      <3>2. CASE i = Len(h) + 1
        BY <2>3, <2>4, <3>2
      <3> QED BY <2>2, <3>1, <3>2
    <2>8. Append(h, hrow)[1].fromStatus = Null /\ Append(h, hrow) # << >>
      BY <2>2, <2>4, <2>6
    <2> QED BY <1>3, <2>1, <2>3, <2>4, <2>7, <2>8 DEF TrailOf
  <1> QED BY <1>2, <1>3

\* No step leaves a timeline or an audit log behind its booking.
LEMMA TrailStep ==
  ASSUME IInv, TrailComplete, [Next]_vars
  PROVE  TrailComplete'
  <1> USE DEF IInv
  <1>0. {"CONFIRMED", "CANCELLED", "EXPIRED", "RESERVED"} \subseteq Status
    BY DEF Status
  <1>1. CASE UNCHANGED <<slots, bookings, history, audit>>
    BY <1>1 DEF TrailComplete, TrailOf
  <1>2. ASSUME NEW b \in BookingIds \ DOMAIN bookings, NEW row \in BookingRow, Created(b, row)
        PROVE  TrailComplete'
    <2> SUFFICES ASSUME NEW c \in DOMAIN bookings' PROVE TrailOf(c)'
      BY DEF TrailComplete
    <2>1. CASE c = b
      <3>1. /\ history'[c] =
              << [fromStatus |-> Null, toStatus |-> "RESERVED", actorUserId |-> row.userId] >>
            /\ audit'[c] = << [event |-> "RESERVED", actorUserId |-> row.userId] >>
            /\ bookings'[c].status = "RESERVED"
        BY <1>2, <2>1, CreatedRows DEF Created
      <3> QED BY <3>1 DEF TrailOf
    <2>2. CASE c # b
      <3>1. c \in DOMAIN bookings /\ TrailOf(c)
        BY <1>2, <2>2, CreatedRows DEF TrailComplete
      <3>2. history'[c] = history[c] /\ audit'[c] = audit[c] /\ bookings'[c] = bookings[c]
        BY <1>2, <2>2, <3>1, CreatedRows
      <3> QED BY <3>1, <3>2, SameTrail
    <2> QED BY <2>1, <2>2
  <1>3. ASSUME NEW b \in DOMAIN bookings, NEW from \in Status, NEW to \in Status,
               NEW actor \in Users \cup {Null}, Changed(b, from, to, actor)
        PROVE  TrailComplete'
    BY <1>3, ChangedTrail
  <1> QED BY <1>0, <1>1, <1>2, <1>3, TableStep

\* The timeline of every booking ends in its status and the audit log mirrors it,
\* whatever stale snapshots the handlers commit.
THEOREM TrailCorrect == SafetySpec => []TrailComplete
  <1>1. Init => TrailComplete
    BY DEF Init, TrailComplete, EmptyTable
  <1>2. IInv /\ [Next]_vars => IInv'
    BY TypeStep, LocksStep DEF IInv
  <1> QED BY InitIInv, <1>1, <1>2, TrailStep, PTL DEF SafetySpec

(***************************************************************************)
(* Counting seats.                                                         *)
(***************************************************************************)
LEMMA SeatCount ==
  ASSUME NEW b, NEW n \in Nat
  PROVE  IsFiniteSet({b} \X (1..n)) /\ Cardinality({b} \X (1..n)) = n
  <1>1. IsFiniteSet({b}) /\ Cardinality({b}) = 1
    BY FS_Singleton
  <1>2. IsFiniteSet(1..n) /\ Cardinality(1..n) = n
    BY FS_Interval
  <1>3. /\ IsFiniteSet({b} \X (1..n))
        /\ Cardinality({b} \X (1..n)) = Cardinality({b}) * Cardinality(1..n)
    BY <1>1, <1>2, FS_Product
  <1> QED BY <1>1, <1>2, <1>3

\* Adding disjoint seats adds up.
LEMMA AddSeats ==
  ASSUME NEW H, IsFiniteSet(H), NEW S, IsFiniteSet(S), H \cap S = {}
  PROVE  /\ IsFiniteSet(H \cup S)
         /\ Cardinality(H \cup S) = Cardinality(H) + Cardinality(S)
  <1>1. Cardinality(H) \in Nat /\ Cardinality(S) \in Nat
    BY FS_CardinalityType
  <1>2. /\ IsFiniteSet(H \cup S)
        /\ Cardinality(H \cup S) = Cardinality(H) + Cardinality(S) - Cardinality(H \cap S)
    BY FS_Union
  <1>3. Cardinality(H \cap S) = 0
    BY FS_EmptySet
  <1> QED BY <1>1, <1>2, <1>3

\* Removing seats that are there subtracts.
LEMMA RemoveSeats ==
  ASSUME NEW H, IsFiniteSet(H), NEW S \in SUBSET H
  PROVE  /\ IsFiniteSet(H \ S)
         /\ Cardinality(H \ S) = Cardinality(H) - Cardinality(S)
  <1>1. H \cap S = S
    OBVIOUS
  <1> QED BY <1>1, FS_Difference

\* A held seat, by its booking.
LEMMA HeldSeat ==
  ASSUME NEW s, NEW x
  PROVE  x \in HeldSeats(s) <=>
           \E b \in DOMAIN bookings : bookings[b].slotId = s /\ Holding(b) /\ x \in Seats(b)
  BY DEF HeldSeats, BookingsOf

\* The held seats of the next state, spelled out.
LEMMA HeldSeatNext ==
  ASSUME NEW s, NEW x
  PROVE  x \in HeldSeats(s)' <=>
           \E b \in DOMAIN bookings' :
              /\ bookings'[b].slotId = s
              /\ bookings'[b].status \in {"RESERVED", "CONFIRMED"}
              /\ x \in {b} \X (1..bookings'[b].partySize)
  BY DEF HeldSeats, BookingsOf, Holding, Seats

\* A seat names its booking.
LEMMA SeatOwner ==
  ASSUME NEW b, NEW x \in Seats(b)
  PROVE  x[1] = b
  BY DEF Seats

\* A new booking adds its seats to its slot.
LEMMA CreatedSeats ==
  ASSUME TypeOK, NEW b \in BookingIds \ DOMAIN bookings, NEW row \in BookingRow,
         Created(b, row), NEW s \in Slots
  PROVE  /\ s # row.slotId => HeldSeats(s)' = HeldSeats(s)
         /\ s = row.slotId => HeldSeats(s)' = HeldSeats(s) \cup ({b} \X (1..row.partySize))
         /\ HeldSeats(s) \cap ({b} \X (1..row.partySize)) = {}
  <1>1. /\ DOMAIN bookings' = DOMAIN bookings \cup {b}
        /\ \A c \in DOMAIN bookings : bookings'[c] = bookings[c]
        /\ bookings'[b] = row
        /\ row.status = "RESERVED"
    BY CreatedRows DEF Created
  <1>2. ASSUME NEW x
        PROVE  x \in HeldSeats(s)' <=>
                 \/ x \in HeldSeats(s)
                 \/ s = row.slotId /\ x \in {b} \X (1..row.partySize)
    <2>1. x \in HeldSeats(s) <=> \E c \in DOMAIN bookings :
             /\ bookings[c].slotId = s
             /\ bookings[c].status \in {"RESERVED", "CONFIRMED"}
             /\ x \in {c} \X (1..bookings[c].partySize)
      BY HeldSeat DEF Holding, Seats
    <2> QED BY <1>1, <2>1, HeldSeatNext
  <1>3. ASSUME NEW x \in HeldSeats(s), x \in {b} \X (1..row.partySize)
        PROVE  FALSE
    <2>1. PICK c \in DOMAIN bookings : x \in Seats(c)
      BY HeldSeat
    <2>2. x[1] = c /\ x[1] = b
      BY <1>3, <2>1, SeatOwner
    <2> QED BY <2>2
  <1> QED BY <1>2, <1>3

\* A booking that is confirmed holds its seats, one that is cancelled or expired
\* does not, and no other seats are touched.
LEMMA ChangedSeats ==
  ASSUME TypeOK, NEW b \in DOMAIN bookings, NEW from \in Status, NEW to \in Status,
         NEW actor \in Users \cup {Null}, Changed(b, from, to, actor), NEW s \in Slots
  PROVE  /\ s # bookings[b].slotId => HeldSeats(s)' = HeldSeats(s)
         /\ (s = bookings[b].slotId /\ to = "CONFIRMED")
              => HeldSeats(s)' = HeldSeats(s) \cup Seats(b)
         /\ (s = bookings[b].slotId /\ to \in {"CANCELLED", "EXPIRED"})
              => HeldSeats(s)' = HeldSeats(s) \ Seats(b)
  <1>1. /\ DOMAIN bookings' = DOMAIN bookings
        /\ \A c \in DOMAIN bookings : c # b => bookings'[c] = bookings[c]
        /\ bookings'[b].status = to
        /\ bookings'[b].slotId = bookings[b].slotId
        /\ bookings'[b].partySize = bookings[b].partySize
    BY ChangedRows
  <1>2. ASSUME NEW x
        PROVE  x \in HeldSeats(s)' <=>
                 \/ x \in HeldSeats(s) /\ x \notin Seats(b)
                 \/ s = bookings[b].slotId /\ to \in {"RESERVED", "CONFIRMED"} /\ x \in Seats(b)
    <2>1. x \in HeldSeats(s)' <=>
            \E c \in DOMAIN bookings : \/ /\ c # b /\ bookings[c].slotId = s /\ Holding(c)
                                          /\ x \in Seats(c)
                                       \/ /\ c = b /\ bookings[b].slotId = s
                                          /\ to \in {"RESERVED", "CONFIRMED"}
                                          /\ x \in Seats(b)
      BY <1>1, HeldSeatNext DEF Holding, Seats
    <2>2. \A c \in DOMAIN bookings : x \in Seats(c) /\ c # b => x \notin Seats(b)
      BY SeatOwner
    <2> QED BY <2>1, <2>2, HeldSeat
  <1>3. s # bookings[b].slotId => HeldSeats(s) \cap Seats(b) = {}
    <2> SUFFICES ASSUME s # bookings[b].slotId, NEW x \in HeldSeats(s), x \in Seats(b)
                 PROVE  FALSE
      OBVIOUS
    <2>1. PICK c \in DOMAIN bookings : bookings[c].slotId = s /\ x \in Seats(c)
      BY HeldSeat
    <2> QED BY <2>1, SeatOwner
  <1> QED BY <1>2, <1>3

\* A timeline that is regular after a row was appended was regular before, and the
\* new status is a legal successor of the booking's status.
LEMMA RegularBefore ==
  ASSUME TypeOK, NEW b \in DOMAIN bookings, NEW from \in Status, NEW to \in Status,
         NEW actor \in Users \cup {Null}, Changed(b, from, to, actor), TrailOf(b), Regular(b)'
  PROVE  Regular(b) /\ to \in ALLOWED_TRANSITIONS[bookings[b].status]
  <1> DEFINE h == history[b]
             hrow == [fromStatus |-> from, toStatus |-> to, actorUserId |-> actor]
  <1>0. from \in Status \cup {Null}
    OBVIOUS
  <1>1. h \in Seq(HistoryRow) /\ history'[b] = Append(h, hrow)
    BY <1>0, ChangedRows
  <1>2. /\ Len(h) \in Nat /\ Len(h) >= 1
        /\ h[Len(h)].toStatus = bookings[b].status
    BY <1>1 DEF TrailOf
  <1>3. hrow \in HistoryRow /\ hrow.toStatus = to
    BY DEF HistoryRow
  <1>4. \A i \in 1..(Len(history'[b]) - 1) :
          history'[b][i + 1].toStatus \in ALLOWED_TRANSITIONS[history'[b][i].toStatus]
    BY DEF Regular, ALLOWED_TRANSITIONS
  <1> HIDE DEF h, hrow
  <1>5. /\ Len(history'[b]) = Len(h) + 1
        /\ \A i \in 1..Len(h) : history'[b][i] = h[i]
        /\ history'[b][Len(h) + 1] = hrow
    BY <1>1, <1>2, <1>3
  <1>6. to \in ALLOWED_TRANSITIONS[bookings[b].status]
    <2>1. Len(h) \in 1..(Len(history'[b]) - 1)
      BY <1>2, <1>5
    <2>2. history'[b][Len(h) + 1].toStatus
            \in ALLOWED_TRANSITIONS[history'[b][Len(h)].toStatus]
      BY <1>4, <2>1
    <2>3. history'[b][Len(h)] = h[Len(h)]
      BY <1>2, <1>5
    <2> QED BY <1>2, <1>3, <1>5, <2>2, <2>3
  <1>7. \A i \in 1..(Len(h) - 1) : h[i + 1].toStatus \in ALLOWED_TRANSITIONS[h[i].toStatus]
    <2> SUFFICES ASSUME NEW i \in 1..(Len(h) - 1)
                 PROVE  h[i + 1].toStatus \in ALLOWED_TRANSITIONS[h[i].toStatus]
      OBVIOUS
    <2>1. i \in 1..Len(h) /\ i + 1 \in 1..Len(h) /\ i \in 1..(Len(history'[b]) - 1)
      BY <1>2, <1>5
    <2>2. history'[b][i] = h[i] /\ history'[b][i + 1] = h[i + 1]
      BY <1>5, <2>1
    <2> QED BY <1>4, <2>1, <2>2
  <1> QED BY <1>6, <1>7 DEF Regular, h

(***************************************************************************)
(* reserved is exact on slots whose bookings all kept to the lifecycle.    *)
(* The invariant also says that the held seats can be counted, and needs   *)
(* TrailComplete: the last row of the timeline is the status that a        *)
(* release or a confirm starts from.                                       *)
(***************************************************************************)
SeatsFinite == \A s \in Slots : IsFiniteSet(HeldSeats(s))

\* A step adds or removes the seats of one booking at most.
LEMMA FiniteStep ==
  ASSUME IInv, SeatsFinite, [Next]_vars
  PROVE  SeatsFinite'
  <1> USE DEF IInv
  <1>0. {"CONFIRMED", "CANCELLED", "EXPIRED", "RESERVED"} \subseteq Status
    BY DEF Status
  <1> SUFFICES ASSUME NEW s \in Slots PROVE IsFiniteSet(HeldSeats(s)')
    BY DEF SeatsFinite
  <1>1. IsFiniteSet(HeldSeats(s))
    BY DEF SeatsFinite
  <1>2. CASE UNCHANGED <<slots, bookings, history, audit>>
    BY <1>1, <1>2 DEF HeldSeats, BookingsOf, Holding, Seats
  <1>3. ASSUME NEW b \in BookingIds \ DOMAIN bookings, NEW row \in BookingRow, Created(b, row)
        PROVE  IsFiniteSet(HeldSeats(s)')
    <2>1. IsFiniteSet({b} \X (1..row.partySize))
      BY SeatCount DEF BookingRow
    <2>2. IsFiniteSet(HeldSeats(s) \cup ({b} \X (1..row.partySize)))
      BY <1>1, <2>1, FS_Union
    <2> QED BY <1>1, <1>3, <2>2, CreatedSeats
  <1>4. ASSUME NEW b \in DOMAIN bookings, NEW from \in Status,
               NEW to \in {"CONFIRMED", "CANCELLED", "EXPIRED"},
               NEW actor \in Users \cup {Null}, Changed(b, from, to, actor)
        PROVE  IsFiniteSet(HeldSeats(s)')
    <2>1. IsFiniteSet(Seats(b))
      BY SeatCount DEF Seats, TypeOK, BookingRow
    <2>2. IsFiniteSet(HeldSeats(s) \cup Seats(b)) /\ IsFiniteSet(HeldSeats(s) \ Seats(b))
      BY <1>1, <2>1, FS_Union, FS_Difference
    <2>3. to \in Status
      BY <1>0
    <2> QED BY <1>1, <1>4, <2>2, <2>3, ChangedSeats
  <1> QED BY <1>0, <1>2, <1>3, <1>4, TableStep

\* The bookings of a slot are regular after a step only if they were before.
LEMMA ExactCreated ==
  ASSUME TypeOK, SeatsFinite, RegularSlotsExact, NEW b \in BookingIds \ DOMAIN bookings,
         NEW row \in BookingRow, Created(b, row)
  PROVE  RegularSlotsExact'
  <1> SUFFICES ASSUME NEW s \in Slots, (\A c \in BookingsOf(s) : Regular(c))'
               PROVE  slots'[s].reserved = Seeded[s] + Cardinality(HeldSeats(s)')
    BY DEF RegularSlotsExact
  <1>1. \A c \in BookingsOf(s) : Regular(c)
    <2> SUFFICES ASSUME NEW c \in BookingsOf(s) PROVE Regular(c)
      OBVIOUS
    <2>1. c \in DOMAIN bookings /\ bookings[c].slotId = s
      BY DEF BookingsOf
    <2>2. c \in BookingsOf(s)' /\ history'[c] = history[c]
      BY <2>1, CreatedRows DEF BookingsOf
    <2>3. Regular(c)'
      BY <2>2
    <2> QED BY <2>2, <2>3 DEF Regular
  <1>2. slots[s].reserved = Seeded[s] + Cardinality(HeldSeats(s))
    BY <1>1 DEF RegularSlotsExact
  <1>3. row.slotId \in Slots /\ row.partySize \in Nat
    BY DEF BookingRow
  <1>4. slots'[s].reserved =
          IF s = row.slotId THEN slots[s].reserved + row.partySize ELSE slots[s].reserved
    BY <1>3 DEF Created, ReserveSeats, TypeOK, SlotRow
  <1>5. CASE s # row.slotId
    BY <1>2, <1>4, <1>5, CreatedSeats
  <1>6. CASE s = row.slotId
    <2>1. IsFiniteSet(HeldSeats(s)) /\ Cardinality(HeldSeats(s)) \in Nat
      BY FS_CardinalityType DEF SeatsFinite
    <2>2. /\ IsFiniteSet({b} \X (1..row.partySize))
          /\ Cardinality({b} \X (1..row.partySize)) = row.partySize
      BY <1>3, SeatCount
    <2>3. /\ HeldSeats(s)' = HeldSeats(s) \cup ({b} \X (1..row.partySize))
          /\ HeldSeats(s) \cap ({b} \X (1..row.partySize)) = {}
      BY <1>6, CreatedSeats
    <2>4. Cardinality(HeldSeats(s)') = Cardinality(HeldSeats(s)) + row.partySize
      BY <2>1, <2>2, <2>3, AddSeats
    <2>5. Seeded[s] \in Nat
      BY ConstantsAssumption
    <2> QED BY <1>2, <1>3, <1>4, <1>6, <2>1, <2>4, <2>5
  <1> QED BY <1>5, <1>6

\* A status change of a booking that kept to the lifecycle moves `reserved` by exactly
\* the seats it stops holding.
LEMMA ExactChanged ==
  ASSUME TypeOK, SeatsFinite, RegularSlotsExact, TrailComplete, NEW b \in DOMAIN bookings,
         NEW from \in Status, NEW to \in {"CONFIRMED", "CANCELLED", "EXPIRED"},
         NEW actor \in Users \cup {Null}, Changed(b, from, to, actor),
         IF to = "CONFIRMED" THEN slots' = slots ELSE Released(b)
  PROVE  RegularSlotsExact'
  <1>0. to \in Status /\ from \in Status \cup {Null}
    BY DEF Status
  <1> SUFFICES ASSUME NEW s \in Slots, (\A c \in BookingsOf(s) : Regular(c))'
               PROVE  slots'[s].reserved = Seeded[s] + Cardinality(HeldSeats(s)')
    BY DEF RegularSlotsExact
  <1>1. \A c \in BookingsOf(s) : /\ Regular(c)
                                 /\ c = b => to \in ALLOWED_TRANSITIONS[bookings[b].status]
    <2> SUFFICES ASSUME NEW c \in BookingsOf(s)
                 PROVE  /\ Regular(c)
                        /\ c = b => to \in ALLOWED_TRANSITIONS[bookings[b].status]
      OBVIOUS
    <2>1. c \in DOMAIN bookings /\ bookings[c].slotId = s
      BY DEF BookingsOf
    <2>2. c \in BookingsOf(s)'
      BY <1>0, <2>1, ChangedRows DEF BookingsOf
    <2>3. Regular(c)'
      BY <2>2
    <2>4. CASE c # b
      <3>1. history'[c] = history[c]
        BY <1>0, <2>1, <2>4, ChangedRows
      <3> QED BY <2>3, <2>4, <3>1 DEF Regular
    <2>5. CASE c = b
      <3>1. TrailOf(b)
        BY DEF TrailComplete
      <3>2. Regular(b)'
        BY <2>3, <2>5
      <3> QED BY <1>0, <2>5, <3>1, <3>2, RegularBefore
    <2> QED BY <2>4, <2>5
  <1>2. slots[s].reserved = Seeded[s] + Cardinality(HeldSeats(s))
    BY <1>1 DEF RegularSlotsExact
  <1>3. bookings[b].slotId \in Slots /\ bookings[b].partySize \in Nat
    BY DEF TypeOK, BookingRow
  <1>4. CASE s # bookings[b].slotId
    <2>1. slots'[s].reserved = slots[s].reserved
      BY <1>3, <1>4 DEF Released, ReleaseSeats, TypeOK, SlotRow
    <2> QED BY <1>0, <1>2, <1>4, <2>1, ChangedSeats
  <1>5. CASE s = bookings[b].slotId
    <2>1. Holding(b)
      <3>1. b \in BookingsOf(s)
        BY <1>5 DEF BookingsOf
      <3>2. bookings[b].status \in Status /\ to \in ALLOWED_TRANSITIONS[bookings[b].status]
        BY <1>1, <3>1 DEF TypeOK, BookingRow
      <3> QED BY <3>2 DEF Holding, ALLOWED_TRANSITIONS, Status
    <2>2. Seats(b) \in SUBSET HeldSeats(s)
      BY <1>5, <2>1, HeldSeat
    <2>3. IsFiniteSet(HeldSeats(s)) /\ Cardinality(HeldSeats(s)) \in Nat
      BY FS_CardinalityType DEF SeatsFinite
    <2>4. CASE to = "CONFIRMED"
      <3>1. HeldSeats(s)' = HeldSeats(s)
        BY <1>0, <1>5, <2>2, <2>4, ChangedSeats
      <3> QED BY <1>2, <2>4, <3>1
    <2>5. CASE to # "CONFIRMED"
      <3>1. HeldSeats(s)' = HeldSeats(s) \ Seats(b)
        BY <1>0, <1>5, <2>5, ChangedSeats
      <3>2. Cardinality(Seats(b)) = bookings[b].partySize
        BY <1>3, SeatCount DEF Seats
      <3>3. Cardinality(HeldSeats(s)') = Cardinality(HeldSeats(s)) - bookings[b].partySize
        BY <2>2, <2>3, <3>1, <3>2, RemoveSeats
      <3>4. slots'[s].reserved = slots[s].reserved - bookings[b].partySize
        BY <1>3, <1>5, <2>5 DEF Released, ReleaseSeats, TypeOK, SlotRow
      <3>5. Seeded[s] \in Nat
        BY ConstantsAssumption
      <3> QED BY <1>2, <1>3, <2>3, <3>3, <3>4, <3>5
    <2> QED BY <2>4, <2>5
  <1> QED BY <1>4, <1>5

\* No step makes `reserved` differ from the seats held on a regular slot.
LEMMA ExactStep ==
  ASSUME IInv, SeatsFinite, TrailComplete, RegularSlotsExact, [Next]_vars
  PROVE  RegularSlotsExact'
  <1> USE DEF IInv
  <1>1. CASE UNCHANGED <<slots, bookings, history, audit>>
    BY <1>1 DEF RegularSlotsExact, BookingsOf, Regular, HeldSeats, Seats, Holding
  <1>2. ASSUME NEW b \in BookingIds \ DOMAIN bookings, NEW row \in BookingRow, Created(b, row)
        PROVE  RegularSlotsExact'
    BY <1>2, ExactCreated
  <1>3. ASSUME NEW b \in DOMAIN bookings, NEW from \in Status,
               NEW to \in {"CONFIRMED", "CANCELLED", "EXPIRED"},
               NEW actor \in Users \cup {Null}, Changed(b, from, to, actor),
               IF to = "CONFIRMED" THEN slots' = slots ELSE Released(b)
        PROVE  RegularSlotsExact'
    BY <1>3, ExactChanged
  <1>4. "RESERVED" \in Status
    BY DEF Status
  <1> QED BY <1>1, <1>2, <1>3, <1>4, TableStep

ExactInv == IInv /\ TrailComplete /\ SeatsFinite /\ RegularSlotsExact

\* It is exact for the slots as seeded.
LEMMA InitExact == Init => ExactInv
  <1> SUFFICES ASSUME Init PROVE ExactInv
    OBVIOUS
  <1>1. IInv
    BY InitIInv
  <1>2. DOMAIN bookings = {}
    BY DEF Init, EmptyTable
  <1>3. TrailComplete
    BY <1>2 DEF TrailComplete
  <1>4. \A s \in Slots : HeldSeats(s) = {}
    BY <1>2 DEF HeldSeats, BookingsOf
  <1>5. SeatsFinite
    BY <1>4, FS_EmptySet DEF SeatsFinite
  <1>6. \A s \in Slots : slots[s].reserved = Seeded[s] + Cardinality(HeldSeats(s))
    <2>1. \A s \in Slots : slots[s].reserved = Seeded[s] /\ Seeded[s] \in Nat
      BY ConstantsAssumption DEF Init
    <2> QED BY <1>4, <2>1, FS_EmptySet
  <1> QED BY <1>1, <1>3, <1>5, <1>6 DEF ExactInv, RegularSlotsExact

\* The inductive invariant behind SeatsExact.
LEMMA ExactInvariant == SafetySpec => []ExactInv
  <1>1. ASSUME ExactInv, [Next]_vars PROVE ExactInv'
    <2>1. IInv'
      BY <1>1, TypeStep, LocksStep DEF ExactInv, IInv
    <2>2. TrailComplete'
      BY <1>1, TrailStep DEF ExactInv
    <2>3. SeatsFinite'
      BY <1>1, FiniteStep DEF ExactInv
    <2>4. RegularSlotsExact'
      BY <1>1, ExactStep DEF ExactInv
    <2> QED BY <2>1, <2>2, <2>3, <2>4 DEF ExactInv
  <1> QED BY InitExact, <1>1, PTL DEF SafetySpec

\* No interleaving of any number of handlers and workers loses or leaks a seat of a
\* slot whose bookings all kept to the lifecycle.
THEOREM SeatsExact == SafetySpec => []RegularSlotsExact
  BY ExactInvariant, PTL DEF ExactInv

\* So those slots are not oversold either: what their bookings hold and what the
\* seed loaded fits in the capacity.
THEOREM RegularNotOversold ==
  SafetySpec => [](\A s \in Slots : (\A b \in BookingsOf(s) : Regular(b)) =>
                     Seeded[s] + Cardinality(HeldSeats(s)) <= Capacity[s])
  <1>1. CapacityRespected /\ ExactInv =>
          \A s \in Slots : (\A b \in BookingsOf(s) : Regular(b)) =>
             Seeded[s] + Cardinality(HeldSeats(s)) <= Capacity[s]
    BY DEF CapacityRespected, ExactInv, RegularSlotsExact
  <1> QED BY <1>1, CapacityCorrect, ExactInvariant, PTL

(***************************************************************************)
(* The ledger: every version and every seat of a slot, in history rows.    *)
(***************************************************************************)
LEMMA RowElement ==
  ASSUME NEW s, NEW S, NEW x
  PROVE  x \in Rows(s, S) <=>
           \E c \in DOMAIN bookings : /\ bookings[c].slotId = s
                                      /\ \E i \in DOMAIN history[c] :
                                           history[c][i].toStatus \in S /\ x = <<c, i>>
  BY DEF Rows, BookingsOf

LEMMA RowElementNext ==
  ASSUME NEW s, NEW S, NEW x
  PROVE  x \in Rows(s, S)' <=>
           \E c \in DOMAIN bookings' : /\ bookings'[c].slotId = s
                                       /\ \E i \in DOMAIN history'[c] :
                                            history'[c][i].toStatus \in S /\ x = <<c, i>>
  BY DEF Rows, BookingsOf

\* b, with slot sl and n seats, gets its i-th history row, which says `to`.
NewRow(b, i, to, sl, n) ==
  /\ DOMAIN bookings' = DOMAIN bookings \cup {b}
  /\ \A c \in DOMAIN bookings : c # b => bookings'[c] = bookings[c] /\ history'[c] = history[c]
  /\ bookings'[b].slotId = sl /\ bookings'[b].partySize = n
  /\ i \in DOMAIN history'[b] /\ history'[b][i].toStatus = to
  /\ b \in DOMAIN bookings =>
       /\ bookings[b].slotId = sl /\ bookings[b].partySize = n
       /\ DOMAIN history'[b] = DOMAIN history[b] \cup {i} /\ i \notin DOMAIN history[b]
       /\ \A j \in DOMAIN history[b] : history'[b][j] = history[b][j]
  /\ b \notin DOMAIN bookings => DOMAIN history'[b] = {i}

LEMMA RowsGrow ==
  ASSUME NEW b, NEW i, NEW to, NEW sl, NEW n, NewRow(b, i, to, sl, n), NEW s, NEW S
  PROVE  /\ Rows(s, S)' = Rows(s, S) \cup (IF s = sl /\ to \in S THEN {<<b, i>>} ELSE {})
         /\ <<b, i>> \notin Rows(s, S)
  <1>1. <<b, i>> \notin Rows(s, S)
    BY RowElement DEF NewRow
  <1>2. ASSUME NEW x
        PROVE  x \in Rows(s, S)' <=>
                 x \in Rows(s, S) \/ (s = sl /\ to \in S /\ x = <<b, i>>)
    <2>1. ASSUME x \in Rows(s, S) PROVE x \in Rows(s, S)'
      <3>1. PICK c \in DOMAIN bookings : /\ bookings[c].slotId = s
                                         /\ \E j \in DOMAIN history[c] :
                                              history[c][j].toStatus \in S /\ x = <<c, j>>
        BY <2>1, RowElement
      <3>2. /\ c \in DOMAIN bookings' /\ bookings'[c].slotId = s
            /\ \E j \in DOMAIN history'[c] : history'[c][j].toStatus \in S /\ x = <<c, j>>
        BY <3>1 DEF NewRow
      <3> QED BY <3>2, RowElementNext
    <2>2. ASSUME s = sl, to \in S, x = <<b, i>> PROVE x \in Rows(s, S)'
      <3>1. b \in DOMAIN bookings' /\ bookings'[b].slotId = s
        BY <2>2 DEF NewRow
      <3>2. i \in DOMAIN history'[b] /\ history'[b][i].toStatus \in S
        BY <2>2 DEF NewRow
      <3> QED BY <2>2, <3>1, <3>2, RowElementNext
    <2>3. ASSUME x \in Rows(s, S)'
          PROVE  x \in Rows(s, S) \/ (s = sl /\ to \in S /\ x = <<b, i>>)
      <3>1. PICK c \in DOMAIN bookings' : /\ bookings'[c].slotId = s
                                          /\ \E j \in DOMAIN history'[c] :
                                               history'[c][j].toStatus \in S /\ x = <<c, j>>
        BY <2>3, RowElementNext
      <3>2. PICK j \in DOMAIN history'[c] : history'[c][j].toStatus \in S /\ x = <<c, j>>
        BY <3>1
      <3>3. CASE c # b
        <4>1. c \in DOMAIN bookings /\ bookings[c].slotId = s /\ history'[c] = history[c]
          BY <3>1, <3>3 DEF NewRow
        <4> QED BY <3>2, <4>1, RowElement
      <3>4. CASE c = b /\ j = i
        BY <3>1, <3>2, <3>4 DEF NewRow
      <3>5. CASE c = b /\ j # i
        <4>1. /\ b \in DOMAIN bookings /\ bookings[b].slotId = s
              /\ j \in DOMAIN history[b] /\ history'[b][j] = history[b][j]
          BY <3>1, <3>2, <3>5 DEF NewRow
        <4> QED BY <3>2, <3>5, <4>1, RowElement
      <3> QED BY <3>3, <3>4, <3>5
    <2> QED BY <2>1, <2>2, <2>3
  <1> QED BY <1>1, <1>2

\* A row names its booking.
LEMMA RowOwner ==
  ASSUME NEW s, NEW S, NEW x \in Rows(s, S)
  PROVE  x[1] \in DOMAIN bookings
  BY RowElement

LEMMA MovedGrow ==
  ASSUME NEW b, NEW i, NEW to, NEW sl, NEW n, NewRow(b, i, to, sl, n), NEW s, NEW S
  PROVE  /\ Moved(s, S)' = Moved(s, S) \cup (IF s = sl /\ to \in S THEN {<<b, i>>} \X (1..n) ELSE {})
         /\ Moved(s, S) \cap ({<<b, i>>} \X (1..n)) = {}
  <1>1. /\ Rows(s, S)' = Rows(s, S) \cup (IF s = sl /\ to \in S THEN {<<b, i>>} ELSE {})
        /\ <<b, i>> \notin Rows(s, S)
    BY RowsGrow
  <1>2. \A x \in Rows(s, S) : bookings'[x[1]].partySize = bookings[x[1]].partySize
    <2> SUFFICES ASSUME NEW x \in Rows(s, S)
                 PROVE  bookings'[x[1]].partySize = bookings[x[1]].partySize
      OBVIOUS
    <2>1. x[1] \in DOMAIN bookings
      BY RowOwner
    <2> QED BY <2>1 DEF NewRow
  <1>3. bookings'[<<b, i>>[1]].partySize = n
    BY DEF NewRow
  <1>4. Moved(s, S)' = UNION {{x} \X (1..bookings'[x[1]].partySize) : x \in Rows(s, S)'}
    BY DEF Moved
  <1>5. Moved(s, S) = UNION {{x} \X (1..bookings[x[1]].partySize) : x \in Rows(s, S)}
    BY DEF Moved
  <1>6. Moved(s, S)' = Moved(s, S) \cup (IF s = sl /\ to \in S THEN {<<b, i>>} \X (1..n) ELSE {})
    <2>1. CASE s = sl /\ to \in S
      <3>1. Rows(s, S)' = Rows(s, S) \cup {<<b, i>>}
        BY <1>1, <2>1
      <3> QED BY <1>2, <1>3, <1>4, <1>5, <2>1, <3>1
    <2>2. CASE ~ (s = sl /\ to \in S)
      <3>1. Rows(s, S)' = Rows(s, S)
        BY <1>1, <2>2
      <3> QED BY <1>2, <1>4, <1>5, <2>2, <3>1
    <2> QED BY <2>1, <2>2
  <1>7. Moved(s, S) \cap ({<<b, i>>} \X (1..n)) = {}
    BY <1>1, <1>5
  <1> QED BY <1>6, <1>7

LEMMA CreatedRow ==
  ASSUME TypeOK, NEW b \in BookingIds \ DOMAIN bookings, NEW row \in BookingRow, Created(b, row)
  PROVE  NewRow(b, 1, "RESERVED", row.slotId, row.partySize)
  <1> DEFINE first == [fromStatus |-> Null, toStatus |-> "RESERVED", actorUserId |-> row.userId]
  <1>1. DOMAIN << first >> = {1} /\ << first >>[1].toStatus = "RESERVED"
    OBVIOUS
  <1> QED BY <1>1, CreatedRows DEF NewRow

LEMMA ChangedRow ==
  ASSUME TypeOK, NEW b \in DOMAIN bookings, NEW from \in Status, NEW to \in Status,
         NEW actor \in Users \cup {Null}, Changed(b, from, to, actor)
  PROVE  NewRow(b, Len(history[b]) + 1, to, bookings[b].slotId, bookings[b].partySize)
  <1> DEFINE h == history[b]
             hrow == [fromStatus |-> from, toStatus |-> to, actorUserId |-> actor]
  <1>0. from \in Status \cup {Null}
    OBVIOUS
  <1>1. h \in Seq(HistoryRow) /\ history'[b] = Append(h, hrow) /\ hrow \in HistoryRow
    BY <1>0, ChangedRows DEF HistoryRow
  <1>2. hrow.toStatus = to
    OBVIOUS
  <1> HIDE DEF hrow
  <1>3. /\ DOMAIN history'[b] = DOMAIN h \cup {Len(h) + 1} /\ Len(h) + 1 \notin DOMAIN h
        /\ \A j \in DOMAIN h : history'[b][j] = h[j]
        /\ history'[b][Len(h) + 1] = hrow
    BY <1>1
  <1> QED BY <1>0, <1>2, <1>3, ChangedRows DEF NewRow

\* A new row counts once, and for the seats of its booking.
LEMMA LedgerCount ==
  ASSUME NEW b, NEW i, NEW to, NEW sl, NEW n \in Nat, NewRow(b, i, to, sl, n), NEW s, NEW S,
         IsFiniteSet(Rows(s, S)), IsFiniteSet(Moved(s, S))
  PROVE  /\ IsFiniteSet(Rows(s, S)') /\ IsFiniteSet(Moved(s, S)')
         /\ Cardinality(Rows(s, S)) \in Nat /\ Cardinality(Moved(s, S)) \in Nat
         /\ Cardinality(Rows(s, S)')
              = Cardinality(Rows(s, S)) + (IF s = sl /\ to \in S THEN 1 ELSE 0)
         /\ Cardinality(Moved(s, S)')
              = Cardinality(Moved(s, S)) + (IF s = sl /\ to \in S THEN n ELSE 0)
  <1>1. Cardinality(Rows(s, S)) \in Nat /\ Cardinality(Moved(s, S)) \in Nat
    BY FS_CardinalityType
  <1>2. /\ Rows(s, S)' = Rows(s, S) \cup (IF s = sl /\ to \in S THEN {<<b, i>>} ELSE {})
        /\ <<b, i>> \notin Rows(s, S)
    BY RowsGrow
  <1>3. /\ Moved(s, S)' = Moved(s, S) \cup (IF s = sl /\ to \in S THEN {<<b, i>>} \X (1..n) ELSE {})
        /\ Moved(s, S) \cap ({<<b, i>>} \X (1..n)) = {}
    BY MovedGrow
  <1>4. CASE s = sl /\ to \in S
    <2>1. Rows(s, S)' = Rows(s, S) \cup {<<b, i>>} /\ Rows(s, S) \cap {<<b, i>>} = {}
      BY <1>4, <1>2
    <2>2. IsFiniteSet({<<b, i>>}) /\ Cardinality({<<b, i>>}) = 1
      BY FS_Singleton
    <2>3. /\ Moved(s, S)' = Moved(s, S) \cup ({<<b, i>>} \X (1..n))
          /\ Moved(s, S) \cap ({<<b, i>>} \X (1..n)) = {}
      BY <1>4, <1>3
    <2>4. IsFiniteSet({<<b, i>>} \X (1..n)) /\ Cardinality({<<b, i>>} \X (1..n)) = n
      BY SeatCount
    <2>5. IsFiniteSet(Rows(s, S)') /\ Cardinality(Rows(s, S)') = Cardinality(Rows(s, S)) + 1
      BY <2>1, <2>2, AddSeats
    <2>6. IsFiniteSet(Moved(s, S)') /\ Cardinality(Moved(s, S)') = Cardinality(Moved(s, S)) + n
      BY <2>3, <2>4, AddSeats
    <2> QED BY <1>1, <1>4, <2>5, <2>6
  <1>5. CASE ~ (s = sl /\ to \in S)
    <2>1. Rows(s, S)' = Rows(s, S) /\ Moved(s, S)' = Moved(s, S)
      BY <1>5, <1>2, <1>3
    <2> QED BY <1>1, <1>5, <2>1
  <1> QED BY <1>4, <1>5

\* The kinds of history rows that the ledger counts.
Kinds == {{"RESERVED", "CANCELLED", "EXPIRED"}, {"CANCELLED", "EXPIRED"}, {"RESERVED"}}

LedgerFinite ==
  \A s \in Slots, S \in Kinds : IsFiniteSet(Rows(s, S)) /\ IsFiniteSet(Moved(s, S))

LedgerInv == IInv /\ LedgerFinite /\ LedgerBalanced

\* One history row, with its effect on its slot.
LEMMA LedgerRow ==
  ASSUME LedgerInv, NEW b, NEW i, NEW to \in Status, NEW sl \in Slots, NEW n \in Nat,
         NewRow(b, i, to, sl, n),
         slots' = IF to = "CONFIRMED" THEN slots
                  ELSE [slots EXCEPT ![sl] =
                         [reserved |-> IF to = "RESERVED" THEN @.reserved + n ELSE @.reserved - n,
                          version |-> @.version + 1]]
  PROVE  LedgerFinite' /\ LedgerBalanced'
  <1>1. LedgerFinite'
    <2> SUFFICES ASSUME NEW s \in Slots, NEW S \in Kinds
                 PROVE  IsFiniteSet(Rows(s, S)') /\ IsFiniteSet(Moved(s, S)')
      BY DEF LedgerFinite
    <2> QED BY LedgerCount DEF LedgerInv, LedgerFinite
  <1>2. LedgerBalanced'
    <2> DEFINE All == {"RESERVED", "CANCELLED", "EXPIRED"}
               Back == {"CANCELLED", "EXPIRED"}
               Out == {"RESERVED"}
    <2> SUFFICES ASSUME NEW s \in Slots
                 PROVE  /\ slots'[s].version = Cardinality(Rows(s, All)')
                        /\ slots'[s].reserved + Cardinality(Moved(s, Back)')
                             = Seeded[s] + Cardinality(Moved(s, Out)')
      BY DEF LedgerBalanced
    <2>1. /\ slots[s].version = Cardinality(Rows(s, All))
          /\ slots[s].reserved + Cardinality(Moved(s, Back))
               = Seeded[s] + Cardinality(Moved(s, Out))
      BY DEF LedgerInv, LedgerBalanced
    <2>2. /\ Cardinality(Rows(s, All)) \in Nat
          /\ Cardinality(Rows(s, All)')
               = Cardinality(Rows(s, All)) + (IF s = sl /\ to \in All THEN 1 ELSE 0)
      BY LedgerCount DEF LedgerInv, LedgerFinite, Kinds
    <2>3. /\ Cardinality(Moved(s, Back)) \in Nat
          /\ Cardinality(Moved(s, Back)')
               = Cardinality(Moved(s, Back)) + (IF s = sl /\ to \in Back THEN n ELSE 0)
      BY LedgerCount DEF LedgerInv, LedgerFinite, Kinds
    <2>4. /\ Cardinality(Moved(s, Out)) \in Nat
          /\ Cardinality(Moved(s, Out)')
               = Cardinality(Moved(s, Out)) + (IF s = sl /\ to \in Out THEN n ELSE 0)
      BY LedgerCount DEF LedgerInv, LedgerFinite, Kinds
    <2>5. slots[s].reserved \in Nat /\ slots[s].version \in Nat /\ Seeded[s] \in Nat
      BY ConstantsAssumption DEF LedgerInv, IInv, TypeOK, SlotRow
    <2>6. /\ to \in {"RESERVED", "CONFIRMED", "CANCELLED", "EXPIRED"}
          /\ slots'[s].version = slots[s].version + (IF s = sl /\ to \in All THEN 1 ELSE 0)
          /\ slots'[s].reserved = slots[s].reserved + (IF s = sl /\ to \in Out THEN n ELSE 0)
                                    - (IF s = sl /\ to \in Back THEN n ELSE 0)
      BY <2>5 DEF Status, LedgerInv, IInv, TypeOK
    <2>7. slots'[s].version = Cardinality(Rows(s, All)')
      BY <2>1, <2>2, <2>6
    <2>8. slots'[s].reserved + Cardinality(Moved(s, Back)')
             = Seeded[s] + Cardinality(Moved(s, Out)')
      <3>1. CASE s = sl /\ to = "RESERVED"
        BY <2>1, <2>3, <2>4, <2>5, <2>6, <3>1
      <3>2. CASE s = sl /\ to \in Back
        BY <2>1, <2>3, <2>4, <2>5, <2>6, <3>2
      <3>3. CASE s # sl \/ to = "CONFIRMED"
        BY <2>1, <2>3, <2>4, <2>5, <2>6, <3>3
      <3> QED BY <2>6, <3>1, <3>2, <3>3
    <2> QED BY <2>7, <2>8
  <1> QED BY <1>1, <1>2

LEMMA LedgerStep ==
  ASSUME LedgerInv, [Next]_vars
  PROVE  LedgerFinite' /\ LedgerBalanced'
  <1> USE DEF LedgerInv, IInv
  <1>0. {"CONFIRMED", "CANCELLED", "EXPIRED", "RESERVED"} \subseteq Status
    BY DEF Status
  <1>1. CASE UNCHANGED <<slots, bookings, history, audit>>
    <2>1. \A s, S : Rows(s, S)' = Rows(s, S)
      BY <1>1 DEF Rows, BookingsOf
    <2>2. \A s, S : Moved(s, S)' = Moved(s, S)
      BY <1>1, <2>1 DEF Moved
    <2> QED BY <1>1, <2>1, <2>2 DEF LedgerFinite, LedgerBalanced
  <1>2. ASSUME NEW b \in BookingIds \ DOMAIN bookings, NEW row \in BookingRow, Created(b, row)
        PROVE  LedgerFinite' /\ LedgerBalanced'
    <2>1. NewRow(b, 1, "RESERVED", row.slotId, row.partySize)
      BY <1>2, CreatedRow
    <2>2. row.slotId \in Slots /\ row.partySize \in Nat
      BY DEF BookingRow
    <2>3. slots' = [slots EXCEPT ![row.slotId] =
                      [reserved |-> @.reserved + row.partySize, version |-> @.version + 1]]
      BY <1>2 DEF Created, ReserveSeats
    <2> QED BY <1>0, <2>1, <2>2, <2>3, LedgerRow
  <1>3. ASSUME NEW b \in DOMAIN bookings, NEW from \in Status,
               NEW to \in {"CONFIRMED", "CANCELLED", "EXPIRED"},
               NEW actor \in Users \cup {Null}, Changed(b, from, to, actor),
               IF to = "CONFIRMED" THEN slots' = slots ELSE Released(b)
        PROVE  LedgerFinite' /\ LedgerBalanced'
    <2>1. to \in Status
      BY <1>0
    <2>2. NewRow(b, Len(history[b]) + 1, to, bookings[b].slotId, bookings[b].partySize)
      BY <1>3, <2>1, ChangedRow
    <2>3. bookings[b].slotId \in Slots /\ bookings[b].partySize \in Nat
      BY DEF TypeOK, BookingRow
    <2>4. slots' = IF to = "CONFIRMED" THEN slots
                   ELSE [slots EXCEPT ![bookings[b].slotId] =
                           [reserved |-> @.reserved - bookings[b].partySize,
                            version |-> @.version + 1]]
      BY <1>3 DEF Released, ReleaseSeats
    <2> QED BY <2>1, <2>2, <2>3, <2>4, LedgerRow
  <1> QED BY <1>0, <1>1, <1>2, <1>3, TableStep

\* The history accounts for every version and every seat of every slot, also of slots
\* where a stale confirm or a double release took a booking out of its lifecycle.
THEOREM LedgerCorrect == SafetySpec => []LedgerBalanced
  <1>1. Init => LedgerInv
    <2> SUFFICES ASSUME Init PROVE LedgerInv
      OBVIOUS
    <2>1. IInv
      BY InitIInv
    <2>2. \A s \in Slots, S \in Kinds : Rows(s, S) = {} /\ Moved(s, S) = {}
      BY DEF Init, EmptyTable, Rows, Moved, BookingsOf
    <2>3. IsFiniteSet({}) /\ Cardinality({}) = 0
      BY FS_EmptySet
    <2>4. \A s \in Slots : /\ slots[s].reserved = Seeded[s] /\ slots[s].version = 0
                           /\ Seeded[s] \in Nat
      BY ConstantsAssumption DEF Init
    <2>5. LedgerBalanced
      BY <2>2, <2>3, <2>4 DEF LedgerBalanced, Kinds
    <2> QED BY <2>1, <2>2, <2>3, <2>5 DEF LedgerInv, LedgerFinite
  <1>2. LedgerInv /\ [Next]_vars => LedgerInv'
    BY LedgerStep, TypeStep, LocksStep DEF LedgerInv, IInv
  <1>3. LedgerInv => LedgerBalanced
    BY DEF LedgerInv
  <1> QED BY <1>1, <1>2, <1>3, PTL DEF SafetySpec

(***************************************************************************)
(* Tenants.  TenantIsolation is not inductive: a handler commits with the  *)
(* user it was called by, and only its read established that this user     *)
(* owns the booking.                                                       *)
(***************************************************************************)
OwnerInv ==
  \A r \in Requests : req[r].pc \in {"confirm", "cancelSlot", "cancel"} =>
     bookings[req[r].id].userId = req[r].user

\* The owner of a booking never changes.
LEMMA OwnerKept ==
  ASSUME IInv, [Next]_vars, NEW b \in DOMAIN bookings
  PROVE  /\ b \in DOMAIN bookings'
         /\ bookings'[b].userId = bookings[b].userId
         /\ bookings'[b].tenantId = bookings[b].tenantId
         /\ bookings'[b].slotId = bookings[b].slotId
  <1> USE DEF IInv
  <1>1. ASSUME NEW c \in DOMAIN bookings, NEW from, NEW to, NEW actor, Changed(c, from, to, actor)
        PROVE  /\ b \in DOMAIN bookings'
               /\ bookings'[b].userId = bookings[b].userId
               /\ bookings'[b].tenantId = bookings[b].tenantId
               /\ bookings'[b].slotId = bookings[b].slotId
    BY <1>1 DEF Changed, SetStatus, TypeOK, BookingRow
  <1>2. ASSUME NEW c \in BookingIds \ DOMAIN bookings, NEW row \in BookingRow, Created(c, row)
        PROVE  b \in DOMAIN bookings' /\ bookings'[b] = bookings[b]
    BY <1>2, CreatedRows
  <1> QED BY <1>1, <1>2, TableStep

\* A handler that confirms or cancels holds a booking of its own user.
LEMMA OwnerStep ==
  ASSUME IInv, OwnerInv, [Next]_vars
  PROVE  OwnerInv'
  <1> USE DEF IInv
  <1> SUFFICES ASSUME NEW r \in Requests, req'[r].pc \in {"confirm", "cancelSlot", "cancel"}
               PROVE  (bookings[req[r].id].userId = req[r].user)'
    BY DEF OwnerInv
  <1>1. CASE req'[r] = req[r]
    <2>1. req[r].id \in DOMAIN bookings
      BY <1>1 DEF TypeOK
    <2>2. bookings[req[r].id].userId = req[r].user
      BY <1>1 DEF OwnerInv
    <2> QED BY <1>1, <2>1, <2>2, OwnerKept
  <1>2. ASSUME NEW u \in Users, NEW b \in BookingIds,
               ConfirmRead(r, u, b) \/ CancelReadBooking(r, u, b)
        PROVE  (bookings[req[r].id].userId = req[r].user)'
    BY <1>2 DEF ConfirmRead, CancelReadBooking, Goto, TypeOK, FindOwned
  <1>3. CASE CancelReadSlot(r)
    <2>1. /\ req'[r].id = req[r].id /\ req'[r].user = req[r].user
          /\ bookings' = bookings
          /\ req[r].pc = "cancelSlot"
      BY <1>3 DEF CancelReadSlot, Goto, TypeOK
    <2> QED BY <2>1 DEF OwnerInv
  <1>4. ASSUME NEW p \in Requests, Handler(p), p # r
        PROVE  req'[r] = req[r]
    BY <1>4 DEF Handler, CreateRead, ConfirmRead, CancelReadBooking, CancelReadSlot,
                CreateCommit, ConfirmCommit, CancelCommit, Announce, Abort, Goto, TypeOK
  <1>5. ASSUME Handler(r)
        PROVE  \/ \E u \in Users, b \in BookingIds :
                    ConfirmRead(r, u, b) \/ CancelReadBooking(r, u, b)
               \/ CancelReadSlot(r)
    <2>1. ASSUME \/ \E u \in Users, s \in Slots, n \in PartySizes : CreateRead(r, u, s, n)
                 \/ CreateCommit(r) \/ ConfirmCommit(r) \/ CancelCommit(r)
                 \/ Announce(r) \/ Abort(r)
          PROVE  req'[r].pc \in {"create", "enqueue", "idle"}
      BY <2>1 DEF CreateRead, CreateCommit, ConfirmCommit, CancelCommit, Announce, Abort,
                  Goto, Idle, TypeOK
    <2> QED BY <1>5, <2>1 DEF Handler
  <1>6. ASSUME NEW w \in Workers, Expiry(w)
        PROVE  req' = req
    BY <1>6 DEF Expiry, PollStale, ExpireBody, ExpireCommit, ExpireSkip, ExpiryCrash
  <1>7. CASE Tick \/ UNCHANGED vars
    BY <1>1, <1>7 DEF Tick, vars
  <1> QED BY <1>1, <1>2, <1>3, <1>4, <1>5, <1>6, <1>7 DEF Next

Isolated(b) ==
  /\ bookings[b].tenantId = TenantOf[bookings[b].userId]
  /\ bookings[b].tenantId = TenantOf[bookings[b].slotId]
  /\ \A i \in DOMAIN history[b] : history[b][i].actorUserId \in {bookings[b].userId, Null}

\* A history row by the owner or by nobody keeps every booking isolated.
LEMMA ChangedIsolated ==
  ASSUME IInv, TenantIsolation, [Next]_vars,
         NEW b \in DOMAIN bookings, NEW from \in Status \cup {Null}, NEW to \in Status,
         NEW actor \in {bookings[b].userId, Null}, Changed(b, from, to, actor)
  PROVE  TenantIsolation'
  <1> USE DEF IInv
  <1>1. actor \in Users \cup {Null}
    BY DEF TypeOK, BookingRow
  <1>2. /\ DOMAIN bookings' = DOMAIN bookings
        /\ \A c \in DOMAIN bookings : c # b => history'[c] = history[c]
        /\ history[b] \in Seq(HistoryRow)
        /\ history'[b] = Append(history[b],
              [fromStatus |-> from, toStatus |-> to, actorUserId |-> actor])
    BY <1>1, ChangedRows
  <1> SUFFICES ASSUME NEW c \in DOMAIN bookings PROVE Isolated(c)'
    BY <1>2 DEF TenantIsolation, Isolated
  <1>3. Isolated(c)
    BY DEF TenantIsolation, Isolated
  <1>4. /\ bookings'[c].userId = bookings[c].userId
        /\ bookings'[c].tenantId = bookings[c].tenantId
        /\ bookings'[c].slotId = bookings[c].slotId
    BY OwnerKept
  <1>5. ASSUME NEW i \in DOMAIN history'[c]
        PROVE  history'[c][i].actorUserId \in {bookings[c].userId, Null}
    <2>1. CASE c # b
      BY <1>2, <1>3, <1>5, <2>1 DEF Isolated
    <2>2. CASE c = b
      <3> DEFINE h == history[b]
                 row == [fromStatus |-> from, toStatus |-> to, actorUserId |-> actor]
      <3>1. i \in DOMAIN Append(h, row)
        BY <1>2, <1>5, <2>2
      <3>2. h \in Seq(HistoryRow)
        BY <1>2
      <3>3. \/ i \in DOMAIN h /\ Append(h, row)[i] = h[i]
            \/ Append(h, row)[i] = row
        <4> HIDE DEF h, row
        <4> QED BY <3>1, <3>2
      <3> QED BY <1>2, <1>3, <2>2, <3>3 DEF Isolated
    <2> QED BY <2>1, <2>2
  <1> QED BY <1>3, <1>4, <1>5 DEF Isolated

\* Each of the four transactions keeps every booking isolated.
LEMMA TenantStep ==
  ASSUME IInv, OwnerInv, TenantIsolation, [Next]_vars
  PROVE  TenantIsolation'
  <1> USE DEF IInv
  <1>0. {"CONFIRMED", "CANCELLED", "EXPIRED", "RESERVED"} \subseteq Status
    BY DEF Status
  <1>1. ASSUME NEW r \in Requests, CreateCommit(r)
        PROVE  TenantIsolation'
    <2>1. PICK b \in BookingIds \ DOMAIN bookings :
            /\ bookings' = Insert(bookings, b,
                 [tenantId |-> TenantOf[req[r].user], userId |-> req[r].user,
                  slotId |-> req[r].slot, partySize |-> req[r].party, status |-> "RESERVED",
                  reservedUntil |-> req[r].until])
            /\ history' = Insert(history, b,
                 << [fromStatus |-> Null, toStatus |-> "RESERVED",
                     actorUserId |-> req[r].user] >>)
      BY <1>1 DEF CreateCommit
    <2>2. TenantOf[req[r].slot] = TenantOf[req[r].user]
      BY <1>1 DEF CreateCommit, CanReserve, InTenant
    <2> SUFFICES ASSUME NEW c \in DOMAIN bookings' PROVE Isolated(c)'
      BY DEF TenantIsolation, Isolated
    <2>3. CASE c = b
      <3>1. /\ bookings'[c].tenantId = TenantOf[req[r].user]
            /\ bookings'[c].userId = req[r].user
            /\ bookings'[c].slotId = req[r].slot
            /\ history'[c] = << [fromStatus |-> Null, toStatus |-> "RESERVED",
                                 actorUserId |-> req[r].user] >>
        BY <2>1, <2>3 DEF Insert, TypeOK
      <3> QED BY <2>2, <3>1 DEF Isolated
    <2>4. CASE c # b
      <3>1. /\ c \in DOMAIN bookings
            /\ bookings'[c] = bookings[c]
            /\ history'[c] = history[c]
        BY <2>1, <2>4 DEF Insert, TypeOK
      <3>2. Isolated(c)
        BY <3>1 DEF TenantIsolation, Isolated
      <3> QED BY <3>1, <3>2 DEF Isolated
    <2> QED BY <2>3, <2>4
  <1>2. ASSUME NEW r \in Requests, ConfirmCommit(r) \/ CancelCommit(r)
        PROVE  TenantIsolation'
    <2>1. /\ req[r].pc \in {"confirm", "cancel"}
          /\ req[r].id \in DOMAIN bookings /\ req[r].from \in Status
      BY <1>2, RequestFields DEF ConfirmCommit, CancelCommit, TypeOK
    <2>2. req[r].user = bookings[req[r].id].userId
      BY <2>1 DEF OwnerInv
    <2>3. \E to \in Status : Changed(req[r].id, req[r].from, to, req[r].user)
      BY <1>0, <1>2 DEF ConfirmCommit, CancelCommit, Changed
    <2> QED BY <2>1, <2>2, <2>3, ChangedIsolated
  <1>3. ASSUME NEW w \in Workers, ExpireCommit(w)
        PROVE  TenantIsolation'
    <2>1. w \in Committing /\ Head(worker[w].batch) \in DOMAIN bookings
      BY <1>3, BatchHead DEF ExpireCommit, Committing
    <2>2. Changed(Head(worker[w].batch), "RESERVED", "EXPIRED", Null)
      BY <1>3 DEF ExpireCommit, Changed
    <2> QED BY <1>0, <2>1, <2>2, ChangedIsolated
  <1>4. CASE bookings' = bookings /\ history' = history
    BY <1>4 DEF TenantIsolation
  <1>5. CASE ~ (\/ \E r \in Requests : CreateCommit(r) \/ ConfirmCommit(r) \/ CancelCommit(r)
                \/ \E w \in Workers : ExpireCommit(w))
    <2>1. ASSUME NEW r \in Requests, Handler(r)
          PROVE  bookings' = bookings /\ history' = history
      BY <1>5, <2>1 DEF Handler, CreateRead, ConfirmRead, CancelReadBooking, CancelReadSlot,
                        Announce, Abort
    <2>2. ASSUME NEW w \in Workers, Expiry(w)
          PROVE  bookings' = bookings /\ history' = history
      BY <1>5, <2>2 DEF Expiry, PollStale, ExpireBody, ExpireSkip, ExpiryCrash
    <2>3. ASSUME Tick \/ UNCHANGED vars
          PROVE  bookings' = bookings /\ history' = history
      BY <2>3 DEF Tick, vars
    <2>4. bookings' = bookings /\ history' = history
      BY <2>1, <2>2, <2>3 DEF Next
    <2> QED BY <1>4, <2>4
  <1> QED BY <1>1, <1>2, <1>3, <1>5

\* A booking, its user, its slot and everyone who acts on it stay in one tenant, for
\* any number of tenants that share the tables.
THEOREM TenantsIsolated == SafetySpec => []TenantIsolation
  <1>1. Init => OwnerInv /\ TenantIsolation
    BY DEF Init, OwnerInv, TenantIsolation, Idle, EmptyTable
  <1>2. IInv /\ [Next]_vars => IInv'
    BY TypeStep, LocksStep DEF IInv
  <1> QED BY InitIInv, <1>1, <1>2, OwnerStep, TenantStep, PTL DEF SafetySpec

(***************************************************************************)
(* A hold expires once: a status never returns to RESERVED, and only a     *)
(* RESERVED booking is expired.                                            *)
(***************************************************************************)
Expiries(b) == {i \in DOMAIN history[b] : history[b][i].toStatus = "EXPIRED"}

OnceInv ==
  \A b \in DOMAIN bookings :
     /\ bookings[b].status = "RESERVED" => Expiries(b) = {}
     /\ \A i, j \in Expiries(b) : i = j

\* A row appended to a timeline adds an expiry only if it is one.
LEMMA ExpiriesChanged ==
  ASSUME IInv, NEW b \in DOMAIN bookings, NEW from \in Status \cup {Null}, NEW to \in Status,
         NEW actor \in Users \cup {Null}, Changed(b, from, to, actor)
  PROVE  /\ to # "EXPIRED" => Expiries(b)' = Expiries(b)
         /\ to = "EXPIRED" => Expiries(b)' \subseteq Expiries(b) \cup {Len(history[b]) + 1}
  <1> DEFINE h == history[b]
             row == [fromStatus |-> from, toStatus |-> to, actorUserId |-> actor]
  <1>1. h \in Seq(HistoryRow) /\ history'[b] = Append(h, row)
    BY ChangedRows DEF IInv
  <1>2. row.toStatus = to
    OBVIOUS
  <1> HIDE DEF h, row
  <1>3. /\ DOMAIN Append(h, row) = DOMAIN h \cup {Len(h) + 1}
        /\ Append(h, row)[Len(h) + 1] = row
        /\ \A i \in DOMAIN h : Append(h, row)[i] = h[i]
        /\ Len(h) + 1 \notin DOMAIN h
    BY <1>1
  <1>4. Expiries(b)' = {i \in DOMAIN Append(h, row) : Append(h, row)[i].toStatus = "EXPIRED"}
    BY <1>1 DEF Expiries
  <1>5. Expiries(b) = {i \in DOMAIN h : h[i].toStatus = "EXPIRED"}
    BY DEF Expiries, h
  <1> QED BY <1>2, <1>3, <1>4, <1>5 DEF h

\* No step expires a booking a second time.
LEMMA OnceStep ==
  ASSUME IInv, OnceInv, [Next]_vars
  PROVE  OnceInv'
  <1> USE DEF IInv
  <1>0. {"CONFIRMED", "CANCELLED", "EXPIRED", "RESERVED"} \subseteq Status
    BY DEF Status
  <1>1. CASE UNCHANGED <<slots, bookings, history, audit>>
    BY <1>1 DEF OnceInv, Expiries
  <1>2. ASSUME NEW b \in BookingIds \ DOMAIN bookings, NEW row \in BookingRow, Created(b, row)
        PROVE  OnceInv'
    <2>0. DOMAIN bookings' = DOMAIN bookings \cup {b}
      BY <1>2, CreatedRows
    <2> SUFFICES ASSUME NEW c \in DOMAIN bookings'
                 PROVE  /\ bookings'[c].status = "RESERVED" => Expiries(c)' = {}
                        /\ \A i, j \in Expiries(c)' : i = j
      BY DEF OnceInv
    <2>1. CASE c = b
      <3>1. history'[c] =
              << [fromStatus |-> Null, toStatus |-> "RESERVED", actorUserId |-> row.userId] >>
        BY <1>2, <2>1, CreatedRows
      <3>2. Expiries(c)' = {}
        BY <3>1 DEF Expiries
      <3> QED BY <3>2
    <2>2. CASE c # b
      <3>0. c \in DOMAIN bookings
        BY <2>0, <2>2
      <3>1. history'[c] = history[c] /\ bookings'[c] = bookings[c]
        BY <1>2, <2>2, <3>0, CreatedRows
      <3>2. Expiries(c)' = Expiries(c)
        BY <3>1 DEF Expiries
      <3> QED BY <3>0, <3>1, <3>2 DEF OnceInv
    <2> QED BY <2>1, <2>2
  <1>3. ASSUME NEW b \in DOMAIN bookings, NEW from \in Status \cup {Null},
               NEW to \in {"CONFIRMED", "CANCELLED", "EXPIRED"}, NEW actor \in Users \cup {Null},
               Changed(b, from, to, actor),
               to = "EXPIRED" => bookings[b].status = "RESERVED"
        PROVE  OnceInv'
    <2>0. to \in Status /\ TypeOK
      BY <1>0
    <2>1. /\ DOMAIN bookings' = DOMAIN bookings
          /\ bookings'[b].status = to
          /\ \A c \in DOMAIN bookings : c # b => /\ bookings'[c] = bookings[c]
                                                 /\ history'[c] = history[c]
      BY <1>3, <2>0, ChangedRows
    <2> SUFFICES ASSUME NEW c \in DOMAIN bookings
                 PROVE  /\ bookings'[c].status = "RESERVED" => Expiries(c)' = {}
                        /\ \A i, j \in Expiries(c)' : i = j
      BY <2>1 DEF OnceInv
    <2>2. CASE c = b
      <3>1. CASE to = "EXPIRED"
        <4>1. Expiries(b) = {}
          BY <1>3, <3>1 DEF OnceInv
        <4>2. Expiries(b)' \subseteq {Len(history[b]) + 1}
          BY <1>0, <1>3, <3>1, <4>1, ExpiriesChanged
        <4> QED BY <2>1, <2>2, <3>1, <4>2
      <3>2. CASE to # "EXPIRED"
        <4>1. Expiries(b)' = Expiries(b)
          BY <1>0, <1>3, <3>2, ExpiriesChanged
        <4> QED BY <2>1, <2>2, <3>2, <4>1 DEF OnceInv
      <3> QED BY <3>1, <3>2
    <2>3. CASE c # b
      <3>1. Expiries(c)' = Expiries(c)
        BY <2>1, <2>3 DEF Expiries
      <3> QED BY <2>1, <2>3, <3>1 DEF OnceInv
    <2> QED BY <2>2, <2>3
  <1> QED BY <1>0, <1>1, <1>2, <1>3, TableStep

\* A hold that several workers have in their batches is expired once, even when a
\* handler with a stale snapshot writes to the booking in between.
THEOREM ExpiredAtMostOnce == SafetySpec => []ExpiredOnce
  <1>1. Init => OnceInv
    BY DEF Init, OnceInv, EmptyTable
  <1>2. IInv /\ [Next]_vars => IInv'
    BY TypeStep, LocksStep DEF IInv
  <1>3. OnceInv => ExpiredOnce
    <2> SUFFICES ASSUME OnceInv, NEW b \in DOMAIN bookings
                 PROVE  Cardinality(Expiries(b)) <= 1
      BY DEF ExpiredOnce, Expiries
    <2>1. CASE Expiries(b) = {}
      BY <2>1, FS_EmptySet
    <2>2. CASE Expiries(b) # {}
      <3>1. PICK i \in Expiries(b) : Expiries(b) = {i}
        BY <2>2 DEF OnceInv
      <3> QED BY <3>1, FS_Singleton
    <2> QED BY <2>1, <2>2
  <1> QED BY InitIInv, <1>1, <1>2, <1>3, OnceStep, PTL DEF SafetySpec

(***************************************************************************)
(* Where a change came from.  A handler carries a status its booking had   *)
(* when the handler read it, and from which its change is legal; rows of   *)
(* the timeline are never removed, so at the commit the booking still      *)
(* once had that status.                                                   *)
(***************************************************************************)
OnceHad(b, status) == \E j \in DOMAIN history[b] : history[b][j].toStatus = status

\* The last index of a sequence that is not empty is one of its indices.
LEMMA LastIndex ==
  ASSUME NEW S, NEW s \in Seq(S), s # << >>
  PROVE  Len(s) \in DOMAIN s
  OBVIOUS

\* The part of FromStatusHeld that is inductive together with what handlers carry.
FromRow(b, i) ==
  /\ history[b][i].toStatus \in ALLOWED_TRANSITIONS[history[b][i].fromStatus]
  /\ \E j \in 1..(i - 1) : history[b][j].toStatus = history[b][i].fromStatus
  /\ history[b][i].toStatus = "EXPIRED" =>
       history[b][i].fromStatus = history[b][i - 1].toStatus

FromRows == \A b \in DOMAIN bookings : \A i \in 2..Len(history[b]) : FromRow(b, i)

FromRead ==
  \A r \in Requests :
     /\ req[r].pc = "confirm" => req[r].from = "RESERVED"
     /\ req[r].pc \in {"cancelSlot", "cancel"} => req[r].from \in {"RESERVED", "CONFIRMED"}
     /\ req[r].pc \in {"confirm", "cancelSlot", "cancel"} => OnceHad(req[r].id, req[r].from)

\* A timeline only grows.
LEMMA HadKept ==
  ASSUME IInv, [Next]_vars, NEW b \in DOMAIN bookings, NEW status, OnceHad(b, status)
  PROVE  OnceHad(b, status)'
  <1> USE DEF IInv
  <1>0. {"CONFIRMED", "CANCELLED", "EXPIRED", "RESERVED"} \subseteq Status
    BY DEF Status
  <1>1. PICK j \in DOMAIN history[b] : history[b][j].toStatus = status
    BY DEF OnceHad
  <1> SUFFICES j \in DOMAIN history'[b] /\ history'[b][j] = history[b][j]
    BY <1>1 DEF OnceHad
  <1>2. CASE UNCHANGED <<slots, bookings, history, audit>>
    BY <1>1, <1>2
  <1>3. ASSUME NEW c \in BookingIds \ DOMAIN bookings, NEW row \in BookingRow, Created(c, row)
        PROVE  history'[b] = history[b]
    BY <1>3, CreatedRows
  <1>4. ASSUME NEW c \in DOMAIN bookings, NEW from \in Status, NEW to \in Status,
               NEW actor \in Users \cup {Null}, Changed(c, from, to, actor)
        PROVE  j \in DOMAIN history'[b] /\ history'[b][j] = history[b][j]
    <2>0. from \in Status \cup {Null}
      OBVIOUS
    <2>1. CASE c # b
      BY <1>1, <1>4, <2>0, <2>1, ChangedRows
    <2>2. CASE c = b
      <3> DEFINE h == history[b]
                 row == [fromStatus |-> from, toStatus |-> to, actorUserId |-> actor]
      <3>1. h \in Seq(HistoryRow) /\ history'[b] = Append(h, row) /\ j \in DOMAIN h
        BY <1>1, <1>4, <2>0, <2>2, ChangedRows
      <3> HIDE DEF h, row
      <3>2. j \in DOMAIN Append(h, row) /\ Append(h, row)[j] = h[j]
        BY <3>1
      <3> QED BY <3>1, <3>2 DEF h
    <2> QED BY <2>1, <2>2
  <1> QED BY <1>0, <1>1, <1>2, <1>3, <1>4, TableStep

\* What a handler read stays true of the timeline until it commits.
LEMMA FromReadStep ==
  ASSUME IInv, TrailComplete, FromRead, [Next]_vars
  PROVE  FromRead'
  <1> USE DEF IInv
  <1> DEFINE Good(pc, id, from) ==
        /\ pc = "confirm" => from = "RESERVED"
        /\ pc \in {"cancelSlot", "cancel"} => from \in {"RESERVED", "CONFIRMED"}
  <1> SUFFICES ASSUME NEW r \in Requests, req'[r].pc \in {"confirm", "cancelSlot", "cancel"}
               PROVE  /\ Good(req'[r].pc, req'[r].id, req'[r].from)
                      /\ OnceHad(req[r].id, req[r].from)'
    BY DEF FromRead
  <1>1. CASE req'[r] = req[r]
    <2>1. req[r].id \in DOMAIN bookings
      BY <1>1 DEF TypeOK
    <2>2. Good(req[r].pc, req[r].id, req[r].from) /\ OnceHad(req[r].id, req[r].from)
      BY <1>1 DEF FromRead
    <2>3. PICK i, f : i = req[r].id /\ f = req[r].from
      OBVIOUS
    <2>4. OnceHad(i, f)'
      BY <2>1, <2>2, <2>3, HadKept
    <2> QED BY <1>1, <2>2, <2>3, <2>4 DEF OnceHad
  <1>2. ASSUME NEW u \in Users, NEW b \in BookingIds,
               ConfirmRead(r, u, b) \/ CancelReadBooking(r, u, b)
        PROVE  /\ Good(req'[r].pc, req'[r].id, req'[r].from)
               /\ OnceHad(req[r].id, req[r].from)'
    <2>1. /\ b \in DOMAIN bookings /\ history' = history
          /\ req'[r].id = b /\ req'[r].from = bookings[b].status
      BY <1>2 DEF ConfirmRead, CancelReadBooking, Goto, TypeOK, FindOwned
    <2>2. Good(req'[r].pc, req'[r].id, req'[r].from)
      BY <1>2 DEF ConfirmRead, CancelReadBooking, Goto, TypeOK, FindOwned, BookingRow, Status,
                  assertTransition, ALLOWED_TRANSITIONS, isCancellable, NullAssumption
    <2>3. history[b] \in Seq(HistoryRow) /\ TrailOf(b)
      BY <2>1 DEF TypeOK, TrailComplete
    <2>4. Len(history[b]) \in DOMAIN history[b]
      <3>1. history[b] # << >>
        BY <2>3 DEF TrailOf
      <3> QED BY <2>3, <3>1, LastIndex
    <2>5. history'[b][Len(history[b])].toStatus = bookings[b].status
      BY <2>1, <2>3 DEF TrailOf
    <2> QED BY <2>1, <2>2, <2>4, <2>5 DEF OnceHad
  <1>3. CASE CancelReadSlot(r)
    <2>1. /\ req'[r].id = req[r].id /\ req'[r].from = req[r].from
          /\ history' = history
          /\ req[r].pc = "cancelSlot" /\ req'[r].pc = "cancel"
      BY <1>3 DEF CancelReadSlot, Goto, TypeOK
    <2>2. Good(req[r].pc, req[r].id, req[r].from) /\ OnceHad(req[r].id, req[r].from)
      BY <2>1 DEF FromRead
    <2> QED BY <2>1, <2>2 DEF OnceHad
  <1>4. ASSUME NEW p \in Requests, Handler(p), p # r
        PROVE  req'[r] = req[r]
    BY <1>4 DEF Handler, CreateRead, ConfirmRead, CancelReadBooking, CancelReadSlot,
                CreateCommit, ConfirmCommit, CancelCommit, Announce, Abort, Goto, TypeOK
  <1>5. ASSUME Handler(r)
        PROVE  \/ \E u \in Users, b \in BookingIds :
                    ConfirmRead(r, u, b) \/ CancelReadBooking(r, u, b)
               \/ CancelReadSlot(r)
    <2>1. ASSUME \/ \E u \in Users, s \in Slots, n \in PartySizes : CreateRead(r, u, s, n)
                 \/ CreateCommit(r) \/ ConfirmCommit(r) \/ CancelCommit(r)
                 \/ Announce(r) \/ Abort(r)
          PROVE  req'[r].pc \in {"create", "enqueue", "idle"}
      BY <2>1 DEF CreateRead, CreateCommit, ConfirmCommit, CancelCommit, Announce, Abort,
                  Goto, Idle, TypeOK
    <2> QED BY <1>5, <2>1 DEF Handler
  <1>6. ASSUME NEW w \in Workers, Expiry(w)
        PROVE  req' = req
    BY <1>6 DEF Expiry, PollStale, ExpireBody, ExpireCommit, ExpireSkip, ExpiryCrash
  <1>7. CASE Tick \/ UNCHANGED vars
    BY <1>1, <1>7 DEF Tick, vars
  <1> HIDE DEF Good
  <1> QED BY <1>1, <1>2, <1>3, <1>4, <1>5, <1>6, <1>7 DEF Next

\* Appending a row whose fromStatus the booking once had, and has if the row is an expiry.
LEMMA FromAppended ==
  ASSUME IInv, TrailComplete, FromRows,
         NEW b \in DOMAIN bookings, NEW from \in Status, NEW to \in Status,
         NEW actor \in Users \cup {Null}, Changed(b, from, to, actor),
         to \in ALLOWED_TRANSITIONS[from], OnceHad(b, from),
         to = "EXPIRED" => from = bookings[b].status
  PROVE  FromRows'
  <1> USE DEF IInv
  <1>0. from \in Status \cup {Null}
    OBVIOUS
  <1>1. /\ DOMAIN bookings' = DOMAIN bookings
        /\ \A c \in DOMAIN bookings : c # b => history'[c] = history[c]
        /\ history[b] \in Seq(HistoryRow)
        /\ history'[b] = Append(history[b],
              [fromStatus |-> from, toStatus |-> to, actorUserId |-> actor])
    BY <1>0, ChangedRows
  <1> SUFFICES ASSUME NEW c \in DOMAIN bookings, NEW i \in 2..Len(history'[c])
               PROVE  FromRow(c, i)'
    BY <1>1 DEF FromRows
  <1>2. CASE c # b
    <2>1. history'[c] = history[c] /\ FromRow(c, i)
      BY <1>1, <1>2 DEF FromRows
    <2> QED BY <2>1 DEF FromRow
  <1>3. CASE c = b
    <2> DEFINE h == history[b]
               row == [fromStatus |-> from, toStatus |-> to, actorUserId |-> actor]
    <2>1. h \in Seq(HistoryRow) /\ history'[c] = Append(h, row)
      BY <1>1, <1>3
    <2>2. /\ h # << >> /\ h[Len(h)].toStatus = bookings[b].status
      BY DEF TrailComplete, TrailOf
    <2>3. PICK k \in DOMAIN h : h[k].toStatus = from
      BY DEF OnceHad
    <2>4. row.fromStatus = from /\ row.toStatus = to
      OBVIOUS
    <2>5. i < Len(h) + 1 => FromRow(b, i)
      BY <1>1, <1>3, <2>1, <2>2 DEF FromRows
    <2>6. /\ Len(h) \in Nat \ {0} /\ i \in 2..(Len(h) + 1)
          /\ \A j \in 1..Len(h) : Append(h, row)[j] = h[j]
          /\ Append(h, row)[Len(h) + 1] = row
          /\ DOMAIN h = 1..Len(h)
      <3> HIDE DEF h, row
      <3> QED BY <2>1, <2>2
    <2> DEFINE g == Append(h, row)
    <2>7. CASE i = Len(h) + 1
      <3>1. k \in 1..(i - 1) /\ g[k].toStatus = from
        BY <2>3, <2>6, <2>7
      <3>2. g[i] = row /\ i - 1 = Len(h) /\ g[i - 1] = h[Len(h)]
        BY <2>6, <2>7
      <3> HIDE DEF g, h, row
      <3> QED BY <2>1, <2>2, <2>4, <3>1, <3>2 DEF FromRow, g
    <2>8. CASE i < Len(h) + 1
      <3>1. g[i] = h[i] /\ g[i - 1] = h[i - 1] /\ \A j \in 1..(i - 1) : g[j] = h[j]
        BY <2>6, <2>8
      <3>2. FromRow(b, i)
        BY <2>5, <2>8
      <3> HIDE DEF g, h, row
      <3> QED BY <2>1, <3>1, <3>2 DEF FromRow, g, h
    <2> QED BY <2>6, <2>7, <2>8
  <1> QED BY <1>2, <1>3

\* Each of the four transactions writes a fromStatus the booking once had.
LEMMA FromRowsStep ==
  ASSUME IInv, TrailComplete, FromRows, FromRead, [Next]_vars
  PROVE  FromRows'
  <1> USE DEF IInv
  <1>0. {"CONFIRMED", "CANCELLED", "EXPIRED", "RESERVED"} \subseteq Status
    BY DEF Status
  <1>2. ASSUME NEW r \in Requests, ConfirmCommit(r)
        PROVE  FromRows'
    <2>1. /\ req[r].id \in DOMAIN bookings /\ req[r].from = "RESERVED" /\ req[r].user \in Users
          /\ OnceHad(req[r].id, req[r].from)
      BY <1>2, RequestFields DEF ConfirmCommit, TypeOK, FromRead
    <2>2. Changed(req[r].id, req[r].from, "CONFIRMED", req[r].user)
      BY <1>2 DEF ConfirmCommit, Changed
    <2>3. "CONFIRMED" \in ALLOWED_TRANSITIONS[req[r].from]
      BY <2>1 DEF ALLOWED_TRANSITIONS
    <2> QED BY <1>0, <2>1, <2>2, <2>3, FromAppended
  <1>3. ASSUME NEW r \in Requests, CancelCommit(r)
        PROVE  FromRows'
    <2>1. /\ req[r].id \in DOMAIN bookings /\ req[r].from \in {"RESERVED", "CONFIRMED"}
          /\ req[r].user \in Users /\ OnceHad(req[r].id, req[r].from)
      BY <1>3, RequestFields DEF CancelCommit, TypeOK, FromRead
    <2>2. Changed(req[r].id, req[r].from, "CANCELLED", req[r].user)
      BY <1>3 DEF CancelCommit, Changed
    <2>3. "CANCELLED" \in ALLOWED_TRANSITIONS[req[r].from]
      BY <2>1 DEF ALLOWED_TRANSITIONS
    <2> QED BY <1>0, <2>1, <2>2, <2>3, FromAppended
  <1>4. ASSUME NEW w \in Workers, ExpireCommit(w)
        PROVE  FromRows'
    <2> DEFINE b == Head(worker[w].batch)
    <2>1. w \in Committing /\ b \in DOMAIN bookings
      BY <1>4, BatchHead DEF ExpireCommit, Committing
    <2>2. Changed(b, "RESERVED", "EXPIRED", Null) /\ bookings[b].status = "RESERVED"
      BY <1>4, <2>1 DEF ExpireCommit, Changed, LocksHeld
    <2> HIDE DEF b
    <2>3. history[b] \in Seq(HistoryRow) /\ TrailOf(b)
      BY <2>1 DEF TypeOK, TrailComplete
    <2>4. Len(history[b]) \in DOMAIN history[b]
      <3>1. history[b] # << >>
        BY <2>3 DEF TrailOf
      <3> QED BY <2>3, <3>1, LastIndex
    <2>5. OnceHad(b, "RESERVED")
      BY <2>2, <2>3, <2>4 DEF OnceHad, TrailOf
    <2>6. "EXPIRED" \in ALLOWED_TRANSITIONS["RESERVED"]
      BY DEF ALLOWED_TRANSITIONS
    <2> QED BY <1>0, <2>1, <2>2, <2>5, <2>6, FromAppended
  <1>5. CASE bookings' = bookings /\ history' = history
    BY <1>5 DEF FromRows, FromRow
  <1>6. CASE ~ (\/ \E r \in Requests : CreateCommit(r) \/ ConfirmCommit(r) \/ CancelCommit(r)
                \/ \E w \in Workers : ExpireCommit(w))
    <2>1. ASSUME NEW r \in Requests, Handler(r)
          PROVE  bookings' = bookings /\ history' = history
      BY <1>6, <2>1 DEF Handler, CreateRead, ConfirmRead, CancelReadBooking, CancelReadSlot,
                        Announce, Abort
    <2>2. ASSUME NEW w \in Workers, Expiry(w)
          PROVE  bookings' = bookings /\ history' = history
      BY <1>6, <2>2 DEF Expiry, PollStale, ExpireBody, ExpireSkip, ExpiryCrash
    <2>3. ASSUME Tick \/ UNCHANGED vars
          PROVE  bookings' = bookings /\ history' = history
      BY <2>3 DEF Tick, vars
    <2>4. bookings' = bookings /\ history' = history
      BY <2>1, <2>2, <2>3 DEF Next
    <2> QED BY <1>5, <2>4
  <1>7. ASSUME NEW r \in Requests, CreateCommit(r)
        PROVE  FromRows'
    <2>1. PICK b \in BookingIds \ DOMAIN bookings :
            /\ \E row : bookings' = Insert(bookings, b, row)
            /\ \E row : history' = Insert(history, b, << row >>)
      BY <1>7 DEF CreateCommit
    <2> SUFFICES ASSUME NEW c \in DOMAIN bookings', NEW i \in 2..Len(history'[c])
                 PROVE  FromRow(c, i)'
      BY DEF FromRows
    <2>2. Len(history'[b]) = 1
      BY <2>1 DEF Insert
    <2>3. c \in DOMAIN bookings /\ history'[c] = history[c]
      BY <2>1, <2>2 DEF Insert, TypeOK
    <2>4. FromRow(c, i)
      BY <2>3 DEF FromRows
    <2> QED BY <2>3, <2>4 DEF FromRow
  <1> QED BY <1>2, <1>3, <1>4, <1>6, <1>7

\* On a booking that kept to the lifecycle the wrong fromStatus is that of a cancel.
LEMMA RegularFrom ==
  ASSUME TypeOK, TrailComplete, FromRows,
         NEW b \in DOMAIN bookings, NEW i \in 2..Len(history[b]), Regular(b),
         history[b][i].fromStatus # history[b][i - 1].toStatus
  PROVE  history[b][i - 1].toStatus = "CONFIRMED" /\ history[b][i].toStatus = "CANCELLED"
  <1> DEFINE to(j) == history[b][j].toStatus
             from == history[b][i].fromStatus
  <1>1. history[b] \in Seq(HistoryRow) /\ Len(history[b]) \in Nat
    BY DEF TypeOK
  <1>2. /\ to(i) \in ALLOWED_TRANSITIONS[from]
        /\ to(i) = "EXPIRED" => from = to(i - 1)
    BY DEF FromRows, FromRow
  <1>3. PICK j \in 1..(i - 1) : to(j) = from
    BY DEF FromRows, FromRow
  <1>4. \A k \in 1..Len(history[b]) : to(k) \in Status
    <2>1. \A k \in 1..Len(history[b]) : history[b][k] \in HistoryRow
      BY <1>1
    <2> QED BY <2>1 DEF HistoryRow
  <1>5. \A k \in 1..(Len(history[b]) - 1) : to(k + 1) \in ALLOWED_TRANSITIONS[to(k)]
    BY DEF Regular
  <1>6. j < i - 1 /\ j \in 1..(Len(history[b]) - 1) /\ j + 1 \in 1..(Len(history[b]) - 1)
        /\ i - 1 \in 1..(Len(history[b]) - 1) /\ i \in 1..Len(history[b]) /\ (i - 1) + 1 = i
    BY <1>1, <1>3
  <1>7. to(j + 1) \in ALLOWED_TRANSITIONS[from] /\ to(j + 2) \in ALLOWED_TRANSITIONS[to(j + 1)]
    <2>1. (j + 1) + 1 = j + 2
      OBVIOUS
    <2> QED BY <1>3, <1>5, <1>6, <2>1
  <1>8. to(i) \in ALLOWED_TRANSITIONS[to(i - 1)]
    BY <1>5, <1>6
  <1>9. to(i) \in ALLOWED_TRANSITIONS[from] /\ from \in Status /\ to(i - 1) \in Status
        /\ to(j + 1) \in Status /\ from # to(i - 1)
    BY <1>2, <1>3, <1>4, <1>6
  <1> HIDE DEF to, from
  <1>10. from = "RESERVED"
    BY <1>7, <1>9 DEF ALLOWED_TRANSITIONS, Status
  <1>11. to(i - 1) = "CONFIRMED"
    BY <1>8, <1>9, <1>10 DEF ALLOWED_TRANSITIONS, Status
  <1>12. to(i) = "CANCELLED"
    BY <1>8, <1>11 DEF ALLOWED_TRANSITIONS
  <1> QED BY <1>11, <1>12 DEF to

\* The fromStatus of every row is a status the booking had, from which the change is
\* legal; it is the previous one on every expiry and, on a booking that kept to the
\* lifecycle, on every row but the cancel that a confirm overtook.
THEOREM FromStatusCorrect == SafetySpec => []FromStatusHeld
  <1>1. Init => TrailComplete /\ FromRows /\ FromRead
    BY DEF Init, TrailComplete, FromRows, FromRead, EmptyTable, Idle
  <1>2. IInv /\ [Next]_vars => IInv'
    BY TypeStep, LocksStep DEF IInv
  <1>3. IInv /\ TrailComplete /\ FromRows => FromStatusHeld
    BY RegularFrom DEF IInv, FromStatusHeld, FromRows, FromRow
  <1> QED BY InitIInv, <1>1, <1>2, <1>3, TrailStep, FromRowsStep, FromReadStep, PTL
          DEF SafetySpec

=============================================================================
