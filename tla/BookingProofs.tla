--------------------------- MODULE BookingProofs ---------------------------
(* Proofs about Booking, and that it implements SeatLifecycle. *)
EXTENDS BookingLifecycle, TLAPS, FiniteSetTheorems

\* What a handler carries from its reads to its commit, by the program counter it is at.
LEMMA RequestFields ==
  ASSUME NEW q \in Request
  PROVE  /\ q.pc = "create" => /\ q.user \in Users
                               /\ q.slot \in Slots
                               /\ q.party \in PartySizes
                               /\ q.version \in Nat
                               /\ q.until \in Nat
         /\ q.pc = "confirm" => /\ q.user \in Users
                                /\ q.id \in BookingIds
                                /\ q.from \in Status
         /\ q.pc = "cancelSlot" => /\ q.user \in Users
                                   /\ q.id \in BookingIds
                                   /\ q.from \in Status
                                   /\ q.seen \in Nat
         /\ q.pc = "cancel" => /\ q.user \in Users
                               /\ q.id \in BookingIds
                               /\ q.from \in Status
                               /\ q.seen \in Nat
                               /\ q.version \in Nat
         /\ q.pc = "enqueue" => q.id \in BookingIds /\ q.event \in Events
  BY DEF Request

(***************************************************************************)
(* Type correctness.  TypeOK alone is not inductive: that ExpireCommit     *)
(* keeps `reserved` natural rests on what the row locks preserve.          *)
(***************************************************************************)
IInv == TypeOK /\ LocksHeld

\* The tables as the seed leaves them, with no handler and no worker running, satisfy the
\* inductive invariant.
LEMMA InitIInv == Init => IInv
  <1> SUFFICES ASSUME Init PROVE IInv
    OBVIOUS
  <1> USE ConstantsAssumption DEF Init
  <1>1. slots \in [Slots -> SlotRow]
    BY DEF SlotRow
  <1>2. DOMAIN bookings = {} /\ DOMAIN history = {} /\ DOMAIN audit = {}
    BY DEF EmptyTable
  <1>3. /\ bookings \in [DOMAIN bookings -> BookingRow]
        /\ history \in [DOMAIN bookings -> Seq(HistoryRow)]
        /\ audit \in [DOMAIN bookings -> Seq(AuditRow)]
    BY <1>2 DEF EmptyTable
  <1>4. req \in [Requests -> Request]
    BY DEF Idle, Request
  <1>5. worker \in [Workers -> WorkerState] /\ Committing = {}
    BY DEF WorkerIdle, WorkerState, Committing
  <1>6. TypeOK
    BY <1>1, <1>2, <1>3, <1>4, <1>5 DEF TypeOK, Idle, WorkerIdle
  <1>7. LocksHeld
    BY <1>5 DEF LocksHeld
  <1> QED BY <1>6, <1>7 DEF IInv

\* The steps that write to the tables leave them well typed.
LEMMA CreateCommitType ==
  ASSUME TypeOK, NEW r \in Requests, CreateCommit(r)
  PROVE  TypeOK'
  <1> DEFINE q == req[r]
  <1>1. q.user \in Users /\ q.slot \in Slots /\ q.party \in Nat /\ q.until \in Nat
    BY RequestFields, ConstantsAssumption DEF TypeOK, CreateCommit
  <1>2. slots' \in [Slots -> SlotRow]
    BY <1>1 DEF TypeOK, CreateCommit, ReserveSeats, SlotRow
  <1>3. PICK b \in BookingIds \ DOMAIN bookings :
          /\ bookings' = Insert(bookings, b,
               [tenantId |-> TenantOf[q.user], userId |-> q.user, slotId |-> q.slot,
                partySize |-> q.party, status |-> "RESERVED", reservedUntil |-> q.until])
          /\ history' = Insert(history, b,
               << [fromStatus |-> Null, toStatus |-> "RESERVED", actorUserId |-> q.user] >>)
          /\ audit' = Insert(audit, b, << [event |-> "RESERVED", actorUserId |-> q.user] >>)
          /\ Goto(r, [pc |-> "enqueue", id |-> b, event |-> "RESERVED"])
    BY DEF CreateCommit
  <1>4. DOMAIN bookings' = DOMAIN bookings \cup {b}
    BY <1>3 DEF Insert
  <1>5. [tenantId |-> TenantOf[q.user], userId |-> q.user, slotId |-> q.slot,
         partySize |-> q.party, status |-> "RESERVED", reservedUntil |-> q.until]
          \in BookingRow
    BY <1>1, ConstantsAssumption DEF BookingRow, Status
  <1>6. bookings' \in [DOMAIN bookings' -> BookingRow]
    BY <1>3, <1>4, <1>5 DEF Insert, TypeOK
  <1>7. << [fromStatus |-> Null, toStatus |-> "RESERVED", actorUserId |-> q.user] >>
          \in Seq(HistoryRow)
    BY <1>1 DEF HistoryRow, Status
  <1>8. history' \in [DOMAIN bookings' -> Seq(HistoryRow)]
    BY <1>3, <1>4, <1>7 DEF Insert, TypeOK
  <1>9. << [event |-> "RESERVED", actorUserId |-> q.user] >> \in Seq(AuditRow)
    BY <1>1 DEF AuditRow, Status
  <1>10. audit' \in [DOMAIN bookings' -> Seq(AuditRow)]
    BY <1>3, <1>4, <1>9 DEF Insert, TypeOK
  <1>11. [pc |-> "enqueue", id |-> b, event |-> "RESERVED"] \in Request
    BY DEF Request, Events, Status
  <1>12. req' \in [Requests -> Request]
    BY <1>3, <1>11 DEF Goto, TypeOK
  <1>13. \A p \in Requests :
           req'[p].pc \in {"confirm", "cancelSlot", "cancel", "enqueue"}
             => req'[p].id \in DOMAIN bookings'
    BY <1>3, <1>4 DEF Goto, TypeOK
  <1>14. worker' = worker /\ now' = now
    BY DEF CreateCommit
  <1> QED BY <1>2, <1>3, <1>4, <1>6, <1>8, <1>10, <1>12, <1>13, <1>14 DEF TypeOK

\* A booking that has a row gets a new status, a history row and an audit row.
LEMMA StatusChangeType ==
  ASSUME TypeOK, NEW b \in DOMAIN bookings, NEW from \in Status \cup {Null},
         NEW to \in Status, NEW actor \in Users \cup {Null},
         SetStatus(b, to), appendStatusHistory(b, from, to, actor), logAudit(b, to, actor)
  PROVE  /\ DOMAIN bookings' = DOMAIN bookings
         /\ bookings' \in [DOMAIN bookings -> BookingRow]
         /\ history' \in [DOMAIN bookings -> Seq(HistoryRow)]
         /\ audit' \in [DOMAIN bookings -> Seq(AuditRow)]
  <1>1. bookings' \in [DOMAIN bookings -> BookingRow]
    BY DEF SetStatus, TypeOK, BookingRow
  <1>2. [fromStatus |-> from, toStatus |-> to, actorUserId |-> actor] \in HistoryRow
    BY DEF HistoryRow
  <1>3. history' \in [DOMAIN bookings -> Seq(HistoryRow)]
    BY <1>2 DEF appendStatusHistory, TypeOK
  <1>4. [event |-> to, actorUserId |-> actor] \in AuditRow
    BY DEF AuditRow
  <1>5. audit' \in [DOMAIN bookings -> Seq(AuditRow)]
    BY <1>4 DEF logAudit, TypeOK
  <1> QED BY <1>1, <1>3, <1>5 DEF SetStatus

\* A release guarded by adjustSlotReserved's `reserved >= seats` leaves a natural number.
LEMMA ReleaseType ==
  ASSUME TypeOK, NEW s \in Slots, NEW n \in Nat, slots[s].reserved >= n, ReleaseSeats(s, n)
  PROVE  slots' \in [Slots -> SlotRow]
  BY DEF TypeOK, ReleaseSeats, SlotRow

\* The batch of a busy worker is not empty and lists rows that exist.
LEMMA BatchHead ==
  ASSUME TypeOK, NEW w \in Workers, worker[w].pc # "idle"
  PROVE  /\ worker[w].batch \in Seq(BookingIds)
         /\ worker[w].batch # << >>
         /\ Head(worker[w].batch) \in DOMAIN bookings
  <1>1. worker[w].batch \in Seq(BookingIds) /\ worker[w].batch # << >>
    BY DEF TypeOK, WorkerState
  <1>2. 1 \in DOMAIN worker[w].batch /\ Head(worker[w].batch) = worker[w].batch[1]
    BY <1>1
  <1> QED BY <1>1, <1>2 DEF TypeOK

\* Dropping the head of its batch leaves every worker well-formed.
LEMMA NextOfBatchType ==
  ASSUME TypeOK, NEW w \in Workers, worker[w].pc # "idle", NextOfBatch(w)
  PROVE  /\ worker' \in [Workers -> WorkerState]
         /\ \A v \in Workers :
              /\ \A i \in DOMAIN worker'[v].batch : worker'[v].batch[i] \in DOMAIN bookings
              /\ worker'[v].pc # "idle" => worker'[v].batch # << >>
  <1> DEFINE rest == Tail(worker[w].batch)
             new == IF rest = << >> THEN WorkerIdle ELSE [pc |-> "loop", batch |-> rest]
  <1>1. /\ rest \in Seq(BookingIds)
        /\ \A i \in DOMAIN rest : rest[i] = worker[w].batch[i + 1]
                                    /\ i + 1 \in DOMAIN worker[w].batch
    BY BatchHead
  <1>2. \A i \in DOMAIN rest : rest[i] \in DOMAIN bookings
    BY <1>1 DEF TypeOK
  <1>3. /\ new \in WorkerState
        /\ \A i \in DOMAIN new.batch : new.batch[i] \in DOMAIN bookings
        /\ new.pc # "idle" => new.batch # << >>
    BY <1>1, <1>2 DEF WorkerState, WorkerIdle
  <1>4. worker' = [worker EXCEPT ![w] = new]
    BY DEF NextOfBatch
  <1> HIDE DEF new
  <1> QED BY <1>3, <1>4 DEF TypeOK

\* Steps that leave the tables, the workers and the clock alone.
LEMMA HandlerOnlyType ==
  ASSUME TypeOK, NEW r \in Requests, NEW q \in Request, Goto(r, q),
         q.pc \in {"confirm", "cancelSlot", "cancel", "enqueue"} => q.id \in DOMAIN bookings,
         UNCHANGED <<slots, bookings, history, audit, worker, now>>
  PROVE  TypeOK'
  <1>1. req' \in [Requests -> Request]
    BY DEF Goto, TypeOK
  <1>2. \A p \in Requests :
          req'[p].pc \in {"confirm", "cancelSlot", "cancel", "enqueue"}
            => req'[p].id \in DOMAIN bookings'
    BY DEF Goto, TypeOK
  <1> QED BY <1>1, <1>2 DEF TypeOK

\* No step of a request handler breaks the types.
LEMMA HandlerType ==
  ASSUME TypeOK, LocksHeld, NEW r \in Requests, Handler(r)
  PROVE  TypeOK'
  <1>1. ASSUME NEW u \in Users, NEW s \in Slots, NEW n \in PartySizes, CreateRead(r, u, s, n)
        PROVE  TypeOK'
    <2>1. [pc |-> "create", user |-> u, slot |-> s, party |-> n,
           version |-> slots[s].version, until |-> now + ReserveTtl] \in Request
      BY ConstantsAssumption DEF TypeOK, SlotRow, Request
    <2> QED BY <1>1, <2>1, HandlerOnlyType DEF CreateRead
  <1>2. ASSUME NEW u \in Users, NEW b \in BookingIds, ConfirmRead(r, u, b)
        PROVE  TypeOK'
    <2>1. b \in DOMAIN bookings /\ bookings[b].status \in Status
      BY <1>2 DEF ConfirmRead, FindOwned, TypeOK, BookingRow
    <2>2. [pc |-> "confirm", user |-> u, id |-> b, from |-> bookings[b].status] \in Request
      BY <2>1 DEF Request
    <2> QED BY <1>2, <2>1, <2>2, HandlerOnlyType DEF ConfirmRead
  <1>3. ASSUME NEW u \in Users, NEW b \in BookingIds, CancelReadBooking(r, u, b)
        PROVE  TypeOK'
    <2>1. /\ b \in DOMAIN bookings
          /\ bookings[b].status \in Status
          /\ slots[bookings[b].slotId].version \in Nat
      BY <1>3 DEF CancelReadBooking, FindOwned, TypeOK, BookingRow, SlotRow
    <2>2. [pc |-> "cancelSlot", user |-> u, id |-> b, from |-> bookings[b].status,
           seen |-> slots[bookings[b].slotId].version] \in Request
      BY <2>1 DEF Request
    <2> QED BY <1>3, <2>1, <2>2, HandlerOnlyType DEF CancelReadBooking
  <1>4. CASE CreateCommit(r)
    BY <1>4, CreateCommitType
  <1>5. CASE ConfirmCommit(r)
    <2> DEFINE q == req[r]
    <2>1. q.user \in Users /\ q.id \in DOMAIN bookings /\ q.from \in Status
      BY <1>5, RequestFields DEF TypeOK, ConfirmCommit
    <2>2. /\ DOMAIN bookings' = DOMAIN bookings
          /\ bookings' \in [DOMAIN bookings -> BookingRow]
          /\ history' \in [DOMAIN bookings -> Seq(HistoryRow)]
          /\ audit' \in [DOMAIN bookings -> Seq(AuditRow)]
      <3>1. /\ SetStatus(q.id, "CONFIRMED")
            /\ appendStatusHistory(q.id, q.from, "CONFIRMED", q.user)
            /\ logAudit(q.id, "CONFIRMED", q.user)
        BY <1>5 DEF ConfirmCommit
      <3>2. "CONFIRMED" \in Status
        BY DEF Status
      <3> HIDE DEF q
      <3> QED BY <2>1, <3>1, <3>2, StatusChangeType
    <2>3. [pc |-> "enqueue", id |-> q.id, event |-> "CONFIRMED"] \in Request
      BY <2>1 DEF Request, Events, Status, TypeOK
    <2>4. /\ req' \in [Requests -> Request]
          /\ \A p \in Requests :
               req'[p].pc \in {"confirm", "cancelSlot", "cancel", "enqueue"}
                 => req'[p].id \in DOMAIN bookings
      BY <1>5, <2>1, <2>3 DEF ConfirmCommit, Goto, TypeOK
    <2>5. UNCHANGED <<slots, worker, now>>
      BY <1>5 DEF ConfirmCommit
    <2> QED BY <2>2, <2>4, <2>5 DEF TypeOK
  <1>6. CASE CancelReadSlot(r)
    <2> DEFINE q == req[r]
    <2>1. /\ q.user \in Users /\ q.id \in DOMAIN bookings /\ q.id \in BookingIds
          /\ q.from \in Status /\ q.seen \in Nat
      BY <1>6, RequestFields DEF TypeOK, CancelReadSlot
    <2>2. slots[bookings[q.id].slotId].version \in Nat
      BY <2>1 DEF TypeOK, BookingRow, SlotRow
    <2>3. [pc |-> "cancel", user |-> q.user, id |-> q.id, from |-> q.from,
           seen |-> q.seen, version |-> slots[bookings[q.id].slotId].version] \in Request
      BY <2>1, <2>2 DEF Request
    <2> QED BY <1>6, <2>1, <2>3, HandlerOnlyType DEF CancelReadSlot
  <1>7. CASE CancelCommit(r)
    <2> DEFINE q == req[r]
               row == bookings[q.id]
    <2>1. q.user \in Users /\ q.id \in DOMAIN bookings /\ q.from \in Status
      BY <1>7, RequestFields DEF TypeOK, CancelCommit
    <2>2. row.slotId \in Slots /\ row.partySize \in Nat
      BY <2>1 DEF TypeOK, BookingRow
    <2>3. slots' \in [Slots -> SlotRow]
      <3>1. slots[row.slotId].reserved >= row.partySize /\ ReleaseSeats(row.slotId, row.partySize)
        BY <1>7 DEF CancelCommit, CanRelease
      <3> HIDE DEF row
      <3> QED BY <2>2, <3>1, ReleaseType
    <2>4. /\ DOMAIN bookings' = DOMAIN bookings
          /\ bookings' \in [DOMAIN bookings -> BookingRow]
          /\ history' \in [DOMAIN bookings -> Seq(HistoryRow)]
          /\ audit' \in [DOMAIN bookings -> Seq(AuditRow)]
      <3>1. /\ SetStatus(q.id, "CANCELLED")
            /\ appendStatusHistory(q.id, q.from, "CANCELLED", q.user)
            /\ logAudit(q.id, "CANCELLED", q.user)
        BY <1>7 DEF CancelCommit
      <3>2. "CANCELLED" \in Status
        BY DEF Status
      <3> HIDE DEF q
      <3> QED BY <2>1, <3>1, <3>2, StatusChangeType
    <2>5. [pc |-> "enqueue", id |-> q.id, event |-> "CANCELLED"] \in Request
      BY <2>1 DEF Request, Events, Status, TypeOK
    <2>6. /\ req' \in [Requests -> Request]
          /\ \A p \in Requests :
               req'[p].pc \in {"confirm", "cancelSlot", "cancel", "enqueue"}
                 => req'[p].id \in DOMAIN bookings
      BY <1>7, <2>1, <2>5 DEF CancelCommit, Goto, TypeOK
    <2>7. UNCHANGED <<worker, now>>
      BY <1>7 DEF CancelCommit
    <2> QED BY <2>3, <2>4, <2>6, <2>7 DEF TypeOK
  <1>8. CASE Announce(r) \/ Abort(r)
    <2>1. Idle \in Request /\ Idle.pc = "idle"
      BY DEF Idle, Request
    <2> QED BY <1>8, <2>1, HandlerOnlyType DEF Announce, Abort
  <1> QED BY <1>1, <1>2, <1>3, <1>4, <1>5, <1>6, <1>7, <1>8 DEF Handler

\* No step of an expiry worker breaks them; ExpireCommit decreases `reserved` without a
\* guard of its own and relies on LocksHeld.
LEMMA ExpiryType ==
  ASSUME TypeOK, LocksHeld, NEW w \in Workers, Expiry(w)
  PROVE  TypeOK'
  <1>1. CASE PollStale(w)
    <2>1. PICK n \in 1..BatchSize : \E q \in [1..n -> Stale] :
            /\ IsOldestFirst(q)
            /\ worker' = [worker EXCEPT ![w] = [pc |-> "loop", batch |-> q]]
      BY <1>1 DEF PollStale
    <2>2. PICK q \in [1..n -> Stale] :
            worker' = [worker EXCEPT ![w] = [pc |-> "loop", batch |-> q]]
      BY <2>1
    <2>3. n \in Nat /\ n >= 1 /\ Stale \subseteq DOMAIN bookings
      BY ConstantsAssumption DEF Stale
    <2>4. q \in Seq(BookingIds) /\ q # << >> /\ \A i \in DOMAIN q : q[i] \in DOMAIN bookings
      <3>1. q \in [1..n -> BookingIds]
        BY <2>3 DEF TypeOK
      <3>2. q \in Seq(BookingIds) /\ Len(q) = n
        BY <2>3, <3>1
      <3> QED BY <2>3, <3>2
    <2>5. [pc |-> "loop", batch |-> q] \in WorkerState
      BY <2>4 DEF WorkerState
    <2>6. /\ worker' \in [Workers -> WorkerState]
          /\ \A v \in Workers :
               /\ \A i \in DOMAIN worker'[v].batch : worker'[v].batch[i] \in DOMAIN bookings
               /\ worker'[v].pc # "idle" => worker'[v].batch # << >>
      BY <2>2, <2>4, <2>5 DEF TypeOK
    <2>7. UNCHANGED <<slots, bookings, history, audit, req, now>>
      BY <1>1 DEF PollStale
    <2> QED BY <2>6, <2>7 DEF TypeOK
  <1>2. CASE ExpireBody(w)
    <2>1. /\ worker' \in [Workers -> WorkerState]
          /\ \A v \in Workers :
               /\ worker'[v].batch = worker[v].batch
               /\ v # w => worker'[v] = worker[v]
          /\ worker[w].pc = "loop"
      BY <1>2 DEF ExpireBody, TypeOK, WorkerState
    <2>2. \A v \in Workers :
               /\ \A i \in DOMAIN worker'[v].batch : worker'[v].batch[i] \in DOMAIN bookings
               /\ worker'[v].pc # "idle" => worker'[v].batch # << >>
      BY <2>1 DEF TypeOK
    <2>3. UNCHANGED <<slots, bookings, history, audit, req, now>>
      BY <1>2 DEF ExpireBody
    <2> QED BY <2>1, <2>2, <2>3 DEF TypeOK
  <1>3. CASE ExpireCommit(w)
    <2> DEFINE b == Head(worker[w].batch)
               row == bookings[b]
    <2>1. w \in Committing /\ worker[w].pc # "idle"
      BY <1>3 DEF ExpireCommit, Committing
    <2>2. b \in DOMAIN bookings
      BY <2>1, BatchHead
    <2>3. row.slotId \in Slots /\ row.partySize \in Nat
      BY <2>2 DEF TypeOK, BookingRow
    <2>4. slots' \in [Slots -> SlotRow]
      <3>1. slots[row.slotId].reserved >= row.partySize /\ ReleaseSeats(row.slotId, row.partySize)
        BY <1>3, <2>1 DEF ExpireCommit, LocksHeld
      <3> HIDE DEF row
      <3> QED BY <2>3, <3>1, ReleaseType
    <2>5. /\ DOMAIN bookings' = DOMAIN bookings
          /\ bookings' \in [DOMAIN bookings -> BookingRow]
          /\ history' \in [DOMAIN bookings -> Seq(HistoryRow)]
          /\ audit' \in [DOMAIN bookings -> Seq(AuditRow)]
      <3>1. /\ SetStatus(b, "EXPIRED")
            /\ appendStatusHistory(b, "RESERVED", "EXPIRED", Null)
            /\ logAudit(b, "EXPIRED", Null)
        BY <1>3 DEF ExpireCommit
      <3>2. "EXPIRED" \in Status /\ "RESERVED" \in Status
        BY DEF Status
      <3> HIDE DEF b
      <3> QED BY <2>2, <3>1, <3>2, StatusChangeType
    <2>6. /\ worker' \in [Workers -> WorkerState]
          /\ \A v \in Workers :
               /\ \A i \in DOMAIN worker'[v].batch : worker'[v].batch[i] \in DOMAIN bookings
               /\ worker'[v].pc # "idle" => worker'[v].batch # << >>
      BY <1>3, <2>1, NextOfBatchType DEF ExpireCommit
    <2>7. UNCHANGED <<req, now>>
      BY <1>3 DEF ExpireCommit
    <2> QED BY <2>4, <2>5, <2>6, <2>7 DEF TypeOK
  <1>4. CASE ExpireSkip(w)
    <2>1. worker[w].pc # "idle"
      BY <1>4 DEF ExpireSkip
    <2>2. UNCHANGED <<slots, bookings, history, audit, req, now>> /\ NextOfBatch(w)
      BY <1>4 DEF ExpireSkip
    <2> QED BY <2>1, <2>2, NextOfBatchType DEF TypeOK
  <1>5. CASE ExpiryCrash(w)
    <2>1. WorkerIdle \in WorkerState /\ WorkerIdle.pc = "idle" /\ DOMAIN WorkerIdle.batch = {}
      BY DEF WorkerIdle, WorkerState
    <2>2. /\ worker' \in [Workers -> WorkerState]
          /\ \A v \in Workers :
               /\ \A i \in DOMAIN worker'[v].batch : worker'[v].batch[i] \in DOMAIN bookings
               /\ worker'[v].pc # "idle" => worker'[v].batch # << >>
      BY <1>5, <2>1 DEF ExpiryCrash, TypeOK
    <2>3. UNCHANGED <<slots, bookings, history, audit, req, now>>
      BY <1>5 DEF ExpiryCrash
    <2> QED BY <2>2, <2>3 DEF TypeOK
  <1> QED BY <1>1, <1>2, <1>3, <1>4, <1>5 DEF Expiry

\* No step at all breaks the types.
LEMMA TypeStep ==
  ASSUME TypeOK, LocksHeld, [Next]_vars
  PROVE  TypeOK'
  <1>1. CASE \E r \in Requests : Handler(r)
    BY <1>1, HandlerType
  <1>2. CASE \E w \in Workers : Expiry(w)
    BY <1>2, ExpiryType
  <1>3. CASE Tick
    BY <1>3 DEF Tick, TypeOK
  <1>4. CASE UNCHANGED vars
    BY <1>4 DEF vars, TypeOK
  <1> QED BY <1>1, <1>2, <1>3, <1>4 DEF Next

(***************************************************************************)
(* The rows a worker's open transaction has claimed.                       *)
(***************************************************************************)
\* No transaction is opened, and the rows behind the open ones are left alone.
LEMMA LocksKept ==
  ASSUME LocksHeld,
         \A w \in Committing' :
            LET row == bookings[Head(worker[w].batch)] IN
            /\ w \in Committing
            /\ worker'[w].batch = worker[w].batch
            /\ bookings'[Head(worker[w].batch)] = row
            /\ slots'[row.slotId] = slots[row.slotId]
  PROVE  LocksHeld'
  <1> DEFINE id(w) == Head(worker[w].batch)
  <1>0. \A w \in Committing' : /\ w \in Committing
                               /\ Head(worker'[w].batch) = id(w)
                               /\ bookings'[id(w)] = bookings[id(w)]
                               /\ slots'[bookings[id(w)].slotId] = slots[bookings[id(w)].slotId]
    OBVIOUS
  <1>1. \A w \in Committing' :
          LET row == bookings'[Head(worker'[w].batch)] IN
          row.status = "RESERVED" /\ slots'[row.slotId].reserved >= row.partySize
    <2> SUFFICES ASSUME NEW w \in Committing'
                 PROVE  /\ bookings'[Head(worker'[w].batch)].status = "RESERVED"
                        /\ slots'[bookings'[Head(worker'[w].batch)].slotId].reserved
                             >= bookings'[Head(worker'[w].batch)].partySize
      OBVIOUS
    <2>1. /\ bookings[id(w)].status = "RESERVED"
          /\ slots[bookings[id(w)].slotId].reserved >= bookings[id(w)].partySize
      BY <1>0 DEF LocksHeld
    <2> QED BY <1>0, <2>1
  <1>2. \A v, w \in Committing' : v # w =>
          bookings'[Head(worker'[v].batch)].slotId # bookings'[Head(worker'[w].batch)].slotId
    <2> SUFFICES ASSUME NEW v \in Committing', NEW w \in Committing', v # w
                 PROVE  bookings'[Head(worker'[v].batch)].slotId
                          # bookings'[Head(worker'[w].batch)].slotId
      OBVIOUS
    <2>1. bookings[id(v)].slotId # bookings[id(w)].slotId
      BY <1>0 DEF LocksHeld
    <2> QED BY <1>0, <2>1
  <1> QED BY <1>1, <1>2, Zenon DEF LocksHeld

\* A request handler cannot touch a row that a worker's open transaction has locked.
LEMMA HandlerLocks ==
  ASSUME TypeOK, LocksHeld, NEW r \in Requests, Handler(r)
  PROVE  LocksHeld'
  <1>0. /\ worker' = worker
        /\ Committing' = Committing
        /\ \A w \in Committing : w \in Workers /\ worker[w].pc # "idle"
    BY DEF Handler, CreateRead, ConfirmRead, CancelReadBooking, CreateCommit, ConfirmCommit,
           CancelReadSlot, CancelCommit, Announce, Abort, Committing
  <1>1. \A w \in Committing : /\ Head(worker[w].batch) \in DOMAIN bookings
                              /\ Head(worker[w].batch) \in LockedBookings
                              /\ bookings[Head(worker[w].batch)].slotId \in LockedSlots
                              /\ bookings[Head(worker[w].batch)].slotId \in Slots
    BY <1>0, BatchHead DEF LockedBookings, LockedSlots, TypeOK, BookingRow
  <1>2. CASE UNCHANGED <<slots, bookings>>
    BY <1>0, <1>2, LocksKept
  <1>3. CASE CreateCommit(r)
    <2>1. \A s \in LockedSlots : s \in Slots => slots'[s] = slots[s]
      BY <1>3, RequestFields DEF CreateCommit, ReserveSeats, TypeOK
    <2>2. \A b \in DOMAIN bookings : bookings'[b] = bookings[b]
      BY <1>3 DEF CreateCommit, Insert
    <2> QED BY <1>0, <1>1, <2>1, <2>2, LocksKept
  <1>4. CASE ConfirmCommit(r)
    <2>1. \A b \in LockedBookings : b \in DOMAIN bookings => bookings'[b] = bookings[b]
      BY <1>4 DEF ConfirmCommit, SetStatus, TypeOK
    <2>2. slots' = slots
      BY <1>4 DEF ConfirmCommit
    <2> QED BY <1>0, <1>1, <2>1, <2>2, LocksKept
  <1>5. CASE CancelCommit(r)
    <2>1. \A b \in LockedBookings : b \in DOMAIN bookings => bookings'[b] = bookings[b]
      BY <1>5 DEF CancelCommit, SetStatus, TypeOK
    <2>2. \A s \in LockedSlots : s \in Slots => slots'[s] = slots[s]
      BY <1>5 DEF CancelCommit, ReleaseSeats, TypeOK
    <2> QED BY <1>0, <1>1, <2>1, <2>2, LocksKept
  <1> QED BY <1>2, <1>3, <1>4, <1>5 DEF Handler, CreateRead, ConfirmRead, CancelReadBooking,
             CancelReadSlot, Announce, Abort

\* A worker's claim establishes what its transaction holds, and keeps clear of the others.
LEMMA ExpiryLocks ==
  ASSUME TypeOK, LocksHeld, NEW w \in Workers, Expiry(w)
  PROVE  LocksHeld'
  <1>0. \A v \in Committing : /\ v \in Workers
                              /\ Head(worker[v].batch) \in DOMAIN bookings
                              /\ Head(worker[v].batch) \in LockedBookings
                              /\ bookings[Head(worker[v].batch)].slotId \in LockedSlots
                              /\ bookings[Head(worker[v].batch)].slotId \in Slots
    BY BatchHead DEF Committing, LockedBookings, LockedSlots, TypeOK, BookingRow
  <1>1. CASE PollStale(w) \/ ExpireSkip(w) \/ ExpiryCrash(w)
    <2>1. /\ UNCHANGED <<slots, bookings>>
          /\ \A v \in Workers : v # w => worker'[v] = worker[v]
          /\ worker'[w].pc # "commit"
      BY <1>1 DEF PollStale, ExpireSkip, ExpiryCrash, NextOfBatch, WorkerIdle, TypeOK
    <2>2. \A v \in Committing' : v \in Committing /\ worker'[v] = worker[v]
      BY <2>1 DEF Committing
    <2> QED BY <2>1, <2>2, LocksKept
  <1>2. CASE ExpireBody(w)
    <2> DEFINE b == Head(worker[w].batch)
    <2>1. /\ UNCHANGED <<slots, bookings>>
          /\ \A v \in Workers : worker'[v].batch = worker[v].batch
          /\ \A v \in Workers : v # w => worker'[v] = worker[v]
      BY <1>2 DEF ExpireBody, TypeOK, WorkerState
    <2>2. \A v \in Committing' : v \in Workers /\ (v \in Committing \/ v = w)
      BY <2>1 DEF Committing
    <2>3. /\ bookings[b].status = "RESERVED"
          /\ slots[bookings[b].slotId].reserved >= bookings[b].partySize
          /\ bookings[b].slotId \notin LockedSlots
      BY <1>2 DEF ExpireBody, Claims, CanRelease
    <2>4. \A v \in Committing' :
            LET row == bookings'[Head(worker'[v].batch)] IN
            row.status = "RESERVED" /\ slots'[row.slotId].reserved >= row.partySize
      <3> SUFFICES ASSUME NEW v \in Committing'
                   PROVE  LET row == bookings[Head(worker[v].batch)] IN
                          row.status = "RESERVED" /\ slots[row.slotId].reserved >= row.partySize
        BY <2>1, <2>2
      <3>1. CASE v \in Committing
        BY <3>1 DEF LocksHeld
      <3>2. CASE v = w
        BY <2>3, <3>2
      <3> QED BY <2>2, <3>1, <3>2
    <2>5. \A u, v \in Committing' : u # v =>
            bookings'[Head(worker'[u].batch)].slotId # bookings'[Head(worker'[v].batch)].slotId
      <3> DEFINE slotOf(x) == bookings[Head(worker[x].batch)].slotId
      <3>1. \A u, v \in Committing : u # v => slotOf(u) # slotOf(v)
        BY DEF LocksHeld
      <3>2. \A u \in Committing : slotOf(u) # slotOf(w)
        BY <1>0, <2>3
      <3>3. \A u, v \in Committing' : u # v => slotOf(u) # slotOf(v)
        <4> HIDE DEF slotOf
        <4> QED BY <2>2, <3>1, <3>2
      <3>4. \A u \in Committing' : bookings'[Head(worker'[u].batch)].slotId = slotOf(u)
        BY <2>1, <2>2
      <3> QED BY <3>3, <3>4
    <2> QED BY <2>4, <2>5, Zenon DEF LocksHeld
  <1>3. CASE ExpireCommit(w)
    <2> DEFINE b == Head(worker[w].batch)
    <2>1. w \in Committing
      BY <1>3 DEF ExpireCommit, Committing
    <2>2. /\ \A v \in Workers : v # w => worker'[v] = worker[v]
          /\ worker'[w].pc # "commit"
      BY <1>3 DEF ExpireCommit, NextOfBatch, WorkerIdle, TypeOK
    <2>3. \A v \in Committing' : v \in Committing /\ v # w /\ worker'[v] = worker[v]
      BY <2>2 DEF Committing
    <2>4. \A c \in DOMAIN bookings : c # b => bookings'[c] = bookings[c]
      BY <1>3 DEF ExpireCommit, SetStatus, TypeOK
    <2>5. \A s \in Slots : s # bookings[b].slotId => slots'[s] = slots[s]
      BY <1>3 DEF ExpireCommit, ReleaseSeats, TypeOK
    <2>6. \A v \in Committing' : /\ Head(worker[v].batch) # b
                                 /\ bookings[Head(worker[v].batch)].slotId # bookings[b].slotId
      BY <2>1, <2>3 DEF LocksHeld
    <2> QED BY <1>0, <2>3, <2>4, <2>5, <2>6, LocksKept
  <1> QED BY <1>1, <1>2, <1>3 DEF Expiry

\* No step at all disturbs an open transaction of a worker.
LEMMA LocksStep ==
  ASSUME TypeOK, LocksHeld, [Next]_vars
  PROVE  LocksHeld'
  <1>1. CASE \E r \in Requests : Handler(r)
    BY <1>1, HandlerLocks
  <1>2. CASE \E w \in Workers : Expiry(w)
    BY <1>2, ExpiryLocks
  <1>3. CASE Tick
    BY <1>3 DEF Tick, LocksHeld, Committing
  <1>4. CASE UNCHANGED vars
    BY <1>4 DEF vars, LocksHeld, Committing
  <1> QED BY <1>1, <1>2, <1>3, <1>4 DEF Next

\* The inductive invariant, for modules that instantiate this one.
LEMMA IInvInit == Init => IInv
  BY InitIInv

LEMMA IInvStep == ASSUME IInv, [Next]_vars PROVE IInv'
  BY TypeStep, LocksStep DEF IInv

\* Every table, handler and worker keeps its type: `reserved` never becomes negative
\* and no handler or batch ever names a booking without a row.
THEOREM TypeCorrect == SafetySpec => []TypeOK
  <1>1. IInv /\ [Next]_vars => IInv'
    BY TypeStep, LocksStep DEF IInv
  <1> QED BY InitIInv, <1>1, PTL DEF SafetySpec, IInv

\* The row locks a worker holds between its claim and its COMMIT protect what the
\* claim established.
THEOREM LocksCorrect == SafetySpec => []LocksHeld
  <1>1. IInv /\ [Next]_vars => IInv'
    BY TypeStep, LocksStep DEF IInv
  <1> QED BY InitIInv, <1>1, PTL DEF SafetySpec, IInv

\* An open transaction of a worker was open before, and nobody wrote its booking; or it has
\* just claimed it.
LEMMA OpenClaims ==
  ASSUME IInv, [Next]_vars, NEW w \in Committing'
  PROVE  /\ w \in Workers
         /\ worker'[w].batch = worker[w].batch
         /\ bookings'[Head(worker[w].batch)] = bookings[Head(worker[w].batch)]
         /\ \/ w \in Committing
            \/ worker[w].pc = "loop" /\ Claims(Head(worker[w].batch))
  <1> USE DEF IInv
  <1>0. w \in Workers /\ worker'[w].pc = "commit"
    BY DEF Committing
  <1>1. ASSUME NEW r \in Requests, Handler(r)
        PROVE  /\ w \in Committing /\ worker' = worker
               /\ bookings'[Head(worker[w].batch)] = bookings[Head(worker[w].batch)]
    <2>1. worker' = worker /\ w \in Committing
      BY <1>0, <1>1 DEF Handler, CreateRead, ConfirmRead, CancelReadBooking, CreateCommit,
                        ConfirmCommit, CancelReadSlot, CancelCommit, Announce, Abort, Committing
    <2>2. Head(worker[w].batch) \in DOMAIN bookings /\ Head(worker[w].batch) \in LockedBookings
      BY <2>1, BatchHead DEF Committing, LockedBookings
    <2>3. CASE CreateCommit(r)
      BY <2>1, <2>2, <2>3 DEF CreateCommit, Insert
    <2>4. CASE ConfirmCommit(r)
      BY <2>1, <2>2, <2>4 DEF ConfirmCommit, SetStatus, TypeOK
    <2>5. CASE CancelCommit(r)
      BY <2>1, <2>2, <2>5 DEF CancelCommit, SetStatus, TypeOK
    <2>6. CASE UNCHANGED bookings
      BY <2>1, <2>6
    <2>7. CreateCommit(r) \/ ConfirmCommit(r) \/ CancelCommit(r) \/ UNCHANGED bookings
      BY <1>1 DEF Handler, CreateRead, ConfirmRead, CancelReadBooking, CancelReadSlot, Announce, Abort
    <2> QED BY <2>1, <2>3, <2>4, <2>5, <2>6, <2>7
  <1>2. ASSUME NEW v \in Workers, Expiry(v)
        PROVE  /\ worker'[w].batch = worker[w].batch
               /\ bookings'[Head(worker[w].batch)] = bookings[Head(worker[w].batch)]
               /\ \/ w \in Committing
                  \/ worker[w].pc = "loop" /\ Claims(Head(worker[w].batch))
    <2>1. CASE PollStale(v) \/ ExpireSkip(v) \/ ExpiryCrash(v)
      <3>1. /\ bookings' = bookings
            /\ \A u \in Workers : u # v => worker'[u] = worker[u]
            /\ worker'[v].pc # "commit"
        BY <2>1 DEF PollStale, ExpireSkip, ExpiryCrash, NextOfBatch, WorkerIdle, TypeOK
      <3> QED BY <1>0, <3>1 DEF Committing
    <2>2. CASE ExpireBody(v)
      <3>1. /\ bookings' = bookings /\ worker[v].pc = "loop" /\ Claims(Head(worker[v].batch))
            /\ \A u \in Workers : worker'[u].batch = worker[u].batch
            /\ \A u \in Workers : u # v => worker'[u] = worker[u]
        BY <2>2 DEF ExpireBody, TypeOK, WorkerState
      <3> QED BY <1>0, <3>1 DEF Committing
    <2>3. CASE ExpireCommit(v)
      <3>1. /\ \A u \in Workers : u # v => worker'[u] = worker[u]
            /\ worker'[v].pc # "commit"
        BY <2>3 DEF ExpireCommit, NextOfBatch, WorkerIdle, TypeOK
      <3>2. v \in Committing /\ w \in Committing /\ w # v /\ worker'[w] = worker[w]
        BY <1>0, <2>3, <3>1 DEF ExpireCommit, Committing
      <3>3. Head(worker[w].batch) # Head(worker[v].batch)
        BY <3>2 DEF LocksHeld
      <3>4. Head(worker[w].batch) \in DOMAIN bookings
        BY <3>2, BatchHead DEF Committing
      <3>5. bookings'[Head(worker[w].batch)] = bookings[Head(worker[w].batch)]
        BY <2>3, <3>3, <3>4 DEF ExpireCommit, SetStatus, TypeOK
      <3> QED BY <3>2, <3>5
    <2> QED BY <1>2, <2>1, <2>2, <2>3 DEF Expiry
  <1>3. CASE Tick \/ UNCHANGED vars
    BY <1>0, <1>3 DEF Tick, vars, Committing
  <1> QED BY <1>0, <1>1, <1>2, <1>3 DEF Next

\* The expiry claims no hold that a confirm could still accept, also in the last moment of
\* the hold and until the COMMIT.
THEOREM ClaimsAreOver == SafetySpec => []ClaimedNotConfirmable
  <1>1. Init => ClaimedNotConfirmable
    BY DEF Init, ClaimedNotConfirmable, Committing, WorkerIdle
  <1>2. ASSUME IInv, ClaimedNotConfirmable, [Next]_vars
        PROVE  ClaimedNotConfirmable'
    <2> DEFINE b(w) == Head(worker[w].batch)
    <2>1. now \in Nat /\ now' \in Nat /\ now' >= now
      <3>1. now \in Nat
        BY <1>2 DEF IInv, TypeOK
      <3>2. ASSUME NEW r \in Requests, Handler(r) PROVE now' = now
        BY <3>2 DEF Handler, CreateRead, ConfirmRead, CancelReadBooking, CreateCommit,
                    ConfirmCommit, CancelReadSlot, CancelCommit, Announce, Abort
      <3>3. ASSUME NEW w \in Workers, Expiry(w) PROVE now' = now
        BY <3>3 DEF Expiry, PollStale, ExpireBody, ExpireCommit, ExpireSkip, ExpiryCrash
      <3> QED BY <1>2, <3>1, <3>2, <3>3 DEF Next, Tick, vars
    <2> SUFFICES ASSUME NEW w \in Committing'
                 PROVE  /\ bookings'[Head(worker'[w].batch)].reservedUntil # Null
                        /\ bookings'[Head(worker'[w].batch)].reservedUntil < now'
      BY DEF ClaimedNotConfirmable, HoldExpired
    <2>2. /\ worker'[w].batch = worker[w].batch
          /\ bookings'[b(w)] = bookings[b(w)]
          /\ w \in Committing \/ Claims(b(w))
      BY <1>2, OpenClaims
    <2>3. b(w) \in DOMAIN bookings /\ bookings[b(w)].reservedUntil \in Nat \cup {Null}
      <3>1. w \in Workers /\ worker[w].pc \in {"loop", "commit"}
        BY <1>2, OpenClaims DEF Committing
      <3>2. b(w) \in DOMAIN bookings
        BY <1>2, <3>1, BatchHead DEF IInv
      <3> QED BY <1>2, <3>2 DEF IInv, TypeOK, BookingRow
    <2>4. bookings[b(w)].reservedUntil # Null /\ bookings[b(w)].reservedUntil < now
      BY <1>2, <2>2 DEF ClaimedNotConfirmable, HoldExpired, Claims, Overdue
    <2> QED BY <2>1, <2>2, <2>3, <2>4
  <1>3. IInv /\ [Next]_vars => IInv'
    BY TypeStep, LocksStep DEF IInv
  <1> QED BY InitIInv, <1>1, <1>2, <1>3, PTL DEF SafetySpec

(***************************************************************************)
(* What a step does to the tables: nothing, or one of three changes.       *)
(***************************************************************************)
Created(b, row) ==
  /\ row.status = "RESERVED"
  /\ row.partySize \in PartySizes
  /\ Capacity[row.slotId] - slots[row.slotId].reserved >= row.partySize
  /\ ReserveSeats(row.slotId, row.partySize)
  /\ bookings' = Insert(bookings, b, row)
  /\ history' = Insert(history, b,
       << [fromStatus |-> Null, toStatus |-> "RESERVED", actorUserId |-> row.userId] >>)
  /\ audit' = Insert(audit, b, << [event |-> "RESERVED", actorUserId |-> row.userId] >>)

Changed(b, from, to, actor) ==
  /\ SetStatus(b, to)
  /\ appendStatusHistory(b, from, to, actor)
  /\ logAudit(b, to, actor)

Released(b) ==
  /\ slots[bookings[b].slotId].reserved >= bookings[b].partySize
  /\ ReleaseSeats(bookings[b].slotId, bookings[b].partySize)

\* All that a step may do to the tables: nothing, one insert, or one status change
\* that has its history row, its audit row and its effect on the slot.
LEMMA TableStep ==
  ASSUME IInv, [Next]_vars
  PROVE  \/ UNCHANGED <<slots, bookings, history, audit>>
         \/ \E b \in BookingIds \ DOMAIN bookings, row \in BookingRow : Created(b, row)
         \/ \E b \in DOMAIN bookings, from \in Status, actor \in Users :
              Changed(b, from, "CONFIRMED", actor) /\ slots' = slots
         \/ \E b \in DOMAIN bookings, from \in Status, actor \in Users :
              Changed(b, from, "CANCELLED", actor) /\ Released(b)
         \/ \E b \in DOMAIN bookings :
              /\ bookings[b].status = "RESERVED"
              /\ Changed(b, "RESERVED", "EXPIRED", Null)
              /\ Released(b)
  <1> USE DEF IInv
  <1>1. ASSUME NEW r \in Requests, CreateCommit(r)
        PROVE  \E b \in BookingIds \ DOMAIN bookings, row \in BookingRow : Created(b, row)
    <2> DEFINE q == req[r]
               row == [tenantId |-> TenantOf[q.user], userId |-> q.user, slotId |-> q.slot,
                       partySize |-> q.party, status |-> "RESERVED", reservedUntil |-> q.until]
    <2>1. row \in BookingRow
      <3>1. q.user \in Users /\ q.slot \in Slots /\ q.party \in Nat /\ q.until \in Nat
        BY <1>1, RequestFields, ConstantsAssumption DEF TypeOK, CreateCommit
      <3> QED BY <3>1, ConstantsAssumption DEF BookingRow, Status
    <2>2. \E b \in BookingIds \ DOMAIN bookings :
            /\ bookings' = Insert(bookings, b, row)
            /\ history' = Insert(history, b,
               << [fromStatus |-> Null, toStatus |-> "RESERVED", actorUserId |-> q.user] >>)
            /\ audit' = Insert(audit, b, << [event |-> "RESERVED", actorUserId |-> q.user] >>)
      BY <1>1 DEF CreateCommit
    <2>3. ReserveSeats(q.slot, q.party) /\ Capacity[q.slot] - slots[q.slot].reserved >= q.party
      BY <1>1 DEF CreateCommit, CanReserve
    <2>4. /\ row.slotId = q.slot /\ row.partySize = q.party /\ row.userId = q.user
          /\ row.status = "RESERVED"
      OBVIOUS
    <2>5. q.party \in PartySizes
      BY <1>1, RequestFields DEF TypeOK, CreateCommit
    <2> HIDE DEF row, q
    <2> QED BY <2>1, <2>2, <2>3, <2>4, <2>5 DEF Created
  <1>2. ASSUME NEW r \in Requests, ConfirmCommit(r)
        PROVE  \E b \in DOMAIN bookings, from \in Status, actor \in Users :
                 Changed(b, from, "CONFIRMED", actor) /\ slots' = slots
    <2>1. req[r].id \in DOMAIN bookings /\ req[r].from \in Status /\ req[r].user \in Users
      BY <1>2, RequestFields DEF ConfirmCommit, TypeOK
    <2> QED BY <1>2, <2>1 DEF ConfirmCommit, Changed
  <1>3. ASSUME NEW r \in Requests, CancelCommit(r)
        PROVE  \E b \in DOMAIN bookings, from \in Status, actor \in Users :
                 Changed(b, from, "CANCELLED", actor) /\ Released(b)
    <2>1. req[r].id \in DOMAIN bookings /\ req[r].from \in Status /\ req[r].user \in Users
      BY <1>3, RequestFields DEF CancelCommit, TypeOK
    <2> QED BY <1>3, <2>1 DEF CancelCommit, CanRelease, Changed, Released
  <1>4. ASSUME NEW w \in Workers, ExpireCommit(w)
        PROVE  \E b \in DOMAIN bookings :
                 /\ bookings[b].status = "RESERVED"
                 /\ Changed(b, "RESERVED", "EXPIRED", Null)
                 /\ Released(b)
    <2>1. w \in Committing /\ Head(worker[w].batch) \in DOMAIN bookings
      BY <1>4, BatchHead DEF ExpireCommit, Committing
    <2> QED BY <1>4, <2>1 DEF ExpireCommit, LocksHeld, Changed, Released
  <1>5. CASE ~ (\/ \E r \in Requests : CreateCommit(r) \/ ConfirmCommit(r) \/ CancelCommit(r)
                \/ \E w \in Workers : ExpireCommit(w))
    <2>1. ASSUME NEW r \in Requests, Handler(r)
          PROVE  UNCHANGED <<slots, bookings, history, audit>>
      BY <1>5, <2>1 DEF Handler, CreateRead, ConfirmRead, CancelReadBooking, CancelReadSlot,
                        Announce, Abort
    <2>2. ASSUME NEW w \in Workers, Expiry(w)
          PROVE  UNCHANGED <<slots, bookings, history, audit>>
      BY <1>5, <2>2 DEF Expiry, PollStale, ExpireBody, ExpireSkip, ExpiryCrash
    <2>3. CASE Tick \/ UNCHANGED vars
      BY <2>3 DEF Tick, vars
    <2> QED BY <2>1, <2>2, <2>3 DEF Next
  <1> QED BY <1>1, <1>2, <1>3, <1>4, <1>5

\* The reserved column never exceeds a slot's capacity, for any number of handlers
\* that read the slot before one of them commits.
THEOREM CapacityCorrect == SafetySpec => []CapacityRespected
  <1>1. Init => CapacityRespected
    BY ConstantsAssumption DEF Init, CapacityRespected
  <1>2. ASSUME IInv, CapacityRespected, [Next]_vars
        PROVE  CapacityRespected'
    <2> USE DEF IInv
    <2>1. CASE slots' = slots
      BY <1>2, <2>1 DEF CapacityRespected
    <2>2. ASSUME NEW b \in BookingIds \ DOMAIN bookings, NEW row \in BookingRow, Created(b, row)
          PROVE  CapacityRespected'
      <3>1. row.slotId \in Slots /\ row.partySize \in Nat
        BY DEF BookingRow
      <3>2. \A s \in Slots : slots'[s].reserved =
              IF s = row.slotId THEN slots[s].reserved + row.partySize ELSE slots[s].reserved
        BY <1>2, <2>2, <3>1 DEF Created, ReserveSeats, TypeOK, SlotRow
      <3>3. \A s \in Slots : slots[s].reserved \in Nat /\ Capacity[s] \in Nat
        BY <1>2, ConstantsAssumption DEF TypeOK, SlotRow
      <3> QED BY <1>2, <2>2, <3>1, <3>2, <3>3 DEF Created, CapacityRespected
    <2>3. ASSUME NEW b \in DOMAIN bookings, Released(b)
          PROVE  CapacityRespected'
      <3>1. bookings[b].slotId \in Slots /\ bookings[b].partySize \in Nat
        BY <1>2 DEF BookingRow, TypeOK
      <3>2. \A s \in Slots : slots'[s].reserved =
              IF s = bookings[b].slotId THEN slots[s].reserved - bookings[b].partySize
                                        ELSE slots[s].reserved
        BY <1>2, <2>3, <3>1 DEF Released, ReleaseSeats, TypeOK, SlotRow
      <3>3. \A s \in Slots : slots[s].reserved \in Nat /\ Capacity[s] \in Nat
        BY <1>2, ConstantsAssumption DEF TypeOK, SlotRow
      <3> QED BY <1>2, <3>1, <3>2, <3>3 DEF CapacityRespected
    <2> QED BY <1>2, <2>1, <2>2, <2>3, TableStep
  <1>3. IInv /\ [Next]_vars => IInv'
    BY TypeStep, LocksStep DEF IInv
  <1> QED BY InitIInv, <1>1, <1>2, <1>3, PTL DEF SafetySpec

\* No step expires a confirmed booking: a confirm that commits between the poll and
\* the claim wins, and one that comes after the claim waits for the row lock.
THEOREM ConfirmedStays == SafetySpec => ConfirmedNeverExpires
  <1>1. ASSUME IInv, [Next]_vars
        PROVE  \A b \in DOMAIN bookings :
                 bookings[b].status = "CONFIRMED" => bookings'[b].status # "EXPIRED"
    <2> USE DEF IInv
    <2> SUFFICES ASSUME NEW c \in DOMAIN bookings, bookings[c].status = "CONFIRMED"
                 PROVE  bookings'[c].status # "EXPIRED"
      OBVIOUS
    <2>1. CASE bookings' = bookings
      BY <2>1
    <2>2. ASSUME NEW b \in BookingIds \ DOMAIN bookings, NEW row \in BookingRow, Created(b, row)
          PROVE  bookings'[c].status # "EXPIRED"
      BY <2>2 DEF Created, Insert
    <2>3. ASSUME NEW b \in DOMAIN bookings, NEW from, NEW to, NEW actor,
                 Changed(b, from, to, actor),
                 to # "EXPIRED" \/ bookings[b].status = "RESERVED"
          PROVE  bookings'[c].status # "EXPIRED"
      BY <1>1, <2>3 DEF Changed, SetStatus, TypeOK, BookingRow
    <2> QED BY <1>1, <2>1, <2>2, <2>3, TableStep
  <1>2. IInv /\ [Next]_vars => IInv'
    BY TypeStep, LocksStep DEF IInv
  <1> QED BY InitIInv, <1>1, <1>2, PTL DEF SafetySpec, ConfirmedNeverExpires

(***************************************************************************)
(* The optimistic lock of cancelReservation.  Every step that takes a      *)
(* booking out of RESERVED or CONFIRMED increments its slot's version.     *)
(***************************************************************************)
Guarded(b, n) ==
  /\ n <= slots[bookings[b].slotId].version
  /\ n = slots[bookings[b].slotId].version => isCancellable(bookings[b].status)

\* A booking that could be cancelled at version n of its slot still can, as long as the
\* slot is at that version: each step that ends a booking is also a new version.
LEMMA StaysGuarded ==
  ASSUME IInv, [Next]_vars, NEW b \in DOMAIN bookings, NEW n \in Nat, Guarded(b, n)
  PROVE  Guarded(b, n)'
  <1> USE DEF IInv
  <1>0. /\ bookings[b].slotId \in Slots
        /\ \A s \in Slots : slots[s].version \in Nat
    BY DEF TypeOK, BookingRow, SlotRow
  <1>1. CASE UNCHANGED <<slots, bookings, history, audit>>
    BY <1>1 DEF Guarded
  <1>2. ASSUME NEW c \in BookingIds \ DOMAIN bookings, NEW row \in BookingRow, Created(c, row)
        PROVE  Guarded(b, n)'
    <2>1. \A s \in Slots : slots'[s].version =
            IF s = row.slotId THEN slots[s].version + 1 ELSE slots[s].version
      BY <1>2 DEF Created, ReserveSeats, TypeOK, SlotRow
    <2>2. bookings'[b] = bookings[b]
      BY <1>2 DEF Created, Insert
    <2> QED BY <1>0, <2>1, <2>2 DEF Guarded
  <1>3. ASSUME NEW c \in DOMAIN bookings, NEW from, NEW actor,
               Changed(c, from, "CONFIRMED", actor), slots' = slots
        PROVE  Guarded(b, n)'
    <2>1. /\ bookings'[b].slotId = bookings[b].slotId
          /\ bookings'[b].status \in {bookings[b].status, "CONFIRMED"}
      BY <1>3 DEF Changed, SetStatus, TypeOK, BookingRow
    <2> QED BY <1>3, <2>1 DEF Guarded, isCancellable
  <1>4. ASSUME NEW c \in DOMAIN bookings, NEW from, NEW to, NEW actor,
               Changed(c, from, to, actor), Released(c)
        PROVE  Guarded(b, n)'
    <2>1. \A s \in Slots : slots'[s].version =
            IF s = bookings[c].slotId THEN slots[s].version + 1 ELSE slots[s].version
      BY <1>4 DEF Released, ReleaseSeats, TypeOK, SlotRow
    <2>2. CASE c = b
      <3>1. bookings'[b].slotId = bookings[b].slotId
        BY <1>4, <2>2 DEF Changed, SetStatus, TypeOK, BookingRow
      <3> QED BY <1>0, <2>1, <2>2, <3>1 DEF Guarded
    <2>3. CASE c # b
      <3>1. bookings'[b] = bookings[b]
        BY <1>4, <2>3 DEF Changed, SetStatus, TypeOK
      <3> QED BY <1>0, <2>1, <3>1 DEF Guarded
    <2> QED BY <2>2, <2>3
  <1> QED BY <1>1, <1>2, <1>3, <1>4, TableStep

SnapshotInv ==
  \A r \in Requests : req[r].pc \in {"cancelSlot", "cancel"} => Guarded(req[r].id, req[r].seen)

\* The version a cancel handler saw first guards the booking it read.
LEMMA SnapshotStep ==
  ASSUME IInv, SnapshotInv, [Next]_vars
  PROVE  SnapshotInv'
  <1> USE DEF IInv
  <1> SUFFICES ASSUME NEW r \in Requests, req'[r].pc \in {"cancelSlot", "cancel"}
               PROVE  Guarded(req[r].id, req[r].seen)'
    BY DEF SnapshotInv
  <1>1. CASE req'[r] = req[r]
    <2>1. req[r].id \in DOMAIN bookings /\ req[r].seen \in Nat
      BY <1>1, RequestFields DEF TypeOK
    <2>2. Guarded(req[r].id, req[r].seen)
      BY <1>1 DEF SnapshotInv
    <2> QED BY <1>1, <2>1, <2>2, StaysGuarded DEF Guarded
  <1>2. ASSUME NEW u \in Users, NEW b \in BookingIds, CancelReadBooking(r, u, b)
        PROVE  Guarded(req[r].id, req[r].seen)'
    <2>1. /\ req'[r].id = b /\ req'[r].seen = slots[bookings[b].slotId].version
          /\ UNCHANGED <<slots, bookings>>
          /\ isCancellable(bookings[b].status)
          /\ b \in DOMAIN bookings
      BY <1>2 DEF CancelReadBooking, Goto, TypeOK, FindOwned
    <2>2. slots[bookings[b].slotId].version \in Nat
      BY <2>1 DEF TypeOK, BookingRow, SlotRow
    <2> QED BY <2>1, <2>2 DEF Guarded
  <1>3. CASE CancelReadSlot(r)
    <2>1. /\ req'[r].id = req[r].id /\ req'[r].seen = req[r].seen
          /\ UNCHANGED <<slots, bookings>>
          /\ req[r].pc = "cancelSlot"
      BY <1>3 DEF CancelReadSlot, Goto, TypeOK
    <2> QED BY <2>1 DEF SnapshotInv, Guarded
  <1>4. CASE \/ req'[r] = req[r]
             \/ \E u \in Users, b \in BookingIds : CancelReadBooking(r, u, b)
             \/ CancelReadSlot(r)
    BY <1>1, <1>2, <1>3, <1>4
  <1>5. \/ req'[r] = req[r]
        \/ \E u \in Users, b \in BookingIds : CancelReadBooking(r, u, b)
        \/ CancelReadSlot(r)
    <2>1. ASSUME NEW p \in Requests, Handler(p), p # r
          PROVE  req'[r] = req[r]
      BY <2>1 DEF Handler, CreateRead, ConfirmRead, CancelReadBooking, CancelReadSlot,
                  CreateCommit, ConfirmCommit, CancelCommit, Announce, Abort, Goto, TypeOK
    <2>2. ASSUME Handler(r)
          PROVE  \/ \E u \in Users, b \in BookingIds : CancelReadBooking(r, u, b)
                 \/ CancelReadSlot(r)
      <3>1. ASSUME \/ \E u \in Users : \/ \E s \in Slots, n \in PartySizes : CreateRead(r, u, s, n)
                                       \/ \E b \in BookingIds : ConfirmRead(r, u, b)
                   \/ CreateCommit(r) \/ ConfirmCommit(r) \/ CancelCommit(r)
                   \/ Announce(r) \/ Abort(r)
            PROVE  req'[r].pc \in {"create", "confirm", "enqueue", "idle"}
        BY <3>1 DEF CreateRead, ConfirmRead, CreateCommit, ConfirmCommit, CancelCommit,
                    Announce, Abort, Goto, Idle, TypeOK
      <3> QED BY <2>2, <3>1 DEF Handler
    <2>3. ASSUME NEW w \in Workers, Expiry(w)
          PROVE  req' = req
      BY <2>3 DEF Expiry, PollStale, ExpireBody, ExpireCommit, ExpireSkip, ExpiryCrash
    <2>4. CASE Tick \/ UNCHANGED vars
      BY <2>4 DEF Tick, vars
    <2> QED BY <2>1, <2>2, <2>3, <2>4 DEF Next
  <1> QED BY <1>4, <1>5

\* When cancelReservation's two reads agree on the version and the release goes
\* through, the booking is RESERVED or CONFIRMED: every release since would have
\* changed the version.
THEOREM CancelGuarded == SafetySpec => []VersionGuardsCancel
  <1>1. Init => SnapshotInv
    BY DEF Init, SnapshotInv, Idle
  <1>2. SnapshotInv => VersionGuardsCancel
    BY DEF SnapshotInv, VersionGuardsCancel, Guarded
  <1>3. IInv /\ [Next]_vars => IInv'
    BY TypeStep, LocksStep DEF IInv
  <1> QED BY InitIInv, <1>1, <1>2, <1>3, SnapshotStep, PTL DEF SafetySpec

(***************************************************************************)
(* The refinement: every transaction that commits moves the seats of one   *)
(* hold of SeatLifecycle.                                                  *)
(***************************************************************************)
\* The phase of every status.
LEMMA Phases ==
  /\ PhaseOf["RESERVED"] = "held"
  /\ PhaseOf["CONFIRMED"] = "kept"
  /\ PhaseOf["CANCELLED"] = "given back"
  /\ PhaseOf["EXPIRED"] = "lapsed"
  BY DEF PhaseOf

\* A table with one row more is a set of holds with one hold more.
LEMMA TakeMaps ==
  ASSUME IInv, NEW b \in BookingIds \ DOMAIN bookings, NEW row \in BookingRow,
         Created(b, row)
  PROVE  Lifecycle!Take(b, row.slotId, row.partySize)
  <1> DEFINE s == row.slotId
             n == row.partySize
  <1>1. s \in Slots /\ n \in Nat /\ n > 0 /\ n \in PartySizes
    BY ConstantsAssumption DEF BookingRow, Created
  <1>2. TakenSeats[s] \in Nat /\ TakenSeats[s] + n <= Capacity[s]
    BY <1>1, ConstantsAssumption DEF Created, TakenSeats, IInv, TypeOK, SlotRow
  <1>3. TakenSeats' = [TakenSeats EXCEPT ![s] = @ + n]
    BY <1>1 DEF Created, ReserveSeats, TakenSeats, IInv, TypeOK, SlotRow
  <1>4. DOMAIN bookings' = DOMAIN bookings \cup {b}
    BY DEF Created, Insert
  <1>5. \A c \in DOMAIN bookings : bookings'[c] = bookings[c]
    BY DEF Created, Insert
  <1>6. bookings'[b] = row
    BY DEF Created, Insert
  <1>7. AllHolds' = [g \in DOMAIN AllHolds \cup {b} |->
           IF g = b THEN [slot |-> s, seats |-> n, phase |-> "held"] ELSE AllHolds[g]]
    <2>1. HoldOf(b)' = [slot |-> s, seats |-> n, phase |-> "held"]
      BY <1>6, Phases DEF HoldOf, Created
    <2>2. \A c \in DOMAIN bookings : HoldOf(c)' = HoldOf(c)
      BY <1>5 DEF HoldOf
    <2> QED BY <1>4, <2>1, <2>2 DEF AllHolds
  <1> QED BY <1>1, <1>2, <1>3, <1>7 DEF Lifecycle!Take, AllHolds

\* A booking's new status is its hold's new phase, and moves no other hold.
LEMMA PhaseMaps ==
  ASSUME IInv, NEW b \in DOMAIN bookings, NEW to \in Status, SetStatus(b, to)
  PROVE  /\ AllHolds' = [AllHolds EXCEPT ![b].phase = PhaseOf[to]]
         /\ b \in DOMAIN AllHolds /\ b \in BookingIds
         /\ AllHolds[b] = HoldOf(b)
         /\ AllHolds[b].phase = PhaseOf[bookings[b].status]
         /\ bookings[b].status \in Status
  <1>1. DOMAIN bookings' = DOMAIN bookings
    BY DEF SetStatus
  <1>2. \A c \in DOMAIN bookings : c # b => bookings'[c] = bookings[c]
    BY DEF SetStatus
  <1>3. /\ bookings'[b].slotId = bookings[b].slotId
        /\ bookings'[b].partySize = bookings[b].partySize
        /\ bookings'[b].status = to
        /\ bookings[b].status \in Status
    BY DEF SetStatus, IInv, TypeOK, BookingRow
  <1>4. HoldOf(b)' = [HoldOf(b) EXCEPT !.phase = PhaseOf[to]]
    BY <1>3 DEF HoldOf
  <1>5. \A c \in DOMAIN bookings : c # b => HoldOf(c)' = HoldOf(c)
    BY <1>2 DEF HoldOf
  <1>6. AllHolds' = [AllHolds EXCEPT ![b].phase = PhaseOf[to]]
    BY <1>1, <1>4, <1>5 DEF AllHolds
  <1>7. AllHolds[b] = HoldOf(b) /\ AllHolds[b].phase = PhaseOf[bookings[b].status]
    BY DEF AllHolds, HoldOf
  <1>8. b \in DOMAIN AllHolds /\ b \in BookingIds
    BY DEF AllHolds, IInv, TypeOK
  <1> QED BY <1>3, <1>6, <1>7, <1>8

\* The seats that a release takes off `reserved` are the ones of the hold.
LEMMA ReturnMaps ==
  ASSUME IInv, NEW b \in DOMAIN bookings, Released(b)
  PROVE  Lifecycle!Return(AllHolds[b].slot, AllHolds[b].seats)
  <1>1. AllHolds[b].slot = bookings[b].slotId /\ AllHolds[b].seats = bookings[b].partySize
    BY DEF AllHolds, HoldOf
  <1>2. bookings[b].slotId \in Slots /\ bookings[b].partySize \in Nat
    BY DEF IInv, TypeOK, BookingRow
  <1>3. TakenSeats' = [TakenSeats EXCEPT ![bookings[b].slotId] = @ - bookings[b].partySize]
    BY <1>2 DEF Released, ReleaseSeats, TakenSeats, IInv, TypeOK, SlotRow
  <1>4. TakenSeats[bookings[b].slotId] >= bookings[b].partySize
    BY <1>2 DEF Released, TakenSeats
  <1> QED BY <1>1, <1>3, <1>4 DEF Lifecycle!Return

\* Every step of the booking service is a step of one hold, or leaves holds and seats alone.
LEMMA LifecycleStep ==
  ASSUME IInv, [Next]_vars
  PROVE  [Lifecycle!Next]_Lifecycle!vars
  <1>1. CASE UNCHANGED <<slots, bookings, history, audit>>
    BY <1>1 DEF Lifecycle!vars, TakenSeats, AllHolds, HoldOf
  <1>2. ASSUME NEW b \in BookingIds \ DOMAIN bookings, NEW row \in BookingRow, Created(b, row)
        PROVE  Lifecycle!Next
    <2>1. /\ row.slotId \in Slots /\ row.partySize \in Nat /\ row.partySize > 0
          /\ Capacity[row.slotId] \in Nat /\ slots[row.slotId].reserved \in Nat
          /\ Capacity[row.slotId] - slots[row.slotId].reserved >= row.partySize
      BY <1>2, ConstantsAssumption DEF BookingRow, Created, IInv, TypeOK, SlotRow
    <2>2. row.partySize \in 1..Capacity[row.slotId]
      BY <2>1
    <2> QED BY <1>2, <2>1, <2>2, TakeMaps DEF Lifecycle!Next
  <1>3. ASSUME NEW b \in DOMAIN bookings, NEW from, NEW actor,
               Changed(b, from, "CONFIRMED", actor), slots' = slots
        PROVE  [Lifecycle!Next]_Lifecycle!vars
    <2>1. TakenSeats' = TakenSeats
      BY <1>3 DEF TakenSeats
    <2>2. /\ AllHolds' = [AllHolds EXCEPT ![b].phase = "kept"]
          /\ b \in DOMAIN AllHolds /\ b \in BookingIds
          /\ AllHolds[b].phase = PhaseOf[bookings[b].status]
          /\ bookings[b].status \in Status
      BY <1>3, PhaseMaps, Phases DEF Changed, Status
    <2>3. CASE bookings[b].status = "RESERVED"
      BY <2>1, <2>2, <2>3, Phases DEF Lifecycle!Next, Lifecycle!Keep, Lifecycle!Phase
    <2>4. CASE bookings[b].status \in {"CANCELLED", "EXPIRED"}
      BY <2>1, <2>2, <2>4, Phases DEF Lifecycle!Next, Lifecycle!Revive, Lifecycle!Phase
    <2>5. CASE bookings[b].status = "CONFIRMED"
      <3>0. AllHolds[b] = [slot |-> bookings[b].slotId, seats |-> bookings[b].partySize,
                           phase |-> "kept"]
        BY <2>5, Phases DEF AllHolds, HoldOf
      <3>1. AllHolds[b] = [AllHolds[b] EXCEPT !.phase = "kept"]
        BY <3>0
      <3>2. AllHolds' = AllHolds
        BY <2>2, <3>1 DEF AllHolds
      <3> QED BY <2>1, <3>2 DEF Lifecycle!vars
    <2> QED BY <2>2, <2>3, <2>4, <2>5 DEF Status
  <1>4. ASSUME NEW b \in DOMAIN bookings, NEW from, NEW actor,
               Changed(b, from, "CANCELLED", actor), Released(b)
        PROVE  Lifecycle!Next
    <2>1. Lifecycle!Return(AllHolds[b].slot, AllHolds[b].seats)
      BY <1>4, ReturnMaps
    <2>2. /\ AllHolds' = [AllHolds EXCEPT ![b].phase = "given back"]
          /\ b \in DOMAIN AllHolds /\ b \in BookingIds
          /\ AllHolds[b].phase = PhaseOf[bookings[b].status]
          /\ bookings[b].status \in Status
      BY <1>4, PhaseMaps, Phases DEF Changed, Status
    <2>3. CASE bookings[b].status \in {"RESERVED", "CONFIRMED"}
      BY <2>1, <2>2, <2>3, Phases DEF Lifecycle!Next, Lifecycle!GiveBack, Lifecycle!Phase
    <2>4. CASE bookings[b].status \in {"CANCELLED", "EXPIRED"}
      BY <2>1, <2>2, <2>4, Phases DEF Lifecycle!Next, Lifecycle!GiveBackAgain, Lifecycle!Phase
    <2> QED BY <2>2, <2>3, <2>4 DEF Status
  <1>5. ASSUME NEW b \in DOMAIN bookings, bookings[b].status = "RESERVED",
               Changed(b, "RESERVED", "EXPIRED", Null), Released(b)
        PROVE  Lifecycle!Next
    <2>1. Lifecycle!Return(AllHolds[b].slot, AllHolds[b].seats)
      BY <1>5, ReturnMaps
    <2>2. /\ AllHolds' = [AllHolds EXCEPT ![b].phase = "lapsed"]
          /\ b \in DOMAIN AllHolds /\ b \in BookingIds
          /\ AllHolds[b].phase = "held"
      BY <1>5, PhaseMaps, Phases DEF Changed, Status
    <2> QED BY <2>1, <2>2 DEF Lifecycle!Next, Lifecycle!Lapse, Lifecycle!Phase
  <1> QED BY <1>1, <1>2, <1>3, <1>4, <1>5, TableStep

\* The booking service implements SeatLifecycle: with any number of handlers and workers
\* racing, seats are taken only when free, a hold lapses only while it is held, and beyond
\* the lifecycle of booking-state.ts nothing happens but a revival or a second return.
THEOREM LifecycleImplemented == SafetySpec => ImplementsSeatLifecycle
  <1>1. Init => Lifecycle!Init
    <2> SUFFICES ASSUME Init PROVE Lifecycle!Init
      OBVIOUS
    <2>1. TakenSeats = Seeded
      BY ConstantsAssumption DEF Init, TakenSeats
    <2>2. AllHolds = [h \in {} |-> h]
      BY DEF Init, EmptyTable, AllHolds
    <2> QED BY <2>1, <2>2 DEF Lifecycle!Init
  <1>2. IInv /\ [Next]_vars => [Lifecycle!Next]_Lifecycle!vars
    BY LifecycleStep
  <1>3. IInv /\ [Next]_vars => IInv'
    BY TypeStep, LocksStep DEF IInv
  <1> QED BY InitIInv, <1>1, <1>2, <1>3, PTL DEF SafetySpec, ImplementsSeatLifecycle, Lifecycle!Spec

=============================================================================
