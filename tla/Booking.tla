------------------------------ MODULE Booking ------------------------------
(***************************************************************************)
(* The booking service (src/services/booking.service.ts with               *)
(* booking-state.ts, lib/audit.ts and the expiry worker): reservations     *)
(* against the seats of availability slots.                                *)
(*                                                                         *)
(* A request handler first READS rows outside any transaction, keeps what  *)
(* it read across an await, and then runs ONE database transaction built   *)
(* from that snapshot.  The model keeps exactly that split: a "Read"       *)
(* action takes the snapshot (and performs the handler's early returns,    *)
(* which change nothing and are therefore steps that are not enabled), and *)
(* a "Commit" action is the whole transaction.  The webhook dispatch and   *)
(* the cache invalidation that follow the transaction are a third step.    *)
(*                                                                         *)
(* The expiry worker's transaction enqueues its webhook and its cache      *)
(* invalidation BEFORE it commits, so it is two steps: ExpireBody, which   *)
(* leaves the booking row and the slot row locked, and ExpireCommit.       *)
(***************************************************************************)
EXTENDS Integers, Sequences, FiniteSets

CONSTANTS
  Users,        \* users authMiddleware lets through
  Slots,        \* rows of availability_slots; the code never creates or deletes one
  BookingIds,   \* supply of booking ids: bounds how many bookings are ever created
  Requests,     \* request handlers that may be in flight at the same time
  Workers,      \* expiry workers (one per running process)
  Tenants,
  TenantOf,     \* tenantId of every user and of every slot
  Capacity,     \* capacity column of every slot, never updated by the code
  Seeded,       \* reserved seats of every slot that the seed loads without bookings
  ActiveSlots,  \* slots whose experience is active
  PartySizes,   \* party_size values the request schema lets through
  ReserveTtl,   \* env.bookingReserveTtlSeconds, in ticks
  BatchSize,    \* EXPIRY_BATCH_SIZE
  MaxTime,      \* bound on the clock
  Null

ASSUME ConstantsAssumption ==
  /\ TenantOf \in [Users \cup Slots -> Tenants]
  /\ Capacity \in [Slots -> Nat]
  /\ Seeded \in [Slots -> Nat]
  /\ \A s \in Slots : Seeded[s] <= Capacity[s]
  /\ PartySizes \subseteq Nat \ {0}
  /\ ReserveTtl \in Nat
  /\ BatchSize \in Nat \ {0}
  /\ MaxTime \in Nat

ASSUME NullAssumption == Null \notin Nat /\ Null \notin Users

VARIABLES
  slots,     \* availability_slots: reserved and version
  bookings,  \* bookings table: a function on the ids that have a row
  history,   \* booking_status_history, per booking in order of insertion
  audit,     \* audit_logs rows whose entity is the booking, in order
  req,       \* request handlers and the snapshot each holds
  worker,    \* expiry workers: the batch still to process
  now        \* the clock

vars == <<slots, bookings, history, audit, req, worker, now>>

Status == {"RESERVED", "CONFIRMED", "CANCELLED", "EXPIRED"}

(***************************************************************************)
(* booking-state.ts                                                        *)
(***************************************************************************)
ALLOWED_TRANSITIONS ==
  [RESERVED  |-> {"CONFIRMED", "CANCELLED", "EXPIRED"},
   CONFIRMED |-> {"CANCELLED"},
   CANCELLED |-> {},
   EXPIRED   |-> {}]

assertTransition(from, to) ==
  IF from = Null THEN to = "RESERVED" ELSE to \in ALLOWED_TRANSITIONS[from]

isCancellable(status) == status \in {"RESERVED", "CONFIRMED"}

(***************************************************************************)
(* Rows.                                                                   *)
(***************************************************************************)
SlotRow == [reserved : Nat, version : Nat]

BookingRow ==
  [tenantId : Tenants, userId : Users, slotId : Slots, partySize : Nat,
   status : Status, reservedUntil : Nat \cup {Null}]

HistoryRow ==
  [fromStatus : Status \cup {Null}, toStatus : Status, actorUserId : Users \cup {Null}]

AuditRow == [event : Status, actorUserId : Users \cup {Null}]

\* WebhookEventType of the booking lifecycle, named by the status it announces.
Events == Status

Request ==
       [pc : {"idle"}]
  \cup [pc : {"create"}, user : Users, slot : Slots, party : PartySizes,
        version : Nat, until : Nat]
  \cup [pc : {"confirm"}, user : Users, id : BookingIds, from : Status]
  \cup [pc : {"cancelSlot"}, user : Users, id : BookingIds, from : Status, seen : Nat]
  \cup [pc : {"cancel"}, user : Users, id : BookingIds, from : Status, seen : Nat,
        version : Nat]
  \cup [pc : {"enqueue"}, id : BookingIds, event : Events]

Idle == [pc |-> "idle"]

WorkerState == [pc : {"idle", "loop", "commit"}, batch : Seq(BookingIds)]

WorkerIdle == [pc |-> "idle", batch |-> << >>]

EmptyTable == [b \in {} |-> Null]

\* INSERT of a row with key b.
Insert(table, b, row) ==
  [c \in DOMAIN table \cup {b} |-> IF c = b THEN row ELSE table[c]]

\* The slots as seed.ts loads them, before any booking: its four sample bookings are left out.
Init ==
  /\ slots = [s \in Slots |-> [reserved |-> Seeded[s], version |-> 0]]
  /\ bookings = EmptyTable
  /\ history = EmptyTable
  /\ audit = EmptyTable
  /\ req = [r \in Requests |-> Idle]
  /\ worker = [w \in Workers |-> WorkerIdle]
  /\ now = 0

(***************************************************************************)
(* Row locks.  Between ExpireBody and ExpireCommit a worker's transaction  *)
(* has updated the booking at the head of its batch and that booking's     *)
(* slot; PostgreSQL makes every other UPDATE of these rows wait.           *)
(***************************************************************************)
Committing == {w \in Workers : worker[w].pc = "commit"}

LockedBookings == {Head(worker[w].batch) : w \in Committing}

LockedSlots == {bookings[b].slotId : b \in LockedBookings}

(***************************************************************************)
(* adjustSlotReserved: the WHERE clause of each of its two UPDATEs, and    *)
(* the row each writes.  No row matched is a ConflictError.                *)
(***************************************************************************)
InAnyTenant(s, t) == TRUE

InTenant(s, t) == TenantOf[s] = t

CanReserveById(s, t, n, v) == InTenant(s, t)

CanReserve(s, t, n, v) ==
  /\ InTenant(s, t)
  /\ slots[s].version = v
  /\ Capacity[s] - slots[s].reserved >= n

CanReleaseUnchecked(s, t, n, v) ==
  /\ InTenant(s, t)
  /\ slots[s].version = v

CanReleaseStrict(s, t, n, v) ==
  /\ InTenant(s, t)
  /\ slots[s].version = v
  /\ slots[s].reserved > n

CanRelease(s, t, n, v) ==
  /\ InTenant(s, t)
  /\ slots[s].version = v
  /\ slots[s].reserved >= n

ReserveSeats(s, n) ==
  slots' = [slots EXCEPT ![s] = [reserved |-> @.reserved + n, version |-> @.version + 1]]

ReleaseOneSeat(s, n) ==
  slots' = [slots EXCEPT ![s] = [reserved |-> @.reserved - 1, version |-> @.version + 1]]

ReleaseWithoutVersion(s, n) ==
  slots' = [slots EXCEPT ![s].reserved = @ - n]

ReleaseSeats(s, n) ==
  slots' = [slots EXCEPT ![s] = [reserved |-> @.reserved - n, version |-> @.version + 1]]

(***************************************************************************)
(* appendStatusHistory and logAudit, always in the caller's transaction.   *)
(***************************************************************************)
appendStatusHistory(b, from, to, actor) ==
  history' = [history EXCEPT ![b] =
     Append(@, [fromStatus |-> from, toStatus |-> to, actorUserId |-> actor])]

LogNothing(b, event, actor) == UNCHANGED audit

logAudit(b, event, actor) ==
  audit' = [audit EXCEPT ![b] = Append(@, [event |-> event, actorUserId |-> actor])]

SetStatusForgotten(b, status) ==
  bookings' = [bookings EXCEPT ![b] = [@ EXCEPT !.reservedUntil = Null]]

\* booking.update: the new status, and reservedUntil reset to null.
SetStatus(b, status) ==
  bookings' = [bookings EXCEPT ![b] = [@ EXCEPT !.status = status, !.reservedUntil = Null]]

Goto(r, state) == req' = [req EXCEPT ![r] = state]

\* The row findFirst({ tenantId, userId, reference }) returns.
FindOwned(u) ==
  {b \in DOMAIN bookings : bookings[b].userId = u /\ bookings[b].tenantId = TenantOf[u]}

\* A hold that confirmReservation refuses: its reservedUntil lies in the past.
HoldExpired(b) ==
  /\ bookings[b].reservedUntil # Null
  /\ bookings[b].reservedUntil < now

OverdueAtOnce(b) ==
  /\ bookings[b].reservedUntil # Null
  /\ bookings[b].reservedUntil <= now

\* A hold that the expiry finds and claims: reservedUntil { lt: new Date() }.
Overdue(b) ==
  /\ bookings[b].reservedUntil # Null
  /\ bookings[b].reservedUntil < now

(***************************************************************************)
(* createReservation                                                       *)
(***************************************************************************)
CreateRead(r, u, s, n) ==
  /\ req[r].pc = "idle"
  /\ InTenant(s, TenantOf[u])
  /\ s \in ActiveSlots
  /\ Capacity[s] - slots[s].reserved >= n
  /\ Goto(r, [pc |-> "create", user |-> u, slot |-> s, party |-> n,
              version |-> slots[s].version, until |-> now + ReserveTtl])
  /\ UNCHANGED <<slots, bookings, history, audit, worker, now>>

CreateCommit(r) ==
  LET q == req[r] IN
  /\ q.pc = "create"
  /\ q.slot \notin LockedSlots
  /\ CanReserve(q.slot, TenantOf[q.user], q.party, q.version)
  /\ ReserveSeats(q.slot, q.party)
  /\ \E b \in BookingIds \ DOMAIN bookings :
       /\ bookings' = Insert(bookings, b,
            [tenantId |-> TenantOf[q.user], userId |-> q.user, slotId |-> q.slot,
             partySize |-> q.party, status |-> "RESERVED", reservedUntil |-> q.until])
       /\ history' = Insert(history, b,
            << [fromStatus |-> Null, toStatus |-> "RESERVED", actorUserId |-> q.user] >>)
       /\ audit' = Insert(audit, b, << [event |-> "RESERVED", actorUserId |-> q.user] >>)
       /\ Goto(r, [pc |-> "enqueue", id |-> b, event |-> "RESERVED"])
  /\ UNCHANGED <<worker, now>>

(***************************************************************************)
(* confirmReservation: the transaction updates the booking by id only.     *)
(***************************************************************************)
ConfirmRead(r, u, b) ==
  /\ req[r].pc = "idle"
  /\ b \in FindOwned(u)
  /\ assertTransition(bookings[b].status, "CONFIRMED")
  /\ ~ HoldExpired(b)
  /\ Goto(r, [pc |-> "confirm", user |-> u, id |-> b, from |-> bookings[b].status])
  /\ UNCHANGED <<slots, bookings, history, audit, worker, now>>

ConfirmCommit(r) ==
  LET q == req[r] IN
  /\ q.pc = "confirm"
  /\ q.id \notin LockedBookings
  /\ SetStatus(q.id, "CONFIRMED")
  /\ appendStatusHistory(q.id, q.from, "CONFIRMED", q.user)
  /\ logAudit(q.id, "CONFIRMED", q.user)
  /\ Goto(r, [pc |-> "enqueue", id |-> q.id, event |-> "CONFIRMED"])
  /\ UNCHANGED <<slots, worker, now>>

(***************************************************************************)
(* cancelReservation: findFirst loads the booking and then, by a second    *)
(* SELECT, the version of the included slot (the Prisma client is          *)
(* generated without relation joins, prisma/schema.prisma:6).  "seen" is   *)
(* auxiliary, for stating VersionGuardsCancel: the slot's version at the   *)
(* moment of the first SELECT.                                             *)
(***************************************************************************)
CancelReadBooking(r, u, b) ==
  /\ req[r].pc = "idle"
  /\ b \in FindOwned(u)
  /\ isCancellable(bookings[b].status)
  /\ assertTransition(bookings[b].status, "CANCELLED")
  /\ Goto(r, [pc |-> "cancelSlot", user |-> u, id |-> b, from |-> bookings[b].status,
              seen |-> slots[bookings[b].slotId].version])
  /\ UNCHANGED <<slots, bookings, history, audit, worker, now>>

CancelReadSlot(r) ==
  LET q == req[r] IN
  /\ q.pc = "cancelSlot"
  /\ Goto(r, [pc |-> "cancel", user |-> q.user, id |-> q.id, from |-> q.from,
              seen |-> q.seen, version |-> slots[bookings[q.id].slotId].version])
  /\ UNCHANGED <<slots, bookings, history, audit, worker, now>>

CancelCommit(r) ==
  LET q == req[r]
      row == bookings[q.id] IN
  /\ q.pc = "cancel"
  /\ row.slotId \notin LockedSlots
  /\ q.id \notin LockedBookings
  /\ CanRelease(row.slotId, TenantOf[q.user], row.partySize, q.version)
  /\ ReleaseSeats(row.slotId, row.partySize)
  /\ SetStatus(q.id, "CANCELLED")
  /\ appendStatusHistory(q.id, q.from, "CANCELLED", q.user)
  /\ logAudit(q.id, "CANCELLED", q.user)
  /\ Goto(r, [pc |-> "enqueue", id |-> q.id, event |-> "CANCELLED"])
  /\ UNCHANGED <<worker, now>>

(***************************************************************************)
(* The ways a handler ends.  Announce is what it does once its transaction *)
(* has committed: it starts the webhook dispatch and, unless it confirmed, *)
(* the cache invalidation (modules that compose Booking with those parts   *)
(* attach to this step).  Abort is everything else: the ConflictError of   *)
(* adjustSlotReserved, a deadlock victim, a reference collision, a lost    *)
(* connection (nothing is written), or the death of the process, which     *)
(* may also come after the commit and lose the announcement.               *)
(***************************************************************************)
Announce(r) ==
  /\ req[r].pc = "enqueue"
  /\ Goto(r, Idle)
  /\ UNCHANGED <<slots, bookings, history, audit, worker, now>>

Abort(r) ==
  /\ req[r].pc # "idle"
  /\ Goto(r, Idle)
  /\ UNCHANGED <<slots, bookings, history, audit, worker, now>>

(***************************************************************************)
(* expireStaleReservations: one poll takes the oldest overdue holds and    *)
(* runs one transaction per booking, in order.                             *)
(***************************************************************************)
Stale == {b \in DOMAIN bookings : bookings[b].status = "RESERVED" /\ Overdue(b)}

\* orderBy reservedUntil asc, take BatchSize
IsOldestFirst(q) ==
  /\ \A i, j \in DOMAIN q : i < j =>
       q[i] # q[j] /\ bookings[q[i]].reservedUntil <= bookings[q[j]].reservedUntil
  /\ \A b \in Stale : \/ \E i \in DOMAIN q : q[i] = b
                      \/ /\ Len(q) = BatchSize
                         /\ \A i \in DOMAIN q :
                              bookings[q[i]].reservedUntil <= bookings[b].reservedUntil

PollStale(w) ==
  /\ worker[w].pc = "idle"
  /\ \E n \in 1..BatchSize : \E q \in [1..n -> Stale] :
       /\ IsOldestFirst(q)
       /\ worker' = [worker EXCEPT ![w] = [pc |-> "loop", batch |-> q]]
  /\ UNCHANGED <<slots, bookings, history, audit, req, now>>

\* Proceed to the next booking of the batch.
NextOfBatch(w) ==
  LET rest == Tail(worker[w].batch) IN
  worker' = [worker EXCEPT ![w] =
     IF rest = << >> THEN WorkerIdle ELSE [pc |-> "loop", batch |-> rest]]

\* The claim of expireReservation: updateMany on id, status and reservedUntil.
ClaimsById(b) == b \notin LockedBookings

Claims(b) ==
  /\ b \notin LockedBookings
  /\ bookings[b].status = "RESERVED"
  /\ Overdue(b)

\* The transaction up to its last statement: claim, read the slot's version,
\* release the seats, history, audit.  It ends by starting the webhook dispatch and
\* the cache invalidation, before the COMMIT that makes the rows visible.
ExpireBody(w) ==
  LET b == Head(worker[w].batch)
      row == bookings[b] IN
  /\ worker[w].pc = "loop"
  /\ Claims(b)
  /\ row.slotId \notin LockedSlots
  /\ CanRelease(row.slotId, row.tenantId, row.partySize, slots[row.slotId].version)
  /\ worker' = [worker EXCEPT ![w].pc = "commit"]
  /\ UNCHANGED <<slots, bookings, history, audit, req, now>>

ExpireCommit(w) ==
  LET b == Head(worker[w].batch) IN
  /\ worker[w].pc = "commit"
  /\ ReleaseSeats(bookings[b].slotId, bookings[b].partySize)
  /\ SetStatus(b, "EXPIRED")
  /\ appendStatusHistory(b, "RESERVED", "EXPIRED", Null)
  /\ logAudit(b, "EXPIRED", Null)
  /\ NextOfBatch(w)
  /\ UNCHANGED <<req, now>>

\* Nothing claimed, a version conflict, too few reserved seats, or any other
\* failure before or at COMMIT: rolled back, and the loop goes on.
ExpireSkip(w) ==
  /\ worker[w].pc \in {"loop", "commit"}
  /\ NextOfBatch(w)
  /\ UNCHANGED <<slots, bookings, history, audit, req, now>>

\* The worker's process dies: its batch is forgotten, its transaction rolled back.
ExpiryCrash(w) ==
  /\ worker[w].pc # "idle"
  /\ worker' = [worker EXCEPT ![w] = WorkerIdle]
  /\ UNCHANGED <<slots, bookings, history, audit, req, now>>

Tick ==
  /\ now < MaxTime
  /\ now' = now + 1
  /\ UNCHANGED <<slots, bookings, history, audit, req, worker>>

Handler(r) ==
  \/ \E u \in Users :
       \/ \E s \in Slots, n \in PartySizes : CreateRead(r, u, s, n)
       \/ \E b \in BookingIds : ConfirmRead(r, u, b)
       \/ \E b \in BookingIds : CancelReadBooking(r, u, b)
  \/ CreateCommit(r)
  \/ ConfirmCommit(r)
  \/ CancelReadSlot(r)
  \/ CancelCommit(r)
  \/ Announce(r)
  \/ Abort(r)

Expiry(w) ==
  \/ PollStale(w)
  \/ ExpireBody(w)
  \/ ExpireCommit(w)
  \/ ExpireSkip(w)
  \/ ExpiryCrash(w)

Next ==
  \/ \E r \in Requests : Handler(r)
  \/ \E w \in Workers : Expiry(w)
  \/ Tick

(***************************************************************************)
(* Fairness.  BullMQ's scheduler keeps adding the poll job and the worker  *)
(* keeps running it, so a poll is weakly fair and the loop is never        *)
(* abandoned.  A transaction may fail and is "retried on next poll": the   *)
(* two success steps are strongly fair, that is, a transaction attempted   *)
(* again and again does not fail every time.  Time passes.  Nothing is     *)
(* assumed of users.                                                       *)
(***************************************************************************)
Fairness ==
  /\ WF_vars(Tick)
  /\ \A w \in Workers :
       /\ WF_vars(PollStale(w))
       /\ WF_vars(ExpireSkip(w))
       /\ SF_vars(ExpireBody(w))
       /\ SF_vars(ExpireCommit(w))

SafetySpec == Init /\ [][Next]_vars

Spec == SafetySpec /\ Fairness

(***************************************************************************)
(* Properties.                                                             *)
(***************************************************************************)
\* Every row and every handler has its declared shape; in particular `reserved`
\* never goes below zero, which only the guard in adjustSlotReserved prevents.
TypeOK ==
  /\ slots \in [Slots -> SlotRow]
  /\ DOMAIN bookings \subseteq BookingIds
  /\ bookings \in [DOMAIN bookings -> BookingRow]
  /\ history \in [DOMAIN bookings -> Seq(HistoryRow)]
  /\ audit \in [DOMAIN bookings -> Seq(AuditRow)]
  /\ req \in [Requests -> Request]
  /\ \A r \in Requests : req[r].pc \in {"confirm", "cancelSlot", "cancel", "enqueue"}
       => req[r].id \in DOMAIN bookings
  /\ worker \in [Workers -> WorkerState]
  /\ \A w \in Workers :
       /\ \A i \in DOMAIN worker[w].batch : worker[w].batch[i] \in DOMAIN bookings
       /\ worker[w].pc # "idle" => worker[w].batch # << >>
  /\ now \in Nat

\* The reserved column never exceeds the capacity, however many createReservation
\* calls read the same slot before one of them commits.
CapacityRespected == \A s \in Slots : slots[s].reserved <= Capacity[s]

BookingsOf(s) == {b \in DOMAIN bookings : bookings[b].slotId = s}

Holding(b) == bookings[b].status \in {"RESERVED", "CONFIRMED"}

\* The seats of booking b, one element for each.
Seats(b) == {b} \X (1..bookings[b].partySize)

\* The seats of slot s that bookings hold.
HeldSeats(s) == UNION {Seats(b) : b \in {c \in BookingsOf(s) : Holding(c)}}

\* The statuses booking b went through, each reached from the one before by a
\* transition of ALLOWED_TRANSITIONS.
Regular(b) ==
  \A i \in 1..(Len(history[b]) - 1) :
     history[b][i + 1].toStatus \in ALLOWED_TRANSITIONS[history[b][i].toStatus]

\* reserved is exact: it counts the seats of the slot's RESERVED and CONFIRMED
\* bookings on top of what the seed loaded, as long as no booking of the slot has
\* left the lifecycle of booking-state.ts.  No interleaving of create, confirm,
\* cancel and expire loses or leaks a seat otherwise.
RegularSlotsExact ==
  \A s \in Slots : (\A b \in BookingsOf(s) : Regular(b)) =>
     slots[s].reserved = Seeded[s] + Cardinality(HeldSeats(s))

\* The history rows of slot s's bookings with a status in S.
Rows(s, S) ==
  UNION {{b} \X {i \in DOMAIN history[b] : history[b][i].toStatus \in S} : b \in BookingsOf(s)}

\* The seats that those rows moved.
Moved(s, S) == UNION {{x} \X (1..bookings[x[1]].partySize) : x \in Rows(s, S)}

\* The history accounts for every change of a slot, also of slots where a booking
\* left the lifecycle: each reserve and each release is one row, one version, and
\* as many seats as the booking's party.
LedgerBalanced ==
  \A s \in Slots :
     /\ slots[s].version = Cardinality(Rows(s, {"RESERVED", "CANCELLED", "EXPIRED"}))
     /\ slots[s].reserved + Cardinality(Moved(s, {"CANCELLED", "EXPIRED"}))
          = Seeded[s] + Cardinality(Moved(s, {"RESERVED"}))

\* What the optimistic lock achieves for cancelReservation: when both SELECTs saw
\* the same version and that version is still current, so that the release will go
\* through, then the booking is still one that may be cancelled.
VersionGuardsCancel ==
  \A r \in Requests :
     LET q == req[r] IN
     (q.pc = "cancel" /\ q.version = q.seen
        /\ slots[bookings[q.id].slotId].version = q.version)
     => isCancellable(bookings[q.id].status)

\* The claim in expireReservation never takes a booking that was confirmed after
\* the poll listed it.
ConfirmedNeverExpires ==
  [][\A b \in DOMAIN bookings :
       bookings[b].status = "CONFIRMED" => bookings'[b].status # "EXPIRED"]_vars

\* From the claim to the COMMIT the worker's transaction keeps what it established:
\* its booking is still RESERVED, its slot still has the seats to release, and no
\* other worker's transaction touches either row.
LocksHeld ==
  /\ \A w \in Committing :
       LET row == bookings[Head(worker[w].batch)] IN
       row.status = "RESERVED" /\ slots[row.slotId].reserved >= row.partySize
  /\ \A v, w \in Committing : v # w =>
       bookings[Head(worker[v].batch)].slotId # bookings[Head(worker[w].batch)].slotId

\* The service decides twice whether a hold is over, with `<` in confirmReservation and
\* with `lt` in the query and the claim of the expiry, and at different times.  The two
\* agree also at the last moment of a hold: from the claim to the COMMIT, no confirm
\* that reads the hold would still accept it.
ClaimedNotConfirmable == \A w \in Committing : HoldExpired(Head(worker[w].batch))

\* Two workers whose polls listed the same hold expire it once: the second claim
\* matches no row.
ExpiredOnce ==
  \A b \in DOMAIN bookings :
     Cardinality({i \in DOMAIN history[b] : history[b][i].toStatus = "EXPIRED"}) <= 1

\* The timeline of booking b starts with its creation and ends in its status, and
\* the audit log has the same rows.
TrailOf(b) ==
  /\ history[b] # << >>
  /\ history[b][1].fromStatus = Null
  /\ history[b][Len(history[b])].toStatus = bookings[b].status
  /\ Len(audit[b]) = Len(history[b])
  /\ \A i \in DOMAIN history[b] :
       audit[b][i] = [event |-> history[b][i].toStatus,
                      actorUserId |-> history[b][i].actorUserId]

\* The timeline and the audit log that withAuditedTransaction writes agree with each
\* other and with the booking, even when a handler commits a stale snapshot.
TrailComplete == \A b \in DOMAIN bookings : TrailOf(b)

\* What the timeline says a change came from.  A handler writes the status it read before
\* its transaction, so the fromStatus of a row may be out of date, but only in this much:
\* the booking was once in that status and the change was legal from there; the expiry,
\* which claims by status, is never out of date; and on a booking that kept to the
\* lifecycle only a cancel that a confirm overtook is.
FromStatusHeld ==
  \A b \in DOMAIN bookings : \A i \in 2..Len(history[b]) :
     LET row == history[b][i]
         previous == history[b][i - 1].toStatus IN
     /\ row.toStatus \in ALLOWED_TRANSITIONS[row.fromStatus]
     /\ \E j \in 1..(i - 1) : history[b][j].toStatus = row.fromStatus
     /\ row.toStatus = "EXPIRED" => row.fromStatus = previous
     /\ Regular(b) /\ row.fromStatus # previous =>
          previous = "CONFIRMED" /\ row.toStatus = "CANCELLED"

\* A booking belongs to one tenant with its user and its slot, and only its owner or
\* the expiry worker ever acts on it.
TenantIsolation ==
  \A b \in DOMAIN bookings :
     /\ bookings[b].tenantId = TenantOf[bookings[b].userId]
     /\ bookings[b].tenantId = TenantOf[bookings[b].slotId]
     /\ \A i \in DOMAIN history[b] :
          history[b][i].actorUserId \in {bookings[b].userId, Null}

\* A hold that its owner can no longer confirm.
Unconfirmable(b) ==
  b \in DOMAIN bookings /\ bookings[b].status = "RESERVED" /\ HoldExpired(b)

\* No hold is left that neither its owner can confirm nor the expiry ends: it is
\* eventually expired, confirmed or cancelled, unless some booking left the lifecycle.
HoldsEnd ==
  \A b \in BookingIds :
     Unconfirmable(b) ~> (~ Unconfirmable(b) \/ \E c \in DOMAIN bookings : ~ Regular(c))

(***************************************************************************)
(* What the repository says and the code does not do: refuted by TLC.      *)
(***************************************************************************)
\* A booking's status changes only along ALLOWED_TRANSITIONS (booking-state.ts).
AllowedTransitionsOnly ==
  [][\A b \in DOMAIN bookings :
       bookings'[b].status = bookings[b].status
         \/ assertTransition(bookings[b].status, bookings'[b].status)]_vars

\* "Marks overdue RESERVED bookings as EXPIRED" and "retry on next poll": every overdue hold
\* ends, at least on a slot whose bookings kept to the lifecycle, whatever became of the
\* other slots.
HealthyHoldsEnd ==
  \A b \in BookingIds :
     (b \in Stale) ~>
       (b \notin Stale \/ \E c \in BookingsOf(bookings[b].slotId) : ~ Regular(c))

=============================================================================
