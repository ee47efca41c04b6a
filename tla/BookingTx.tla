----------------------------- MODULE BookingTx -----------------------------
(***************************************************************************)
(* The transactions of the booking service statement by statement          *)
(* (src/services/booking.service.ts), as PostgreSQL runs them at READ      *)
(* COMMITTED: a statement sees what is committed when it runs, an UPDATE   *)
(* locks the row it writes until COMMIT or ROLLBACK, waits for a row that  *)
(* another transaction locked, and then evaluates its WHERE clause on the  *)
(* row it waited for.                                                      *)
(*                                                                         *)
(* Every transaction keeps the rows it has written to itself until it      *)
(* commits.  Module Booking takes whole transactions for single steps;     *)
(* ImplementsBooking says that this hides nothing.                         *)
(*                                                                         *)
(* The INSERTs into history and audit log write rows that nobody else      *)
(* touches, and their foreign keys take key-share locks, which UPDATEs of  *)
(* other columns do not wait for: they are part of the COMMIT of a handler *)
(* and of the last UPDATE of an expiry.                                    *)
(***************************************************************************)
EXTENDS Integers, Sequences, FiniteSets

CONSTANTS
  Users, Slots, BookingIds, Requests, Workers, Tenants, TenantOf, Capacity, Seeded,
  ActiveSlots, PartySizes, ReserveTtl, BatchSize, MaxTime, Null

\* Handlers and workers have transactions of their own.
ASSUME ActorsAssumption == Requests \cap Workers = {}

VARIABLES
  slots, bookings, history, audit,  \* the committed rows
  req,                              \* request handlers
  batch,                            \* what every worker has left of its poll
  tx,                               \* the open transaction of every handler and worker
  now

vars == <<slots, bookings, history, audit, req, batch, tx, now>>

Actors == Requests \cup Workers

(***************************************************************************)
(* The refinement mapping: a worker is committing when nothing but COMMIT  *)
(* is left of its transaction; an open transaction of a handler is not     *)
(* there at all.                                                           *)
(***************************************************************************)
WorkerPc(w) ==
  IF batch[w] = << >> THEN "idle" ELSE IF tx[w].at = "commit" THEN "commit" ELSE "loop"

WorkersNow == [w \in Workers |-> [pc |-> WorkerPc(w), batch |-> batch[w]]]

B == INSTANCE Booking WITH worker <- WorkersNow

\* What Booking assumes of the constants.
ASSUME BookingAssumptions == B!ConstantsAssumption /\ B!NullAssumption

\* The rows written so far, and the statement to run next.
NoRows == [k \in {} |-> Null]

NoTx == [at |-> "none", slots |-> NoRows, bookings |-> NoRows, version |-> 0]

Stages == {"none", "insert", "booking", "version", "slot", "commit"}

\* The table with the rows that a transaction wrote.
Over(rows, table) ==
  [k \in DOMAIN rows \cup DOMAIN table |-> IF k \in DOMAIN rows THEN rows[k] ELSE table[k]]

Row(k, row) == [x \in {k} |-> row]

Init ==
  /\ batch = [w \in Workers |-> << >>]
  /\ tx = [a \in Actors |-> NoTx]
  /\ B!Init

(***************************************************************************)
(* Row locks.                                                              *)
(***************************************************************************)
SlotFree(a, s) == \A c \in Actors \ {a} : s \notin DOMAIN tx[c].slots

BookingFreeToRead(a, b) == TRUE

BookingFree(a, b) == \A c \in Actors \ {a} : b \notin DOMAIN tx[c].bookings

\* UPDATE of one row of availability_slots, with the transaction's next statement.
WriteSlot(a, s, row, next) ==
  /\ SlotFree(a, s)
  /\ tx' = [tx EXCEPT ![a] =
       [at |-> next, slots |-> Row(s, row), bookings |-> @.bookings, version |-> @.version]]

\* UPDATE of one row of bookings.
WriteBooking(a, b, status, next) ==
  /\ BookingFree(a, b)
  /\ tx' = [tx EXCEPT ![a] =
       [at |-> next, slots |-> @.slots,
        bookings |-> Row(b, [bookings[b] EXCEPT !.status = status, !.reservedUntil = Null]),
        version |-> @.version]]

Tables == <<slots, bookings, history, audit>>

(***************************************************************************)
(* Handlers.  What they do outside their transaction is as in Booking.     *)
(***************************************************************************)
CreateRead(r, u, s, n) == UNCHANGED <<batch, tx>> /\ B!CreateRead(r, u, s, n)

ConfirmRead(r, u, b) == UNCHANGED <<batch, tx>> /\ B!ConfirmRead(r, u, b)

CancelReadBooking(r, u, b) == UNCHANGED <<batch, tx>> /\ B!CancelReadBooking(r, u, b)

CancelReadSlot(r) == UNCHANGED <<batch, tx>> /\ B!CancelReadSlot(r)

Announce(r) == UNCHANGED <<batch, tx>> /\ B!Announce(r)

\* The statement that r runs next.
At(r, pc, stage) == req[r].pc = pc /\ tx[r].at = stage

\* adjustSlotReserved, reserving
CreateReserves(r) ==
  LET q == req[r]
      row == slots[q.slot] IN
  /\ At(r, "create", "none")
  /\ TenantOf[q.slot] = TenantOf[q.user]
  /\ row.version = q.version
  /\ Capacity[q.slot] - row.reserved >= q.party
  /\ WriteSlot(r, q.slot,
       [reserved |-> row.reserved + q.party, version |-> row.version + 1], "insert")
  /\ UNCHANGED <<Tables, req, batch, now>>

\* The INSERTs and COMMIT.
CreateCommits(r) ==
  LET q == req[r]
      t == TenantOf[q.user] IN
  /\ At(r, "create", "insert")
  /\ \E b \in BookingIds \ DOMAIN bookings :
       /\ bookings' = Over(Row(b,
            [tenantId |-> t, userId |-> q.user, slotId |-> q.slot, partySize |-> q.party,
             status |-> "RESERVED", reservedUntil |-> q.until]), bookings)
       /\ history' = Over(Row(b,
            << [fromStatus |-> Null, toStatus |-> "RESERVED", actorUserId |-> q.user] >>), history)
       /\ audit' = Over(Row(b, << [event |-> "RESERVED", actorUserId |-> q.user] >>), audit)
       /\ req' = [req EXCEPT ![r] = [pc |-> "enqueue", id |-> b, event |-> "RESERVED"]]
  /\ slots' = Over(tx[r].slots, slots)
  /\ tx' = [tx EXCEPT ![r] = NoTx]
  /\ UNCHANGED <<batch, now>>

ConfirmUpdates(r) ==
  /\ At(r, "confirm", "none")
  /\ WriteBooking(r, req[r].id, "CONFIRMED", "commit")
  /\ UNCHANGED <<Tables, req, batch, now>>

CancelReleasesUnchecked(r) ==
  LET booking == bookings[req[r].id]
      row == slots[booking.slotId] IN
  /\ At(r, "cancel", "none")
  /\ WriteSlot(r, booking.slotId,
       [reserved |-> row.reserved - booking.partySize, version |-> row.version + 1], "booking")
  /\ UNCHANGED <<Tables, req, batch, now>>

\* adjustSlotReserved, releasing
CancelReleases(r) ==
  LET q == req[r]
      booking == bookings[q.id]
      row == slots[booking.slotId] IN
  /\ At(r, "cancel", "none")
  /\ TenantOf[booking.slotId] = TenantOf[q.user]
  /\ row.version = q.version
  /\ row.reserved >= booking.partySize
  /\ WriteSlot(r, booking.slotId,
       [reserved |-> row.reserved - booking.partySize, version |-> row.version + 1], "booking")
  /\ UNCHANGED <<Tables, req, batch, now>>

CancelUpdates(r) ==
  /\ At(r, "cancel", "booking")
  /\ WriteBooking(r, req[r].id, "CANCELLED", "commit")
  /\ UNCHANGED <<Tables, req, batch, now>>

\* The rows of appendStatusHistory and logAudit, and COMMIT.
Commit(a, b, from, to, actor) ==
  /\ slots' = Over(tx[a].slots, slots)
  /\ bookings' = Over(tx[a].bookings, bookings)
  /\ history' = [history EXCEPT ![b] =
       Append(@, [fromStatus |-> from, toStatus |-> to, actorUserId |-> actor])]
  /\ audit' = [audit EXCEPT ![b] = Append(@, [event |-> to, actorUserId |-> actor])]
  /\ tx' = [tx EXCEPT ![a] = NoTx]

HandlerCommits(r) ==
  LET q == req[r]
      to == IF q.pc = "confirm" THEN "CONFIRMED" ELSE "CANCELLED" IN
  /\ q.pc \in {"confirm", "cancel"}
  /\ tx[r].at = "commit"
  /\ Commit(r, q.id, q.from, to, q.user)
  /\ req' = [req EXCEPT ![r] = [pc |-> "enqueue", id |-> q.id, event |-> to]]
  /\ UNCHANGED <<batch, now>>

\* A statement that matches no row throws; a connection or a process may die; a
\* transaction may time out: ROLLBACK, and the handler is over.
HandlerFails(r) ==
  /\ req[r].pc # "idle"
  /\ req' = [req EXCEPT ![r] = B!Idle]
  /\ tx' = [tx EXCEPT ![r] = NoTx]
  /\ UNCHANGED <<Tables, batch, now>>

(***************************************************************************)
(* The expiry worker.                                                      *)
(***************************************************************************)
PollStale(w) ==
  /\ batch[w] = << >>
  /\ \E n \in 1..BatchSize : \E q \in [1..n -> B!Stale] :
       B!IsOldestFirst(q) /\ batch' = [batch EXCEPT ![w] = q]
  /\ UNCHANGED <<Tables, req, tx, now>>

Expiring(w, stage) == batch[w] # << >> /\ tx[w].at = stage

ExpireClaimsById(w) ==
  /\ Expiring(w, "none")
  /\ WriteBooking(w, Head(batch[w]), "EXPIRED", "version")
  /\ UNCHANGED <<Tables, req, batch, now>>

ExpireClaims(w) ==
  LET b == Head(batch[w]) IN
  /\ Expiring(w, "none")
  /\ bookings[b].status = "RESERVED"
  /\ B!Overdue(b)
  /\ WriteBooking(w, b, "EXPIRED", "version")
  /\ UNCHANGED <<Tables, req, batch, now>>

\* A SELECT, which waits for nobody.
ExpireReadsVersion(w) ==
  /\ Expiring(w, "version")
  /\ tx' = [tx EXCEPT ![w] =
       [at |-> "slot", slots |-> @.slots, bookings |-> @.bookings,
        version |-> slots[bookings[Head(batch[w])].slotId].version]]
  /\ UNCHANGED <<Tables, req, batch, now>>

\* adjustSlotReserved with the version just read, the INSERTs, and the start of the
\* webhook dispatch and of the invalidation.
ExpireReleases(w) ==
  LET booking == bookings[Head(batch[w])]
      row == slots[booking.slotId] IN
  /\ Expiring(w, "slot")
  /\ TenantOf[booking.slotId] = booking.tenantId
  /\ row.version = tx[w].version
  /\ row.reserved >= booking.partySize
  /\ WriteSlot(w, booking.slotId,
       [reserved |-> row.reserved - booking.partySize, version |-> row.version + 1], "commit")
  /\ UNCHANGED <<Tables, req, batch, now>>

ExpireCommits(w) ==
  /\ Expiring(w, "commit")
  /\ Commit(w, Head(batch[w]), "RESERVED", "EXPIRED", Null)
  /\ batch' = [batch EXCEPT ![w] = Tail(@)]
  /\ UNCHANGED <<req, now>>

\* Nothing claimed, or the transaction fails: ROLLBACK, and the loop goes on.
ExpireFails(w) ==
  /\ batch[w] # << >>
  /\ batch' = [batch EXCEPT ![w] = Tail(@)]
  /\ tx' = [tx EXCEPT ![w] = NoTx]
  /\ UNCHANGED <<Tables, req, now>>

WorkerDies(w) ==
  /\ batch[w] # << >>
  /\ batch' = [batch EXCEPT ![w] = << >>]
  /\ tx' = [tx EXCEPT ![w] = NoTx]
  /\ UNCHANGED <<Tables, req, now>>

Tick ==
  /\ now < MaxTime
  /\ now' = now + 1
  /\ UNCHANGED <<Tables, req, batch, tx>>

(***************************************************************************)
(* Deadlocks.  PostgreSQL rolls one transaction of a cycle of waits back.  *)
(***************************************************************************)
NeedsSlot(a, s) ==
  \/ /\ a \in Requests
     /\ \/ At(a, "create", "none") /\ s = req[a].slot
        \/ At(a, "cancel", "none") /\ s = bookings[req[a].id].slotId
  \/ a \in Workers /\ Expiring(a, "slot") /\ s = bookings[Head(batch[a])].slotId

NeedsBooking(a, b) ==
  \/ /\ a \in Requests
     /\ At(a, "confirm", "none") \/ At(a, "cancel", "booking")
     /\ b = req[a].id
  \/ a \in Workers /\ Expiring(a, "none") /\ b = Head(batch[a])

Waits(a, c) ==
  /\ a # c
  /\ \/ \E s \in DOMAIN tx[c].slots : NeedsSlot(a, s)
     \/ \E b \in DOMAIN tx[c].bookings : NeedsBooking(a, b)

\* Nobody in D can go on before somebody else in D does.
Deadlocked(D) == D # {} /\ \A a \in D : \E c \in D : Waits(a, c)

NoVictim(a) == FALSE

\* a is in a cycle of waits.
Victim(a) ==
  \E D \in SUBSET Actors :
     /\ a \in D
     /\ Deadlocked(D)
     /\ \A E \in SUBSET D : E # D => ~ Deadlocked(E)

BreakDeadlock ==
  \/ \E r \in Requests : Victim(r) /\ HandlerFails(r)
  \/ \E w \in Workers : Victim(w) /\ ExpireFails(w)

Handler(r) ==
  \/ \E u \in Users :
       \/ \E s \in Slots, n \in PartySizes : CreateRead(r, u, s, n)
       \/ \E b \in BookingIds : ConfirmRead(r, u, b)
       \/ \E b \in BookingIds : CancelReadBooking(r, u, b)
  \/ CancelReadSlot(r)
  \/ CreateReserves(r)
  \/ CreateCommits(r)
  \/ ConfirmUpdates(r)
  \/ CancelReleases(r)
  \/ CancelUpdates(r)
  \/ HandlerCommits(r)
  \/ Announce(r)
  \/ HandlerFails(r)

Expiry(w) ==
  \/ PollStale(w)
  \/ ExpireClaims(w)
  \/ ExpireReadsVersion(w)
  \/ ExpireReleases(w)
  \/ ExpireCommits(w)
  \/ ExpireFails(w)
  \/ WorkerDies(w)

Next ==
  \/ \E r \in Requests : Handler(r)
  \/ \E w \in Workers : Expiry(w)
  \/ Tick

\* The UPDATE of the slot matches no row: its version has moved, or too few seats.
Conflict(w) ==
  LET booking == bookings[Head(batch[w])]
      row == slots[booking.slotId] IN
  /\ Expiring(w, "slot")
  /\ row.version # tx[w].version \/ row.reserved < booking.partySize

(***************************************************************************)
(* Fairness.  The database runs the statements of an open transaction, and *)
(* breaks deadlocks; a waiting UPDATE gets its row in the end, because the *)
(* waiters of a row lock are queued.  Nothing is assumed of transactions   *)
(* that have not begun.                                                    *)
(***************************************************************************)
Fairness ==
  /\ \A r \in Requests :
       /\ WF_vars(At(r, "create", "insert") /\ (CreateCommits(r) \/ HandlerFails(r)))
       /\ SF_vars(CancelUpdates(r))
       /\ WF_vars(HandlerCommits(r))
  /\ \A w \in Workers :
       /\ WF_vars(ExpireReadsVersion(w))
       /\ SF_vars(ExpireReleases(w))
       /\ WF_vars(Conflict(w) /\ ExpireFails(w))
       /\ WF_vars(ExpireCommits(w))
  /\ WF_vars(BreakDeadlock)

SafetySpec == Init /\ [][Next]_vars

Spec == SafetySpec /\ Fairness

(***************************************************************************)
(* Properties.                                                             *)
(***************************************************************************)
\* Handlers, batches and open transactions keep their shape.
TypeOK ==
  /\ B!TypeOK
  /\ batch \in [Workers -> Seq(BookingIds)]
  /\ DOMAIN tx = Actors
  /\ \A a \in Actors :
       LET t == tx[a] IN
       /\ t = [at |-> t.at, slots |-> t.slots, bookings |-> t.bookings, version |-> t.version]
       /\ t.at \in Stages /\ t.version \in Nat
       /\ DOMAIN t.slots \subseteq Slots /\ t.slots \in [DOMAIN t.slots -> B!SlotRow]
       /\ DOMAIN t.bookings \subseteq DOMAIN bookings
       /\ t.bookings \in [DOMAIN t.bookings -> B!BookingRow]

\* Transactions that interleave statement by statement, wait for each other and are
\* rolled back do nothing that whole transactions, one at a time, could not do: what
\* was checked of Booking holds of them.
ImplementsBooking == B!SafetySpec

\* A cancel locks the slot and then the booking, an expiry the booking and then the slot.
\* Transactions of the booking service can wait in a circle only in this way, over one
\* booking that is an overdue hold: no reservation, no confirm and no cancel of anything
\* else is ever the victim of a deadlock.
DeadlocksAreOverdueHolds ==
  \A D \in SUBSET Actors : Deadlocked(D) =>
     \E r \in D \cap Requests, w \in D \cap Workers :
        /\ At(r, "cancel", "booking") /\ Expiring(w, "slot")
        /\ req[r].id = Head(batch[w])
        /\ req[r].id \in B!Stale

\* No transaction stays open for ever: each commits or is rolled back, deadlocks included.
TransactionsEnd == \A a \in Actors : (tx[a].at # "none") ~> (tx[a].at = "none")

=============================================================================
