-------------------------- MODULE BookingTxProofs --------------------------
(***************************************************************************)
(* BookingTx implements Booking.  What is proved of Booking is used here   *)
(* through P, the same instance with its proofs: the tables keep their     *)
(* types because every step of BookingTx is a step of Booking.             *)
(***************************************************************************)
EXTENDS BookingTx, TLAPS

P == INSTANCE BookingProofs WITH worker <- WorkersNow

(***************************************************************************)
(* The inductive invariant: what a transaction wrote so far is what the    *)
(* one-step transaction of Booking writes, computed from rows that are     *)
(* still as they were.                                                     *)
(***************************************************************************)
Tx(stage, s, b, v) == [at |-> stage, slots |-> s, bookings |-> b, version |-> v]

Reserving(s, n) == [reserved |-> slots[s].reserved + n, version |-> slots[s].version + 1]

Releasing(s, n) == [reserved |-> slots[s].reserved - n, version |-> slots[s].version + 1]

Becoming(b, status) == [bookings[b] EXCEPT !.status = status, !.reservedUntil = Null]

HandlerTx(r) ==
  LET q == req[r]
      s == bookings[q.id].slotId
      n == bookings[q.id].partySize IN
  \/ tx[r] = NoTx
  \/ /\ q.pc = "create"
     /\ tx[r] = Tx("insert", Row(q.slot, Reserving(q.slot, q.party)), NoRows, 0)
     /\ B!CanReserve(q.slot, TenantOf[q.user], q.party, q.version)
  \/ /\ q.pc = "cancel"
     /\ \/ tx[r] = Tx("booking", Row(s, Releasing(s, n)), NoRows, 0)
        \/ tx[r] = Tx("commit", Row(s, Releasing(s, n)), Row(q.id, Becoming(q.id, "CANCELLED")), 0)
     /\ B!CanRelease(s, TenantOf[q.user], n, q.version)
  \/ /\ q.pc = "confirm"
     /\ tx[r] = Tx("commit", NoRows, Row(q.id, Becoming(q.id, "CONFIRMED")), 0)

WorkerTx(w) ==
  LET b == Head(batch[w])
      s == bookings[b].slotId
      n == bookings[b].partySize
      v == tx[w].version IN
  \/ tx[w] = NoTx
  \/ /\ batch[w] # << >>
     /\ bookings[b].status = "RESERVED"
     /\ B!Overdue(b)
     /\ v \in Nat
     /\ \/ \E stage \in {"version", "slot"} :
             tx[w] = Tx(stage, NoRows, Row(b, Becoming(b, "EXPIRED")), v)
        \/ /\ tx[w] = Tx("commit", Row(s, Releasing(s, n)), Row(b, Becoming(b, "EXPIRED")), v)
           /\ TenantOf[s] = bookings[b].tenantId
           /\ slots[s].reserved >= n

\* No row is locked twice.
RowsApart ==
  \A a, c \in Actors : a # c =>
     /\ DOMAIN tx[a].slots \cap DOMAIN tx[c].slots = {}
     /\ DOMAIN tx[a].bookings \cap DOMAIN tx[c].bookings = {}

Shape ==
  /\ tx = [a \in Actors |-> tx[a]]
  /\ batch = [w \in Workers |-> batch[w]]

Kept ==
  /\ Shape
  /\ \A r \in Requests : HandlerTx(r)
  /\ \A w \in Workers : WorkerTx(w)
  /\ RowsApart

TxInv == P!IInv /\ Kept

(***************************************************************************)
(* Tables and instances.                                                   *)
(***************************************************************************)
LEMMA Constants ==
  /\ TenantOf \in [Users \cup Slots -> Tenants]
  /\ Capacity \in [Slots -> Nat]
  /\ PartySizes \subseteq Nat \ {0}
  /\ ReserveTtl \in Nat
  /\ BatchSize \in Nat \ {0}
  /\ Null \notin Nat
  /\ Requests \cap Workers = {}
  BY BookingAssumptions, ActorsAssumption DEF B!ConstantsAssumption, B!NullAssumption

LEMMA Types ==
  ASSUME P!IInv
  PROVE  /\ slots \in [Slots -> [reserved : Nat, version : Nat]]
         /\ bookings \in [DOMAIN bookings -> B!BookingRow]
         /\ DOMAIN bookings \subseteq BookingIds
         /\ DOMAIN history = DOMAIN bookings /\ history = [b \in DOMAIN bookings |-> history[b]]
         /\ DOMAIN audit = DOMAIN bookings /\ audit = [b \in DOMAIN bookings |-> audit[b]]
         /\ req \in [Requests -> B!Request]
         /\ \A r \in Requests : req[r].pc \in {"confirm", "cancel"} => req[r].id \in DOMAIN bookings
         /\ \A w \in Workers : /\ batch[w] \in Seq(BookingIds)
                               /\ \A i \in DOMAIN batch[w] : batch[w][i] \in DOMAIN bookings
         /\ now \in Nat
  BY DEF P!IInv, P!TypeOK, P!SlotRow, P!BookingRow, B!BookingRow, P!Status, B!Status, P!Request,
         B!Request, P!Events, B!Events, WorkersNow, P!WorkerState

LEMMA TypesStep ==
  ASSUME P!IInv, B!Next \/ UNCHANGED B!vars
  PROVE  P!IInv'
  <1>1. P!Next \/ UNCHANGED P!vars
    BY DEF B!Next, P!Next, B!vars, P!vars, B!CreateCommit, P!CreateCommit, B!LockedSlots, P!LockedSlots,
         B!LockedBookings, P!LockedBookings, B!Committing, P!Committing, B!CanReserve, P!CanReserve,
         B!InTenant, P!InTenant, B!ReserveSeats, P!ReserveSeats, B!Insert, P!Insert, B!Goto, P!Goto,
         B!Handler, P!Handler, B!Expiry, P!Expiry, B!CreateRead, P!CreateRead, B!ConfirmRead,
         P!ConfirmRead, B!CancelReadBooking, P!CancelReadBooking, B!CancelReadSlot, P!CancelReadSlot,
         B!CancelCommit, P!CancelCommit, B!ConfirmCommit, P!ConfirmCommit, B!Announce, P!Announce,
         B!Abort, P!Abort, B!PollStale, P!PollStale, B!ExpireBody, P!ExpireBody, B!ExpireCommit,
         P!ExpireCommit, B!ExpireSkip, P!ExpireSkip, B!ExpiryCrash, P!ExpiryCrash, B!Tick, P!Tick,
         B!FindOwned, P!FindOwned, B!assertTransition, P!assertTransition, B!ALLOWED_TRANSITIONS,
         P!ALLOWED_TRANSITIONS, B!HoldExpired, P!HoldExpired, B!Overdue, P!Overdue, B!isCancellable, P!isCancellable,
         B!CanRelease, P!CanRelease, B!ReleaseSeats, P!ReleaseSeats, B!SetStatus, P!SetStatus,
         B!appendStatusHistory, P!appendStatusHistory, B!logAudit, P!logAudit, B!Stale, P!Stale,
         B!IsOldestFirst, P!IsOldestFirst, B!NextOfBatch, P!NextOfBatch, B!WorkerIdle, P!WorkerIdle,
         B!Claims, P!Claims, B!Idle, P!Idle
  <1> QED
    BY <1>1, P!IInvStep, BookingAssumptions
       DEF B!ConstantsAssumption, B!NullAssumption, P!ConstantsAssumption, P!NullAssumption

\* Rows over a table: none, one that is there, one that is new.
LEMMA OverNone == ASSUME NEW table, table = [k \in DOMAIN table |-> table[k]]
                  PROVE  Over(NoRows, table) = table
  BY DEF Over, NoRows

LEMMA OverRow == ASSUME NEW table, NEW k \in DOMAIN table, NEW row
                 PROVE  Over(Row(k, row), table) = [table EXCEPT ![k] = row]
  BY DEF Over, Row

LEMMA OverNew == ASSUME NEW table, NEW k, NEW row, k \notin DOMAIN table
                 PROVE  Over(Row(k, row), table) = B!Insert(table, k, row)
  BY DEF Over, Row, B!Insert

LEMMA RowDomain == ASSUME NEW k, NEW row PROVE DOMAIN Row(k, row) = {k}
  BY DEF Row

\* A worker's step as a step of its state in Booking.
LEMMA WorkerMoves ==
  ASSUME Shape, NEW w \in Workers, NEW T, NEW q,
         tx' = [tx EXCEPT ![w] = T], batch' = [batch EXCEPT ![w] = q]
  PROVE  WorkersNow' = [WorkersNow EXCEPT ![w] =
            [pc |-> IF q = << >> THEN "idle" ELSE IF T.at = "commit" THEN "commit" ELSE "loop",
             batch |-> q]]
  <1>1. w \in Actors /\ Workers \subseteq Actors
    BY DEF Actors
  <1>2. tx'[w] = T /\ \A v \in Workers \ {w} : tx'[v] = tx[v]
    BY <1>1 DEF Shape
  <1>3. batch'[w] = q /\ \A v \in Workers \ {w} : batch'[v] = batch[v]
    BY DEF Shape
  <1>4. WorkerPc(w)' = IF q = << >> THEN "idle" ELSE IF T.at = "commit" THEN "commit" ELSE "loop"
    BY <1>2, <1>3 DEF WorkerPc
  <1>5. \A v \in Workers \ {w} : WorkerPc(v)' = WorkerPc(v)
    BY <1>2, <1>3 DEF WorkerPc
  <1>6. WorkersNow' = [v \in Workers |-> [pc |-> WorkerPc(v)', batch |-> batch'[v]]]
    BY DEF WorkersNow
  <1> QED BY <1>3, <1>4, <1>5, <1>6 DEF WorkersNow

LEMMA HandlerMoves ==
  ASSUME Shape, NEW r \in Requests, NEW T, tx' = [tx EXCEPT ![r] = T], UNCHANGED batch
  PROVE  WorkersNow' = WorkersNow
  <1>1. \A w \in Workers : tx'[w] = tx[w]
    BY Constants DEF Shape, Actors
  <1> QED BY <1>1 DEF WorkersNow, WorkerPc

(***************************************************************************)
(* What a step of one actor leaves of the others.                          *)
(***************************************************************************)
\* Actor a may write the rows it has locked, and the rest of its own state.
Alone(a) ==
  /\ \A s \in Slots \ DOMAIN tx[a].slots : slots'[s] = slots[s]
  /\ DOMAIN bookings \subseteq DOMAIN bookings'
  /\ \A b \in DOMAIN bookings \ DOMAIN tx[a].bookings : bookings'[b] = bookings[b]
  /\ \A b \in DOMAIN bookings :
       /\ bookings'[b].slotId = bookings[b].slotId
       /\ bookings'[b].partySize = bookings[b].partySize
       /\ bookings'[b].tenantId = bookings[b].tenantId
  /\ \A r \in Requests \ {a} : req'[r] = req[r]
  /\ \A w \in Workers \ {a} : batch'[w] = batch[w]
  /\ now' = now

LEMMA OthersKeep ==
  ASSUME TxInv, NEW a \in Actors, Alone(a),
         \A c \in Actors \ {a} : tx'[c] = tx[c]
  PROVE  /\ \A r \in Requests \ {a} : HandlerTx(r)'
         /\ \A w \in Workers \ {a} : WorkerTx(w)'
  <1>1. ASSUME NEW r \in Requests \ {a} PROVE HandlerTx(r)'
    <2> DEFINE q == req[r]
               s == bookings[q.id].slotId
    <2>1. r \in Actors /\ tx'[r] = tx[r] /\ req'[r] = req[r] /\ HandlerTx(r)
      BY DEF Actors, TxInv, Kept, Alone
    <2>2. /\ DOMAIN tx[r].slots \cap DOMAIN tx[a].slots = {}
          /\ DOMAIN tx[r].bookings \cap DOMAIN tx[a].bookings = {}
      BY <2>1 DEF TxInv, Kept, RowsApart
    <2>3. CASE tx[r] = NoTx
      BY <2>1, <2>3 DEF HandlerTx
    <2>4. CASE q.pc = "create" /\ tx[r] # NoTx
      <3>1. q.slot \in Slots
        BY <2>4, Types DEF TxInv, B!Request
      <3>2. DOMAIN tx[r].slots = {q.slot}
        BY <2>1, <2>4 DEF HandlerTx, Tx, Row
      <3>3. slots'[q.slot] = slots[q.slot]
        BY <2>2, <3>1, <3>2 DEF Alone
      <3> QED BY <2>1, <2>4, <3>3 DEF HandlerTx, Tx, Reserving, B!CanReserve, B!InTenant
    <2>5. CASE q.pc = "cancel" /\ tx[r] # NoTx
      <3>1. q.id \in DOMAIN bookings /\ s \in Slots
        BY <2>5, Types DEF TxInv, B!BookingRow
      <3>2. DOMAIN tx[r].slots = {s}
        BY <2>1, <2>5 DEF HandlerTx, Tx, Row
      <3>3. slots'[s] = slots[s]
        BY <2>2, <3>1, <3>2 DEF Alone
      <3>4. bookings'[q.id].slotId = s /\ bookings'[q.id].partySize = bookings[q.id].partySize
        BY <3>1 DEF Alone
      <3>5. CASE tx[r].at = "booking"
        BY <2>1, <2>5, <3>3, <3>4, <3>5 DEF HandlerTx, Tx, Releasing, B!CanRelease, B!InTenant
      <3>6. CASE tx[r].at = "commit"
        <4>1. DOMAIN tx[r].bookings = {q.id}
          BY <2>1, <2>5, <3>6 DEF HandlerTx, Tx, Row
        <4>2. bookings'[q.id] = bookings[q.id]
          BY <2>2, <3>1, <4>1 DEF Alone
        <4> QED BY <2>1, <2>5, <3>3, <3>6, <4>2
                DEF HandlerTx, Tx, Releasing, Becoming, B!CanRelease, B!InTenant
      <3> QED BY <2>1, <2>5, <3>5, <3>6 DEF HandlerTx, Tx
    <2>6. CASE q.pc = "confirm" /\ tx[r] # NoTx
      <3>1. q.id \in DOMAIN bookings
        BY <2>6, Types DEF TxInv
      <3>2. DOMAIN tx[r].bookings = {q.id}
        BY <2>1, <2>6 DEF HandlerTx, Tx, Row
      <3>3. bookings'[q.id] = bookings[q.id]
        BY <2>2, <3>1, <3>2 DEF Alone
      <3> QED BY <2>1, <2>6, <3>3 DEF HandlerTx, Tx, Becoming
    <2> QED BY <2>1, <2>3, <2>4, <2>5, <2>6 DEF HandlerTx
  <1>2. ASSUME NEW w \in Workers \ {a} PROVE WorkerTx(w)'
    <2> DEFINE b == Head(batch[w])
               s == bookings[b].slotId
    <2>1. w \in Actors /\ tx'[w] = tx[w] /\ batch'[w] = batch[w] /\ WorkerTx(w)
      BY DEF Actors, TxInv, Kept, Alone
    <2>2. /\ DOMAIN tx[w].slots \cap DOMAIN tx[a].slots = {}
          /\ DOMAIN tx[w].bookings \cap DOMAIN tx[a].bookings = {}
      BY <2>1 DEF TxInv, Kept, RowsApart
    <2>3. CASE tx[w] = NoTx
      BY <2>1, <2>3 DEF WorkerTx
    <2>4. CASE tx[w] # NoTx
      <3>1. b \in DOMAIN bookings /\ s \in Slots
        BY <2>1, <2>4, Types DEF TxInv, WorkerTx, B!BookingRow
      <3>2. DOMAIN tx[w].bookings = {b}
        BY <2>1, <2>4 DEF WorkerTx, Tx, Row
      <3>3. bookings'[b] = bookings[b] /\ now' = now
        BY <2>2, <3>1, <3>2 DEF Alone
      <3>4. CASE tx[w].at = "commit"
        <4>1. DOMAIN tx[w].slots = {s}
          BY <2>1, <2>4, <3>4 DEF WorkerTx, Tx, Row
        <4>2. slots'[s] = slots[s]
          BY <2>2, <3>1, <4>1 DEF Alone
        <4> QED BY <2>1, <2>4, <3>3, <3>4, <4>2
                DEF WorkerTx, Tx, Releasing, Becoming, B!Overdue
      <3>5. CASE tx[w].at # "commit"
        BY <2>1, <2>4, <3>3, <3>5 DEF WorkerTx, Tx, Becoming, B!Overdue
      <3> QED BY <3>4, <3>5
    <2> QED BY <2>3, <2>4
  <1> QED BY <1>1, <1>2

LEMMA OwnRowsFree ==
  ASSUME RowsApart, NEW a \in Actors
  PROVE  /\ \A s \in DOMAIN tx[a].slots : SlotFree(a, s)
         /\ \A b \in DOMAIN tx[a].bookings : BookingFree(a, b)
  BY DEF RowsApart, SlotFree, BookingFree

LEMMA KeptStep ==
  ASSUME TxInv, NEW a \in Actors, Alone(a), NEW T,
         tx' = [tx EXCEPT ![a] = T],
         \A s \in DOMAIN T.slots : SlotFree(a, s),
         \A b \in DOMAIN T.bookings : BookingFree(a, b),
         batch' = [w \in Workers |-> batch'[w]],
         a \in Requests => HandlerTx(a)',
         a \in Workers => WorkerTx(a)'
  PROVE  Kept'
  <1>1. tx'[a] = T /\ \A c \in Actors \ {a} : tx'[c] = tx[c]
    BY DEF TxInv, Kept, Shape
  <1>2. Shape'
    BY DEF TxInv, Kept, Shape
  <1>3. RowsApart'
    BY <1>1 DEF TxInv, Kept, RowsApart, SlotFree, BookingFree
  <1>4. /\ \A r \in Requests \ {a} : HandlerTx(r)'
        /\ \A w \in Workers \ {a} : WorkerTx(w)'
    BY <1>1, OthersKeep
  <1> QED BY <1>2, <1>3, <1>4 DEF Kept

\* A statement of an open transaction.
LEMMA Statement ==
  ASSUME TxInv, NEW a \in Actors, NEW T,
         tx' = [tx EXCEPT ![a] = T], UNCHANGED <<Tables, req, batch, now>>,
         \A s \in DOMAIN T.slots : SlotFree(a, s),
         \A b \in DOMAIN T.bookings : BookingFree(a, b),
         a \in Requests => HandlerTx(a)',
         a \in Workers => WorkerTx(a)'
  PROVE  Kept'
  <1>1. Alone(a)
    BY DEF Alone, Tables
  <1>2. batch' = [w \in Workers |-> batch'[w]]
    BY DEF TxInv, Kept, Shape
  <1> QED BY <1>1, <1>2, KeptStep

LEMMA Nothing == /\ NoTx = Tx("none", NoRows, NoRows, 0)
                 /\ DOMAIN NoTx.slots = {} /\ DOMAIN NoTx.bookings = {}
                 /\ NoTx.at = "none"
  BY DEF NoTx, Tx, NoRows

\* What Booking takes for locked is locked by a worker that is about to commit.
LEMMA NotLocked ==
  ASSUME TxInv, NEW a \in Actors, a \notin B!Committing
  PROVE  /\ \A s : SlotFree(a, s) => s \notin B!LockedSlots
         /\ \A b : BookingFree(a, b) => b \notin B!LockedBookings
  <1>1. ASSUME NEW w \in B!Committing
        PROVE  /\ w \in Actors \ {a}
               /\ WorkersNow[w].batch = batch[w]
               /\ Head(batch[w]) \in DOMAIN tx[w].bookings
               /\ bookings[Head(batch[w])].slotId \in DOMAIN tx[w].slots
    <2>1. /\ w \in Workers /\ w \in Actors \ {a}
          /\ tx[w].at = "commit" /\ WorkersNow[w].batch = batch[w]
      BY <1>1 DEF B!Committing, WorkersNow, WorkerPc, Actors
    <2>2. WorkerTx(w) /\ tx[w] # NoTx
      BY <2>1, Nothing DEF TxInv, Kept
    <2>3. /\ DOMAIN tx[w].slots = {bookings[Head(batch[w])].slotId}
          /\ DOMAIN tx[w].bookings = {Head(batch[w])}
      BY <2>1, <2>2 DEF WorkerTx, Tx, Row
    <2> QED BY <2>1, <2>3
  <1> QED BY <1>1 DEF B!LockedSlots, B!LockedBookings, SlotFree, BookingFree

(***************************************************************************)
(* Handlers.                                                               *)
(***************************************************************************)
Simulated == (B!Next \/ UNCHANGED B!vars) /\ Kept'

LEMMA Outside ==
  ASSUME TxInv, NEW r \in Requests, req[r].pc \notin {"create", "confirm", "cancel"},
         NEW state, req' = [req EXCEPT ![r] = state],
         UNCHANGED <<slots, bookings, batch, tx, now>>
  PROVE  Kept'
  <1>1. r \in Actors /\ r \notin Workers
    BY Constants DEF Actors
  <1>2. tx[r] = NoTx /\ tx' = [tx EXCEPT ![r] = NoTx]
    BY <1>1 DEF TxInv, Kept, HandlerTx, Shape
  <1>3. Alone(r)
    BY Types DEF Alone, TxInv
  <1>4. HandlerTx(r)'
    BY <1>2 DEF HandlerTx
  <1>5. batch' = [w \in Workers |-> batch'[w]]
    BY DEF TxInv, Kept, Shape
  <1> QED BY <1>1, <1>2, <1>3, <1>4, <1>5, Nothing, KeptStep

LEMMA OutsideSteps ==
  ASSUME TxInv, NEW r \in Requests,
         \/ \E u \in Users :
              \/ \E s \in Slots, n \in PartySizes : CreateRead(r, u, s, n)
              \/ \E b \in BookingIds : ConfirmRead(r, u, b)
              \/ \E b \in BookingIds : CancelReadBooking(r, u, b)
         \/ CancelReadSlot(r)
         \/ Announce(r)
  PROVE  Simulated
  <1>1. B!Handler(r) /\ UNCHANGED <<batch, tx>>
    BY DEF B!Handler, CreateRead, ConfirmRead, CancelReadBooking, CancelReadSlot, Announce
  <1>2. /\ req[r].pc \notin {"create", "confirm", "cancel"}
        /\ UNCHANGED <<slots, bookings, now>>
        /\ \E state : req' = [req EXCEPT ![r] = state]
    BY DEF CreateRead, ConfirmRead, CancelReadBooking, CancelReadSlot, Announce, B!CreateRead,
           B!ConfirmRead, B!CancelReadBooking, B!CancelReadSlot, B!Announce, B!Goto
  <1> QED BY <1>1, <1>2, Outside DEF Simulated, B!Next

\* The slot row that the UPDATE of a handler writes.
LEMMA CreateReservesSim ==
  ASSUME TxInv, NEW r \in Requests, CreateReserves(r)
  PROVE  Simulated
  <1> DEFINE q == req[r]
             T == Tx("insert", Row(q.slot, Reserving(q.slot, q.party)), NoRows, 0)
  <1>1. r \in Actors /\ r \notin Workers
    BY Constants DEF Actors
  <1>2. tx[r] = Tx("none", NoRows, NoRows, 0)
    <2>1. HandlerTx(r) /\ tx[r].at = "none"
      BY DEF TxInv, Kept, CreateReserves, At
    <2> QED BY <2>1, Nothing DEF HandlerTx, Tx
  <1>3. tx' = [tx EXCEPT ![r] = T]
    <2> HIDE DEF T
    <2>1. tx' = [tx EXCEPT ![r] = Tx("insert", Row(q.slot, Reserving(q.slot, q.party)),
                                     tx[r].bookings, tx[r].version)]
      BY DEF CreateReserves, Reserving, WriteSlot, Tx
    <2>2. tx[r].bookings = NoRows /\ tx[r].version = 0
      BY <1>2 DEF Tx
    <2> QED BY <2>1, <2>2 DEF T
  <1>4. UNCHANGED <<Tables, req, batch, now>> /\ SlotFree(r, q.slot)
    BY DEF CreateReserves, WriteSlot
  <1>5. HandlerTx(r)'
    <2>1. tx'[r] = T
      BY <1>1, <1>3 DEF TxInv, Kept, Shape
    <2>2. B!CanReserve(q.slot, TenantOf[q.user], q.party, q.version) /\ q.pc = "create"
      BY DEF CreateReserves, At, B!CanReserve, B!InTenant
    <2> QED BY <1>4, <2>1, <2>2
            DEF HandlerTx, Tables, Reserving, B!CanReserve, B!InTenant
  <1>6. DOMAIN T.slots = {q.slot} /\ DOMAIN T.bookings = {}
    BY RowDomain, Nothing DEF Tx, NoRows
  <1>7. Kept'
    BY <1>1, <1>3, <1>4, <1>5, <1>6, Statement
  <1>8. UNCHANGED B!vars
    BY <1>3, <1>4, HandlerMoves DEF B!vars, Tables, TxInv, Kept
  <1> QED BY <1>7, <1>8 DEF Simulated

LEMMA CreateCommitsSim ==
  ASSUME TxInv, NEW r \in Requests, CreateCommits(r)
  PROVE  Simulated
  <1> DEFINE q == req[r]
  <1>1. r \in Actors /\ r \notin Workers /\ r \notin B!Committing
    BY Constants DEF Actors, B!Committing
  <1>2. /\ q.pc = "create" /\ q.slot \in Slots
        /\ tx[r].slots = Row(q.slot, Reserving(q.slot, q.party))
        /\ tx[r].bookings = NoRows
        /\ B!CanReserve(q.slot, TenantOf[q.user], q.party, q.version)
    <2>1. HandlerTx(r) /\ tx[r].at = "insert" /\ q.pc = "create"
      BY DEF TxInv, Kept, CreateCommits, At
    <2>2. q.slot \in Slots
      BY <2>1, Types DEF TxInv, B!Request
    <2> QED BY <2>1, <2>2, Nothing DEF HandlerTx, Tx
  <1>3. slots' = [slots EXCEPT ![q.slot] = Reserving(q.slot, q.party)]
    <2>1. slots' = Over(Row(q.slot, Reserving(q.slot, q.party)), slots)
      BY <1>2 DEF CreateCommits
    <2>2. q.slot \in DOMAIN slots
      BY <1>2, Types DEF TxInv
    <2> QED BY <2>1, <2>2, OverRow
  <1>4. B!ReserveSeats(q.slot, q.party)
    BY <1>3 DEF B!ReserveSeats, Reserving
  <1>5. q.slot \notin B!LockedSlots
    <2>1. q.slot \in DOMAIN tx[r].slots
      BY <1>2 DEF Row
    <2> QED BY <1>1, <2>1, OwnRowsFree, NotLocked DEF TxInv, Kept
  <1>6. PICK b \in BookingIds \ DOMAIN bookings :
          /\ bookings' = B!Insert(bookings, b,
               [tenantId |-> TenantOf[q.user], userId |-> q.user, slotId |-> q.slot,
                partySize |-> q.party, status |-> "RESERVED", reservedUntil |-> q.until])
          /\ history' = B!Insert(history, b,
               << [fromStatus |-> Null, toStatus |-> "RESERVED", actorUserId |-> q.user] >>)
          /\ audit' = B!Insert(audit, b, << [event |-> "RESERVED", actorUserId |-> q.user] >>)
          /\ req' = [req EXCEPT ![r] = [pc |-> "enqueue", id |-> b, event |-> "RESERVED"]]
    BY Types, OverNew DEF CreateCommits, TxInv
  <1>7. tx' = [tx EXCEPT ![r] = NoTx] /\ UNCHANGED <<batch, now>>
    BY DEF CreateCommits
  <1>8. WorkersNow' = WorkersNow
    BY <1>7, HandlerMoves DEF TxInv, Kept
  <1>9. B!CreateCommit(r)
    BY <1>2, <1>4, <1>5, <1>6, <1>7, <1>8 DEF B!CreateCommit, B!Goto
  <1>10. Alone(r)
    <2>1. \A s \in Slots \ DOMAIN tx[r].slots : slots'[s] = slots[s]
      <3>1. DOMAIN tx[r].slots = {q.slot}
        BY <1>2 DEF Row
      <3> QED BY <1>3, <3>1, Types DEF TxInv
    <2>2. /\ DOMAIN bookings \subseteq DOMAIN bookings'
          /\ \A c \in DOMAIN bookings : bookings'[c] = bookings[c]
      BY <1>6 DEF B!Insert
    <2>3. \A p \in Requests \ {r} : req'[p] = req[p]
      BY <1>6, Types DEF TxInv
    <2> QED BY <1>7, <2>1, <2>2, <2>3 DEF Alone
  <1>11. HandlerTx(r)'
    BY <1>1, <1>7 DEF HandlerTx, TxInv, Kept, Shape
  <1>12. batch' = [w \in Workers |-> batch'[w]]
    BY <1>7 DEF TxInv, Kept, Shape
  <1>13. Kept'
    BY <1>1, <1>7, <1>10, <1>11, <1>12, Nothing, KeptStep
  <1> QED BY <1>9, <1>13 DEF Simulated, B!Next, B!Handler

LEMMA HandlerFailsSim ==
  ASSUME TxInv, NEW r \in Requests, HandlerFails(r)
  PROVE  Simulated
  <1>1. r \in Actors /\ r \notin Workers
    BY Constants DEF Actors
  <1>2. /\ req[r].pc # "idle" /\ req' = [req EXCEPT ![r] = B!Idle]
        /\ tx' = [tx EXCEPT ![r] = NoTx] /\ UNCHANGED <<Tables, batch, now>>
    BY DEF HandlerFails
  <1>3. B!Abort(r)
    BY <1>2, HandlerMoves DEF B!Abort, B!Goto, Tables, TxInv, Kept
  <1>4. Alone(r)
    BY <1>2, Types DEF Alone, Tables, TxInv
  <1>5. HandlerTx(r)'
    BY <1>1, <1>2 DEF HandlerTx, TxInv, Kept, Shape
  <1>6. batch' = [w \in Workers |-> batch'[w]]
    BY <1>2 DEF TxInv, Kept, Shape
  <1>7. Kept'
    BY <1>1, <1>2, <1>4, <1>5, <1>6, Nothing, KeptStep
  <1> QED BY <1>3, <1>7 DEF Simulated, B!Next, B!Handler

LEMMA ConfirmUpdatesSim ==
  ASSUME TxInv, NEW r \in Requests, ConfirmUpdates(r)
  PROVE  Simulated
  <1> DEFINE q == req[r]
             T == Tx("commit", NoRows, Row(q.id, Becoming(q.id, "CONFIRMED")), 0)
  <1>1. r \in Actors /\ r \notin Workers
    BY Constants DEF Actors
  <1>2. tx[r] = Tx("none", NoRows, NoRows, 0) /\ q.pc = "confirm"
    <2>1. HandlerTx(r) /\ tx[r].at = "none" /\ q.pc = "confirm"
      BY DEF TxInv, Kept, ConfirmUpdates, At
    <2> QED BY <2>1, Nothing DEF HandlerTx, Tx
  <1>3. tx' = [tx EXCEPT ![r] = T]
    <2> HIDE DEF T
    <2>1. tx' = [tx EXCEPT ![r] = Tx("commit", tx[r].slots,
                    Row(q.id, Becoming(q.id, "CONFIRMED")), tx[r].version)]
      BY DEF ConfirmUpdates, Becoming, WriteBooking, Tx
    <2>2. tx[r].slots = NoRows /\ tx[r].version = 0
      BY <1>2 DEF Tx
    <2> QED BY <2>1, <2>2 DEF T
  <1>4. UNCHANGED <<Tables, req, batch, now>> /\ BookingFree(r, q.id)
    BY DEF ConfirmUpdates, WriteBooking
  <1>5. HandlerTx(r)'
    <2>1. tx'[r] = T
      BY <1>1, <1>3 DEF TxInv, Kept, Shape
    <2> QED BY <1>2, <1>4, <2>1 DEF HandlerTx, Tables, Becoming
  <1>6. DOMAIN T.slots = {} /\ DOMAIN T.bookings = {q.id}
    BY RowDomain, Nothing DEF Tx, NoRows
  <1>7. Kept'
    BY <1>1, <1>3, <1>4, <1>5, <1>6, Statement
  <1>8. UNCHANGED B!vars
    BY <1>3, <1>4, HandlerMoves DEF B!vars, Tables, TxInv, Kept
  <1> QED BY <1>7, <1>8 DEF Simulated

LEMMA CancelReleasesSim ==
  ASSUME TxInv, NEW r \in Requests, CancelReleases(r)
  PROVE  Simulated
  <1> DEFINE q == req[r]
             s == bookings[q.id].slotId
             n == bookings[q.id].partySize
             T == Tx("booking", Row(s, Releasing(s, n)), NoRows, 0)
  <1>1. r \in Actors /\ r \notin Workers
    BY Constants DEF Actors
  <1>2. tx[r] = Tx("none", NoRows, NoRows, 0) /\ q.pc = "cancel"
    <2>1. HandlerTx(r) /\ tx[r].at = "none" /\ q.pc = "cancel"
      BY DEF TxInv, Kept, CancelReleases, At
    <2> QED BY <2>1, Nothing DEF HandlerTx, Tx
  <1>3. tx' = [tx EXCEPT ![r] = T]
    <2> HIDE DEF T
    <2>1. tx' = [tx EXCEPT ![r] = Tx("booking", Row(s, Releasing(s, n)),
                    tx[r].bookings, tx[r].version)]
      BY DEF CancelReleases, Releasing, WriteSlot, Tx
    <2>2. tx[r].bookings = NoRows /\ tx[r].version = 0
      BY <1>2 DEF Tx
    <2> QED BY <2>1, <2>2 DEF T
  <1>4. UNCHANGED <<Tables, req, batch, now>> /\ SlotFree(r, s)
    BY DEF CancelReleases, WriteSlot
  <1>5. HandlerTx(r)'
    <2>1. tx'[r] = T
      BY <1>1, <1>3 DEF TxInv, Kept, Shape
    <2>2. B!CanRelease(s, TenantOf[q.user], n, q.version)
      BY DEF CancelReleases, B!CanRelease, B!InTenant
    <2> QED BY <1>2, <1>4, <2>1, <2>2
            DEF HandlerTx, Tables, Releasing, B!CanRelease, B!InTenant
  <1>6. DOMAIN T.slots = {s} /\ DOMAIN T.bookings = {}
    BY RowDomain, Nothing DEF Tx, NoRows
  <1>7. Kept'
    BY <1>1, <1>3, <1>4, <1>5, <1>6, Statement
  <1>8. UNCHANGED B!vars
    BY <1>3, <1>4, HandlerMoves DEF B!vars, Tables, TxInv, Kept
  <1> QED BY <1>7, <1>8 DEF Simulated

LEMMA CancelUpdatesSim ==
  ASSUME TxInv, NEW r \in Requests, CancelUpdates(r)
  PROVE  Simulated
  <1> DEFINE q == req[r]
             s == bookings[q.id].slotId
             n == bookings[q.id].partySize
             T == Tx("commit", Row(s, Releasing(s, n)), Row(q.id, Becoming(q.id, "CANCELLED")), 0)
  <1>1. r \in Actors /\ r \notin Workers
    BY Constants DEF Actors
  <1>2. /\ tx[r] = Tx("booking", Row(s, Releasing(s, n)), NoRows, 0) /\ q.pc = "cancel"
        /\ B!CanRelease(s, TenantOf[q.user], n, q.version)
    <2>1. HandlerTx(r) /\ tx[r].at = "booking" /\ q.pc = "cancel"
      BY DEF TxInv, Kept, CancelUpdates, At
    <2> QED BY <2>1, Nothing DEF HandlerTx, Tx
  <1>3. tx' = [tx EXCEPT ![r] = T]
    <2> HIDE DEF T
    <2>1. tx' = [tx EXCEPT ![r] = Tx("commit", tx[r].slots,
                    Row(q.id, Becoming(q.id, "CANCELLED")), tx[r].version)]
      BY DEF CancelUpdates, Becoming, WriteBooking, Tx
    <2>2. tx[r].slots = Row(s, Releasing(s, n)) /\ tx[r].version = 0
      BY <1>2 DEF Tx
    <2> QED BY <2>1, <2>2 DEF T
  <1>4. UNCHANGED <<Tables, req, batch, now>> /\ BookingFree(r, q.id) /\ SlotFree(r, s)
    <2>1. s \in DOMAIN tx[r].slots
      BY <1>2 DEF Tx, Row
    <2> QED BY <1>1, <2>1, OwnRowsFree DEF CancelUpdates, WriteBooking, TxInv, Kept
  <1>5. HandlerTx(r)'
    <2>1. tx'[r] = T
      BY <1>1, <1>3 DEF TxInv, Kept, Shape
    <2> QED BY <1>2, <1>4, <2>1
            DEF HandlerTx, Tables, Releasing, Becoming, B!CanRelease, B!InTenant
  <1>6. DOMAIN T.slots = {s} /\ DOMAIN T.bookings = {q.id}
    BY RowDomain DEF Tx
  <1>7. Kept'
    BY <1>1, <1>3, <1>4, <1>5, <1>6, Statement
  <1>8. UNCHANGED B!vars
    BY <1>3, <1>4, HandlerMoves DEF B!vars, Tables, TxInv, Kept
  <1> QED BY <1>7, <1>8 DEF Simulated

\* The effects of a COMMIT, as Booking writes them.
LEMMA CommitEffects ==
  ASSUME TxInv, NEW a \in Actors, NEW b \in DOMAIN bookings, NEW to, NEW from, NEW actor,
         Commit(a, b, from, to, actor),
         tx[a].bookings = Row(b, Becoming(b, to))
  PROVE  /\ B!SetStatus(b, to)
         /\ B!appendStatusHistory(b, from, to, actor)
         /\ B!logAudit(b, to, actor)
         /\ tx' = [tx EXCEPT ![a] = NoTx] /\ tx'[a] = NoTx
  <1>1. bookings' = Over(Row(b, Becoming(b, to)), bookings)
    BY DEF Commit
  <1>2. bookings' = [bookings EXCEPT ![b] = Becoming(b, to)]
    BY <1>1, OverRow
  <1>3. B!SetStatus(b, to)
    BY <1>2 DEF B!SetStatus, Becoming
  <1> QED BY <1>3 DEF Commit, B!appendStatusHistory, B!logAudit, TxInv, Kept, Shape

LEMMA CommitAlone ==
  ASSUME TxInv, NEW a \in Actors, NEW b \in DOMAIN bookings, NEW to,
         B!SetStatus(b, to), b \in DOMAIN tx[a].bookings,
         \/ UNCHANGED slots
         \/ \E s \in DOMAIN tx[a].slots : \E row : slots' = [slots EXCEPT ![s] = row],
         \A r \in Requests \ {a} : req'[r] = req[r],
         \A w \in Workers \ {a} : batch'[w] = batch[w],
         UNCHANGED now
  PROVE  Alone(a)
  <1>1. \A s \in Slots \ DOMAIN tx[a].slots : slots'[s] = slots[s]
    BY Types DEF TxInv
  <1>2. DOMAIN bookings' = DOMAIN bookings
    BY DEF B!SetStatus
  <1>3. \A c \in DOMAIN bookings \ DOMAIN tx[a].bookings : bookings'[c] = bookings[c]
    BY DEF B!SetStatus
  <1>4. \A c \in DOMAIN bookings :
          /\ bookings'[c].slotId = bookings[c].slotId
          /\ bookings'[c].partySize = bookings[c].partySize
          /\ bookings'[c].tenantId = bookings[c].tenantId
    BY Types DEF B!SetStatus, TxInv, B!BookingRow
  <1> QED BY <1>1, <1>2, <1>3, <1>4 DEF Alone

LEMMA HandlerCommitsSim ==
  ASSUME TxInv, NEW r \in Requests, HandlerCommits(r)
  PROVE  Simulated
  <1> DEFINE q == req[r]
             s == bookings[q.id].slotId
             n == bookings[q.id].partySize
             to == IF q.pc = "confirm" THEN "CONFIRMED" ELSE "CANCELLED"
  <1>1. r \in Actors /\ r \notin Workers /\ r \notin B!Committing
    BY Constants DEF Actors, B!Committing
  <1>2. /\ HandlerTx(r) /\ tx[r].at = "commit" /\ q.pc \in {"confirm", "cancel"}
        /\ q.id \in DOMAIN bookings /\ tx[r] # NoTx
        /\ Commit(r, q.id, q.from, to, q.user)
        /\ req' = [req EXCEPT ![r] = [pc |-> "enqueue", id |-> q.id, event |-> to]]
        /\ UNCHANGED <<batch, now>>
    BY Types, Nothing DEF HandlerCommits, TxInv, Kept
  <1>3. tx[r].bookings = Row(q.id, Becoming(q.id, to))
    BY <1>2 DEF HandlerTx, Tx
  <1>4. /\ B!SetStatus(q.id, to)
        /\ B!appendStatusHistory(q.id, q.from, to, q.user)
        /\ B!logAudit(q.id, to, q.user)
        /\ tx' = [tx EXCEPT ![r] = NoTx] /\ tx'[r] = NoTx
    BY <1>1, <1>2, <1>3, CommitEffects
  <1>5. q.id \in DOMAIN tx[r].bookings /\ q.id \notin B!LockedBookings
    <2>1. q.id \in DOMAIN tx[r].bookings
      BY <1>3 DEF Row
    <2> QED BY <1>1, <2>1, OwnRowsFree, NotLocked DEF TxInv, Kept
  <1>6. WorkersNow' = WorkersNow
    BY <1>2, <1>4, HandlerMoves DEF TxInv, Kept
  <1>7. ASSUME q.pc = "confirm"
        PROVE  B!ConfirmCommit(r) /\ UNCHANGED slots
    <2>1. tx[r].slots = NoRows
      BY <1>2, <1>7 DEF HandlerTx, Tx
    <2>2. slots' = slots
      BY <1>2, <2>1, OverNone, Types DEF Commit, TxInv
    <2>3. to = "CONFIRMED"
      BY <1>7
    <2> QED BY <1>2, <1>4, <1>5, <1>6, <1>7, <2>2, <2>3 DEF B!ConfirmCommit, B!Goto
  <1>8. ASSUME q.pc = "cancel"
        PROVE  /\ B!CancelCommit(r)
               /\ \E k \in DOMAIN tx[r].slots : \E row : slots' = [slots EXCEPT ![k] = row]
    <2>1. tx[r].slots = Row(s, Releasing(s, n)) /\ B!CanRelease(s, TenantOf[q.user], n, q.version)
      BY <1>2, <1>8 DEF HandlerTx, Tx
    <2>2. s \in DOMAIN slots /\ DOMAIN tx[r].slots = {s}
      BY <1>2, <2>1, Types DEF TxInv, B!BookingRow, Row
    <2>3. slots' = [slots EXCEPT ![s] = Releasing(s, n)]
      <3>1. slots' = Over(Row(s, Releasing(s, n)), slots)
        BY <1>2, <2>1 DEF Commit
      <3> QED BY <2>2, <3>1, OverRow
    <2>4. B!ReleaseSeats(s, n)
      BY <2>3 DEF B!ReleaseSeats, Releasing
    <2>5. s \notin B!LockedSlots
      BY <1>1, <2>2, OwnRowsFree, NotLocked DEF TxInv, Kept
    <2>6. to = "CANCELLED"
      BY <1>8
    <2>7. B!CancelCommit(r)
      BY <1>2, <1>4, <1>5, <1>6, <1>8, <2>1, <2>4, <2>5, <2>6 DEF B!CancelCommit, B!Goto
    <2> QED BY <2>2, <2>3, <2>7
  <1>9. B!Next
    BY <1>2, <1>7, <1>8 DEF B!Next, B!Handler
  <1>10. Alone(r)
    <2>1. \A p \in Requests \ {r} : req'[p] = req[p]
      BY <1>2, Types DEF TxInv
    <2>2. \/ UNCHANGED slots
          \/ \E k \in DOMAIN tx[r].slots : \E row : slots' = [slots EXCEPT ![k] = row]
      BY <1>2, <1>7, <1>8
    <2>3. /\ \A w \in Workers \ {r} : batch'[w] = batch[w]
          /\ UNCHANGED now
          /\ B!SetStatus(q.id, to)
      BY <1>2, <1>4
    <2> QED BY <1>1, <1>2, <1>5, <2>1, <2>2, <2>3, CommitAlone DEF B!SetStatus
  <1>11. HandlerTx(r)'
    BY <1>4 DEF HandlerTx
  <1>12. batch' = [w \in Workers |-> batch'[w]]
    BY <1>2 DEF TxInv, Kept, Shape
  <1>13. Kept'
    BY <1>1, <1>4, <1>10, <1>11, <1>12, Nothing, KeptStep
  <1> QED BY <1>9, <1>13 DEF Simulated

(***************************************************************************)
(* Workers.                                                                *)
(***************************************************************************)
LEMMA PollStaleSim ==
  ASSUME TxInv, NEW w \in Workers, PollStale(w)
  PROVE  Simulated
  <1>1. w \in Actors /\ w \notin Requests
    BY Constants DEF Actors
  <1>2. tx[w] = NoTx /\ WorkersNow[w].pc = "idle"
    BY DEF PollStale, TxInv, Kept, WorkerTx, WorkersNow, WorkerPc
  <1>0. PICK n \in 1..BatchSize : \E q \in [1..n -> B!Stale] :
          B!IsOldestFirst(q) /\ batch' = [batch EXCEPT ![w] = q]
    BY DEF PollStale
  <1>3. PICK q \in [1..n -> B!Stale] :
          B!IsOldestFirst(q) /\ batch' = [batch EXCEPT ![w] = q]
    BY <1>0
  <1>4. q # << >>
    BY <1>3
  <1>5. UNCHANGED <<Tables, req, tx, now>> /\ tx' = [tx EXCEPT ![w] = NoTx]
    BY <1>1, <1>2 DEF PollStale, TxInv, Kept, Shape
  <1>6. WorkersNow' = [WorkersNow EXCEPT ![w] = [pc |-> "loop", batch |-> q]]
    <2>1. Shape /\ NoTx.at # "commit"
      BY Nothing DEF TxInv, Kept
    <2>2. WorkersNow' = [WorkersNow EXCEPT ![w] =
            [pc |-> IF q = << >> THEN "idle" ELSE IF NoTx.at = "commit" THEN "commit" ELSE "loop",
             batch |-> q]]
      BY <1>3, <1>5, <2>1, WorkerMoves
    <2> QED BY <1>4, <2>1, <2>2
  <1>7. B!PollStale(w)
    BY <1>2, <1>3, <1>5, <1>6 DEF B!PollStale, Tables
  <1>8. Alone(w)
    BY <1>3, <1>5 DEF Alone, Tables, TxInv, Kept, Shape
  <1>9. WorkerTx(w)' /\ batch' = [v \in Workers |-> batch'[v]]
    BY <1>1, <1>3, <1>5 DEF WorkerTx, TxInv, Kept, Shape
  <1>10. Kept'
    BY <1>1, <1>5, <1>8, <1>9, Nothing, KeptStep
  <1> QED BY <1>7, <1>10 DEF Simulated, B!Next, B!Expiry

\* A statement of a worker before its transaction announces anything.
LEMMA WorkerStatement ==
  ASSUME TxInv, NEW w \in Workers, batch[w] # << >>, NEW T, tx' = [tx EXCEPT ![w] = T],
         UNCHANGED <<Tables, req, batch, now>>, tx[w].at # "commit"
  PROVE  /\ T.at # "commit" => UNCHANGED B!vars
         /\ WorkersNow[w] = [pc |-> "loop", batch |-> batch[w]]
         /\ T.at = "commit" => WorkersNow' = [WorkersNow EXCEPT ![w].pc = "commit"]
         /\ tx'[w] = T
  <1>1. WorkersNow[w] = [pc |-> "loop", batch |-> batch[w]]
    BY DEF WorkersNow, WorkerPc
  <1>2. Shape /\ batch' = [batch EXCEPT ![w] = batch[w]] /\ w \in Actors
    BY DEF TxInv, Kept, Shape, Actors
  <1>3. WorkersNow' = [WorkersNow EXCEPT ![w] =
            [pc |-> IF T.at = "commit" THEN "commit" ELSE "loop", batch |-> batch[w]]]
    <2>1. WorkersNow' = [WorkersNow EXCEPT ![w] =
            [pc |-> IF batch[w] = << >> THEN "idle"
                    ELSE IF T.at = "commit" THEN "commit" ELSE "loop", batch |-> batch[w]]]
      BY <1>2, WorkerMoves
    <2> QED BY <2>1
  <1>4. T.at # "commit" => WorkersNow' = WorkersNow
    BY <1>1, <1>3 DEF WorkersNow
  <1>5. T.at = "commit" => WorkersNow' = [WorkersNow EXCEPT ![w].pc = "commit"]
    <2>1. [WorkersNow[w] EXCEPT !.pc = "commit"] = [pc |-> "commit", batch |-> batch[w]]
      BY <1>1
    <2>2. [WorkersNow EXCEPT ![w].pc = "commit"]
             = [WorkersNow EXCEPT ![w] = [WorkersNow[w] EXCEPT !.pc = "commit"]]
      OBVIOUS
    <2> QED BY <1>3, <2>1, <2>2
  <1>6. tx'[w] = T
    BY <1>2 DEF Shape
  <1> QED BY <1>1, <1>4, <1>5, <1>6 DEF B!vars, Tables

LEMMA ExpireClaimsSim ==
  ASSUME TxInv, NEW w \in Workers, ExpireClaims(w)
  PROVE  Simulated
  <1> DEFINE b == Head(batch[w])
             T == Tx("version", NoRows, Row(b, Becoming(b, "EXPIRED")), 0)
  <1>1. w \in Actors /\ w \notin Requests
    BY Constants DEF Actors
  <1>2. tx[w] = Tx("none", NoRows, NoRows, 0) /\ batch[w] # << >>
    <2>1. WorkerTx(w) /\ tx[w].at = "none" /\ batch[w] # << >>
      BY DEF TxInv, Kept, ExpireClaims, Expiring
    <2> QED BY <2>1, Nothing DEF WorkerTx, Tx
  <1>3. tx' = [tx EXCEPT ![w] = T]
    <2> HIDE DEF T
    <2>1. tx' = [tx EXCEPT ![w] = Tx("version", tx[w].slots,
                    Row(b, Becoming(b, "EXPIRED")), tx[w].version)]
      BY DEF ExpireClaims, Becoming, WriteBooking, Tx
    <2>2. tx[w].slots = NoRows /\ tx[w].version = 0
      BY <1>2 DEF Tx
    <2> QED BY <2>1, <2>2 DEF T
  <1>4. /\ UNCHANGED <<Tables, req, batch, now>> /\ BookingFree(w, b)
        /\ bookings[b].status = "RESERVED" /\ B!Overdue(b)
    BY DEF ExpireClaims, WriteBooking
  <1>5. UNCHANGED B!vars /\ tx'[w] = T
    <2>1. T.at # "commit" /\ tx[w].at # "commit"
      BY <1>2 DEF Tx
    <2> HIDE DEF T
    <2> QED BY <1>2, <1>3, <1>4, <2>1, WorkerStatement
  <1>6. WorkerTx(w)'
    BY <1>2, <1>4, <1>5 DEF WorkerTx, Tx, Tables, Becoming, B!Overdue
  <1>7. DOMAIN T.slots = {} /\ DOMAIN T.bookings = {b}
    BY RowDomain, Nothing DEF Tx, NoRows
  <1>8. Kept'
    BY <1>1, <1>3, <1>4, <1>6, <1>7, Statement
  <1> QED BY <1>5, <1>8 DEF Simulated

LEMMA ExpireReadsVersionSim ==
  ASSUME TxInv, NEW w \in Workers, ExpireReadsVersion(w)
  PROVE  Simulated
  <1> DEFINE b == Head(batch[w])
             v == slots[bookings[b].slotId].version
             T == Tx("slot", NoRows, Row(b, Becoming(b, "EXPIRED")), v)
  <1>1. w \in Actors /\ w \notin Requests
    BY Constants DEF Actors
  <1>2. /\ tx[w] = Tx("version", NoRows, Row(b, Becoming(b, "EXPIRED")), tx[w].version)
        /\ batch[w] # << >> /\ bookings[b].status = "RESERVED" /\ B!Overdue(b)
    <2>1. WorkerTx(w) /\ tx[w].at = "version" /\ batch[w] # << >>
      BY DEF TxInv, Kept, ExpireReadsVersion, Expiring
    <2> QED BY <2>1, Nothing DEF WorkerTx, Tx
  <1>3. tx' = [tx EXCEPT ![w] = T]
    <2> HIDE DEF T
    <2>1. tx' = [tx EXCEPT ![w] = Tx("slot", tx[w].slots, tx[w].bookings, v)]
      BY DEF ExpireReadsVersion, Tx
    <2>2. tx[w].slots = NoRows /\ tx[w].bookings = Row(b, Becoming(b, "EXPIRED"))
      BY <1>2 DEF Tx
    <2> QED BY <2>1, <2>2 DEF T
  <1>4. UNCHANGED <<Tables, req, batch, now>> /\ BookingFree(w, b)
    <2>1. b \in DOMAIN tx[w].bookings
      BY <1>2 DEF Tx, Row
    <2> QED BY <1>1, <2>1, OwnRowsFree DEF ExpireReadsVersion, TxInv, Kept
  <1>5. UNCHANGED B!vars /\ tx'[w] = T
    <2>1. T.at # "commit" /\ tx[w].at # "commit"
      BY <1>2 DEF Tx
    <2> HIDE DEF T
    <2> QED BY <1>2, <1>3, <1>4, <2>1, WorkerStatement
  <1>6. WorkerTx(w)'
    <2>1. v \in Nat
      BY <1>2, Types DEF TxInv, B!BookingRow
    <2> QED BY <1>2, <1>4, <1>5, <2>1 DEF WorkerTx, Tx, Tables, Becoming, B!Overdue
  <1>7. DOMAIN T.slots = {} /\ DOMAIN T.bookings = {b}
    BY RowDomain, Nothing DEF Tx, NoRows
  <1>8. Kept'
    BY <1>1, <1>3, <1>4, <1>6, <1>7, Statement
  <1> QED BY <1>5, <1>8 DEF Simulated

LEMMA ExpireReleasesSim ==
  ASSUME TxInv, NEW w \in Workers, ExpireReleases(w)
  PROVE  Simulated
  <1> DEFINE b == Head(batch[w])
             s == bookings[b].slotId
             n == bookings[b].partySize
             T == Tx("commit", Row(s, Releasing(s, n)), Row(b, Becoming(b, "EXPIRED")), tx[w].version)
  <1>1. w \in Actors /\ w \notin Requests
    BY Constants DEF Actors
  <1>2. /\ tx[w] = Tx("slot", NoRows, Row(b, Becoming(b, "EXPIRED")), tx[w].version)
        /\ batch[w] # << >> /\ bookings[b].status = "RESERVED" /\ B!Overdue(b)
        /\ tx[w].version \in Nat
    <2>1. WorkerTx(w) /\ tx[w].at = "slot" /\ batch[w] # << >>
      BY DEF TxInv, Kept, ExpireReleases, Expiring
    <2> QED BY <2>1, Nothing DEF WorkerTx, Tx
  <1>3. tx' = [tx EXCEPT ![w] = T]
    <2> HIDE DEF T
    <2>1. tx' = [tx EXCEPT ![w] = Tx("commit", Row(s, Releasing(s, n)), tx[w].bookings, tx[w].version)]
      BY DEF ExpireReleases, Releasing, WriteSlot, Tx
    <2>2. tx[w].bookings = Row(b, Becoming(b, "EXPIRED"))
      BY <1>2 DEF Tx
    <2> QED BY <2>1, <2>2 DEF T
  <1>4. /\ UNCHANGED <<Tables, req, batch, now>> /\ BookingFree(w, b) /\ SlotFree(w, s)
        /\ TenantOf[s] = bookings[b].tenantId /\ slots[s].reserved >= n
    <2>1. b \in DOMAIN tx[w].bookings
      BY <1>2 DEF Tx, Row
    <2> QED BY <1>1, <2>1, OwnRowsFree DEF ExpireReleases, WriteSlot, TxInv, Kept
  <1>5. /\ WorkersNow[w] = [pc |-> "loop", batch |-> batch[w]]
        /\ WorkersNow' = [WorkersNow EXCEPT ![w].pc = "commit"]
        /\ tx'[w] = T
    <2>1. T.at = "commit" /\ tx[w].at # "commit"
      BY <1>2 DEF Tx
    <2> HIDE DEF T
    <2> QED BY <1>2, <1>3, <1>4, <2>1, WorkerStatement
  <1>6. w \notin B!Committing
    BY <1>5 DEF B!Committing
  <1>7. B!ExpireBody(w)
    <2>1. b \notin B!LockedBookings /\ s \notin B!LockedSlots
      BY <1>1, <1>4, <1>6, NotLocked
    <2> QED BY <1>2, <1>4, <1>5, <2>1
            DEF B!ExpireBody, B!Claims, B!CanRelease, B!InTenant, Tables
  <1>8. WorkerTx(w)'
    <2>1. tx'[w] = Tx("commit", Row(s, Releasing(s, n)), Row(b, Becoming(b, "EXPIRED")),
                      tx'[w].version) /\ tx'[w].version \in Nat
      BY <1>2, <1>5 DEF Tx
    <2>2. Releasing(s, n)' = Releasing(s, n) /\ Becoming(b, "EXPIRED")' = Becoming(b, "EXPIRED")
          /\ B!Overdue(b)'
      BY <1>2, <1>4 DEF Tables, Becoming, Releasing, B!Overdue
    <2> QED BY <1>2, <1>4, <2>1, <2>2 DEF WorkerTx, Tables
  <1>9. DOMAIN T.slots = {s} /\ DOMAIN T.bookings = {b}
    BY RowDomain DEF Tx
  <1>10. Kept'
    BY <1>1, <1>3, <1>4, <1>8, <1>9, Statement
  <1> QED BY <1>7, <1>10 DEF Simulated, B!Next, B!Expiry

\* A worker that leaves its transaction, and goes on with rest.
LEMMA WorkerLeaves ==
  ASSUME TxInv, NEW w \in Workers, batch[w] # << >>, NEW rest,
         batch' = [batch EXCEPT ![w] = rest], tx' = [tx EXCEPT ![w] = NoTx], Alone(w)
  PROVE  /\ WorkersNow[w].batch = batch[w] /\ WorkersNow[w].pc # "idle"
         /\ WorkersNow[w].pc = IF tx[w].at = "commit" THEN "commit" ELSE "loop"
         /\ WorkersNow' = [WorkersNow EXCEPT ![w] =
               IF rest = << >> THEN B!WorkerIdle ELSE [pc |-> "loop", batch |-> rest]]
         /\ Kept'
  <1>1. w \in Actors /\ w \notin Requests
    BY Constants DEF Actors
  <1>2. /\ WorkersNow[w].batch = batch[w] /\ WorkersNow[w].pc # "idle"
        /\ WorkersNow[w].pc = IF tx[w].at = "commit" THEN "commit" ELSE "loop"
    BY DEF WorkersNow, WorkerPc
  <1>3. WorkersNow' = [WorkersNow EXCEPT ![w] =
               IF rest = << >> THEN B!WorkerIdle ELSE [pc |-> "loop", batch |-> rest]]
    <2>1. Shape /\ NoTx.at # "commit"
      BY Nothing DEF TxInv, Kept
    <2>2. WorkersNow' = [WorkersNow EXCEPT ![w] =
            [pc |-> IF rest = << >> THEN "idle" ELSE IF NoTx.at = "commit" THEN "commit" ELSE "loop",
             batch |-> rest]]
      BY <2>1, WorkerMoves
    <2>3. CASE rest = << >>
      BY <2>2, <2>3 DEF B!WorkerIdle
    <2>4. CASE rest # << >>
      BY <2>1, <2>2, <2>4
    <2> QED BY <2>3, <2>4
  <1>4. WorkerTx(w)' /\ batch' = [v \in Workers |-> batch'[v]]
    BY <1>1 DEF WorkerTx, TxInv, Kept, Shape
  <1>5. Kept'
    BY <1>1, <1>4, Nothing, KeptStep
  <1> QED BY <1>2, <1>3, <1>5

LEMMA ExpireFailsSim ==
  ASSUME TxInv, NEW w \in Workers, ExpireFails(w)
  PROVE  Simulated
  <1>1. /\ batch[w] # << >> /\ batch' = [batch EXCEPT ![w] = Tail(batch[w])]
        /\ tx' = [tx EXCEPT ![w] = NoTx] /\ UNCHANGED <<Tables, req, now>>
    BY DEF ExpireFails
  <1>2. Alone(w)
    BY <1>1 DEF Alone, Tables, TxInv, Kept, Shape
  <1>3. /\ WorkersNow[w].batch = batch[w]
        /\ WorkersNow[w].pc = IF tx[w].at = "commit" THEN "commit" ELSE "loop"
        /\ WorkersNow' = [WorkersNow EXCEPT ![w] =
              IF Tail(batch[w]) = << >> THEN B!WorkerIdle
              ELSE [pc |-> "loop", batch |-> Tail(batch[w])]]
        /\ Kept'
    BY <1>1, <1>2, WorkerLeaves
  <1>4. B!ExpireSkip(w)
    BY <1>1, <1>3 DEF B!ExpireSkip, B!NextOfBatch, Tables
  <1> QED BY <1>3, <1>4 DEF Simulated, B!Next, B!Expiry

LEMMA WorkerDiesSim ==
  ASSUME TxInv, NEW w \in Workers, WorkerDies(w)
  PROVE  Simulated
  <1>1. /\ batch[w] # << >> /\ batch' = [batch EXCEPT ![w] = << >>]
        /\ tx' = [tx EXCEPT ![w] = NoTx] /\ UNCHANGED <<Tables, req, now>>
    BY DEF WorkerDies
  <1>2. Alone(w)
    BY <1>1 DEF Alone, Tables, TxInv, Kept, Shape
  <1>3. /\ WorkersNow[w].pc # "idle"
        /\ WorkersNow' = [WorkersNow EXCEPT ![w] = B!WorkerIdle]
        /\ Kept'
    BY <1>1, <1>2, WorkerLeaves
  <1>4. B!ExpiryCrash(w)
    BY <1>1, <1>3 DEF B!ExpiryCrash, Tables
  <1> QED BY <1>3, <1>4 DEF Simulated, B!Next, B!Expiry

LEMMA ExpireCommitsSim ==
  ASSUME TxInv, NEW w \in Workers, ExpireCommits(w)
  PROVE  Simulated
  <1> DEFINE b == Head(batch[w])
             s == bookings[b].slotId
             n == bookings[b].partySize
  <1>1. w \in Actors /\ w \notin Requests
    BY Constants DEF Actors
  <1>2. /\ WorkerTx(w) /\ tx[w].at = "commit" /\ batch[w] # << >> /\ tx[w] # NoTx
        /\ Commit(w, b, "RESERVED", "EXPIRED", Null)
        /\ batch' = [batch EXCEPT ![w] = Tail(batch[w])]
        /\ UNCHANGED <<req, now>>
    BY Nothing DEF ExpireCommits, Expiring, TxInv, Kept
  <1>3. /\ tx[w].slots = Row(s, Releasing(s, n))
        /\ tx[w].bookings = Row(b, Becoming(b, "EXPIRED"))
    BY <1>2 DEF WorkerTx, Tx
  <1>4. b \in DOMAIN bookings /\ s \in DOMAIN slots
    BY <1>2, Types DEF TxInv, B!BookingRow
  <1>5. DOMAIN tx[w].slots = {s} /\ DOMAIN tx[w].bookings = {b}
    BY <1>3 DEF Row
  <1>6. slots' = [slots EXCEPT ![s] = Releasing(s, n)]
    <2>1. slots' = Over(Row(s, Releasing(s, n)), slots)
      BY <1>2, <1>3 DEF Commit
    <2> QED BY <1>4, <2>1, OverRow
  <1>7. B!ReleaseSeats(s, n)
    BY <1>6 DEF B!ReleaseSeats, Releasing
  <1>8. /\ B!SetStatus(b, "EXPIRED")
        /\ B!appendStatusHistory(b, "RESERVED", "EXPIRED", Null)
        /\ B!logAudit(b, "EXPIRED", Null)
        /\ tx' = [tx EXCEPT ![w] = NoTx]
    BY <1>1, <1>2, <1>3, <1>4, CommitEffects
  <1>9. Alone(w)
    <2>1. \A v \in Workers \ {w} : batch'[v] = batch[v]
      BY <1>2 DEF TxInv, Kept, Shape
    <2>2. \E k \in DOMAIN tx[w].slots : \E row : slots' = [slots EXCEPT ![k] = row]
      BY <1>5, <1>6
    <2> QED BY <1>1, <1>2, <1>4, <1>5, <1>8, <2>1, <2>2, CommitAlone DEF B!SetStatus
  <1>10. /\ WorkersNow[w].batch = batch[w] /\ WorkersNow[w].pc = "commit"
         /\ WorkersNow' = [WorkersNow EXCEPT ![w] =
              IF Tail(batch[w]) = << >> THEN B!WorkerIdle
              ELSE [pc |-> "loop", batch |-> Tail(batch[w])]]
         /\ Kept'
    BY <1>2, <1>8, <1>9, WorkerLeaves
  <1>11. B!ExpireCommit(w)
    BY <1>2, <1>7, <1>8, <1>10 DEF B!ExpireCommit, B!NextOfBatch
  <1> QED BY <1>10, <1>11 DEF Simulated, B!Next, B!Expiry

LEMMA TickSim ==
  ASSUME TxInv, Tick
  PROVE  Simulated
  <1>1. /\ now' = now + 1 /\ now \in Nat /\ now < MaxTime
        /\ UNCHANGED <<slots, bookings, history, audit, req, batch, tx>>
    BY Types DEF Tick, Tables, TxInv
  <1>2. B!Tick
    BY <1>1 DEF B!Tick, WorkersNow, WorkerPc
  <1>3. \A r \in Requests : HandlerTx(r)'
    <2> SUFFICES ASSUME NEW r \in Requests PROVE HandlerTx(r)'
      OBVIOUS
    <2>1. HandlerTx(r) /\ req' = req /\ tx' = tx /\ bookings' = bookings /\ slots' = slots
      BY <1>1 DEF TxInv, Kept
    <2> QED BY <2>1 DEF HandlerTx, Reserving, Releasing, Becoming, B!CanReserve, B!CanRelease,
                        B!InTenant
  <1>4. ASSUME NEW w \in Workers PROVE WorkerTx(w)'
    <2>1. CASE tx[w] = NoTx
      BY <1>1, <2>1 DEF WorkerTx
    <2>2. CASE tx[w] # NoTx
      <3>1. WorkerTx(w)
        BY DEF TxInv, Kept
      <3>2. B!Overdue(Head(batch[w])) /\ Head(batch[w]) \in DOMAIN bookings
        BY <2>2, <3>1, Types DEF TxInv, WorkerTx
      <3>3. bookings[Head(batch[w])].reservedUntil \in Nat
        BY <3>2, Types DEF TxInv, B!BookingRow, B!Overdue
      <3>4. B!Overdue(Head(batch[w]))'
        BY <1>1, <3>2, <3>3 DEF B!Overdue
      <3> QED BY <1>1, <2>2, <3>1, <3>4 DEF WorkerTx, Releasing, Becoming
    <2> QED BY <2>1, <2>2
  <1>5. Shape' /\ RowsApart'
    BY <1>1 DEF TxInv, Kept, Shape, RowsApart
  <1> QED BY <1>2, <1>3, <1>4, <1>5 DEF Simulated, B!Next, Kept

(***************************************************************************)
(* The refinement.                                                         *)
(***************************************************************************)
LEMMA TxInit == Init => TxInv
  <1> SUFFICES ASSUME Init PROVE TxInv
    OBVIOUS
  <1>1. P!Init
    BY DEF Init, B!Init, P!Init, B!EmptyTable, P!EmptyTable, B!Idle, P!Idle, B!WorkerIdle, P!WorkerIdle
  <1>2. P!IInv
    BY <1>1, P!IInvInit, BookingAssumptions
       DEF B!ConstantsAssumption, B!NullAssumption, P!ConstantsAssumption, P!NullAssumption
  <1>3. /\ Shape
        /\ \A a \in Actors : tx[a] = NoTx
    BY DEF Init, Shape
  <1>4. /\ \A r \in Requests : HandlerTx(r)
        /\ \A w \in Workers : WorkerTx(w)
    BY <1>3 DEF HandlerTx, WorkerTx, Actors
  <1>5. RowsApart
    BY <1>3, Nothing DEF RowsApart
  <1> QED BY <1>2, <1>3, <1>4, <1>5 DEF TxInv, Kept

LEMMA TxStep == TxInv /\ [Next]_vars => TxInv' /\ [B!Next]_(B!vars)
  <1> SUFFICES ASSUME TxInv, [Next]_vars PROVE TxInv' /\ [B!Next]_(B!vars)
    OBVIOUS
  <1>1. CASE \E r \in Requests : Handler(r)
    BY <1>1, OutsideSteps, CreateReservesSim, CreateCommitsSim, ConfirmUpdatesSim, CancelReleasesSim,
       CancelUpdatesSim, HandlerCommitsSim, HandlerFailsSim, TypesStep DEF Handler, Simulated, TxInv
  <1>2. CASE \E w \in Workers : Expiry(w)
    BY <1>2, PollStaleSim, ExpireClaimsSim, ExpireReadsVersionSim, ExpireReleasesSim, ExpireCommitsSim,
       ExpireFailsSim, WorkerDiesSim, TypesStep DEF Expiry, Simulated, TxInv
  <1>3. CASE Tick
    BY <1>3, TickSim, TypesStep DEF Simulated, TxInv
  <1>4. CASE UNCHANGED vars
    <2>1. UNCHANGED B!vars
      BY <1>4 DEF vars, B!vars, WorkersNow, WorkerPc
    <2>2. Kept'
      <3>1. UNCHANGED <<slots, bookings, req, batch, tx, now>>
        BY <1>4 DEF vars
      <3>2. ASSUME NEW r \in Requests PROVE HandlerTx(r)'
        <4>1. HandlerTx(r)
          BY DEF TxInv, Kept
        <4> QED BY <3>1, <4>1 DEF HandlerTx, Reserving, Releasing, Becoming, B!CanReserve,
                                  B!CanRelease, B!InTenant
      <3>3. ASSUME NEW w \in Workers PROVE WorkerTx(w)'
        <4>1. WorkerTx(w)
          BY DEF TxInv, Kept
        <4> QED BY <3>1, <4>1 DEF WorkerTx, Releasing, Becoming, B!Overdue
      <3> QED BY <3>1, <3>2, <3>3 DEF TxInv, Kept, Shape, RowsApart
    <2> QED BY <2>1, <2>2, TypesStep DEF TxInv
  <1> QED BY <1>1, <1>2, <1>3, <1>4 DEF Next

\* Transactions that run statement by statement, wait for row locks and are rolled back
\* as deadlock victims are steps of Booking: each takes effect at its COMMIT, or not at all.
THEOREM TxImplementsBooking == SafetySpec => ImplementsBooking
  <1>1. Init => B!Init
    BY DEF Init
  <1> QED BY <1>1, TxInit, TxStep, PTL DEF SafetySpec, ImplementsBooking, B!SafetySpec

LEMMA TxCorrect == SafetySpec => []TxInv
  BY TxInit, TxStep, PTL DEF SafetySpec

(***************************************************************************)
(* What BookingTx keeps.                                                   *)
(***************************************************************************)
LEMMA RowTypes ==
  ASSUME TxInv
  PROVE  /\ \A b \in DOMAIN bookings, status \in B!Status : Becoming(b, status) \in B!BookingRow
         /\ \A s \in Slots, n \in Nat : Reserving(s, n) \in B!SlotRow
         /\ \A s \in Slots, n \in Nat : slots[s].reserved >= n => Releasing(s, n) \in B!SlotRow
  <1>1. ASSUME NEW b \in DOMAIN bookings, NEW status \in B!Status
        PROVE  Becoming(b, status) \in B!BookingRow
    <2>1. bookings[b] \in B!BookingRow
      BY Types DEF TxInv
    <2>2. \A row \in B!BookingRow :
             [row EXCEPT !.status = status, !.reservedUntil = Null] \in B!BookingRow
      BY DEF B!BookingRow
    <2> QED BY <2>1, <2>2 DEF Becoming
  <1>2. ASSUME NEW s \in Slots, NEW n \in Nat
        PROVE  /\ Reserving(s, n) \in B!SlotRow
               /\ slots[s].reserved >= n => Releasing(s, n) \in B!SlotRow
    BY Types DEF TxInv, Reserving, Releasing, B!SlotRow
  <1> QED BY <1>1, <1>2

\* The open transaction of an actor keeps its shape.
TxTyped(a) ==
  /\ tx[a] = Tx(tx[a].at, tx[a].slots, tx[a].bookings, tx[a].version)
  /\ tx[a].at \in Stages /\ tx[a].version \in Nat
  /\ DOMAIN tx[a].slots \subseteq Slots /\ tx[a].slots \in [DOMAIN tx[a].slots -> B!SlotRow]
  /\ DOMAIN tx[a].bookings \subseteq DOMAIN bookings
  /\ tx[a].bookings \in [DOMAIN tx[a].bookings -> B!BookingRow]

LEMMA EmptyRows ==
  /\ NoRows \in [DOMAIN NoRows -> B!SlotRow] /\ NoRows \in [DOMAIN NoRows -> B!BookingRow]
  /\ DOMAIN NoRows = {}
  BY DEF NoRows

LEMMA HandlerTyped == ASSUME TxInv, NEW r \in Requests PROVE TxTyped(r)
  <1> DEFINE q == req[r]
             s == bookings[q.id].slotId
             n == bookings[q.id].partySize
  <1>1. HandlerTx(r)
    BY DEF TxInv, Kept
  <1>2. CASE tx[r] = NoTx
    BY <1>2, Nothing, EmptyRows DEF TxTyped, NoTx, Stages, Tx
  <1>3. CASE q.pc = "create" /\ tx[r] # NoTx
    <2>1. q.slot \in Slots /\ q.party \in Nat
      BY <1>3, Types, Constants DEF TxInv, B!Request
    <2>2. Reserving(q.slot, q.party) \in B!SlotRow
      BY <2>1, RowTypes
    <2>3. tx[r] = Tx("insert", Row(q.slot, Reserving(q.slot, q.party)), NoRows, 0)
      BY <1>1, <1>3 DEF HandlerTx
    <2>4. /\ DOMAIN tx[r].slots = {q.slot} /\ tx[r].slots \in [{q.slot} -> B!SlotRow]
          /\ tx[r].bookings = NoRows /\ tx[r].at = "insert" /\ tx[r].version = 0
      BY <2>2, <2>3 DEF Row, Tx
    <2>5. tx[r] = Tx(tx[r].at, tx[r].slots, tx[r].bookings, tx[r].version)
      BY <2>3 DEF Tx
    <2>6. /\ DOMAIN tx[r].bookings \subseteq DOMAIN bookings
          /\ tx[r].bookings \in [DOMAIN tx[r].bookings -> B!BookingRow]
      BY <2>1, <2>4, EmptyRows
    <2>7. /\ DOMAIN tx[r].slots \subseteq Slots
          /\ tx[r].slots \in [DOMAIN tx[r].slots -> B!SlotRow]
      BY <2>1, <2>4, EmptyRows
    <2> QED BY <2>4, <2>5, <2>6, <2>7 DEF TxTyped, Stages
  <1>4. CASE q.pc = "cancel" /\ tx[r] # NoTx
    <2>1. q.id \in DOMAIN bookings /\ s \in Slots /\ n \in Nat
      BY <1>4, Types DEF TxInv, B!BookingRow
    <2>2. slots[s].reserved >= n
      BY <1>1, <1>4 DEF HandlerTx, B!CanRelease
    <2>3. Releasing(s, n) \in B!SlotRow /\ Becoming(q.id, "CANCELLED") \in B!BookingRow
      BY <2>1, <2>2, RowTypes DEF B!Status
    <2>4. \/ tx[r] = Tx("booking", Row(s, Releasing(s, n)), NoRows, 0)
          \/ tx[r] = Tx("commit", Row(s, Releasing(s, n)),
                        Row(q.id, Becoming(q.id, "CANCELLED")), 0)
      BY <1>1, <1>4 DEF HandlerTx
    <2>5. /\ DOMAIN tx[r].slots = {s} /\ tx[r].slots \in [{s} -> B!SlotRow]
          /\ tx[r].at \in {"booking", "commit"} /\ tx[r].version = 0
      BY <2>3, <2>4 DEF Row, Tx
    <2>6. \/ tx[r].bookings = NoRows
          \/ DOMAIN tx[r].bookings = {q.id} /\ tx[r].bookings \in [{q.id} -> B!BookingRow]
      BY <2>3, <2>4 DEF Row, Tx
    <2>7. tx[r] = Tx(tx[r].at, tx[r].slots, tx[r].bookings, tx[r].version)
      BY <2>4 DEF Tx
    <2>8. /\ DOMAIN tx[r].bookings \subseteq DOMAIN bookings
          /\ tx[r].bookings \in [DOMAIN tx[r].bookings -> B!BookingRow]
      BY <2>1, <2>6, EmptyRows
    <2>9. /\ DOMAIN tx[r].slots \subseteq Slots
          /\ tx[r].slots \in [DOMAIN tx[r].slots -> B!SlotRow]
      BY <2>1, <2>5
    <2> QED BY <2>5, <2>7, <2>8, <2>9 DEF TxTyped, Stages
  <1>5. CASE q.pc = "confirm" /\ tx[r] # NoTx
    <2>1. q.id \in DOMAIN bookings
      BY <1>5, Types DEF TxInv
    <2>2. Becoming(q.id, "CONFIRMED") \in B!BookingRow
      BY <2>1, RowTypes DEF B!Status
    <2>3. tx[r] = Tx("commit", NoRows, Row(q.id, Becoming(q.id, "CONFIRMED")), 0)
      BY <1>1, <1>5 DEF HandlerTx
    <2>4. /\ DOMAIN tx[r].bookings = {q.id} /\ tx[r].bookings \in [{q.id} -> B!BookingRow]
          /\ tx[r].slots = NoRows /\ tx[r].at = "commit" /\ tx[r].version = 0
      BY <2>2, <2>3 DEF Row, Tx
    <2>5. tx[r] = Tx(tx[r].at, tx[r].slots, tx[r].bookings, tx[r].version)
      BY <2>3 DEF Tx
    <2>6. /\ DOMAIN tx[r].bookings \subseteq DOMAIN bookings
          /\ tx[r].bookings \in [DOMAIN tx[r].bookings -> B!BookingRow]
      BY <2>1, <2>4, EmptyRows
    <2>7. /\ DOMAIN tx[r].slots \subseteq Slots
          /\ tx[r].slots \in [DOMAIN tx[r].slots -> B!SlotRow]
      BY <2>1, <2>4, EmptyRows
    <2> QED BY <2>4, <2>5, <2>6, <2>7 DEF TxTyped, Stages
  <1> QED BY <1>1, <1>2, <1>3, <1>4, <1>5 DEF HandlerTx

LEMMA WorkerTyped == ASSUME TxInv, NEW w \in Workers PROVE TxTyped(w)
  <1> DEFINE b == Head(batch[w])
             s == bookings[b].slotId
             n == bookings[b].partySize
  <1>1. WorkerTx(w)
    BY DEF TxInv, Kept
  <1>2. CASE tx[w] = NoTx
    BY <1>2, Nothing, EmptyRows DEF TxTyped, NoTx, Stages, Tx
  <1>3. CASE tx[w] # NoTx
    <2>1. b \in DOMAIN bookings /\ s \in Slots /\ n \in Nat
      BY <1>1, <1>3, Types DEF TxInv, WorkerTx, B!BookingRow
    <2>2. Becoming(b, "EXPIRED") \in B!BookingRow
      BY <2>1, RowTypes DEF B!Status
    <2>3. /\ tx[w].version \in Nat /\ tx[w].at \in Stages
          /\ tx[w] = Tx(tx[w].at, tx[w].slots, tx[w].bookings, tx[w].version)
          /\ tx[w].bookings = Row(b, Becoming(b, "EXPIRED"))
      BY <1>1, <1>3 DEF WorkerTx, Tx, Stages
    <2>4. DOMAIN tx[w].bookings = {b} /\ tx[w].bookings \in [{b} -> B!BookingRow]
      BY <2>2, <2>3 DEF Row
    <2>5. \/ tx[w].slots = NoRows
          \/ tx[w].slots = Row(s, Releasing(s, n)) /\ slots[s].reserved >= n
      BY <1>1, <1>3 DEF WorkerTx, Tx
    <2>6. CASE tx[w].slots = NoRows
      BY <2>1, <2>3, <2>4, <2>6, EmptyRows DEF TxTyped
    <2>7. CASE tx[w].slots = Row(s, Releasing(s, n)) /\ slots[s].reserved >= n
      <3>1. Releasing(s, n) \in B!SlotRow
        BY <2>1, <2>7, RowTypes
      <3>2. DOMAIN tx[w].slots = {s} /\ tx[w].slots \in [{s} -> B!SlotRow]
        BY <2>7, <3>1 DEF Row
      <3> QED BY <2>1, <2>3, <2>4, <3>2 DEF TxTyped
    <2> QED BY <2>5, <2>6, <2>7
  <1> QED BY <1>2, <1>3

\* Tables, handlers, batches and open transactions keep their shape: no transaction ever
\* holds a row with a negative count, or a row that is not there.
THEOREM TxTypeCorrect == SafetySpec => []TypeOK
  <1>1. TxInv => TypeOK
    <2> SUFFICES ASSUME TxInv PROVE TypeOK
      OBVIOUS
    <2>1. B!TypeOK
      BY DEF TxInv, P!IInv, P!TypeOK, B!TypeOK, P!SlotRow, B!SlotRow, P!BookingRow, B!BookingRow,
             P!Status, B!Status, P!Request, B!Request, P!Events, B!Events, P!WorkerState, B!WorkerState,
             P!HistoryRow, B!HistoryRow, P!AuditRow, B!AuditRow
    <2>2. batch \in [Workers -> Seq(BookingIds)]
      BY Types DEF TxInv, Kept, Shape
    <2>3. DOMAIN tx = Actors
      BY DEF TxInv, Kept, Shape
    <2>4. \A a \in Actors : TxTyped(a)
      BY HandlerTyped, WorkerTyped DEF Actors
    <2> QED BY <2>1, <2>2, <2>3, <2>4 DEF TypeOK, TxTyped, Tx
  <1> QED BY <1>1, TxCorrect, PTL

\* Who holds a row and waits for another.
LEMMA HoldAndWait ==
  ASSUME TxInv, NEW a \in Actors, NEW c \in Actors, NEW d \in Actors, Waits(a, c), Waits(c, d)
  PROVE  \/ c \in Requests /\ At(c, "cancel", "booking")
         \/ c \in Workers /\ Expiring(c, "slot")
  <1>1. DOMAIN tx[c].slots # {} \/ DOMAIN tx[c].bookings # {}
    BY DEF Waits
  <1>2. tx[c] # NoTx
    BY <1>1, Nothing
  <1>3. CASE c \in Requests
    <2>1. HandlerTx(c) /\ c \notin Workers
      BY <1>3, Constants DEF TxInv, Kept
    <2>2. tx[c].at \in {"insert", "booking", "commit"}
      BY <1>2, <2>1 DEF HandlerTx, Tx
    <2>3. At(c, "cancel", "booking")
      BY <2>1, <2>2 DEF Waits, NeedsSlot, NeedsBooking, At
    <2> QED BY <1>3, <2>3
  <1>4. CASE c \in Workers
    <2>1. WorkerTx(c) /\ c \notin Requests
      BY <1>4, Constants DEF TxInv, Kept
    <2>2. tx[c].at \in {"version", "slot", "commit"}
      BY <1>2, <2>1 DEF WorkerTx, Tx
    <2>3. Expiring(c, "slot")
      BY <2>1, <2>2 DEF Waits, NeedsSlot, NeedsBooking, Expiring
    <2> QED BY <1>4, <2>3
  <1> QED BY <1>3, <1>4 DEF Actors

\* A cancel that waits for somebody who waits, waits for the expiry of its own booking.
LEMMA CancelWaits ==
  ASSUME TxInv, NEW r \in Requests, At(r, "cancel", "booking"),
         NEW c \in Actors, NEW d \in Actors, Waits(r, c), Waits(c, d)
  PROVE  c \in Workers /\ Expiring(c, "slot") /\ req[r].id = Head(batch[c]) /\ req[r].id \in B!Stale
  <1>1. r \in Actors /\ r \notin Workers
    BY Constants DEF Actors
  <1>2. req[r].id \in DOMAIN tx[c].bookings
    BY <1>1 DEF Waits, NeedsSlot, NeedsBooking, At
  <1>3. c \in Requests => ~ At(c, "cancel", "booking")
    <2> SUFFICES ASSUME c \in Requests, At(c, "cancel", "booking") PROVE FALSE
      OBVIOUS
    <2>1. HandlerTx(c) /\ tx[c] # NoTx
      BY Nothing DEF TxInv, Kept, At
    <2>2. tx[c].bookings = NoRows
      BY <2>1 DEF HandlerTx, Tx, At
    <2> QED BY <1>2, <2>2, Nothing DEF NoRows
  <1>4. c \in Workers /\ Expiring(c, "slot")
    BY <1>1, <1>3, HoldAndWait
  <1>5. WorkerTx(c) /\ tx[c] # NoTx
    BY <1>4, Nothing DEF TxInv, Kept, Expiring
  <1>6. DOMAIN tx[c].bookings = {Head(batch[c])}
    BY <1>5 DEF WorkerTx, Tx, Row
  <1>7. Head(batch[c]) \in DOMAIN bookings /\ bookings[Head(batch[c])].status = "RESERVED"
        /\ B!Overdue(Head(batch[c]))
    BY <1>4, <1>5, Types DEF WorkerTx, TxInv
  <1> QED BY <1>2, <1>4, <1>6, <1>7 DEF B!Stale

\* An expiry that waits for somebody who waits, waits for a cancel.
LEMMA ExpiryWaits ==
  ASSUME TxInv, NEW w \in Workers, Expiring(w, "slot"),
         NEW c \in Actors, NEW d \in Actors, Waits(w, c), Waits(c, d)
  PROVE  c \in Requests /\ At(c, "cancel", "booking")
  <1>1. w \in Actors /\ w \notin Requests
    BY Constants DEF Actors
  <1>2. \E s \in DOMAIN tx[c].slots : NeedsSlot(w, s)
    BY <1>1 DEF Waits, NeedsSlot, NeedsBooking, Expiring
  <1>3. c \in Workers => ~ Expiring(c, "slot")
    <2> SUFFICES ASSUME c \in Workers, Expiring(c, "slot") PROVE FALSE
      OBVIOUS
    <2>1. WorkerTx(c) /\ tx[c] # NoTx /\ tx[c].at = "slot"
      BY Nothing DEF TxInv, Kept, Expiring
    <2>2. tx[c].slots = NoRows
      BY <2>1 DEF WorkerTx, Tx
    <2> QED BY <1>2, <2>2, Nothing DEF NoRows
  <1> QED BY <1>1, <1>3, HoldAndWait

\* A circle of waits always holds a cancel and the expiry of the same overdue hold.
THEOREM DeadlocksKnown == SafetySpec => []DeadlocksAreOverdueHolds
  <1>1. TxInv => DeadlocksAreOverdueHolds
    <2> SUFFICES ASSUME TxInv, NEW D \in SUBSET Actors, Deadlocked(D)
                 PROVE  \E r \in D \cap Requests, w \in D \cap Workers :
                           /\ At(r, "cancel", "booking") /\ Expiring(w, "slot")
                           /\ req[r].id = Head(batch[w])
                           /\ req[r].id \in B!Stale
      BY DEF DeadlocksAreOverdueHolds
    <2>1. D # {} /\ \A a \in D : \E c \in D : Waits(a, c)
      BY DEF Deadlocked
    <2>2. PICK a \in D : TRUE
      BY <2>1
    <2>3. PICK c \in D : Waits(a, c)
      BY <2>1
    <2>4. PICK d \in D : Waits(c, d)
      BY <2>1
    <2>5. PICK e \in D : Waits(d, e)
      BY <2>1
    <2>6. PICK f \in D : Waits(e, f)
      BY <2>1
    <2>7. CASE c \in Requests /\ At(c, "cancel", "booking")
      <3>1. d \in Workers /\ Expiring(d, "slot") /\ req[c].id = Head(batch[d]) /\ req[c].id \in B!Stale
        BY <2>4, <2>5, <2>7, CancelWaits
      <3> QED BY <2>7, <3>1
    <2>8. CASE c \in Workers /\ Expiring(c, "slot")
      <3>1. d \in Requests /\ At(d, "cancel", "booking")
        BY <2>4, <2>5, <2>8, ExpiryWaits
      <3>2. e \in Workers /\ Expiring(e, "slot") /\ req[d].id = Head(batch[e]) /\ req[d].id \in B!Stale
        BY <2>5, <2>6, <3>1, CancelWaits
      <3> QED BY <3>1, <3>2
    <2> QED BY <2>3, <2>4, <2>7, <2>8, HoldAndWait
  <1> QED BY <1>1, TxCorrect, PTL

=============================================================================
