-------------------------- MODULE BookingWebhooks --------------------------
(***************************************************************************)
(* The webhooks of the booking lifecycle (src/services/webhook.service.ts, *)
(* booking-webhook.service.ts, webhook-delivery.service.ts) composed with  *)
(* the booking service: a handler that commits and an expiry about to      *)
(* commit both start a dispatch and do not wait for it.                    *)
(*                                                                         *)
(* A dispatch reads the tenant's webhook, then the booking, then posts     *)
(* once; whatever the outcome nothing is retried.  So what the receiver    *)
(* gets is as of the dispatch, not as of the event it is named after.      *)
(***************************************************************************)
EXTENDS Booking, BagsExt, Bags

CONSTANTS
  Registrars,   \* POST /webhooks requests in flight
  Dispatches,   \* dispatchBookingWebhook calls in flight
  MaxSecrets,   \* bound on the registrations ever requested
  MaxRollbacks  \* bound on the expiries of one booking that fail after they announced

ASSUME WebhookAssumption == MaxSecrets \in Nat /\ MaxRollbacks \in Nat

VARIABLES
  hook,       \* tenant_webhooks: url and secret of the tenant's row, or Null
  hookAudit,  \* WEBHOOK_CREATED and WEBHOOK_UPDATED rows, per tenant
  registrar,
  secrets,    \* number of secrets generated so far; a secret is its number
  dispatch,
  received,   \* payloads that reached the endpoint of the tenant
  rollbacks,  \* auxiliary, per booking: expiries that failed after they announced
  lost        \* auxiliary, per booking and event: announcements that never arrive

tally == <<rollbacks, lost>>

hvars == <<hook, hookAudit, registrar, secrets, dispatch, received, tally>>

wvars == <<vars, hvars>>

\* A url is registered with a secret in one statement, so the secret stands for both: in
\* the row, and in the audit row, which records the url alone.
Secret == 1..MaxSecrets

HookAudit == [event : {"CREATED", "UPDATED"}, secret : Secret]

RegistrarState ==
       [pc : {"idle"}]
  \cup [pc : {"update", "create"}, tenant : Tenants, secret : Secret]

DispatchState ==
       [pc : {"idle"}]
  \cup [pc : {"hook"}, tenant : Tenants, event : Events, id : BookingIds]
  \cup [pc : {"booking"}, tenant : Tenants, event : Events, id : BookingIds, secret : Secret]
  \cup [pc : {"post"}, tenant : Tenants, event : Events, id : BookingIds, secret : Secret,
        status : Status]

\* What deliverWebhook posts: signed with the secret, with the booking's status.
Payload == [event : Events, id : BookingIds, status : Status, secret : Secret]

WInit ==
  /\ Init
  /\ hook = [t \in Tenants |-> Null]
  /\ hookAudit = [t \in Tenants |-> << >>]
  /\ registrar = [g \in Registrars |-> Idle]
  /\ secrets = 0
  /\ dispatch = [d \in Dispatches |-> Idle]
  /\ received = [t \in Tenants |-> EmptyBag]
  /\ rollbacks = [b \in BookingIds |-> 0]
  /\ lost = [b \in BookingIds |-> [e \in Events |-> 0]]

(***************************************************************************)
(* registerWebhook: look for a row, then update it or create one.  The     *)
(* unique index on tenantId makes the second of two creates fail.          *)
(***************************************************************************)
RegisterRead(g, t) ==
  /\ registrar[g].pc = "idle"
  /\ secrets < MaxSecrets
  /\ secrets' = secrets + 1
  /\ registrar' = [registrar EXCEPT ![g] =
       [pc |-> IF hook[t] = Null THEN "create" ELSE "update", tenant |-> t, secret |-> secrets']]
  /\ UNCHANGED <<vars, hook, hookAudit, dispatch, received, tally>>

Unindexed(t) == TRUE

\* What the unique index demands of an INSERT.
NoHook(t) == hook[t] = Null

SetHook(g, event) ==
  LET t == registrar[g].tenant IN
  /\ hook' = [hook EXCEPT ![t] = registrar[g].secret]
  /\ hookAudit' = [hookAudit EXCEPT ![t] =
       Append(@, [event |-> event, secret |-> registrar[g].secret])]
  /\ registrar' = [registrar EXCEPT ![g] = Idle]
  /\ UNCHANGED <<vars, secrets, dispatch, received, tally>>

RegisterUpdate(g) ==
  /\ registrar[g].pc = "update"
  /\ SetHook(g, "UPDATED")

RegisterCreate(g) ==
  /\ registrar[g].pc = "create"
  /\ NoHook(registrar[g].tenant)
  /\ SetHook(g, "CREATED")

\* The unique index, a failed transaction, a crash.
RegisterFails(g) ==
  /\ registrar[g].pc # "idle"
  /\ registrar' = [registrar EXCEPT ![g] = Idle]
  /\ UNCHANGED <<vars, hook, hookAudit, secrets, dispatch, received, tally>>

\* What arrived about event e of booking b: the k-th copy of payload p, at tenant t.
Copies(b, e) ==
  UNION {UNION {{<<t, p, k>> : k \in 1..received[t][p]} :
                  p \in {p \in DOMAIN received[t] : p.event = e /\ p.id = b}} : t \in Tenants}

Arrived(b, e) == Cardinality(Copies(b, e))

(***************************************************************************)
(* enqueueBookingWebhook, and the two steps of the booking service that    *)
(* call it.                                                                *)
(***************************************************************************)
enqueueWithoutTenant(t, event, b) ==
  \E d \in Dispatches, u \in Tenants :
    /\ dispatch[d].pc = "idle"
    /\ dispatch' = [dispatch EXCEPT ![d] =
         [pc |-> "hook", tenant |-> u, event |-> event, id |-> b]]

enqueueBookingWebhook(t, event, b) ==
  \E d \in Dispatches :
    /\ dispatch[d].pc = "idle"
    /\ dispatch' = [dispatch EXCEPT ![d] =
         [pc |-> "hook", tenant |-> t, event |-> event, id |-> b]]

\* The tenant is the user's, whom FindOwned matched with the booking's.
HandlerAnnounces(r) ==
  /\ Announce(r)
  /\ enqueueBookingWebhook(bookings[req[r].id].tenantId, req[r].event, req[r].id)
  /\ UNCHANGED <<hook, hookAudit, registrar, secrets, received, tally>>

Lose(b, event) == lost' = [lost EXCEPT ![b][event] = @ + 1]

\* The process dies between the COMMIT and the announcement.
HandlerDies(r) ==
  /\ req[r].pc = "enqueue"
  /\ Abort(r)
  /\ Lose(req[r].id, req[r].event)
  /\ UNCHANGED <<hook, hookAudit, registrar, secrets, dispatch, received, rollbacks>>

ExpiryAnnounces(w) ==
  LET b == Head(worker[w].batch) IN
  /\ ExpireBody(w)
  /\ enqueueBookingWebhook(bookings[b].tenantId, "EXPIRED", b)
  /\ UNCHANGED <<hook, hookAudit, registrar, secrets, received, tally>>

\* The COMMIT fails, or its process dies: the hold is left to a later poll, whose
\* transaction announces again.
ExpiryRollsBack(w) ==
  LET b == Head(worker[w].batch) IN
  /\ worker[w].pc = "commit"
  /\ rollbacks[b] < MaxRollbacks
  /\ ExpireSkip(w) \/ ExpiryCrash(w)
  /\ rollbacks' = [rollbacks EXCEPT ![b] = @ + 1]
  /\ UNCHANGED <<hook, hookAudit, registrar, secrets, dispatch, received, lost>>

(***************************************************************************)
(* dispatchBookingWebhook and deliverWebhook                               *)
(***************************************************************************)
AnyHook(t) == {hook[u] : u \in Tenants} \ {Null}

HookOf(t) == {hook[t]} \ {Null}

ReadHook(d) ==
  /\ dispatch[d].pc = "hook"
  /\ \E secret \in HookOf(dispatch[d].tenant) :
       dispatch' = [dispatch EXCEPT ![d] =
         [pc |-> "booking", tenant |-> @.tenant, event |-> @.event, id |-> @.id,
          secret |-> secret]]
  /\ UNCHANGED <<vars, hook, hookAudit, registrar, secrets, received, tally>>

ReadBooking(d) ==
  /\ dispatch[d].pc = "booking"
  /\ dispatch' = [dispatch EXCEPT ![d] =
       [pc |-> "post", tenant |-> @.tenant, event |-> @.event, id |-> @.id,
        secret |-> @.secret, status |-> bookings[@.id].status]]
  /\ UNCHANGED <<vars, hook, hookAudit, registrar, secrets, received, tally>>

KeepPosting(d) == UNCHANGED dispatch

\* The call is over.
DispatchOver(d) == dispatch' = [dispatch EXCEPT ![d] = Idle]

\* The request reaches the endpoint; its answer may be anything, or late.
Post(d) ==
  LET p == dispatch[d] IN
  /\ p.pc = "post"
  /\ received' = [received EXCEPT ![p.tenant] =
       BagAdd(@, [event |-> p.event, id |-> p.id, status |-> p.status, secret |-> p.secret])]
  /\ DispatchOver(d)
  /\ UNCHANGED <<vars, hook, hookAudit, registrar, secrets, tally>>

\* No webhook registered, a failed query, an unreachable endpoint, a crash.
DispatchEnds(d) ==
  /\ dispatch[d].pc # "idle"
  /\ DispatchOver(d)
  /\ Lose(dispatch[d].id, dispatch[d].event)
  /\ UNCHANGED <<vars, hook, hookAudit, registrar, secrets, received, rollbacks>>

(***************************************************************************)
(* Every other step of the booking service leaves the webhooks alone.      *)
(***************************************************************************)
QuietHandler(r) ==
  \/ \E u \in Users :
       \/ \E s \in Slots, n \in PartySizes : CreateRead(r, u, s, n)
       \/ \E b \in BookingIds : ConfirmRead(r, u, b)
       \/ \E b \in BookingIds : CancelReadBooking(r, u, b)
  \/ CreateCommit(r)
  \/ ConfirmCommit(r)
  \/ CancelReadSlot(r)
  \/ CancelCommit(r)
  \/ req[r].pc # "enqueue" /\ Abort(r)

QuietExpiry(w) ==
  \/ PollStale(w)
  \/ ExpireCommit(w)
  \/ worker[w].pc # "commit" /\ (ExpireSkip(w) \/ ExpiryCrash(w))

BookingStep ==
  /\ \/ \E r \in Requests : QuietHandler(r)
     \/ \E w \in Workers : QuietExpiry(w)
     \/ Tick
  /\ UNCHANGED hvars

WNext ==
  \/ BookingStep
  \/ \E r \in Requests : HandlerAnnounces(r) \/ HandlerDies(r)
  \/ \E w \in Workers : ExpiryAnnounces(w) \/ ExpiryRollsBack(w)
  \/ \E g \in Registrars : \/ \E t \in Tenants : RegisterRead(g, t)
                           \/ RegisterUpdate(g)
                           \/ RegisterCreate(g)
                           \/ RegisterFails(g)
  \/ \E d \in Dispatches : ReadHook(d) \/ ReadBooking(d) \/ Post(d) \/ DispatchEnds(d)

WSpec == WInit /\ [][WNext]_wvars

(***************************************************************************)
(* Properties.                                                             *)
(***************************************************************************)
\* Every row, request and dispatch has its declared shape, and a dispatch is about a
\* booking of its tenant.
WTypeOK ==
  /\ hook \in [Tenants -> Secret \cup {Null}]
  /\ hookAudit \in [Tenants -> Seq(HookAudit)]
  /\ registrar \in [Registrars -> RegistrarState]
  /\ secrets \in 0..MaxSecrets
  /\ dispatch \in [Dispatches -> DispatchState]
  /\ \A d \in Dispatches : dispatch[d].pc # "idle" =>
       /\ dispatch[d].id \in DOMAIN bookings
       /\ dispatch[d].tenant = bookings[dispatch[d].id].tenantId
  /\ DOMAIN received = Tenants
  /\ \A t \in Tenants : IsABag(received[t]) /\ BagToSet(received[t]) \subseteq Payload
  /\ rollbacks \in [BookingIds -> Nat]
  /\ lost \in [BookingIds -> [Events -> Nat]]

Underway(b, e) ==
  {d \in Dispatches : dispatch[d].pc # "idle" /\ dispatch[d].event = e /\ dispatch[d].id = b}

Unannounced(b, e) ==
  {r \in Requests : req[r].pc = "enqueue" /\ req[r].event = e /\ req[r].id = b}

Occurred(b, e) == {i \in DOMAIN history[b] : history[b][i].toStatus = e}

\* The workers whose expiry of b is announced and not yet committed.
Uncommitted(b) == {w \in Committing : Head(worker[w].batch) = b}

\* Announcements of an expiry that no row of the history stands for.
WithoutRow(b, e) ==
  IF e = "EXPIRED" THEN Cardinality(Uncommitted(b)) + rollbacks[b] ELSE 0

\* Every reservation, confirmation, cancellation and expiry is announced exactly once:
\* for each row of the history there is one payload that arrived, one dispatch under
\* way, one handler yet to announce it, or one announcement that a failure or a crash
\* lost.  Nothing else is ever announced, except an expiry whose COMMIT is pending or
\* has failed, once for each such attempt.
AnnouncedOnce ==
  \A b \in DOMAIN bookings, e \in Events :
     Arrived(b, e) + Cardinality(Underway(b, e)) + Cardinality(Unannounced(b, e)) + lost[b][e]
       = Cardinality(Occurred(b, e)) + WithoutRow(b, e)

\* The booking had status s when event e was its latest, or after that.
Later(b, e, s) ==
  \E j, k \in DOMAIN history[b] :
     j <= k /\ history[b][j].toStatus = e /\ history[b][k].toStatus = s

\* The status in a payload is the one its event led to or a later one, never an earlier
\* one, although the booking is read long after the commit.  Only a payload about an
\* expiry can be otherwise, because the dispatch starts before the COMMIT: it may show the
\* RESERVED from before the COMMIT, and any status once an expiry of the booking failed.
PayloadNotOlder ==
  \A t \in Tenants : \A p \in BagToSet(received[t]) :
     \/ Later(p.id, p.event, p.status)
     \/ p.event = "EXPIRED" /\ (p.status = "RESERVED" \/ rollbacks[p.id] > 0)

\* A payload about a booking is signed with a secret that was registered for the
\* tenant of that booking, and sent to that tenant.
SignedForTenant ==
  \A t \in Tenants : \A p \in BagToSet(received[t]) :
     /\ bookings[p.id].tenantId = t
     /\ \E j \in DOMAIN hookAudit[t] : hookAudit[t][j].secret = p.secret

\* "one URL per tenant": of registrations that race only one creates the row, the audit
\* log says so, and its last row is the secret in force.
HookTrail ==
  \A t \in Tenants :
     LET trail == hookAudit[t] IN
     /\ (hook[t] = Null) <=> (trail = << >>)
     /\ \A j \in DOMAIN trail : (trail[j].event = "CREATED") <=> (j = 1)
     /\ trail # << >> => hook[t] = trail[Len(trail)].secret

(***************************************************************************)
(* What the repository says and the code does not do: refuted by TLC.      *)
(***************************************************************************)
\* "signed delivery on booking lifecycle events" (README.md:12): a payload that
\* arrived is about an event that happened.
EventsHappened ==
  \A t \in Tenants : \A p \in BagToSet(received[t]) : Occurred(p.id, p.event) # {}

=============================================================================
