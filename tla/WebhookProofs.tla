--------------------------- MODULE WebhookProofs ---------------------------
(* Proofs about BookingWebhooks. *)
EXTENDS BookingWebhooks, BookingRowsProofs

(***************************************************************************)
(* The composition implements the booking service.                         *)
(***************************************************************************)
\* Every step of the composition is a step of the booking service or leaves it alone.
LEMMA BookingStepOf == [WNext]_wvars => [Next]_vars
  <1> SUFFICES ASSUME [WNext]_wvars PROVE [Next]_vars
    OBVIOUS
  <1>1. CASE BookingStep
    BY <1>1 DEF BookingStep, QuietHandler, QuietExpiry, Next, Handler, Expiry
  <1>2. ASSUME NEW r \in Requests, HandlerAnnounces(r) \/ HandlerDies(r)
        PROVE  Next
    BY <1>2 DEF HandlerAnnounces, HandlerDies, Next, Handler
  <1>3. ASSUME NEW w \in Workers, ExpiryAnnounces(w) \/ ExpiryRollsBack(w)
        PROVE  Next
    BY <1>3 DEF ExpiryAnnounces, ExpiryRollsBack, Next, Expiry
  <1>4. ASSUME NEW g \in Registrars,
               \/ \E t \in Tenants : RegisterRead(g, t)
               \/ RegisterUpdate(g) \/ RegisterCreate(g) \/ RegisterFails(g)
        PROVE  UNCHANGED vars
    BY <1>4 DEF RegisterRead, RegisterUpdate, RegisterCreate, RegisterFails, SetHook
  <1>5. ASSUME NEW d \in Dispatches,
               ReadHook(d) \/ ReadBooking(d) \/ Post(d) \/ DispatchEnds(d)
        PROVE  UNCHANGED vars
    BY <1>5 DEF ReadHook, ReadBooking, Post, DispatchEnds
  <1>6. CASE UNCHANGED wvars
    BY <1>6 DEF wvars
  <1> QED BY <1>1, <1>2, <1>3, <1>4, <1>5, <1>6 DEF WNext

\* Announcing events, registering webhooks and delivering payloads never disturb a
\* booking: with them the booking service still behaves as its specification says, so
\* that every theorem about Booking holds here too.
THEOREM WebhooksKeepBookings == WSpec => SafetySpec
  <1>1. WInit => Init
    BY DEF WInit
  <1> QED BY <1>1, BookingStepOf, PTL DEF WSpec, SafetySpec

(***************************************************************************)
(* Registration.  HookTrail is not inductive: a registration that found a  *)
(* row must still find one when it updates it.                             *)
(***************************************************************************)
HookTypes ==
  /\ hook \in [Tenants -> Secret \cup {Null}]
  /\ hookAudit \in [Tenants -> Seq(HookAudit)]
  /\ registrar \in [Registrars -> RegistrarState]
  /\ secrets \in 0..MaxSecrets

UpdatesKnown ==
  \A g \in Registrars : registrar[g].pc = "update" => hook[registrar[g].tenant] # Null

HookInv == HookTypes /\ UpdatesKnown /\ HookTrail

\* What a registration under way holds.
LEMMA RegistrarFields ==
  ASSUME NEW x \in RegistrarState, x.pc # "idle"
  PROVE  x.tenant \in Tenants /\ x.secret \in Secret
  BY DEF RegistrarState

\* No secret is the missing row.
LEMMA SecretNotNull == Null \notin Secret
  BY NullAssumption, WebhookAssumption DEF Secret

TrailAt(h, trail) ==
  /\ (h = Null) <=> (trail = << >>)
  /\ \A j \in DOMAIN trail : (trail[j].event = "CREATED") <=> (j = 1)
  /\ trail # << >> => h = trail[Len(trail)].secret

\* A registration that writes appends the row that belongs next in the trail.
LEMMA TrailGrows ==
  ASSUME NEW h \in Secret \cup {Null}, NEW trail \in Seq(HookAudit),
         TrailAt(h, trail), NEW secret \in Secret, NEW event \in {"CREATED", "UPDATED"},
         (event = "CREATED") <=> (h = Null)
  PROVE  TrailAt(secret, Append(trail, [event |-> event, secret |-> secret]))
  <1> DEFINE row == [event |-> event, secret |-> secret]
             longer == Append(trail, row)
  <1>1. row \in HookAudit /\ row.event = event /\ row.secret = secret
    BY DEF HookAudit
  <1>2. (event = "CREATED") <=> (trail = << >>)
    BY DEF TrailAt
  <1>3. \A j \in DOMAIN trail : (trail[j].event = "CREATED") <=> (j = 1)
    BY DEF TrailAt
  <1> HIDE DEF row
  <1>4. /\ longer # << >>
        /\ Len(longer) = Len(trail) + 1
        /\ longer[Len(longer)] = row
        /\ DOMAIN longer = 1..(Len(trail) + 1)
        /\ \A j \in 1..Len(trail) : longer[j] = trail[j]
        /\ DOMAIN trail = 1..Len(trail)
        /\ Len(trail) \in Nat
        /\ (trail = << >>) <=> (Len(trail) = 0)
    BY <1>1
  <1>5. \A j \in DOMAIN longer : (longer[j].event = "CREATED") <=> (j = 1)
    <2> SUFFICES ASSUME NEW j \in DOMAIN longer
                 PROVE  (longer[j].event = "CREATED") <=> (j = 1)
      OBVIOUS
    <2> HIDE DEF longer
    <2>1. CASE j \in 1..Len(trail)
      BY <1>3, <1>4, <2>1
    <2>2. CASE j = Len(trail) + 1
      BY <1>1, <1>2, <1>4, <2>2
    <2> QED BY <1>4, <2>1, <2>2
  <1>6. secret # Null
    BY SecretNotNull
  <1> HIDE DEF longer
  <1> QED BY <1>1, <1>4, <1>5, <1>6 DEF TrailAt, longer, row

\* What the write of a registration does.
LEMMA SetHookStep ==
  ASSUME HookInv, NEW g \in Registrars, NEW event \in {"CREATED", "UPDATED"},
         registrar[g].pc # "idle", SetHook(g, event),
         (event = "CREATED") <=> (hook[registrar[g].tenant] = Null)
  PROVE  HookInv'
  <1> DEFINE t == registrar[g].tenant
             secret == registrar[g].secret
             row == [event |-> event, secret |-> secret]
  <1>1. t \in Tenants /\ secret \in Secret
    BY RegistrarFields DEF HookInv, HookTypes
  <1>2. row \in HookAudit
    BY <1>1 DEF HookAudit
  <1>3. /\ hook' = [hook EXCEPT ![t] = secret]
        /\ hookAudit' = [hookAudit EXCEPT ![t] = Append(@, row)]
        /\ registrar' = [registrar EXCEPT ![g] = Idle]
        /\ secrets' = secrets
    BY DEF SetHook
  <1>4. /\ hook \in [Tenants -> Secret \cup {Null}]
        /\ hookAudit \in [Tenants -> Seq(HookAudit)]
        /\ registrar \in [Registrars -> RegistrarState]
    BY DEF HookInv, HookTypes
  <1>5. Idle \in RegistrarState /\ Idle.pc = "idle"
    BY DEF RegistrarState, Idle
  <1>6. (event = "CREATED") <=> (hook[t] = Null)
    OBVIOUS
  <1> HIDE DEF t, secret, row
  <1>7. HookTypes'
    <2>1. Append(hookAudit[t], row) \in Seq(HookAudit)
      BY <1>1, <1>2, <1>4
    <2> QED BY <1>1, <1>3, <1>4, <1>5, <2>1 DEF HookTypes, HookInv
  <1>8. UpdatesKnown'
    <2>1. \A r \in Registrars : r # g => registrar'[r] = registrar[r]
      BY <1>3, <1>4
    <2>2. registrar'[g].pc = "idle"
      BY <1>3, <1>4, <1>5
    <2>3. \A u \in Tenants : hook[u] # Null => hook'[u] # Null
      BY <1>1, <1>3, <1>4, SecretNotNull
    <2>4. \A r \in Registrars : registrar[r].pc = "update" => registrar[r].tenant \in Tenants
      BY <1>4, RegistrarFields
    <2> QED BY <2>1, <2>2, <2>3, <2>4 DEF UpdatesKnown, HookInv
  <1>9. \A u \in Tenants : TrailAt(hook'[u], hookAudit'[u])
    <2> SUFFICES ASSUME NEW u \in Tenants PROVE TrailAt(hook'[u], hookAudit'[u])
      OBVIOUS
    <2>1. TrailAt(hook[u], hookAudit[u])
      BY DEF HookInv, HookTrail, TrailAt
    <2>2. CASE u # t
      BY <1>1, <1>3, <1>4, <2>1, <2>2
    <2>3. CASE u = t
      <3>1. hook'[u] = secret /\ hookAudit'[u] = Append(hookAudit[u], row)
        BY <1>1, <1>3, <1>4, <2>3
      <3>2. hook[u] \in Secret \cup {Null} /\ hookAudit[u] \in Seq(HookAudit)
        BY <1>4
      <3>3. TrailAt(secret, Append(hookAudit[u], [event |-> event, secret |-> secret]))
        BY <1>1, <1>6, <2>1, <2>3, <3>2, TrailGrows
      <3> QED BY <3>1, <3>3 DEF row
    <2> QED BY <2>2, <2>3
  <1>10. HookTrail'
    BY <1>9 DEF HookTrail, TrailAt
  <1> QED BY <1>7, <1>8, <1>10 DEF HookInv

\* No step of the composition breaks the trail of registrations.
LEMMA HookStep == HookInv /\ [WNext]_wvars => HookInv'
  <1> SUFFICES ASSUME HookInv, [WNext]_wvars PROVE HookInv'
    OBVIOUS
  <1>1. CASE UNCHANGED <<hook, hookAudit, registrar, secrets>>
    BY <1>1 DEF HookInv, HookTypes, UpdatesKnown, HookTrail
  <1>2. ASSUME NEW g \in Registrars, NEW t \in Tenants, RegisterRead(g, t)
        PROVE  HookInv'
    <2>1. /\ hook' = hook /\ hookAudit' = hookAudit
          /\ secrets' = secrets + 1 /\ secrets < MaxSecrets
          /\ registrar' = [registrar EXCEPT ![g] =
               [pc |-> IF hook[t] = Null THEN "create" ELSE "update", tenant |-> t,
                secret |-> secrets']]
      BY <1>2 DEF RegisterRead
    <2>2. secrets' \in Secret /\ secrets' \in 0..MaxSecrets
      BY <2>1, WebhookAssumption DEF HookInv, HookTypes, Secret
    <2>3. registrar' \in [Registrars -> RegistrarState]
      BY <2>1, <2>2 DEF HookInv, HookTypes, RegistrarState
    <2>4. HookTypes'
      BY <2>1, <2>2, <2>3 DEF HookInv, HookTypes
    <2>5. UpdatesKnown'
      BY <2>1 DEF HookInv, HookTypes, UpdatesKnown
    <2> QED BY <2>1, <2>4, <2>5 DEF HookInv, HookTrail
  <1>3. ASSUME NEW g \in Registrars, RegisterUpdate(g)
        PROVE  HookInv'
    <2>1. hook[registrar[g].tenant] # Null /\ registrar[g].pc # "idle" /\ SetHook(g, "UPDATED")
      BY <1>3 DEF RegisterUpdate, HookInv, UpdatesKnown
    <2> QED BY <2>1, SetHookStep
  <1>4. ASSUME NEW g \in Registrars, RegisterCreate(g)
        PROVE  HookInv'
    <2>1. hook[registrar[g].tenant] = Null /\ registrar[g].pc # "idle" /\ SetHook(g, "CREATED")
      BY <1>4 DEF RegisterCreate, NoHook
    <2> QED BY <2>1, SetHookStep
  <1>5. ASSUME NEW g \in Registrars, RegisterFails(g)
        PROVE  HookInv'
    <2>1. /\ UNCHANGED <<hook, hookAudit, secrets>>
          /\ registrar' = [registrar EXCEPT ![g] = Idle]
      BY <1>5 DEF RegisterFails
    <2>2. registrar' \in [Registrars -> RegistrarState]
      BY <2>1 DEF HookInv, HookTypes, RegistrarState, Idle
    <2>3. UpdatesKnown'
      BY <2>1 DEF HookInv, HookTypes, UpdatesKnown, Idle
    <2> QED BY <2>1, <2>2, <2>3 DEF HookInv, HookTypes, HookTrail
  <1>6. ASSUME \/ BookingStep
               \/ \E r \in Requests : HandlerAnnounces(r) \/ HandlerDies(r)
               \/ \E w \in Workers : ExpiryAnnounces(w) \/ ExpiryRollsBack(w)
               \/ \E d \in Dispatches : ReadHook(d) \/ ReadBooking(d) \/ Post(d) \/ DispatchEnds(d)
               \/ UNCHANGED wvars
        PROVE  UNCHANGED <<hook, hookAudit, registrar, secrets>>
    BY <1>6 DEF BookingStep, HandlerAnnounces, HandlerDies, ExpiryAnnounces, ExpiryRollsBack, ReadHook, ReadBooking, Post,
                DispatchEnds, hvars, wvars
  <1> QED BY <1>1, <1>2, <1>3, <1>4, <1>5, <1>6 DEF WNext

\* The initial state has no webhook and an empty trail.
LEMMA InitHook == WInit => HookInv
  <1> SUFFICES ASSUME WInit PROVE HookInv
    OBVIOUS
  <1>1. HookTypes
    BY WebhookAssumption DEF WInit, HookTypes, RegistrarState, Idle
  <1>2. UpdatesKnown
    BY DEF WInit, UpdatesKnown, Idle
  <1>3. HookTrail
    BY DEF WInit, HookTrail
  <1> QED BY <1>1, <1>2, <1>3 DEF HookInv

\* However many registrations of a tenant race, one creates the row, the audit log has
\* the others as updates, and the secret in force is the last one logged.
THEOREM HookTrailCorrect == WSpec => []HookTrail
  <1> QED BY InitHook, HookStep, PTL DEF WSpec, HookInv

(***************************************************************************)
(* Delivery.  SignedForTenant is about payloads that arrived; the same has *)
(* to be known of a dispatch from the moment it read the webhook.          *)
(***************************************************************************)
Logged(t, secret) == \E j \in DOMAIN hookAudit[t] : hookAudit[t][j].secret = secret

DispatchTypes ==
  /\ dispatch \in [Dispatches -> DispatchState]
  /\ DOMAIN received = Tenants

DispatchSigned(d) ==
  /\ dispatch[d].pc # "idle" => /\ dispatch[d].id \in DOMAIN bookings
                                /\ bookings[dispatch[d].id].tenantId = dispatch[d].tenant
  /\ dispatch[d].pc \in {"booking", "post"} => Logged(dispatch[d].tenant, dispatch[d].secret)

PayloadsSigned ==
  \A t \in Tenants : \A p \in DOMAIN received[t] :
     /\ p.id \in DOMAIN bookings
     /\ bookings[p.id].tenantId = t
     /\ Logged(t, p.secret)

SignInv == DispatchTypes /\ PayloadsSigned /\ \A d \in Dispatches : DispatchSigned(d)

\* What a dispatch under way holds.
LEMMA DispatchFields ==
  ASSUME NEW x \in DispatchState
  PROVE  /\ x.pc \in {"idle", "hook", "booking", "post"}
         /\ x.pc # "idle" => x.tenant \in Tenants /\ x.event \in Events /\ x.id \in BookingIds
         /\ x.pc \in {"booking", "post"} => x.secret \in Secret
  BY DEF DispatchState

\* A secret that was logged stays logged.
LEMMA LoggedKept ==
  ASSUME HookInv, [WNext]_wvars, NEW t \in Tenants, NEW secret, Logged(t, secret)
  PROVE  Logged(t, secret)'
  <1>1. ASSUME NEW g \in Registrars, NEW event, registrar[g].pc # "idle", SetHook(g, event)
        PROVE  Logged(t, secret)'
    <2> DEFINE u == registrar[g].tenant
               row == [event |-> event, secret |-> registrar[g].secret]
    <2>1. hookAudit' = [hookAudit EXCEPT ![u] = Append(@, row)]
      BY <1>1 DEF SetHook
    <2>2. hookAudit \in [Tenants -> Seq(HookAudit)]
      BY DEF HookInv, HookTypes
    <2> HIDE DEF row
    <2>3. /\ DOMAIN hookAudit[t] \subseteq DOMAIN hookAudit'[t]
          /\ \A j \in DOMAIN hookAudit[t] : hookAudit'[t][j] = hookAudit[t][j]
      <3>1. CASE t # u
        BY <2>1, <2>2, <3>1
      <3>2. CASE t = u
        <4>1. hookAudit'[t] = Append(hookAudit[t], row) /\ hookAudit[t] \in Seq(HookAudit)
          BY <2>1, <2>2, <3>2
        <4> QED BY <4>1
      <3> QED BY <3>1, <3>2
    <2> QED BY <2>3 DEF Logged
  <1>2. CASE hookAudit' = hookAudit
    BY <1>2 DEF Logged
  <1>3. ASSUME NEW g \in Registrars,
               \/ \E u \in Tenants : RegisterRead(g, u)
               \/ RegisterUpdate(g) \/ RegisterCreate(g) \/ RegisterFails(g)
        PROVE  \/ hookAudit' = hookAudit
               \/ registrar[g].pc # "idle" /\ \E event \in {"CREATED", "UPDATED"} : SetHook(g, event)
    BY <1>3 DEF RegisterRead, RegisterUpdate, RegisterCreate, RegisterFails
  <1>4. ASSUME \/ BookingStep
               \/ \E r \in Requests : HandlerAnnounces(r) \/ HandlerDies(r)
               \/ \E w \in Workers : ExpiryAnnounces(w) \/ ExpiryRollsBack(w)
               \/ \E d \in Dispatches : ReadHook(d) \/ ReadBooking(d) \/ Post(d) \/ DispatchEnds(d)
               \/ UNCHANGED wvars
        PROVE  hookAudit' = hookAudit
    BY <1>4 DEF BookingStep, HandlerAnnounces, HandlerDies, ExpiryAnnounces, ExpiryRollsBack, ReadHook, ReadBooking, Post,
                DispatchEnds, hvars, wvars
  <1> QED BY <1>1, <1>2, <1>3, <1>4 DEF WNext

\* The webhook in force is in the log.
LEMMA HookLogged ==
  ASSUME HookInv, NEW t \in Tenants, hook[t] # Null
  PROVE  Logged(t, hook[t])
  <1>1. /\ hookAudit[t] \in Seq(HookAudit)
        /\ hookAudit[t] # << >>
        /\ hook[t] = hookAudit[t][Len(hookAudit[t])].secret
    BY DEF HookInv, HookTypes, HookTrail
  <1>2. Len(hookAudit[t]) \in DOMAIN hookAudit[t]
    BY <1>1
  <1> QED BY <1>1, <1>2 DEF Logged

\* What is true of payloads and dispatches stays true of those that do not change.
LEMMA SignFrame ==
  ASSUME IInv, HookInv, SignInv, [WNext]_wvars
  PROVE  /\ received' = received => PayloadsSigned'
         /\ \A d \in Dispatches : dispatch'[d] \in {dispatch[d], Idle} => DispatchSigned(d)'
  <1>1. \A b \in DOMAIN bookings :
          b \in DOMAIN bookings' /\ bookings'[b].tenantId = bookings[b].tenantId
    BY OwnerKept, BookingStepOf
  <1>2. ASSUME NEW t \in Tenants, NEW secret, Logged(t, secret)
        PROVE  \E j \in DOMAIN hookAudit'[t] : hookAudit'[t][j].secret = secret
    BY <1>2, LoggedKept DEF Logged
  <1>3. ASSUME received' = received
        PROVE  PayloadsSigned'
    <2> SUFFICES ASSUME NEW t \in Tenants, NEW p \in DOMAIN received[t]
                 PROVE  /\ p.id \in DOMAIN bookings'
                        /\ bookings'[p.id].tenantId = t
                        /\ \E j \in DOMAIN hookAudit'[t] : hookAudit'[t][j].secret = p.secret
      BY <1>3 DEF PayloadsSigned, Logged
    <2>1. p.id \in DOMAIN bookings /\ bookings[p.id].tenantId = t /\ Logged(t, p.secret)
      BY DEF SignInv, PayloadsSigned
    <2> QED BY <1>1, <1>2, <2>1
  <1>4. ASSUME NEW d \in Dispatches, dispatch'[d] \in {dispatch[d], Idle}
        PROVE  DispatchSigned(d)'
    <2>1. CASE dispatch'[d] = Idle
      BY <2>1 DEF Idle, DispatchSigned
    <2>2. CASE dispatch'[d] = dispatch[d]
      <3>1. DispatchSigned(d) /\ dispatch[d] \in DispatchState
        BY DEF SignInv, DispatchTypes
      <3>2. dispatch[d].pc \in {"booking", "post"} =>
              \E j \in DOMAIN hookAudit'[dispatch[d].tenant] :
                 hookAudit'[dispatch[d].tenant][j].secret = dispatch[d].secret
        BY <1>2, <3>1, DispatchFields DEF DispatchSigned
      <3> QED BY <1>1, <2>2, <3>1, <3>2 DEF DispatchSigned, Logged
    <2> QED BY <1>4, <2>1, <2>2
  <1> QED BY <1>3, <1>4

\* A dispatch starts for a booking with that booking's tenant.
LEMMA EnqueueSigned ==
  ASSUME IInv, HookInv, SignInv, [WNext]_wvars, NEW b \in DOMAIN bookings, NEW event \in Events,
         enqueueBookingWebhook(bookings[b].tenantId, event, b), received' = received
  PROVE  SignInv'
  <1>1. bookings[b].tenantId \in Tenants /\ b \in BookingIds
    BY DEF IInv, TypeOK, BookingRow
  <1>2. PICK e \in Dispatches :
          dispatch' = [dispatch EXCEPT ![e] =
            [pc |-> "hook", tenant |-> bookings[b].tenantId, event |-> event, id |-> b]]
    BY DEF enqueueBookingWebhook
  <1>3. dispatch \in [Dispatches -> DispatchState]
    BY DEF SignInv, DispatchTypes
  <1>4. DispatchTypes'
    <2>1. [pc |-> "hook", tenant |-> bookings[b].tenantId, event |-> event, id |-> b]
            \in DispatchState
      BY <1>1 DEF DispatchState
    <2> QED BY <1>2, <1>3, <2>1 DEF SignInv, DispatchTypes
  <1>5. ASSUME NEW d \in Dispatches
        PROVE  DispatchSigned(d)'
    <2>1. CASE d # e
      BY <1>2, <1>3, <2>1, SignFrame
    <2>2. CASE d = e
      <3>1. /\ dispatch'[d].pc = "hook"
            /\ dispatch'[d].id = b
            /\ dispatch'[d].tenant = bookings[b].tenantId
        BY <1>2, <1>3, <2>2
      <3>2. b \in DOMAIN bookings' /\ bookings'[b].tenantId = bookings[b].tenantId
        BY OwnerKept, BookingStepOf
      <3> QED BY <3>1, <3>2 DEF DispatchSigned
    <2> QED BY <2>1, <2>2
  <1> QED BY <1>4, <1>5, SignFrame DEF SignInv

\* One dispatch proceeds to a state that is signed, and the bookings and the log stay.
LEMMA ProceedSigned ==
  ASSUME IInv, HookInv, SignInv, [WNext]_wvars, NEW e \in Dispatches, NEW state \in DispatchState,
         dispatch' = [dispatch EXCEPT ![e] = state], UNCHANGED <<vars, hookAudit, received>>,
         state.pc # "idle" => /\ dispatch[e].pc # "idle"
                              /\ state.id = dispatch[e].id
                              /\ state.tenant = dispatch[e].tenant,
         state.pc \in {"booking", "post"} => Logged(state.tenant, state.secret)
  PROVE  SignInv'
  <1>1. dispatch \in [Dispatches -> DispatchState]
    BY DEF SignInv, DispatchTypes
  <1>2. DispatchTypes'
    BY <1>1 DEF SignInv, DispatchTypes
  <1>3. ASSUME NEW d \in Dispatches
        PROVE  DispatchSigned(d)'
    <2>1. CASE d # e
      BY <1>1, <2>1, SignFrame
    <2>2. CASE d = e
      <3>1. dispatch'[d] = state /\ bookings' = bookings /\ hookAudit' = hookAudit
        BY <1>1, <2>2 DEF vars
      <3>2. DispatchSigned(e)
        BY DEF SignInv
      <3> QED BY <2>2, <3>1, <3>2 DEF DispatchSigned, Logged
    <2> QED BY <2>1, <2>2
  <1> QED BY <1>2, <1>3, SignFrame DEF SignInv

\* A payload that arrives is signed as its dispatch was.
LEMMA PostSigned ==
  ASSUME IInv, HookInv, SignInv, [WNext]_wvars, NEW e \in Dispatches, Post(e)
  PROVE  SignInv'
  <1> DEFINE p == dispatch[e]
             payload == [event |-> p.event, id |-> p.id, status |-> p.status, secret |-> p.secret]
  <1>1. /\ dispatch \in [Dispatches -> DispatchState]
        /\ DOMAIN received = Tenants
        /\ p \in DispatchState
    BY DEF SignInv, DispatchTypes
  <1>2. /\ p.pc = "post"
        /\ received' = [received EXCEPT ![p.tenant] = BagAdd(@, payload)]
        /\ dispatch' = [dispatch EXCEPT ![e] = Idle]
        /\ bookings' = bookings /\ hookAudit' = hookAudit
    BY DEF Post, DispatchOver, vars
  <1>3. Idle \in DispatchState
    BY DEF DispatchState, Idle
  <1>4. DispatchTypes'
    BY <1>1, <1>2, <1>3 DEF SignInv, DispatchTypes
  <1>5. ASSUME NEW d \in Dispatches
        PROVE  DispatchSigned(d)'
    BY <1>1, <1>2, SignFrame
  <1>6. /\ payload.id \in DOMAIN bookings
        /\ bookings[payload.id].tenantId = p.tenant
        /\ Logged(p.tenant, payload.secret)
    BY <1>2 DEF SignInv, DispatchSigned
  <1>7. p.tenant \in Tenants
    BY <1>1, <1>2, DispatchFields
  <1> HIDE DEF payload, p
  <1>8. \A t \in Tenants : DOMAIN received'[t] \subseteq
          IF t = p.tenant THEN DOMAIN received[t] \cup {payload} ELSE DOMAIN received[t]
    BY <1>1, <1>2, <1>7 DEF BagAdd
  <1>9. PayloadsSigned'
    <2> SUFFICES ASSUME NEW t \in Tenants, NEW q \in DOMAIN received'[t]
                 PROVE  /\ q.id \in DOMAIN bookings
                        /\ bookings[q.id].tenantId = t
                        /\ Logged(t, q.secret)
      BY <1>2 DEF PayloadsSigned, Logged
    <2>1. CASE q \in DOMAIN received[t]
      BY <2>1 DEF SignInv, PayloadsSigned
    <2>2. CASE t = p.tenant /\ q = payload
      BY <1>6, <2>2
    <2> QED BY <1>8, <2>1, <2>2
  <1> QED BY <1>4, <1>5, <1>9 DEF SignInv

\* No step of the composition lets a payload go to, or be signed for, the wrong tenant.
LEMMA SignStep == IInv /\ HookInv /\ SignInv /\ [WNext]_wvars => SignInv'
  <1> SUFFICES ASSUME IInv, HookInv, SignInv, [WNext]_wvars PROVE SignInv'
    OBVIOUS
  <1>0. dispatch \in [Dispatches -> DispatchState]
    BY DEF SignInv, DispatchTypes
  <1>1. CASE dispatch' = dispatch /\ received' = received
    <2>1. \A d \in Dispatches : DispatchSigned(d)'
      BY <1>1, SignFrame
    <2>2. DispatchTypes'
      BY <1>1 DEF SignInv, DispatchTypes
    <2> QED BY <1>1, <2>1, <2>2, SignFrame DEF SignInv
  <1>2. ASSUME NEW r \in Requests, HandlerAnnounces(r)
        PROVE  SignInv'
    <2>1. req[r].id \in DOMAIN bookings /\ req[r].event \in Events
      BY <1>2, RequestFields DEF HandlerAnnounces, Announce, IInv, TypeOK
    <2>2. /\ enqueueBookingWebhook(bookings[req[r].id].tenantId, req[r].event, req[r].id)
          /\ received' = received
      BY <1>2 DEF HandlerAnnounces
    <2> QED BY <2>1, <2>2, EnqueueSigned
  <1>3. ASSUME NEW w \in Workers, ExpiryAnnounces(w)
        PROVE  SignInv'
    <2> DEFINE b == Head(worker[w].batch)
    <2>1. b \in DOMAIN bookings
      BY <1>3, BatchHead DEF ExpiryAnnounces, ExpireBody, IInv
    <2>2. enqueueBookingWebhook(bookings[b].tenantId, "EXPIRED", b) /\ received' = received
      BY <1>3 DEF ExpiryAnnounces
    <2>3. "EXPIRED" \in Events
      BY DEF Events, Status
    <2> QED BY <2>1, <2>2, <2>3, EnqueueSigned
  <1>4. ASSUME NEW d \in Dispatches, ReadHook(d)
        PROVE  SignInv'
    <2>1. PICK secret \in HookOf(dispatch[d].tenant) :
            dispatch' = [dispatch EXCEPT ![d] =
              [pc |-> "booking", tenant |-> @.tenant, event |-> @.event, id |-> @.id,
               secret |-> secret]]
      BY <1>4 DEF ReadHook
    <2>2. dispatch[d].pc = "hook" /\ UNCHANGED <<vars, hookAudit, received>>
      BY <1>4 DEF ReadHook
    <2>3. /\ dispatch[d].tenant \in Tenants
          /\ dispatch[d].event \in Events
          /\ dispatch[d].id \in BookingIds
      BY <1>0, <2>2, DispatchFields
    <2>4. secret \in Secret /\ Logged(dispatch[d].tenant, secret)
      BY <2>1, <2>3, HookLogged DEF HookOf, HookInv, HookTypes
    <2> DEFINE state == [pc |-> "booking", tenant |-> dispatch[d].tenant,
                         event |-> dispatch[d].event, id |-> dispatch[d].id, secret |-> secret]
    <2>5. state \in DispatchState
      BY <2>3, <2>4 DEF DispatchState
    <2>6. dispatch' = [dispatch EXCEPT ![d] = state]
      BY <1>0, <2>1
    <2>7. /\ state.pc = "booking" /\ state.tenant = dispatch[d].tenant
          /\ state.id = dispatch[d].id /\ state.secret = secret
      OBVIOUS
    <2> HIDE DEF state
    <2> QED BY <2>2, <2>4, <2>5, <2>6, <2>7, ProceedSigned
  <1>5. ASSUME NEW d \in Dispatches, ReadBooking(d)
        PROVE  SignInv'
    <2> DEFINE state == [pc |-> "post", tenant |-> dispatch[d].tenant,
                         event |-> dispatch[d].event, id |-> dispatch[d].id,
                         secret |-> dispatch[d].secret,
                         status |-> bookings[dispatch[d].id].status]
    <2>1. /\ dispatch[d].pc = "booking"
          /\ UNCHANGED <<vars, hookAudit, received>>
          /\ dispatch' = [dispatch EXCEPT ![d] = state]
      BY <1>0, <1>5 DEF ReadBooking
    <2>2. /\ dispatch[d].tenant \in Tenants
          /\ dispatch[d].event \in Events
          /\ dispatch[d].id \in BookingIds
          /\ dispatch[d].secret \in Secret
      BY <1>0, <2>1, DispatchFields
    <2>3. /\ dispatch[d].id \in DOMAIN bookings
          /\ Logged(dispatch[d].tenant, dispatch[d].secret)
      BY <2>1 DEF SignInv, DispatchSigned
    <2>4. state \in DispatchState
      BY <2>2, <2>3 DEF DispatchState, IInv, TypeOK, BookingRow
    <2>5. /\ state.pc = "post" /\ state.tenant = dispatch[d].tenant
          /\ state.id = dispatch[d].id /\ state.secret = dispatch[d].secret
      OBVIOUS
    <2> HIDE DEF state
    <2> QED BY <2>1, <2>3, <2>4, <2>5, ProceedSigned
  <1>6. ASSUME NEW d \in Dispatches, DispatchEnds(d)
        PROVE  SignInv'
    <2>1. /\ UNCHANGED <<vars, hookAudit, received>>
          /\ dispatch' = [dispatch EXCEPT ![d] = Idle]
      BY <1>6 DEF DispatchEnds, DispatchOver
    <2>2. Idle \in DispatchState /\ Idle.pc = "idle"
      BY DEF DispatchState, Idle
    <2> QED BY <2>1, <2>2, ProceedSigned
  <1>7. ASSUME \/ BookingStep
               \/ \E r \in Requests : HandlerDies(r)
               \/ \E w \in Workers : ExpiryRollsBack(w)
               \/ \E g \in Registrars : \/ \E t \in Tenants : RegisterRead(g, t)
                                        \/ RegisterUpdate(g)
                                        \/ RegisterCreate(g)
                                        \/ RegisterFails(g)
               \/ UNCHANGED wvars
        PROVE  dispatch' = dispatch /\ received' = received
    BY <1>7 DEF BookingStep, HandlerDies, ExpiryRollsBack, RegisterRead, RegisterUpdate, RegisterCreate, RegisterFails, SetHook,
                hvars, wvars
  <1> QED BY <1>1, <1>2, <1>3, <1>4, <1>5, <1>6, <1>7, PostSigned DEF WNext

\* The initial state, and every step.
LEMMA SignInit == WInit => IInv /\ HookInv /\ SignInv
  <1> SUFFICES ASSUME WInit PROVE IInv /\ HookInv /\ SignInv
    OBVIOUS
  <1>1. IInv
    BY InitIInv DEF WInit
  <1>2. SignInv
    BY DEF WInit, SignInv, DispatchTypes, DispatchSigned, PayloadsSigned, DispatchState, Idle,
           EmptyBag, SetToBag
  <1> QED BY <1>1, <1>2, InitHook

LEMMA SignedNext ==
  IInv /\ HookInv /\ SignInv /\ [WNext]_wvars => IInv' /\ HookInv' /\ SignInv'
  BY BookingStepOf, TypeStep, LocksStep, HookStep, SignStep DEF IInv

\* Every payload that arrives is about a booking of the receiving tenant and signed with
\* a secret that was registered for it, although webhook and booking are read apart.
THEOREM SignedForItsTenant == WSpec => []SignedForTenant
  <1>1. SignInv => SignedForTenant
    BY DEF SignInv, PayloadsSigned, SignedForTenant, BagToSet, Logged
  <1> QED BY <1>1, SignInit, SignedNext, PTL DEF WSpec

(***************************************************************************)
(* Type correctness: what the two sections above know of registrations and *)
(* dispatches, and that an inbox is a bag of payloads.                     *)
(***************************************************************************)
Inbox(B) == IsABag(B) /\ BagToSet(B) \subseteq Payload

InboxInv == \A t \in Tenants : Inbox(received[t])

\* A payload more is still a bag of payloads.
LEMMA InboxGrows ==
  ASSUME NEW B, Inbox(B), NEW p \in Payload
  PROVE  Inbox(BagAdd(B, p))
  <1> DEFINE C == BagAdd(B, p)
  <1>1. /\ B \in [DOMAIN B -> {n \in Nat : n > 0}]
        /\ DOMAIN B \subseteq Payload
    BY DEF Inbox, IsABag, BagToSet
  <1>2. CASE p \in DOMAIN B
    <2>1. C = [e \in DOMAIN B |-> IF e = p THEN B[e] + 1 ELSE B[e]]
      BY <1>2 DEF BagAdd
    <2>2. \A e \in DOMAIN B : C[e] \in {n \in Nat : n > 0}
      BY <1>1, <2>1
    <2> QED BY <1>1, <2>1, <2>2 DEF Inbox, IsABag, BagToSet
  <1>3. CASE p \notin DOMAIN B
    <2>1. C = [e \in DOMAIN B \union {p} |-> IF e = p THEN 1 ELSE B[e]]
      BY <1>3 DEF BagAdd
    <2>2. \A e \in DOMAIN B \union {p} : C[e] \in {n \in Nat : n > 0}
      BY <1>1, <2>1
    <2> QED BY <1>1, <2>1, <2>2 DEF Inbox, IsABag, BagToSet
  <1> QED BY <1>2, <1>3

LEMMA InboxStep == SignInv /\ InboxInv /\ [WNext]_wvars => InboxInv'
  <1> SUFFICES ASSUME SignInv, InboxInv, [WNext]_wvars PROVE InboxInv'
    OBVIOUS
  <1>1. CASE received' = received
    BY <1>1 DEF InboxInv
  <1>2. ASSUME NEW d \in Dispatches, Post(d)
        PROVE  InboxInv'
    <2> DEFINE x == dispatch[d]
               p == [event |-> x.event, id |-> x.id, status |-> x.status, secret |-> x.secret]
    <2>1. /\ x \in DispatchState /\ x.pc = "post"
          /\ DOMAIN received = Tenants
          /\ received' = [received EXCEPT ![x.tenant] = BagAdd(@, p)]
      BY <1>2 DEF Post, SignInv, DispatchTypes
    <2>2. p \in Payload
      <3>1. x.event \in Events /\ x.id \in BookingIds /\ x.secret \in Secret /\ x.status \in Status
        BY <2>1 DEF DispatchState
      <3> QED BY <3>1 DEF Payload
    <2> HIDE DEF p, x
    <2> QED BY <2>1, <2>2, InboxGrows DEF InboxInv
  <1> QED BY <1>1, <1>2 DEF WNext, BookingStep, HandlerAnnounces, HandlerDies, ExpiryAnnounces,
          ExpiryRollsBack, RegisterRead,
          RegisterUpdate, RegisterCreate, RegisterFails, SetHook, ReadHook, ReadBooking,
          DispatchEnds, hvars, wvars

\* What is counted for the properties is counted in numbers.
TallyInv ==
  /\ rollbacks \in [BookingIds -> Nat]
  /\ lost \in [BookingIds -> [Events -> Nat]]

\* Counting up keeps a table of counters what it is.
LEMMA CountUp ==
  ASSUME NEW S, NEW f \in [S -> Nat], NEW b
  PROVE  [f EXCEPT ![b] = @ + 1] \in [S -> Nat]
  <1>1. CASE b \in S
    BY <1>1
  <1>2. CASE b \notin S
    <2>1. [f EXCEPT ![b] = @ + 1] = f
      BY <1>2
    <2> QED BY <2>1
  <1> QED BY <1>1, <1>2

LEMMA CountUpTwo ==
  ASSUME NEW S, NEW T, NEW f \in [S -> [T -> Nat]], NEW b, NEW e
  PROVE  [f EXCEPT ![b][e] = @ + 1] \in [S -> [T -> Nat]]
  <1> DEFINE row == [f[b] EXCEPT ![e] = @ + 1]
  <1>1. [f EXCEPT ![b][e] = @ + 1] = [f EXCEPT ![b] = row]
    BY Zenon
  <1>2. b \in S => row \in [T -> Nat]
    BY CountUp
  <1> HIDE DEF row
  <1>3. [f EXCEPT ![b] = row] \in [S -> [T -> Nat]]
    <2>1. CASE b \in S
      BY <1>2, <2>1
    <2>2. CASE b \notin S
      <3>1. [f EXCEPT ![b] = row] = f
        BY <2>2
      <3> QED BY <3>1
    <2> QED BY <2>1, <2>2
  <1> QED BY <1>1, <1>3

LEMMA TallyStep == TallyInv /\ [WNext]_wvars => TallyInv'
  <1> SUFFICES ASSUME TallyInv, [WNext]_wvars PROVE TallyInv'
    OBVIOUS
  <1>1. ASSUME NEW b, NEW event, Lose(b, event)
        PROVE  lost' \in [BookingIds -> [Events -> Nat]]
    BY <1>1, CountUpTwo DEF TallyInv, Lose
  <1>2. CASE UNCHANGED tally
    BY <1>2 DEF TallyInv, tally
  <1>3. ASSUME NEW r \in Requests, HandlerDies(r)
        PROVE  TallyInv'
    BY <1>1, <1>3 DEF HandlerDies, TallyInv
  <1>4. ASSUME NEW w \in Workers, ExpiryRollsBack(w)
        PROVE  TallyInv'
    BY <1>4, CountUp DEF ExpiryRollsBack, TallyInv
  <1>5. ASSUME NEW d \in Dispatches, DispatchEnds(d)
        PROVE  TallyInv'
    BY <1>1, <1>5 DEF DispatchEnds, TallyInv
  <1> QED BY <1>2, <1>3, <1>4, <1>5 DEF WNext, BookingStep, HandlerAnnounces, ExpiryAnnounces,
          RegisterRead, RegisterUpdate, RegisterCreate, RegisterFails, SetHook, ReadHook,
          ReadBooking, Post, hvars, wvars

\* Rows, registrations, dispatches and payloads keep their shape, and a dispatch is
\* about a booking of the tenant it was started for.
THEOREM WebhookTypes == WSpec => []WTypeOK
  <1> DEFINE TypesInv == IInv /\ HookInv /\ SignInv /\ InboxInv /\ TallyInv
  <1>1. WInit => TypesInv
    <2> SUFFICES ASSUME WInit PROVE TypesInv
      OBVIOUS
    <2>1. Inbox(EmptyBag)
      BY DEF Inbox, IsABag, BagToSet, EmptyBag, SetToBag
    <2>2. InboxInv
      BY <2>1 DEF WInit, InboxInv
    <2>3. TallyInv
      BY DEF WInit, TallyInv
    <2> QED BY <2>2, <2>3, SignInit
  <1>2. TypesInv /\ [WNext]_wvars => TypesInv'
    BY SignedNext, InboxStep, TallyStep
  <1>3. TypesInv => WTypeOK
    BY DEF TallyInv, HookInv, HookTypes, SignInv, DispatchTypes, DispatchSigned, InboxInv, Inbox, WTypeOK
  <1> QED BY <1>1, <1>2, <1>3, PTL DEF WSpec

(***************************************************************************)
(* Payloads are never older than their event.  Followed from the commit,   *)
(* which writes the history row, through the handler's announcement and    *)
(* the dispatch to the payload; an expiry from its announcement, whose     *)
(* COMMIT then writes the row or fails.                                    *)
(***************************************************************************)
Happened(b, e) == \E j \in DOMAIN history[b] : history[b][j].toStatus = e

HandlerLate == \A r \in Requests : req[r].pc = "enqueue" => Happened(req[r].id, req[r].event)

\* An expiry of b was committed, is about to be, or failed.
Lapsing(b) == Happened(b, "EXPIRED") \/ rollbacks[b] > 0 \/ Uncommitted(b) # {}

\* What PayloadNotOlder says of a payload.
NotOlder(b, e, s) == Later(b, e, s) \/ (e = "EXPIRED" /\ (s = "RESERVED" \/ rollbacks[b] > 0))

DispatchLate(d) ==
  LET x == dispatch[d] IN
  x.pc # "idle" =>
     /\ Happened(x.id, x.event) \/ (x.event = "EXPIRED" /\ Lapsing(x.id))
     /\ x.pc = "post" => NotOlder(x.id, x.event, x.status)

LateInv == HandlerLate /\ (\A d \in Dispatches : DispatchLate(d)) /\ PayloadNotOlder

\* History rows stay where they are.
LEMMA RowsKept ==
  ASSUME IInv, [Next]_vars, NEW b \in DOMAIN bookings, NEW j \in DOMAIN history[b]
  PROVE  j \in DOMAIN history'[b] /\ history'[b][j] = history[b][j]
  <1> USE DEF IInv
  <1>0. {"CONFIRMED", "CANCELLED", "EXPIRED", "RESERVED"} \subseteq Status
    BY DEF Status
  <1>1. ASSUME NEW c \in DOMAIN bookings, NEW from \in Status, NEW to \in Status,
               NEW actor \in Users \cup {Null}, Changed(c, from, to, actor)
        PROVE  j \in DOMAIN history'[b] /\ history'[b][j] = history[b][j]
    BY <1>1, ChangedRow DEF NewRow
  <1>2. ASSUME NEW c \in BookingIds \ DOMAIN bookings, NEW row \in BookingRow, Created(c, row)
        PROVE  history'[b] = history[b]
    BY <1>2, CreatedRows
  <1> QED BY <1>0, <1>1, <1>2, TableStep

\* So what happened has happened for good.
LEMMA HappenedKept ==
  ASSUME IInv, [Next]_vars, NEW b \in DOMAIN bookings, NEW e
  PROVE  /\ Happened(b, e) => Happened(b, e)'
         /\ \A s : Later(b, e, s) => Later(b, e, s)'
  BY RowsKept DEF Happened, Later

\* A row appended to a history is its last.
LEMMA AppendedLast ==
  ASSUME IInv, NEW c \in DOMAIN bookings, NEW row,
         history' = [history EXCEPT ![c] = Append(@, row)]
  PROVE  \E j \in DOMAIN history'[c] : history'[c][j] = row
  <1> DEFINE h == history[c]
  <1>1. h \in Seq(HistoryRow) /\ c \in DOMAIN history
    BY DEF IInv, TypeOK
  <1>2. history'[c] = Append(h, row)
    BY <1>1
  <1> HIDE DEF h
  <1>3. Len(h) + 1 \in DOMAIN history'[c] /\ history'[c][Len(h) + 1] = row
    BY <1>1, <1>2
  <1> QED BY <1>3

\* An expiry that failed has failed for good.
LEMMA RollbacksKept ==
  ASSUME TallyInv, [WNext]_wvars, NEW b \in BookingIds, rollbacks[b] > 0
  PROVE  rollbacks'[b] > 0
  <1>1. CASE rollbacks' = rollbacks
    BY <1>1
  <1>2. ASSUME NEW w \in Workers, ExpiryRollsBack(w)
        PROVE  rollbacks'[b] > 0
    BY <1>2 DEF ExpiryRollsBack, TallyInv
  <1> QED BY <1>1, <1>2 DEF WNext, BookingStep, HandlerAnnounces, HandlerDies, ExpiryAnnounces,
          RegisterRead, RegisterUpdate, RegisterCreate, RegisterFails, SetHook, ReadHook,
          ReadBooking, Post, DispatchEnds, tally, hvars, wvars

\* A transaction that has announced an expiry stays open until it commits or fails.
LEMMA OpenUntilOver ==
  ASSUME IInv, TallyInv, [WNext]_wvars, NEW w \in Committing
  PROVE  \/ w \in Committing' /\ worker'[w] = worker[w]
         \/ ExpireCommit(w)
         \/ ExpiryRollsBack(w)
  <1>1. worker \in [Workers -> WorkerState] /\ w \in Workers /\ worker[w].pc = "commit"
    BY DEF IInv, TypeOK, Committing
  <1>2. CASE worker'[w] = worker[w]
    BY <1>1, <1>2 DEF Committing
  <1>3. ASSUME NEW v \in Workers, QuietExpiry(v) \/ ExpiryAnnounces(v) \/ ExpiryRollsBack(v),
               ~ ExpireCommit(w), ~ ExpiryRollsBack(w)
        PROVE  worker'[w] = worker[w]
    BY <1>1, <1>3 DEF QuietExpiry, ExpiryAnnounces, ExpiryRollsBack, PollStale, ExpireBody,
          ExpireCommit, ExpireSkip, ExpiryCrash, NextOfBatch
  <1>4. ASSUME NEW r \in Requests, QuietHandler(r) \/ HandlerAnnounces(r) \/ HandlerDies(r)
        PROVE  worker' = worker
    BY <1>4 DEF QuietHandler, HandlerAnnounces, HandlerDies, CreateRead, ConfirmRead,
          CancelReadBooking, CancelReadSlot, CreateCommit, ConfirmCommit, CancelCommit, Announce, Abort
  <1>5. ASSUME ~ \E v \in Workers : QuietExpiry(v) \/ ExpiryAnnounces(v) \/ ExpiryRollsBack(v),
               ~ \E r \in Requests : QuietHandler(r) \/ HandlerAnnounces(r) \/ HandlerDies(r)
        PROVE  worker' = worker
    BY <1>5 DEF WNext, BookingStep, Tick, RegisterRead, RegisterUpdate, RegisterCreate, RegisterFails,
          SetHook, ReadHook, ReadBooking, Post, DispatchEnds, vars, wvars
  <1> QED BY <1>2, <1>3, <1>4, <1>5

\* An expiry that was announced is about to be committed until it is, or fails.
LEMMA LapsingKept ==
  ASSUME IInv, TallyInv, [WNext]_wvars, NEW b \in DOMAIN bookings, Lapsing(b)
  PROVE  Lapsing(b)'
  <1>0. b \in BookingIds
    BY DEF IInv, TypeOK
  <1>1. CASE Happened(b, "EXPIRED")
    <2>1. Happened(b, "EXPIRED")'
      BY <1>1, BookingStepOf, HappenedKept
    <2> QED BY <2>1 DEF Lapsing, Happened
  <1>2. CASE rollbacks[b] > 0
    BY <1>0, <1>2, RollbacksKept DEF Lapsing
  <1>3. ASSUME NEW w \in Committing, Head(worker[w].batch) = b
        PROVE  Lapsing(b)'
    <2>1. CASE w \in Committing' /\ worker'[w] = worker[w]
      BY <1>3, <2>1 DEF Lapsing, Uncommitted
    <2>2. CASE ExpireCommit(w)
      <3> DEFINE row == [fromStatus |-> "RESERVED", toStatus |-> "EXPIRED", actorUserId |-> Null]
      <3>1. history' = [history EXCEPT ![b] = Append(@, row)] /\ row.toStatus = "EXPIRED"
        BY <1>3, <2>2 DEF ExpireCommit, appendStatusHistory
      <3> HIDE DEF row
      <3>2. \E j \in DOMAIN history'[b] : history'[b][j] = row
        BY <3>1, AppendedLast
      <3> QED BY <3>1, <3>2 DEF Lapsing, Happened
    <2>3. CASE ExpiryRollsBack(w)
      BY <1>0, <1>3, <2>3 DEF ExpiryRollsBack, Lapsing, TallyInv
    <2> QED BY <2>1, <2>2, <2>3, OpenUntilOver
  <1> QED BY <1>1, <1>2, <1>3 DEF Lapsing, Uncommitted

\* So what is said of a payload once stays true.
LEMMA NotOlderKept ==
  ASSUME IInv, TallyInv, [WNext]_wvars, NEW b \in DOMAIN bookings, NEW e, NEW s, NotOlder(b, e, s)
  PROVE  NotOlder(b, e, s)'
  <1>1. b \in BookingIds
    BY DEF IInv, TypeOK
  <1>2. Later(b, e, s) => Later(b, e, s)'
    BY BookingStepOf, HappenedKept
  <1>3. rollbacks[b] > 0 => rollbacks'[b] > 0
    BY <1>1, RollbacksKept
  <1> QED BY <1>2, <1>3 DEF NotOlder, Later

\* A handler announces what its transaction wrote.
LEMMA HandlerLateStep ==
  ASSUME IInv, HandlerLate, [Next]_vars
  PROVE  HandlerLate'
  <1> USE DEF IInv
  <1> SUFFICES ASSUME NEW r \in Requests, req'[r].pc = "enqueue"
               PROVE  \E j \in DOMAIN history'[req'[r].id] :
                        history'[req'[r].id][j].toStatus = req'[r].event
    BY DEF HandlerLate, Happened
  <1>0. req \in [Requests -> Request]
    BY DEF TypeOK
  <1>1. CASE req'[r] = req[r]
    <2>1. req[r].id \in DOMAIN bookings /\ Happened(req[r].id, req[r].event)
      BY <1>1 DEF HandlerLate, TypeOK
    <2> QED BY <1>1, <2>1, HappenedKept DEF Happened
  <1>2. CASE CreateCommit(r)
    <2>1. PICK b \in BookingIds \ DOMAIN bookings :
            /\ history' = Insert(history, b,
                 << [fromStatus |-> Null, toStatus |-> "RESERVED", actorUserId |-> req[r].user] >>)
            /\ req' = [req EXCEPT ![r] = [pc |-> "enqueue", id |-> b, event |-> "RESERVED"]]
      BY <1>2 DEF CreateCommit, Goto
    <2>2. history'[b] =
            << [fromStatus |-> Null, toStatus |-> "RESERVED", actorUserId |-> req[r].user] >>
      BY <2>1 DEF Insert
    <2>3. 1 \in DOMAIN history'[b] /\ history'[b][1].toStatus = "RESERVED"
      BY <2>2
    <2>4. req'[r].id = b /\ req'[r].event = "RESERVED"
      BY <1>0, <2>1
    <2> QED BY <2>3, <2>4
  <1>3. ASSUME NEW to, NEW row, row.toStatus = to,
               req' = [req EXCEPT ![r] = [pc |-> "enqueue", id |-> req[r].id, event |-> to]],
               req[r].id \in DOMAIN bookings,
               history' = [history EXCEPT ![req[r].id] = Append(@, row)]
        PROVE  \E j \in DOMAIN history'[req'[r].id] :
                 history'[req'[r].id][j].toStatus = req'[r].event
    <2> DEFINE h == history[req[r].id]
    <2>1. h \in Seq(HistoryRow) /\ history'[req[r].id] = Append(h, row)
      BY <1>3 DEF TypeOK
    <2> HIDE DEF h
    <2>2. /\ Len(h) + 1 \in DOMAIN history'[req[r].id]
          /\ history'[req[r].id][Len(h) + 1] = row
      BY <2>1
    <2>3. req'[r].id = req[r].id /\ req'[r].event = to
      BY <1>0, <1>3
    <2> QED BY <1>3, <2>2, <2>3
  <1>4. CASE ConfirmCommit(r)
    <2> DEFINE row == [fromStatus |-> req[r].from, toStatus |-> "CONFIRMED",
                       actorUserId |-> req[r].user]
    <2>1. /\ row.toStatus = "CONFIRMED"
          /\ req' = [req EXCEPT ![r] =
                       [pc |-> "enqueue", id |-> req[r].id, event |-> "CONFIRMED"]]
          /\ req[r].id \in DOMAIN bookings
          /\ history' = [history EXCEPT ![req[r].id] = Append(@, row)]
      BY <1>4 DEF ConfirmCommit, appendStatusHistory, Goto, TypeOK
    <2> HIDE DEF row
    <2> QED BY <1>3, <2>1
  <1>5. CASE CancelCommit(r)
    <2> DEFINE row == [fromStatus |-> req[r].from, toStatus |-> "CANCELLED",
                       actorUserId |-> req[r].user]
    <2>1. /\ row.toStatus = "CANCELLED"
          /\ req' = [req EXCEPT ![r] =
                       [pc |-> "enqueue", id |-> req[r].id, event |-> "CANCELLED"]]
          /\ req[r].id \in DOMAIN bookings
          /\ history' = [history EXCEPT ![req[r].id] = Append(@, row)]
      BY <1>5 DEF CancelCommit, appendStatusHistory, Goto, TypeOK
    <2> HIDE DEF row
    <2> QED BY <1>3, <2>1
  <1>6. CASE ~ (CreateCommit(r) \/ ConfirmCommit(r) \/ CancelCommit(r))
    <2>1. ASSUME NEW p \in Requests, Handler(p), p # r
          PROVE  req'[r] = req[r]
      BY <1>0, <2>1 DEF Handler, CreateRead, ConfirmRead, CancelReadBooking, CancelReadSlot,
              CreateCommit, ConfirmCommit, CancelCommit, Announce, Abort, Goto
    <2>2. ASSUME Handler(r)
          PROVE  req'[r].pc # "enqueue"
      BY <1>0, <1>6, <2>2 DEF Handler, CreateRead, ConfirmRead, CancelReadBooking, CancelReadSlot,
              Announce, Abort, Goto, Idle
    <2>3. ASSUME NEW w \in Workers, Expiry(w)
          PROVE  req' = req
      BY <2>3 DEF Expiry, PollStale, ExpireBody, ExpireCommit, ExpireSkip, ExpiryCrash
    <2>4. CASE Tick \/ UNCHANGED vars
      BY <1>1, <2>4 DEF Tick, vars
    <2> QED BY <1>1, <2>1, <2>2, <2>3, <2>4 DEF Next
  <1> QED BY <1>2, <1>4, <1>5, <1>6

\* A booking read for a payload has the status its history ends in.
LEMMA ReadLate ==
  ASSUME IInv, TrailComplete, NEW b \in DOMAIN bookings, NEW e, Happened(b, e)
  PROVE  Later(b, e, bookings[b].status)
  <1>1. PICK j \in DOMAIN history[b] : history[b][j].toStatus = e
    BY DEF Happened
  <1>2. /\ history[b] \in Seq(HistoryRow) /\ history[b] # << >>
        /\ history[b][Len(history[b])].toStatus = bookings[b].status
    BY DEF IInv, TypeOK, TrailComplete, TrailOf
  <1>3. j \in 1..Len(history[b]) /\ Len(history[b]) \in DOMAIN history[b] /\ j <= Len(history[b])
    BY <1>1, <1>2
  <1> QED BY <1>1, <1>2, <1>3 DEF Later

\* A dispatch reads the booking RESERVED, or with the status its history ends in.
LEMMA ReadNotOlder ==
  ASSUME IInv, TrailComplete, NEW b \in DOMAIN bookings, NEW e,
         Happened(b, e) \/ (e = "EXPIRED" /\ Lapsing(b))
  PROVE  NotOlder(b, e, bookings[b].status)
  <1>1. CASE Happened(b, e)
    BY <1>1, ReadLate DEF NotOlder
  <1>2. CASE e = "EXPIRED" /\ Uncommitted(b) # {}
    <2>1. bookings[b].status = "RESERVED"
      BY <1>2 DEF IInv, LocksHeld, Uncommitted
    <2> QED BY <1>2, <2>1 DEF NotOlder
  <1> QED BY <1>1, <1>2 DEF Lapsing, NotOlder

\* A dispatch that is as it was, or over, or carries on with the same event.
LEMMA DispatchLateStep ==
  ASSUME IInv, TrailComplete, HookInv, SignInv, TallyInv, LateInv, [WNext]_wvars,
         NEW d \in Dispatches
  PROVE  DispatchLate(d)'
  <1> DEFINE x == dispatch[d]
             y == dispatch'[d]
  <1>0. /\ dispatch \in [Dispatches -> DispatchState]
        /\ Idle.pc = "idle"
        /\ DispatchLate(d)
        /\ x.pc # "idle" => x.id \in DOMAIN bookings
    BY DEF SignInv, DispatchTypes, DispatchSigned, LateInv, Idle
  <1>1. CASE y = x
    <2>1. CASE x.pc = "idle"
      BY <1>1, <2>1 DEF DispatchLate
    <2>2. CASE x.pc # "idle"
      <3>0. PICK e : e = x.event
        OBVIOUS
      <3>1. PICK b \in DOMAIN bookings : b = x.id /\ e = x.event
        BY <1>0, <2>2, <3>0
      <3>2. (Happened(b, e) \/ (e = "EXPIRED" /\ Lapsing(b)))'
        <4>1. Happened(b, e) => Happened(b, e)'
          BY HappenedKept, BookingStepOf
        <4>2. Happened(b, e) \/ (e = "EXPIRED" /\ Lapsing(b))
          BY <1>0, <2>2, <3>1 DEF DispatchLate
        <4> QED BY <4>1, <4>2, LapsingKept DEF Happened
      <3>3. ASSUME x.pc = "post"
            PROVE  NotOlder(x.id, x.event, x.status)'
        <4>1. PICK s : s = x.status
          OBVIOUS
        <4>2. NotOlder(b, e, s)'
          BY <1>0, <3>1, <3>3, <4>1, NotOlderKept DEF DispatchLate
        <4> QED BY <1>1, <3>1, <4>1, <4>2 DEF NotOlder, Later
      <3>4. (Happened(x.id, x.event) \/ (x.event = "EXPIRED" /\ Lapsing(x.id)))'
        BY <1>1, <3>1, <3>2 DEF Happened, Lapsing, Uncommitted
      <3> QED BY <1>1, <3>3, <3>4 DEF DispatchLate
    <2> QED BY <2>1, <2>2
  <1>2. CASE y.pc = "idle"
    BY <1>2 DEF DispatchLate
  <1>3. ASSUME NEW r \in Requests, HandlerAnnounces(r)
        PROVE  DispatchLate(d)'
    <2>1. /\ history' = history
          /\ Happened(req[r].id, req[r].event)
          /\ enqueueBookingWebhook(bookings[req[r].id].tenantId, req[r].event, req[r].id)
      BY <1>3 DEF HandlerAnnounces, Announce, LateInv, HandlerLate
    <2>2. y = x \/ (y.pc = "hook" /\ y.id = req[r].id /\ y.event = req[r].event)
      BY <1>0, <2>1 DEF enqueueBookingWebhook
    <2> QED BY <1>1, <2>1, <2>2 DEF DispatchLate, Happened
  <1>4. ASSUME NEW w \in Workers, ExpiryAnnounces(w)
        PROVE  DispatchLate(d)'
    <2> DEFINE b == Head(worker[w].batch)
    <2>1. y = x \/ (y.pc = "hook" /\ y.event = "EXPIRED" /\ y.id = b)
      BY <1>0, <1>4 DEF ExpiryAnnounces, enqueueBookingWebhook
    <2>2. /\ worker \in [Workers -> WorkerState]
          /\ worker' = [worker EXCEPT ![w].pc = "commit"]
      BY <1>4 DEF ExpiryAnnounces, ExpireBody, IInv, TypeOK
    <2>3. w \in Committing' /\ Head(worker'[w].batch) = b
      BY <2>2 DEF Committing, WorkerState
    <2> HIDE DEF b
    <2> QED BY <1>1, <2>1, <2>3 DEF DispatchLate, Lapsing, Uncommitted
  <1>5. CASE ReadHook(d)
    <2>1. /\ x.pc = "hook" /\ y.pc = "booking" /\ y.id = x.id /\ y.event = x.event
          /\ UNCHANGED <<history, worker, rollbacks>>
      BY <1>0, <1>5 DEF ReadHook, vars, tally
    <2> QED BY <1>0, <2>1 DEF DispatchLate, Happened, Lapsing, Uncommitted, Committing
  <1>6. CASE ReadBooking(d)
    <2>1. /\ x.pc = "booking" /\ y.pc = "post" /\ y.id = x.id /\ y.event = x.event
          /\ y.status = bookings[x.id].status
          /\ UNCHANGED <<history, worker, rollbacks>>
      BY <1>0, <1>6 DEF ReadBooking, vars, tally
    <2>2. NotOlder(x.id, x.event, y.status)
      BY <1>0, <2>1, ReadNotOlder DEF DispatchLate
    <2> HIDE DEF x, y
    <2> QED BY <1>0, <2>1, <2>2 DEF DispatchLate, Happened, Lapsing, Uncommitted, Committing,
            NotOlder, Later, x, y
  <1>7. CASE Post(d) \/ DispatchEnds(d)
    BY <1>0, <1>2, <1>7 DEF Post, DispatchEnds, DispatchOver
  <1>8. ASSUME NEW c \in Dispatches, c # d,
               ReadHook(c) \/ ReadBooking(c) \/ Post(c) \/ DispatchEnds(c)
        PROVE  y = x
    BY <1>0, <1>8 DEF ReadHook, ReadBooking, Post, DispatchEnds, DispatchOver
  <1>9. ASSUME \/ BookingStep
               \/ \E r \in Requests : HandlerDies(r)
               \/ \E w \in Workers : ExpiryRollsBack(w)
               \/ \E g \in Registrars : \/ \E t \in Tenants : RegisterRead(g, t)
                                        \/ RegisterUpdate(g)
                                        \/ RegisterCreate(g)
                                        \/ RegisterFails(g)
               \/ UNCHANGED wvars
        PROVE  y = x
    BY <1>9 DEF BookingStep, HandlerDies, ExpiryRollsBack, RegisterRead, RegisterUpdate, RegisterCreate, RegisterFails, SetHook,
                hvars, wvars
  <1> QED BY <1>1, <1>3, <1>4, <1>5, <1>6, <1>7, <1>8, <1>9 DEF WNext

\* What arrived stays late enough, and what a dispatch posts is as it read it.
LEMMA PayloadLateStep ==
  ASSUME IInv, HookInv, SignInv, TallyInv, LateInv, [WNext]_wvars
  PROVE  PayloadNotOlder'
  <1>1. ASSUME NEW t \in Tenants, NEW p \in DOMAIN received[t]
        PROVE  NotOlder(p.id, p.event, p.status)'
    <2>1. p.id \in DOMAIN bookings /\ NotOlder(p.id, p.event, p.status)
      BY DEF SignInv, PayloadsSigned, LateInv, PayloadNotOlder, NotOlder, BagToSet
    <2> QED BY <2>1, NotOlderKept
  <1>2. ASSUME NEW t \in Tenants, NEW p \in DOMAIN received'[t]
        PROVE  NotOlder(p.id, p.event, p.status)'
    <2>1. CASE p \in DOMAIN received[t]
      BY <1>1, <2>1
    <2>2. ASSUME NEW d \in Dispatches, Post(d), p \notin DOMAIN received[t]
          PROVE  NotOlder(p.id, p.event, p.status)'
      <3> DEFINE x == dispatch[d]
                 payload == [event |-> x.event, id |-> x.id, status |-> x.status,
                             secret |-> x.secret]
      <3>1. /\ x.pc = "post" /\ UNCHANGED <<history, rollbacks>>
            /\ DOMAIN received = Tenants
            /\ received' = [received EXCEPT ![x.tenant] = BagAdd(@, payload)]
        BY <2>2 DEF Post, vars, tally, SignInv, DispatchTypes
      <3>2. NotOlder(x.id, x.event, x.status)
        BY <3>1 DEF LateInv, DispatchLate
      <3>3. payload.event = x.event /\ payload.id = x.id /\ payload.status = x.status
        OBVIOUS
      <3> HIDE DEF payload, x
      <3>4. p = payload
        BY <1>2, <2>2, <3>1 DEF BagAdd
      <3> QED BY <3>1, <3>2, <3>3, <3>4 DEF NotOlder, Later
    <2>3. CASE received' = received
      BY <1>2, <2>1, <2>3
    <2> QED BY <2>1, <2>2, <2>3 DEF WNext, BookingStep, HandlerAnnounces, HandlerDies,
            ExpiryAnnounces, ExpiryRollsBack, RegisterRead, RegisterUpdate, RegisterCreate,
            RegisterFails, SetHook, ReadHook, ReadBooking, DispatchEnds, hvars, wvars
  <1> QED BY <1>2 DEF PayloadNotOlder, NotOlder, BagToSet

\* However late a dispatch reads the booking, the payload shows the status its event led
\* to or one that came after it; for an expiry, whose dispatch starts before the COMMIT, the
\* RESERVED from before it too, and nothing is said once an expiry of the booking failed.
THEOREM PayloadsNotOlder == WSpec => []PayloadNotOlder
  <1> DEFINE All == IInv /\ TrailComplete /\ HookInv /\ SignInv /\ TallyInv /\ LateInv
  <1>1. WInit => All
    <2> SUFFICES ASSUME WInit PROVE All
      OBVIOUS
    <2>1. TrailComplete
      BY DEF WInit, Init, EmptyTable, TrailComplete
    <2>2. LateInv
      BY DEF WInit, Init, LateInv, HandlerLate, DispatchLate, PayloadNotOlder, Idle, EmptyBag,
             SetToBag, BagToSet
    <2>3. TallyInv
      BY DEF WInit, TallyInv
    <2> QED BY <2>1, <2>2, <2>3, SignInit
  <1>2. All /\ [WNext]_wvars => All'
    <2> SUFFICES ASSUME All, [WNext]_wvars PROVE All'
      OBVIOUS
    <2>1. IInv' /\ HookInv' /\ SignInv' /\ TallyInv'
      BY SignedNext, TallyStep
    <2>2. TrailComplete' /\ HandlerLate'
      BY BookingStepOf, TrailStep, HandlerLateStep DEF LateInv
    <2>3. (\A d \in Dispatches : DispatchLate(d)') /\ PayloadNotOlder'
      BY DispatchLateStep, PayloadLateStep
    <2> QED BY <2>1, <2>2, <2>3 DEF LateInv
  <1>3. All => PayloadNotOlder
    BY DEF LateInv
  <1> QED BY <1>1, <1>2, <1>3, PTL DEF WSpec

\* With webhooks too, a booking and all who act on it stay in one tenant.
THEOREM WebhookTenants == WSpec => []TenantIsolation
  <1> QED BY WebhooksKeepBookings, TenantsIsolated, PTL

(***************************************************************************)
(* Announcements.  Each is counted from the history row it is about:       *)
(* the row is written with the handler's duty to announce it, which        *)
(* becomes a dispatch, which becomes a payload, and any of them may be     *)
(* lost.  An expiry is announced first: until its row is written, or for   *)
(* good if it fails, the attempt stands for the row.  Counted for bookings *)
(* that do not exist too, where nothing may be underway.                   *)
(***************************************************************************)
\* The rows an announcement of e for b may be about, and what may stand for one.
RowsAbout(b, e) == IF b \in DOMAIN bookings THEN Occurred(b, e) ELSE {}

Pending(b, e) == IF e = "EXPIRED" THEN Uncommitted(b) ELSE {}

Failed(b, e) == IF e = "EXPIRED" THEN rollbacks[b] ELSE 0

Balanced(A, U, N, l, O, W, f) ==
  /\ IsFiniteSet(A) /\ IsFiniteSet(U) /\ IsFiniteSet(N) /\ IsFiniteSet(O) /\ IsFiniteSet(W)
  /\ l \in Nat /\ f \in Nat
  /\ Cardinality(A) + Cardinality(U) + Cardinality(N) + l = Cardinality(O) + Cardinality(W) + f

AnnouncedFor(b, e) ==
  Balanced(Copies(b, e), Underway(b, e), Unannounced(b, e), lost[b][e],
           RowsAbout(b, e), Pending(b, e), Failed(b, e))

AnnounceInv == \A b \in BookingIds, e \in Events : AnnouncedFor(b, e)

\* One element more, one element less.
LEMMA OneMore ==
  ASSUME NEW S, IsFiniteSet(S), NEW x, x \notin S
  PROVE  /\ IsFiniteSet(S \cup {x})
         /\ Cardinality(S) \in Nat /\ Cardinality(S \cup {x}) = Cardinality(S) + 1
  BY FS_AddElement, FS_CardinalityType

LEMMA OneLess ==
  ASSUME NEW S, IsFiniteSet(S), NEW x \in S
  PROVE  /\ IsFiniteSet(S \ {x})
         /\ Cardinality(S) \in Nat /\ Cardinality(S \ {x}) \in Nat
         /\ Cardinality(S \ {x}) = Cardinality(S) - 1
  BY FS_RemoveElement, FS_CardinalityType

\* What a step can do to the balance of one event of one booking: a row is committed with
\* its duty, a duty becomes a dispatch, a dispatch becomes a payload, a duty or a dispatch is
\* lost, an expiry is announced, committed, or fails.
LEMMA BalanceMoves ==
  ASSUME NEW A, NEW U, NEW N, NEW l, NEW O, NEW W, NEW f, Balanced(A, U, N, l, O, W, f)
  PROVE  /\ \A r, k : r \notin N /\ k \notin O => Balanced(A, U, N \cup {r}, l, O \cup {k}, W, f)
         /\ \A r, d : r \in N /\ d \notin U => Balanced(A, U \cup {d}, N \ {r}, l, O, W, f)
         /\ \A d, x : d \in U /\ x \notin A => Balanced(A \cup {x}, U \ {d}, N, l, O, W, f)
         /\ \A r : r \in N => Balanced(A, U, N \ {r}, l + 1, O, W, f)
         /\ \A d : d \in U => Balanced(A, U \ {d}, N, l + 1, O, W, f)
         /\ \A d, w : d \notin U /\ w \notin W => Balanced(A, U \cup {d}, N, l, O, W \cup {w}, f)
         /\ \A w, k : w \in W /\ k \notin O => Balanced(A, U, N, l, O \cup {k}, W \ {w}, f)
         /\ \A w : w \in W => Balanced(A, U, N, l, O, W \ {w}, f + 1)
  <1>0. /\ IsFiniteSet(A) /\ IsFiniteSet(U) /\ IsFiniteSet(N) /\ IsFiniteSet(O) /\ IsFiniteSet(W)
        /\ l \in Nat /\ f \in Nat
        /\ Cardinality(A) + Cardinality(U) + Cardinality(N) + l = Cardinality(O) + Cardinality(W) + f
        /\ Cardinality(A) \in Nat /\ Cardinality(U) \in Nat /\ Cardinality(N) \in Nat
        /\ Cardinality(O) \in Nat /\ Cardinality(W) \in Nat
    BY FS_CardinalityType DEF Balanced
  <1>1. ASSUME NEW r, NEW k, r \notin N, k \notin O
        PROVE  Balanced(A, U, N \cup {r}, l, O \cup {k}, W, f)
    <2>1. IsFiniteSet(N \cup {r}) /\ Cardinality(N \cup {r}) = Cardinality(N) + 1
      BY <1>0, <1>1, OneMore
    <2>2. IsFiniteSet(O \cup {k}) /\ Cardinality(O \cup {k}) = Cardinality(O) + 1
      BY <1>0, <1>1, OneMore
    <2> QED BY <1>0, <2>1, <2>2 DEF Balanced
  <1>2. ASSUME NEW r \in N, NEW d, d \notin U
        PROVE  Balanced(A, U \cup {d}, N \ {r}, l, O, W, f)
    <2>1. IsFiniteSet(U \cup {d}) /\ Cardinality(U \cup {d}) = Cardinality(U) + 1
      BY <1>0, <1>2, OneMore
    <2>2. IsFiniteSet(N \ {r}) /\ Cardinality(N \ {r}) = Cardinality(N) - 1
      BY <1>0, <1>2, OneLess
    <2> QED BY <1>0, <2>1, <2>2 DEF Balanced
  <1>3. ASSUME NEW d \in U, NEW x, x \notin A
        PROVE  Balanced(A \cup {x}, U \ {d}, N, l, O, W, f)
    <2>1. IsFiniteSet(A \cup {x}) /\ Cardinality(A \cup {x}) = Cardinality(A) + 1
      BY <1>0, <1>3, OneMore
    <2>2. IsFiniteSet(U \ {d}) /\ Cardinality(U \ {d}) = Cardinality(U) - 1
      BY <1>0, <1>3, OneLess
    <2> QED BY <1>0, <2>1, <2>2 DEF Balanced
  <1>4. ASSUME NEW r \in N
        PROVE  Balanced(A, U, N \ {r}, l + 1, O, W, f)
    <2>1. IsFiniteSet(N \ {r}) /\ Cardinality(N \ {r}) = Cardinality(N) - 1
      BY <1>0, <1>4, OneLess
    <2> QED BY <1>0, <2>1 DEF Balanced
  <1>5. ASSUME NEW d \in U
        PROVE  Balanced(A, U \ {d}, N, l + 1, O, W, f)
    <2>1. IsFiniteSet(U \ {d}) /\ Cardinality(U \ {d}) = Cardinality(U) - 1
      BY <1>0, <1>5, OneLess
    <2> QED BY <1>0, <2>1 DEF Balanced
  <1>6. ASSUME NEW d, NEW w, d \notin U, w \notin W
        PROVE  Balanced(A, U \cup {d}, N, l, O, W \cup {w}, f)
    <2>1. IsFiniteSet(U \cup {d}) /\ Cardinality(U \cup {d}) = Cardinality(U) + 1
      BY <1>0, <1>6, OneMore
    <2>2. IsFiniteSet(W \cup {w}) /\ Cardinality(W \cup {w}) = Cardinality(W) + 1
      BY <1>0, <1>6, OneMore
    <2> QED BY <1>0, <2>1, <2>2 DEF Balanced
  <1>7. ASSUME NEW w \in W, NEW k, k \notin O
        PROVE  Balanced(A, U, N, l, O \cup {k}, W \ {w}, f)
    <2>1. IsFiniteSet(W \ {w}) /\ Cardinality(W \ {w}) = Cardinality(W) - 1
      BY <1>0, <1>7, OneLess
    <2>2. IsFiniteSet(O \cup {k}) /\ Cardinality(O \cup {k}) = Cardinality(O) + 1
      BY <1>0, <1>7, OneMore
    <2> QED BY <1>0, <2>1, <2>2 DEF Balanced
  <1>8. ASSUME NEW w \in W
        PROVE  Balanced(A, U, N, l, O, W \ {w}, f + 1)
    <2>1. IsFiniteSet(W \ {w}) /\ Cardinality(W \ {w}) = Cardinality(W) - 1
      BY <1>0, <1>8, OneLess
    <2> QED BY <1>0, <2>1 DEF Balanced
  <1> QED BY <1>1, <1>2, <1>3, <1>4, <1>5, <1>6, <1>7, <1>8

Copy(x, b, e) ==
  \E t \in Tenants : \E p \in DOMAIN received[t] : \E k \in 1..received[t][p] :
     p.event = e /\ p.id = b /\ x = <<t, p, k>>

LEMMA CopiesUnfold ==
  ASSUME NEW R, NEW b, NEW e, NEW x
  PROVE  x \in UNION {UNION {{<<t, p, k>> : k \in 1..R[t][p]} :
                  p \in {p \in DOMAIN R[t] : p.event = e /\ p.id = b}} : t \in Tenants}
         <=> \E t \in Tenants : \E p \in DOMAIN R[t] : \E k \in 1..R[t][p] :
                p.event = e /\ p.id = b /\ x = <<t, p, k>>
  <1> DEFINE about(t) == {p \in DOMAIN R[t] : p.event = e /\ p.id = b}
             copies(t, p) == {<<t, p, k>> : k \in 1..R[t][p]}
             at(t) == UNION {copies(t, p) : p \in about(t)}
  <1>1. \A t, p : x \in copies(t, p) <=> \E k \in 1..R[t][p] : x = <<t, p, k>>
    OBVIOUS
  <1>2. \A t, p : p \in about(t) <=> p \in DOMAIN R[t] /\ p.event = e /\ p.id = b
    OBVIOUS
  <1>3. \A t : x \in at(t) <=> \E p \in about(t) : x \in copies(t, p)
    <2> HIDE DEF about, copies
    <2> QED OBVIOUS
  <1>4. x \in UNION {at(t) : t \in Tenants} <=> \E t \in Tenants : x \in at(t)
    <2> HIDE DEF at
    <2> QED OBVIOUS
  <1>5. x \in UNION {at(t) : t \in Tenants}
         <=> \E t \in Tenants : \E p \in DOMAIN R[t] : \E k \in 1..R[t][p] :
                p.event = e /\ p.id = b /\ x = <<t, p, k>>
    <2> HIDE DEF at, about, copies
    <2> QED BY <1>1, <1>2, <1>3, <1>4
  <1> QED BY <1>5

LEMMA CopiesAre ==
  ASSUME NEW b, NEW e, NEW x
  PROVE  x \in Copies(b, e) <=> Copy(x, b, e)
  BY CopiesUnfold DEF Copies, Copy

LEMMA CopiesAreNext ==
  ASSUME NEW b, NEW e, NEW x
  PROVE  x \in Copies(b, e)' <=> Copy(x, b, e)'
  BY CopiesUnfold DEF Copies, Copy

\* A payload more is a copy more, of its own event and booking.
LEMMA CopyAdded ==
  ASSUME NEW t \in Tenants, NEW q, InboxInv,
         received'[t] = BagAdd(received[t], q),
         \A u \in Tenants : u # t => received'[u] = received[u]
  PROVE  \E y : /\ y \notin Copies(q.id, q.event)
                /\ \A c, event : Copies(c, event)' = IF q.event = event /\ q.id = c
                                   THEN Copies(c, event) \cup {y} ELSE Copies(c, event)
  <1> DEFINE n == IF q \in DOMAIN received[t] THEN received[t][q] + 1 ELSE 1
  <1>0. /\ \A p \in DOMAIN received[t] : received[t][p] \in Nat
        /\ n \in Nat /\ n > 0
        /\ \A k : k \in 1..n <=> (k = n \/ (q \in DOMAIN received[t] /\ k \in 1..received[t][q]))
    BY DEF InboxInv, Inbox, IsABag
  <1>1. \A u \in Tenants : u # t => received'[u] = received[u]
    OBVIOUS
  <1>2. /\ DOMAIN received'[t] = DOMAIN received[t] \cup {q}
        /\ received'[t][q] = n
        /\ \A p \in DOMAIN received[t] : p # q => received'[t][p] = received[t][p]
    BY DEF BagAdd
  <1>3. ~ \E k \in 1..received[t][q] : q \in DOMAIN received[t] /\ k = n
    BY <1>0
  <1> HIDE DEF n
  <1>4. <<t, q, n>> \notin Copies(q.id, q.event)
    <2> SUFFICES ASSUME Copy(<<t, q, n>>, q.id, q.event) PROVE FALSE
      BY CopiesAre
    <2> QED BY <1>3 DEF Copy
  <1>5. ASSUME NEW b, NEW e, NEW x
        PROVE  Copy(x, b, e)' <=> Copy(x, b, e) \/ (q.event = e /\ q.id = b /\ x = <<t, q, n>>)
    <2>1. ASSUME NEW u \in Tenants, NEW p \in DOMAIN received'[u], NEW k \in 1..received'[u][p],
                 p.event = e, p.id = b, x = <<u, p, k>>
          PROVE  Copy(x, b, e) \/ (q.event = e /\ q.id = b /\ x = <<t, q, n>>)
      <3>1. CASE u # t \/ p # q
        <4>1. p \in DOMAIN received[u] /\ k \in 1..received[u][p]
          BY <1>1, <1>2, <2>1, <3>1
        <4> QED BY <2>1, <4>1 DEF Copy
      <3>2. CASE u = t /\ p = q
        <4>1. k = n \/ (q \in DOMAIN received[t] /\ k \in 1..received[t][q])
          BY <1>0, <1>2, <2>1, <3>2
        <4> QED BY <2>1, <3>2, <4>1 DEF Copy
      <3> QED BY <3>1, <3>2
    <2>2. ASSUME NEW u \in Tenants, NEW p \in DOMAIN received[u], NEW k \in 1..received[u][p],
                 p.event = e, p.id = b, x = <<u, p, k>>
          PROVE  Copy(x, b, e)'
      <3>1. p \in DOMAIN received'[u] /\ k \in 1..received'[u][p]
        <4>1. CASE u # t
          BY <1>1, <4>1
        <4>2. CASE u = t /\ p # q
          BY <1>2, <4>2
        <4>3. CASE u = t /\ p = q
          BY <1>0, <1>2, <4>3
        <4> QED BY <4>1, <4>2, <4>3
      <3> QED BY <2>2, <3>1 DEF Copy
    <2>3. ASSUME q.event = e, q.id = b, x = <<t, q, n>>
          PROVE  Copy(x, b, e)'
      <3>1. q \in DOMAIN received'[t] /\ n \in 1..received'[t][q]
        BY <1>0, <1>2
      <3> QED BY <2>3, <3>1 DEF Copy
    <2> QED BY <2>1, <2>2, <2>3 DEF Copy
  <1>6. \A b, e : Copies(b, e)' = IF q.event = e /\ q.id = b
                                 THEN Copies(b, e) \cup {<<t, q, n>>} ELSE Copies(b, e)
    <2> SUFFICES ASSUME NEW b, NEW e
                 PROVE  Copies(b, e)' = IF q.event = e /\ q.id = b
                                        THEN Copies(b, e) \cup {<<t, q, n>>} ELSE Copies(b, e)
      OBVIOUS
    <2>1. ASSUME NEW x
          PROVE  x \in Copies(b, e)' <=>
                   x \in Copies(b, e) \/ (q.event = e /\ q.id = b /\ x = <<t, q, n>>)
      BY <1>5, CopiesAre, CopiesAreNext
    <2> QED BY <2>1
  <1> QED BY <1>4, <1>6

\* Nothing moves between rows, duties, dispatches and payloads.
LEMMA AnnounceSame ==
  ASSUME AnnounceInv, NEW b \in BookingIds, NEW e \in Events,
         Copies(b, e)' = Copies(b, e), Underway(b, e)' = Underway(b, e),
         Unannounced(b, e)' = Unannounced(b, e), lost'[b][e] = lost[b][e],
         RowsAbout(b, e)' = RowsAbout(b, e), Pending(b, e)' = Pending(b, e),
         Failed(b, e)' = Failed(b, e)
  PROVE  AnnouncedFor(b, e)'
  <1>1. Balanced(Copies(b, e), Underway(b, e), Unannounced(b, e), lost[b][e],
                 RowsAbout(b, e), Pending(b, e), Failed(b, e))
    BY DEF AnnounceInv, AnnouncedFor
  <1>2. Balanced(Copies(b, e)', Underway(b, e)', Unannounced(b, e)', lost'[b][e],
                 RowsAbout(b, e)', Pending(b, e)', Failed(b, e)')
    BY <1>1
  <1> QED BY <1>2 DEF AnnouncedFor, Balanced

\* What the counts depend on.
LEMMA CountsOf ==
  ASSUME NEW b, NEW e
  PROVE  /\ received' = received => Copies(b, e)' = Copies(b, e)
         /\ dispatch' = dispatch => Underway(b, e)' = Underway(b, e)
         /\ req' = req => Unannounced(b, e)' = Unannounced(b, e)
         /\ (bookings' = bookings /\ history' = history) => RowsAbout(b, e)' = RowsAbout(b, e)
         /\ worker' = worker => Pending(b, e)' = Pending(b, e)
         /\ rollbacks' = rollbacks => Failed(b, e)' = Failed(b, e)
  <1>1. received' = received => Copies(b, e)' = Copies(b, e)
    BY DEF Copies
  <1>2. dispatch' = dispatch => Underway(b, e)' = Underway(b, e)
    BY DEF Underway
  <1>3. req' = req => Unannounced(b, e)' = Unannounced(b, e)
    BY DEF Unannounced
  <1>4. (bookings' = bookings /\ history' = history) => RowsAbout(b, e)' = RowsAbout(b, e)
    BY DEF RowsAbout, Occurred
  <1>5. worker' = worker => Pending(b, e)' = Pending(b, e)
    BY DEF Pending, Uncommitted, Committing
  <1>6. rollbacks' = rollbacks => Failed(b, e)' = Failed(b, e)
    BY DEF Failed
  <1> QED BY <1>1, <1>2, <1>3, <1>4, <1>5, <1>6

\* A step that writes row k of booking c's timeline, a row about status to, and no other row.
RowWritten(c, to, k) ==
  /\ k \notin RowsAbout(c, to)
  /\ \A b, e : RowsAbout(b, e)' = IF b = c /\ e = to THEN RowsAbout(b, e) \cup {k}
                                                     ELSE RowsAbout(b, e)

\* The row a creation, and the row any later change, adds to the rows about its event.
LEMMA RowCreated ==
  ASSUME IInv, NEW c \in BookingIds \ DOMAIN bookings, NEW actor,
         history' = Insert(history, c,
           << [fromStatus |-> Null, toStatus |-> "RESERVED", actorUserId |-> actor] >>),
         DOMAIN bookings' = DOMAIN bookings \cup {c}
  PROVE  RowWritten(c, "RESERVED", 1)
  <1>1. DOMAIN history = DOMAIN bookings
    BY DEF IInv, TypeOK
  <1>2. /\ history'[c] = << [fromStatus |-> Null, toStatus |-> "RESERVED", actorUserId |-> actor] >>
        /\ \A b \in DOMAIN bookings : history'[b] = history[b]
    BY <1>1 DEF Insert
  <1>3. DOMAIN history'[c] = {1} /\ history'[c][1].toStatus = "RESERVED"
    BY <1>2
  <1>0. 1 \notin RowsAbout(c, "RESERVED")
    BY DEF RowsAbout
  <1> SUFFICES ASSUME NEW b, NEW e
               PROVE  RowsAbout(b, e)' = IF b = c /\ e = "RESERVED"
                                         THEN RowsAbout(b, e) \cup {1} ELSE RowsAbout(b, e)
    BY <1>0 DEF RowWritten
  <1>4. CASE b = c
    <2>1. Occurred(b, e)' = IF e = "RESERVED" THEN {1} ELSE {}
      BY <1>3, <1>4 DEF Occurred
    <2> QED BY <1>4, <2>1 DEF RowsAbout
  <1>5. CASE b # c
    BY <1>2, <1>5 DEF RowsAbout, Occurred
  <1> QED BY <1>4, <1>5

LEMMA RowAppended ==
  ASSUME IInv, NEW c \in DOMAIN bookings, NEW row,
         history' = [history EXCEPT ![c] = Append(@, row)],
         DOMAIN bookings' = DOMAIN bookings
  PROVE  \E k : RowWritten(c, row.toStatus, k)
  <1> DEFINE h == history[c]
             k == Len(h) + 1
  <1>1. h \in Seq(HistoryRow) /\ DOMAIN history = DOMAIN bookings
    BY DEF IInv, TypeOK
  <1>2. history'[c] = Append(h, row) /\ \A b \in DOMAIN bookings : b # c => history'[b] = history[b]
    BY <1>1
  <1> HIDE DEF h
  <1>3. /\ DOMAIN history'[c] = DOMAIN h \cup {k} /\ k \notin DOMAIN h
        /\ history'[c][k] = row
        /\ \A j \in DOMAIN h : history'[c][j] = h[j]
    BY <1>1, <1>2
  <1> HIDE DEF k
  <1>4. ASSUME NEW b, NEW e
        PROVE  RowsAbout(b, e)' = IF b = c /\ e = row.toStatus
                                  THEN RowsAbout(b, e) \cup {k} ELSE RowsAbout(b, e)
    <2>1. CASE b = c
      <3>1. Occurred(b, e)' = IF e = row.toStatus THEN Occurred(b, e) \cup {k} ELSE Occurred(b, e)
        BY <1>3, <2>1 DEF Occurred, h
      <3> QED BY <2>1, <3>1 DEF RowsAbout
    <2>2. CASE b # c
      BY <1>2, <2>2 DEF RowsAbout, Occurred
    <2> QED BY <2>1, <2>2
  <1>5. k \notin RowsAbout(c, row.toStatus)
    BY <1>3 DEF RowsAbout, Occurred, h
  <1>6. RowWritten(c, row.toStatus, k)
    BY <1>4, <1>5 DEF RowWritten
  <1> QED BY <1>6

\* A commit that leaves its handler an announcement to make and writes the row it is about.
LEMMA AnnounceCommit ==
  ASSUME AnnounceInv, UNCHANGED hvars, UNCHANGED worker, req \in [Requests -> Request],
         NEW r \in Requests, req[r].pc # "enqueue", NEW c, NEW to, NEW k,
         req' = [req EXCEPT ![r] = [pc |-> "enqueue", id |-> c, event |-> to]],
         RowWritten(c, to, k),
         NEW b \in BookingIds, NEW e \in Events
  PROVE  AnnouncedFor(b, e)'
  <1>1. /\ Copies(b, e)' = Copies(b, e) /\ Underway(b, e)' = Underway(b, e)
        /\ Pending(b, e)' = Pending(b, e) /\ Failed(b, e)' = Failed(b, e) /\ lost' = lost
    BY CountsOf DEF hvars, tally
  <1>2. /\ k \notin RowsAbout(c, to)
        /\ RowsAbout(b, e)' = IF b = c /\ e = to THEN RowsAbout(b, e) \cup {k}
                                                ELSE RowsAbout(b, e)
    BY DEF RowWritten
  <1>3. CASE b = c /\ e = to
    <2>1. Unannounced(b, e)' = Unannounced(b, e) \cup {r} /\ r \notin Unannounced(b, e)
      BY <1>3 DEF Unannounced
    <2>2. Balanced(Copies(b, e), Underway(b, e), Unannounced(b, e) \cup {r}, lost[b][e],
                   RowsAbout(b, e) \cup {k}, Pending(b, e), Failed(b, e))
      BY <1>3, <1>2, <2>1, BalanceMoves DEF AnnounceInv, AnnouncedFor
    <2>3. Balanced(Copies(b, e)', Underway(b, e)', Unannounced(b, e)', lost'[b][e],
                   RowsAbout(b, e)', Pending(b, e)', Failed(b, e)')
      BY <1>1, <1>3, <1>2, <2>1, <2>2
    <2> QED BY <2>3 DEF AnnouncedFor, Balanced
  <1>4. CASE ~ (b = c /\ e = to)
    <2>1. Unannounced(b, e)' = Unannounced(b, e)
      BY <1>4 DEF Unannounced
    <2> QED BY <1>1, <1>4, <1>2, <2>1, AnnounceSame
  <1> QED BY <1>3, <1>4

\* A quiet step of a handler leaves an announcement to make only by a commit.
LEMMA AnnounceHandler ==
  ASSUME IInv, AnnounceInv, NEW r \in Requests, QuietHandler(r), UNCHANGED hvars,
         NEW b \in BookingIds, NEW e \in Events
  PROVE  AnnouncedFor(b, e)'
  <1>1. /\ req \in [Requests -> Request]
        /\ bookings \in [DOMAIN bookings -> BookingRow]
        /\ Idle.pc = "idle"
    BY DEF IInv, TypeOK, Idle
  <1>2. CASE CreateCommit(r)
    <2>1. PICK c \in BookingIds \ DOMAIN bookings :
            /\ history' = Insert(history, c,
                 << [fromStatus |-> Null, toStatus |-> "RESERVED", actorUserId |-> req[r].user] >>)
            /\ req' = [req EXCEPT ![r] = [pc |-> "enqueue", id |-> c, event |-> "RESERVED"]]
            /\ DOMAIN bookings' = DOMAIN bookings \cup {c}
      BY <1>2 DEF CreateCommit, Goto, Insert
    <2>2. req[r].pc = "create" /\ UNCHANGED worker
      BY <1>2 DEF CreateCommit
    <2>3. RowWritten(c, "RESERVED", 1)
      BY <2>1, RowCreated
    <2>4. req[r].pc # "enqueue"
      BY <2>2
    <2> QED BY <1>1, <2>1, <2>2, <2>3, <2>4, AnnounceCommit
  <1>3. ASSUME NEW c \in DOMAIN bookings, NEW row, UNCHANGED worker, req[r].pc # "enqueue",
               history' = [history EXCEPT ![c] = Append(@, row)],
               DOMAIN bookings' = DOMAIN bookings,
               req' = [req EXCEPT ![r] = [pc |-> "enqueue", id |-> c, event |-> row.toStatus]]
        PROVE  AnnouncedFor(b, e)'
    <2>1. PICK k : RowWritten(c, row.toStatus, k)
      BY <1>3, RowAppended
    <2>2. PICK to : to = row.toStatus
      OBVIOUS
    <2>3. /\ req[r].pc # "enqueue" /\ UNCHANGED worker
          /\ req' = [req EXCEPT ![r] = [pc |-> "enqueue", id |-> c, event |-> to]]
          /\ RowWritten(c, to, k)
      BY <1>3, <2>1, <2>2
    <2> QED BY <1>1, <2>3, AnnounceCommit
  <1>4. CASE ConfirmCommit(r)
    <2> DEFINE row == [fromStatus |-> req[r].from, toStatus |-> "CONFIRMED",
                       actorUserId |-> req[r].user]
    <2>1. /\ row.toStatus = "CONFIRMED"
          /\ req' = [req EXCEPT ![r] =
                       [pc |-> "enqueue", id |-> req[r].id, event |-> "CONFIRMED"]]
          /\ req[r].id \in DOMAIN bookings /\ req[r].pc # "enqueue"
          /\ history' = [history EXCEPT ![req[r].id] = Append(@, row)]
          /\ DOMAIN bookings' = DOMAIN bookings
          /\ UNCHANGED worker
      BY <1>1, <1>4 DEF ConfirmCommit, appendStatusHistory, SetStatus, Goto, IInv, TypeOK
    <2> HIDE DEF row
    <2> QED BY <1>3, <2>1
  <1>5. CASE CancelCommit(r)
    <2> DEFINE row == [fromStatus |-> req[r].from, toStatus |-> "CANCELLED",
                       actorUserId |-> req[r].user]
    <2>1. /\ row.toStatus = "CANCELLED"
          /\ req' = [req EXCEPT ![r] =
                       [pc |-> "enqueue", id |-> req[r].id, event |-> "CANCELLED"]]
          /\ req[r].id \in DOMAIN bookings /\ req[r].pc # "enqueue"
          /\ history' = [history EXCEPT ![req[r].id] = Append(@, row)]
          /\ DOMAIN bookings' = DOMAIN bookings
          /\ UNCHANGED worker
      BY <1>1, <1>5 DEF CancelCommit, appendStatusHistory, SetStatus, Goto, IInv, TypeOK
    <2> HIDE DEF row
    <2> QED BY <1>3, <2>1
  <1>6. CASE ~ (CreateCommit(r) \/ ConfirmCommit(r) \/ CancelCommit(r))
    <2>1. UNCHANGED <<bookings, history, worker>>
      BY <1>6 DEF QuietHandler, CreateRead, ConfirmRead, CancelReadBooking, CancelReadSlot, Abort
    <2>2. req[r].pc # "enqueue" /\ \E x : x.pc # "enqueue" /\ req' = [req EXCEPT ![r] = x]
      <3>1. CASE CancelReadSlot(r)
        BY <3>1 DEF CancelReadSlot, Goto
      <3>2. CASE req[r].pc # "enqueue" /\ Abort(r)
        BY <1>1, <3>2 DEF Abort, Goto
      <3>3. ASSUME NEW u \in Users, NEW s \in Slots, NEW n \in PartySizes, CreateRead(r, u, s, n)
            PROVE  req[r].pc # "enqueue" /\ \E x : x.pc # "enqueue" /\ req' = [req EXCEPT ![r] = x]
        BY <3>3 DEF CreateRead, Goto
      <3>4. ASSUME NEW u \in Users, NEW c \in BookingIds, ConfirmRead(r, u, c)
            PROVE  req[r].pc # "enqueue" /\ \E x : x.pc # "enqueue" /\ req' = [req EXCEPT ![r] = x]
        BY <3>4 DEF ConfirmRead, Goto
      <3>5. ASSUME NEW u \in Users, NEW c \in BookingIds, CancelReadBooking(r, u, c)
            PROVE  req[r].pc # "enqueue" /\ \E x : x.pc # "enqueue" /\ req' = [req EXCEPT ![r] = x]
        BY <3>5 DEF CancelReadBooking, Goto
      <3> QED BY <1>6, <3>1, <3>2, <3>3, <3>4, <3>5 DEF QuietHandler
    <2>3. Unannounced(b, e)' = Unannounced(b, e)
      BY <1>1, <2>2 DEF Unannounced
    <2> QED BY <2>1, <2>3, CountsOf, AnnounceSame DEF hvars, tally
  <1> QED BY <1>2, <1>4, <1>5, <1>6

\* A worker whose transaction is over.
LEMMA PendingOver ==
  ASSUME IInv, NEW w \in Workers, NEW x, x.pc # "commit", worker' = [worker EXCEPT ![w] = x]
  PROVE  /\ \A b, e : Pending(b, e)' = Pending(b, e) \ {w}
         /\ worker[w].pc # "commit" => \A b, e : w \notin Pending(b, e)
  <1>1. worker \in [Workers -> WorkerState]
    BY DEF IInv, TypeOK
  <1> QED BY <1>1 DEF Pending, Uncommitted, Committing

\* A quiet step of a worker announces nothing; it may commit what it announced.
LEMMA AnnounceExpiry ==
  ASSUME IInv, AnnounceInv, NEW w \in Workers, QuietExpiry(w), UNCHANGED hvars,
         NEW b \in BookingIds, NEW e \in Events
  PROVE  AnnouncedFor(b, e)'
  <1>1. /\ worker \in [Workers -> WorkerState]
        /\ bookings \in [DOMAIN bookings -> BookingRow]
        /\ UNCHANGED req
        /\ WorkerIdle.pc = "idle"
    BY DEF IInv, TypeOK, QuietExpiry, PollStale, ExpireCommit, ExpireSkip, ExpiryCrash, WorkerIdle
  <1>2. /\ Copies(b, e)' = Copies(b, e) /\ Underway(b, e)' = Underway(b, e)
        /\ Unannounced(b, e)' = Unannounced(b, e)
        /\ Failed(b, e)' = Failed(b, e) /\ lost' = lost
    BY <1>1, CountsOf DEF hvars, tally
  <1>3. CASE ExpireCommit(w)
    <2>0. PICK c : c = Head(worker[w].batch)
      OBVIOUS
    <2> DEFINE row == [fromStatus |-> "RESERVED", toStatus |-> "EXPIRED", actorUserId |-> Null]
    <2>1. c \in DOMAIN bookings /\ worker[w].pc = "commit"
      BY <1>3, <2>0, BatchHead DEF ExpireCommit, IInv
    <2>2. /\ history' = [history EXCEPT ![c] = Append(@, row)]
          /\ row.toStatus = "EXPIRED"
          /\ DOMAIN bookings' = DOMAIN bookings
      BY <1>1, <1>3, <2>0 DEF ExpireCommit, appendStatusHistory, SetStatus
    <2>3. PICK x : x.pc # "commit" /\ worker' = [worker EXCEPT ![w] = x]
      BY <1>1, <1>3 DEF ExpireCommit, NextOfBatch
    <2>4. \A y, z : Pending(y, z)' = Pending(y, z) \ {w}
      BY <2>3, PendingOver
    <2>5. \A y, z : w \in Pending(y, z) <=> y = c /\ z = "EXPIRED"
      BY <2>0, <2>1 DEF Pending, Uncommitted, Committing
    <2> HIDE DEF row
    <2>6. PICK k : RowWritten(c, row.toStatus, k)
      BY <2>1, <2>2, RowAppended
    <2>7. /\ k \notin RowsAbout(c, "EXPIRED")
          /\ \A y, z : RowsAbout(y, z)' = IF y = c /\ z = "EXPIRED"
                                           THEN RowsAbout(y, z) \cup {k} ELSE RowsAbout(y, z)
      BY <2>2, <2>6 DEF RowWritten
    <2>8. CASE b = c /\ e = "EXPIRED"
      <3>1. Balanced(Copies(b, e), Underway(b, e), Unannounced(b, e), lost[b][e],
                     RowsAbout(b, e) \cup {k}, Pending(b, e) \ {w}, Failed(b, e))
        BY <2>5, <2>7, <2>8, BalanceMoves DEF AnnounceInv, AnnouncedFor
      <3>2. Balanced(Copies(b, e)', Underway(b, e)', Unannounced(b, e)', lost'[b][e],
                     RowsAbout(b, e)', Pending(b, e)', Failed(b, e)')
        BY <1>2, <2>4, <2>7, <2>8, <3>1
      <3> QED BY <3>2 DEF AnnouncedFor, Balanced
    <2>9. CASE ~ (b = c /\ e = "EXPIRED")
      <3>1. Pending(b, e)' = Pending(b, e) /\ RowsAbout(b, e)' = RowsAbout(b, e)
        BY <2>4, <2>5, <2>7, <2>9
      <3> QED BY <1>2, <3>1, AnnounceSame
    <2> QED BY <2>8, <2>9
  <1>4. CASE ~ ExpireCommit(w)
    <2>1. worker[w].pc # "commit" /\ UNCHANGED <<bookings, history>>
      BY <1>4 DEF QuietExpiry, PollStale, ExpireSkip, ExpiryCrash
    <2>2. PICK x : x.pc # "commit" /\ worker' = [worker EXCEPT ![w] = x]
      BY <1>1, <1>4 DEF QuietExpiry, PollStale, ExpireSkip, ExpiryCrash, NextOfBatch
    <2>3. Pending(b, e)' = Pending(b, e)
      <3>1. Pending(b, e)' = Pending(b, e) \ {w} /\ w \notin Pending(b, e)
        BY <2>1, <2>2, PendingOver
      <3> QED BY <3>1
    <2>4. RowsAbout(b, e)' = RowsAbout(b, e)
      BY <2>1, CountsOf
    <2> QED BY <1>2, <2>3, <2>4, AnnounceSame
  <1> QED BY <1>3, <1>4

\* The steps that announce, and the ones that fail to.
LEMMA AnnounceStarts ==
  ASSUME IInv, SignInv, AnnounceInv, NEW b \in BookingIds, NEW e \in Events
  PROVE  /\ \A r \in Requests : HandlerAnnounces(r) => AnnouncedFor(b, e)'
         /\ \A w \in Workers : ExpiryAnnounces(w) => AnnouncedFor(b, e)'
  <1>0. /\ req \in [Requests -> Request]
        /\ worker \in [Workers -> WorkerState]
        /\ dispatch \in [Dispatches -> DispatchState]
        /\ Idle.pc = "idle"
    BY DEF IInv, TypeOK, SignInv, DispatchTypes, Idle
  <1>1. Balanced(Copies(b, e), Underway(b, e), Unannounced(b, e), lost[b][e],
                 RowsAbout(b, e), Pending(b, e), Failed(b, e))
    BY DEF AnnounceInv, AnnouncedFor
  <1>2. ASSUME NEW c, NEW event, NEW d \in Dispatches, NEW t, dispatch[d].pc = "idle",
               dispatch' = [dispatch EXCEPT ![d] =
                 [pc |-> "hook", tenant |-> t, event |-> event, id |-> c]]
        PROVE  /\ d \notin Underway(b, e)
               /\ Underway(b, e)' = IF c = b /\ event = e THEN Underway(b, e) \cup {d}
                                                          ELSE Underway(b, e)
    BY <1>0, <1>2 DEF Underway
  <1>3. ASSUME NEW r \in Requests, HandlerAnnounces(r)
        PROVE  AnnouncedFor(b, e)'
    <2>1. /\ req[r].pc = "enqueue"
          /\ req' = [req EXCEPT ![r] = Idle]
          /\ UNCHANGED <<received, tally, bookings, history, worker>>
      BY <1>3 DEF HandlerAnnounces, Announce, Goto
    <2>2. /\ Copies(b, e)' = Copies(b, e) /\ RowsAbout(b, e)' = RowsAbout(b, e)
          /\ Pending(b, e)' = Pending(b, e) /\ Failed(b, e)' = Failed(b, e) /\ lost' = lost
      BY <2>1, CountsOf DEF tally
    <2>3. PICK c, event : c = req[r].id /\ event = req[r].event
      OBVIOUS
    <2>4. PICK d \in Dispatches :
            /\ d \notin Underway(b, e)
            /\ Underway(b, e)' = IF c = b /\ event = e THEN Underway(b, e) \cup {d}
                                                       ELSE Underway(b, e)
      <3>1. PICK t : t = bookings[req[r].id].tenantId
        OBVIOUS
      <3>2. \E d \in Dispatches :
              /\ dispatch[d].pc = "idle"
              /\ dispatch' = [dispatch EXCEPT ![d] =
                   [pc |-> "hook", tenant |-> t, event |-> event, id |-> c]]
        BY <1>3, <2>3, <3>1 DEF HandlerAnnounces, enqueueBookingWebhook
      <3> QED BY <1>2, <3>2
    <2>5. CASE c = b /\ event = e
      <3>1. Unannounced(b, e)' = Unannounced(b, e) \ {r} /\ r \in Unannounced(b, e)
        BY <1>0, <2>1, <2>3, <2>5 DEF Unannounced
      <3>2. Balanced(Copies(b, e), Underway(b, e) \cup {d}, Unannounced(b, e) \ {r}, lost[b][e],
                     RowsAbout(b, e), Pending(b, e), Failed(b, e))
        BY <1>1, <2>4, <3>1, BalanceMoves
      <3>3. Balanced(Copies(b, e)', Underway(b, e)', Unannounced(b, e)', lost'[b][e],
                     RowsAbout(b, e)', Pending(b, e)', Failed(b, e)')
        BY <2>2, <2>4, <2>5, <3>1, <3>2
      <3> QED BY <3>3 DEF AnnouncedFor, Balanced
    <2>6. CASE ~ (c = b /\ event = e)
      <3>1. Unannounced(b, e)' = Unannounced(b, e)
        BY <1>0, <2>1, <2>3, <2>6 DEF Unannounced
      <3> QED BY <2>2, <2>4, <2>6, <3>1, AnnounceSame
    <2> QED BY <2>5, <2>6
  <1>4. ASSUME NEW w \in Workers, ExpiryAnnounces(w)
        PROVE  AnnouncedFor(b, e)'
    <2>1. /\ worker[w].pc = "loop"
          /\ worker' = [worker EXCEPT ![w].pc = "commit"]
          /\ UNCHANGED <<received, tally, bookings, history, req>>
      BY <1>4 DEF ExpiryAnnounces, ExpireBody
    <2>2. /\ Copies(b, e)' = Copies(b, e) /\ RowsAbout(b, e)' = RowsAbout(b, e)
          /\ Unannounced(b, e)' = Unannounced(b, e)
          /\ Failed(b, e)' = Failed(b, e) /\ lost' = lost
      BY <2>1, CountsOf DEF tally
    <2>3. PICK c : c = Head(worker[w].batch)
      OBVIOUS
    <2>4. PICK d \in Dispatches :
            /\ d \notin Underway(b, e)
            /\ Underway(b, e)' = IF c = b /\ "EXPIRED" = e THEN Underway(b, e) \cup {d}
                                                           ELSE Underway(b, e)
      <3>1. PICK t : t = bookings[c].tenantId
        OBVIOUS
      <3>2. \E d \in Dispatches :
              /\ dispatch[d].pc = "idle"
              /\ dispatch' = [dispatch EXCEPT ![d] =
                   [pc |-> "hook", tenant |-> t, event |-> "EXPIRED", id |-> c]]
        BY <1>4, <2>3, <3>1 DEF ExpiryAnnounces, enqueueBookingWebhook
      <3> QED BY <1>2, <3>2
    <2>5. /\ w \notin Pending(b, e)
          /\ Pending(b, e)' = IF c = b /\ "EXPIRED" = e THEN Pending(b, e) \cup {w}
                                                        ELSE Pending(b, e)
      BY <1>0, <2>1, <2>3 DEF Pending, Uncommitted, Committing, WorkerState
    <2>6. CASE c = b /\ "EXPIRED" = e
      <3>1. Balanced(Copies(b, e), Underway(b, e) \cup {d}, Unannounced(b, e), lost[b][e],
                     RowsAbout(b, e), Pending(b, e) \cup {w}, Failed(b, e))
        BY <1>1, <2>4, <2>5, BalanceMoves
      <3>2. Balanced(Copies(b, e)', Underway(b, e)', Unannounced(b, e)', lost'[b][e],
                     RowsAbout(b, e)', Pending(b, e)', Failed(b, e)')
        BY <2>2, <2>4, <2>5, <2>6, <3>1
      <3> QED BY <3>2 DEF AnnouncedFor, Balanced
    <2>7. CASE ~ (c = b /\ "EXPIRED" = e)
      BY <2>2, <2>4, <2>5, <2>7, AnnounceSame
    <2> QED BY <2>6, <2>7
  <1> QED BY <1>3, <1>4

LEMMA AnnounceFails ==
  ASSUME IInv, SignInv, TallyInv, AnnounceInv, NEW b \in BookingIds, NEW e \in Events
  PROVE  /\ \A r \in Requests : HandlerDies(r) => AnnouncedFor(b, e)'
         /\ \A w \in Workers : ExpiryRollsBack(w) => AnnouncedFor(b, e)'
         /\ \A d \in Dispatches : DispatchEnds(d) => AnnouncedFor(b, e)'
  <1>0. /\ req \in [Requests -> Request]
        /\ worker \in [Workers -> WorkerState]
        /\ dispatch \in [Dispatches -> DispatchState]
        /\ Idle.pc = "idle" /\ WorkerIdle.pc = "idle"
    BY DEF IInv, TypeOK, SignInv, DispatchTypes, Idle, WorkerIdle
  <1>1. Balanced(Copies(b, e), Underway(b, e), Unannounced(b, e), lost[b][e],
                 RowsAbout(b, e), Pending(b, e), Failed(b, e))
    BY DEF AnnounceInv, AnnouncedFor
  <1>2. ASSUME NEW c, NEW event, Lose(c, event)
        PROVE  lost'[b][e] = IF c = b /\ event = e THEN lost[b][e] + 1 ELSE lost[b][e]
    BY <1>2 DEF Lose, TallyInv
  <1>3. ASSUME NEW r \in Requests, HandlerDies(r)
        PROVE  AnnouncedFor(b, e)'
    <2>1. /\ req[r].pc = "enqueue"
          /\ req' = [req EXCEPT ![r] = Idle]
          /\ UNCHANGED <<received, dispatch, rollbacks, bookings, history, worker>>
      BY <1>3 DEF HandlerDies, Abort, Goto
    <2>2. /\ Copies(b, e)' = Copies(b, e) /\ RowsAbout(b, e)' = RowsAbout(b, e)
          /\ Underway(b, e)' = Underway(b, e)
          /\ Pending(b, e)' = Pending(b, e) /\ Failed(b, e)' = Failed(b, e)
      BY <2>1, CountsOf
    <2>3. PICK c, event : c = req[r].id /\ event = req[r].event
      OBVIOUS
    <2>4. lost'[b][e] = IF c = b /\ event = e THEN lost[b][e] + 1 ELSE lost[b][e]
      BY <1>2, <1>3, <2>3 DEF HandlerDies
    <2>5. CASE c = b /\ event = e
      <3>1. Unannounced(b, e)' = Unannounced(b, e) \ {r} /\ r \in Unannounced(b, e)
        BY <1>0, <2>1, <2>3, <2>5 DEF Unannounced
      <3>2. Balanced(Copies(b, e), Underway(b, e), Unannounced(b, e) \ {r}, lost[b][e] + 1,
                     RowsAbout(b, e), Pending(b, e), Failed(b, e))
        BY <1>1, <3>1, BalanceMoves
      <3>3. Balanced(Copies(b, e)', Underway(b, e)', Unannounced(b, e)', lost'[b][e],
                     RowsAbout(b, e)', Pending(b, e)', Failed(b, e)')
        BY <2>2, <2>4, <2>5, <3>1, <3>2
      <3> QED BY <3>3 DEF AnnouncedFor, Balanced
    <2>6. CASE ~ (c = b /\ event = e)
      <3>1. Unannounced(b, e)' = Unannounced(b, e)
        BY <1>0, <2>1, <2>3, <2>6 DEF Unannounced
      <3> QED BY <2>2, <2>4, <2>6, <3>1, AnnounceSame
    <2> QED BY <2>5, <2>6
  <1>4. ASSUME NEW w \in Workers, ExpiryRollsBack(w)
        PROVE  AnnouncedFor(b, e)'
    <2>1. PICK c : c = Head(worker[w].batch)
      OBVIOUS
    <2>2. /\ worker[w].pc = "commit"
          /\ rollbacks' = [rollbacks EXCEPT ![c] = @ + 1]
          /\ UNCHANGED <<received, dispatch, lost, bookings, history, req>>
      BY <1>4, <2>1 DEF ExpiryRollsBack, ExpireSkip, ExpiryCrash
    <2>3. PICK x : x.pc # "commit" /\ worker' = [worker EXCEPT ![w] = x]
      BY <1>0, <1>4 DEF ExpiryRollsBack, ExpireSkip, ExpiryCrash, NextOfBatch
    <2>4. /\ Copies(b, e)' = Copies(b, e) /\ RowsAbout(b, e)' = RowsAbout(b, e)
          /\ Underway(b, e)' = Underway(b, e) /\ Unannounced(b, e)' = Unannounced(b, e)
      BY <2>2, CountsOf
    <2>5. Pending(b, e)' = Pending(b, e) \ {w}
      BY <2>3, PendingOver
    <2>6. CASE c = b /\ e = "EXPIRED"
      <3>1. w \in Pending(b, e) /\ Failed(b, e)' = Failed(b, e) + 1
        BY <2>1, <2>2, <2>6 DEF Pending, Uncommitted, Committing, Failed, TallyInv
      <3>2. Balanced(Copies(b, e), Underway(b, e), Unannounced(b, e), lost[b][e],
                     RowsAbout(b, e), Pending(b, e) \ {w}, Failed(b, e) + 1)
        BY <1>1, <3>1, BalanceMoves
      <3>3. Balanced(Copies(b, e)', Underway(b, e)', Unannounced(b, e)', lost'[b][e],
                     RowsAbout(b, e)', Pending(b, e)', Failed(b, e)')
        BY <2>2, <2>4, <2>5, <3>1, <3>2
      <3> QED BY <3>3 DEF AnnouncedFor, Balanced
    <2>7. CASE ~ (c = b /\ e = "EXPIRED")
      <3>1. w \notin Pending(b, e) /\ Failed(b, e)' = Failed(b, e)
        BY <2>1, <2>2, <2>7 DEF Pending, Uncommitted, Failed, TallyInv
      <3>2. Pending(b, e)' = Pending(b, e)
        BY <2>5, <3>1
      <3> QED BY <2>2, <2>4, <3>1, <3>2, AnnounceSame
    <2> QED BY <2>6, <2>7
  <1>5. ASSUME NEW d \in Dispatches, DispatchEnds(d)
        PROVE  AnnouncedFor(b, e)'
    <2>1. /\ dispatch[d].pc # "idle"
          /\ dispatch' = [dispatch EXCEPT ![d] = Idle]
          /\ UNCHANGED <<received, rollbacks, req, bookings, history, worker>>
      BY <1>5 DEF DispatchEnds, DispatchOver, vars
    <2>2. /\ Copies(b, e)' = Copies(b, e) /\ RowsAbout(b, e)' = RowsAbout(b, e)
          /\ Unannounced(b, e)' = Unannounced(b, e)
          /\ Pending(b, e)' = Pending(b, e) /\ Failed(b, e)' = Failed(b, e)
      BY <2>1, CountsOf
    <2>3. PICK c, event : c = dispatch[d].id /\ event = dispatch[d].event
      OBVIOUS
    <2>4. lost'[b][e] = IF c = b /\ event = e THEN lost[b][e] + 1 ELSE lost[b][e]
      BY <1>2, <1>5, <2>3 DEF DispatchEnds
    <2>5. Underway(b, e)' = Underway(b, e) \ {d} /\ (d \in Underway(b, e) <=> c = b /\ event = e)
      BY <1>0, <2>1, <2>3 DEF Underway
    <2>6. CASE c = b /\ event = e
      <3>1. Balanced(Copies(b, e), Underway(b, e) \ {d}, Unannounced(b, e), lost[b][e] + 1,
                     RowsAbout(b, e), Pending(b, e), Failed(b, e))
        BY <1>1, <2>5, <2>6, BalanceMoves
      <3>2. Balanced(Copies(b, e)', Underway(b, e)', Unannounced(b, e)', lost'[b][e],
                     RowsAbout(b, e)', Pending(b, e)', Failed(b, e)')
        BY <2>2, <2>4, <2>5, <2>6, <3>1
      <3> QED BY <3>2 DEF AnnouncedFor, Balanced
    <2>7. CASE ~ (c = b /\ event = e)
      <3>1. Underway(b, e)' = Underway(b, e)
        BY <2>5, <2>7
      <3> QED BY <2>2, <2>4, <2>7, <3>1, AnnounceSame
    <2> QED BY <2>6, <2>7
  <1> QED BY <1>3, <1>4, <1>5

\* A payload arrives for its dispatch.
LEMMA AnnouncePosts ==
  ASSUME IInv, SignInv, InboxInv, AnnounceInv, NEW d \in Dispatches, Post(d),
         NEW b \in BookingIds, NEW e \in Events
  PROVE  AnnouncedFor(b, e)'
  <1> DEFINE x == dispatch[d]
             p == [event |-> x.event, id |-> x.id, status |-> x.status, secret |-> x.secret]
  <1>1. /\ x.pc = "post"
        /\ dispatch \in [Dispatches -> DispatchState]
        /\ DOMAIN received = Tenants
        /\ received' = [received EXCEPT ![x.tenant] = BagAdd(@, p)]
        /\ dispatch' = [dispatch EXCEPT ![d] = Idle]
        /\ UNCHANGED <<req, tally, bookings, history, worker>>
        /\ x.tenant \in Tenants
    BY DispatchFields DEF SignInv, DispatchTypes, Post, DispatchOver, vars
  <1>2. p.event = x.event /\ p.id = x.id /\ Idle.pc = "idle"
    BY DEF Idle
  <1> HIDE DEF p, x
  <1>0. PICK q : q = p
    OBVIOUS
  <1>3. PICK t \in Tenants : t = x.tenant /\ q = p
    BY <1>0, <1>1
  <1>4. PICK y : /\ y \notin Copies(q.id, q.event)
                 /\ \A c, event : Copies(c, event)' = IF q.event = event /\ q.id = c
                                    THEN Copies(c, event) \cup {y} ELSE Copies(c, event)
    <2>1. /\ received'[t] = BagAdd(received[t], q)
          /\ \A u \in Tenants : u # t => received'[u] = received[u]
      BY <1>1, <1>3
    <2> QED BY <2>1, CopyAdded
  <1>5. /\ Unannounced(b, e)' = Unannounced(b, e) /\ RowsAbout(b, e)' = RowsAbout(b, e)
        /\ Pending(b, e)' = Pending(b, e) /\ Failed(b, e)' = Failed(b, e) /\ lost' = lost
    BY <1>1, CountsOf DEF tally
  <1>6. Underway(b, e)' = Underway(b, e) \ {d} /\ (d \in Underway(b, e) <=> q.event = e /\ q.id = b)
    BY <1>1, <1>2, <1>3 DEF Underway, x
  <1>7. CASE q.event = e /\ q.id = b
    <2>1. Balanced(Copies(b, e) \cup {y}, Underway(b, e) \ {d}, Unannounced(b, e), lost[b][e],
                   RowsAbout(b, e), Pending(b, e), Failed(b, e))
      BY <1>4, <1>6, <1>7, BalanceMoves DEF AnnounceInv, AnnouncedFor
    <2>2. Balanced(Copies(b, e)', Underway(b, e)', Unannounced(b, e)', lost'[b][e],
                   RowsAbout(b, e)', Pending(b, e)', Failed(b, e)')
      BY <1>4, <1>5, <1>6, <1>7, <2>1
    <2> QED BY <2>2 DEF AnnouncedFor, Balanced
  <1>8. CASE ~ (q.event = e /\ q.id = b)
    <2>1. Underway(b, e)' = Underway(b, e) /\ Copies(b, e)' = Copies(b, e)
      BY <1>4, <1>6, <1>8
    <2> QED BY <1>5, <2>1, AnnounceSame
  <1> QED BY <1>7, <1>8

\* No step makes an announcement without its row, or twice, or loses one silently.
LEMMA AnnounceStep ==
  ASSUME IInv, SignInv, InboxInv, TallyInv, AnnounceInv, [WNext]_wvars
  PROVE  AnnounceInv'
  <1> SUFFICES ASSUME NEW b \in BookingIds, NEW e \in Events
               PROVE  AnnouncedFor(b, e)'
    BY DEF AnnounceInv, AnnouncedFor, Events
  <1>1. CASE BookingStep
    <2>1. CASE Tick
      <3>1. UNCHANGED <<received, dispatch, req, bookings, history, worker, rollbacks, lost>>
        BY <1>1, <2>1 DEF BookingStep, Tick, hvars, tally
      <3> QED BY <3>1, CountsOf, AnnounceSame
    <2> QED BY <1>1, <2>1, AnnounceHandler, AnnounceExpiry DEF BookingStep
  <1>2. ASSUME NEW d \in Dispatches, ReadHook(d) \/ ReadBooking(d)
        PROVE  AnnouncedFor(b, e)'
    <2>1. /\ dispatch \in [Dispatches -> DispatchState]
          /\ UNCHANGED <<received, req, bookings, history, worker, rollbacks, lost>>
      BY <1>2 DEF SignInv, DispatchTypes, ReadHook, ReadBooking, vars, tally
    <2>2. /\ dispatch[d].pc # "idle" /\ dispatch'[d].pc # "idle"
          /\ dispatch'[d].event = dispatch[d].event
          /\ dispatch'[d].id = dispatch[d].id
          /\ \A c \in Dispatches : c # d => dispatch'[c] = dispatch[c]
      BY <1>2, <2>1 DEF ReadHook, ReadBooking
    <2>3. Underway(b, e)' = Underway(b, e)
      BY <2>2 DEF Underway
    <2> QED BY <2>1, <2>3, CountsOf, AnnounceSame
  <1>3. ASSUME \/ \E g \in Registrars : \/ \E t \in Tenants : RegisterRead(g, t)
                                        \/ RegisterUpdate(g)
                                        \/ RegisterCreate(g)
                                        \/ RegisterFails(g)
               \/ UNCHANGED wvars
        PROVE  AnnouncedFor(b, e)'
    <2>1. UNCHANGED <<received, dispatch, req, bookings, history, worker, rollbacks, lost>>
      BY <1>3 DEF RegisterRead, RegisterUpdate, RegisterCreate, RegisterFails, SetHook, vars,
                  hvars, wvars, tally
    <2> QED BY <2>1, CountsOf, AnnounceSame
  <1> QED BY <1>1, <1>2, <1>3, AnnounceStarts, AnnounceFails, AnnouncePosts DEF WNext

\* Initially nothing is announced.
LEMMA InitAnnounce == WInit => AnnounceInv
  <1> SUFFICES ASSUME WInit, NEW b \in BookingIds, NEW e \in Events
               PROVE  AnnouncedFor(b, e)
    BY DEF AnnounceInv
  <1>1. Copies(b, e) = {}
    <2>1. \A x : ~ Copy(x, b, e)
      BY DEF Copy, WInit, EmptyBag, SetToBag
    <2> QED BY <2>1, CopiesAre
  <1>2. Underway(b, e) = {} /\ Unannounced(b, e) = {}
    BY DEF WInit, Init, Underway, Unannounced, Idle
  <1>3. RowsAbout(b, e) = {}
    BY DEF WInit, Init, EmptyTable, RowsAbout
  <1>4. Pending(b, e) = {} /\ Failed(b, e) = 0 /\ lost[b][e] = 0
    BY DEF WInit, Init, Pending, Uncommitted, Committing, Failed, WorkerIdle
  <1> QED BY <1>1, <1>2, <1>3, <1>4, FS_EmptySet DEF AnnouncedFor, Balanced

\* However commits, announcements, dispatches, deliveries, failures and crashes interleave,
\* what is announced and what happened balance exactly: no event of any kind is announced
\* twice, none but a pending or failed expiry before it happened, and none is missed unless
\* a failure or a crash lost it.
THEOREM AnnouncementsBalance == WSpec => []AnnouncedOnce
  <1> DEFINE All == IInv /\ HookInv /\ SignInv /\ InboxInv /\ TallyInv /\ AnnounceInv
  <1>1. WInit => All
    <2> SUFFICES ASSUME WInit PROVE All
      OBVIOUS
    <2>1. Inbox(EmptyBag)
      BY DEF Inbox, IsABag, BagToSet, EmptyBag, SetToBag
    <2>2. InboxInv /\ TallyInv
      BY <2>1 DEF WInit, InboxInv, TallyInv
    <2> QED BY <2>2, SignInit, InitAnnounce
  <1>2. All /\ [WNext]_wvars => All'
    BY SignedNext, InboxStep, TallyStep, AnnounceStep
  <1>3. All => AnnouncedOnce
    <2> SUFFICES ASSUME All, NEW b \in DOMAIN bookings, NEW e \in Events
                 PROVE  Arrived(b, e) + Cardinality(Underway(b, e))
                          + Cardinality(Unannounced(b, e)) + lost[b][e]
                          = Cardinality(Occurred(b, e)) + WithoutRow(b, e)
      BY DEF AnnouncedOnce
    <2>1. b \in BookingIds
      BY DEF IInv, TypeOK
    <2>2. AnnouncedFor(b, e)
      BY <2>1 DEF AnnounceInv
    <2>3. Cardinality(Pending(b, e)) + Failed(b, e) = WithoutRow(b, e)
      BY FS_EmptySet DEF Pending, Failed, WithoutRow
    <2>4. /\ Cardinality(Pending(b, e)) \in Nat /\ Cardinality(RowsAbout(b, e)) \in Nat
          /\ Failed(b, e) \in Nat
      BY <2>2, FS_CardinalityType DEF AnnouncedFor, Balanced
    <2> QED BY <2>2, <2>3, <2>4 DEF AnnouncedFor, Balanced, Arrived, RowsAbout
  <1> QED BY <1>1, <1>2, <1>3, PTL DEF WSpec

=============================================================================
