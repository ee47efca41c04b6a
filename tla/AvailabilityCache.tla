------------------------- MODULE AvailabilityCache -------------------------
(***************************************************************************)
(* The Redis cache in front of GET /experiences and GET /experiences/:id   *)
(* (src/lib/availability-cache.ts, src/services/experience.service.ts) and *)
(* the slot changes of the booking service that invalidate it.             *)
(*                                                                         *)
(* What a search or a detail shows of a tenant's slots is abstracted to    *)
(* how many slot changes of that tenant had been committed when its first  *)
(* slot query ran: any change may alter any result, and the queries that   *)
(* follow the first one only see newer rows.                               *)
(***************************************************************************)
EXTENDS Naturals

CONSTANTS
  Tenants,
  Queries,       \* distinct searches and details a tenant asks for
  Readers,       \* requests for a search or a detail in flight
  Writers,       \* booking handlers and expiry transactions in flight
  Invalidations, \* invalidateTenantAvailability calls in flight
  Ttl,           \* env.availabilityCacheTtlSeconds, in ticks
  MaxChanges,    \* bound on the slot changes of a tenant
  None

ASSUME CacheAssumption ==
  /\ Ttl \in Nat \ {0}
  /\ MaxChanges \in Nat
  /\ Tenants # {}

VARIABLES
  db,      \* number of slot changes committed, per tenant
  cache,   \* the Redis keys avail:{tenant}:*, None where there is no key
  reader,
  writer,
  inv,     \* invalidations
  missed   \* auxiliary: why a change of the tenant was not followed by an invalidation
           \* that ran to its end, "lost" or "early"

vars == <<db, cache, reader, writer, inv, missed>>

\* Any tenant's key, as if the tenant were not part of it.
KeyWithoutTenant(t, q) == <<CHOOSE u \in Tenants : TRUE, q>>

\* searchCacheKey and detailCacheKey
cacheKey(t, q) == <<t, q>>

CacheKeys == Tenants \X Queries

\* "raced" is auxiliary: an invalidation of the tenant was under way at some moment
\* between the query and the SET.
Entry == [tenant : Tenants, val : Nat, ttl : 1..Ttl, raced : BOOLEAN]

IdleReader == [pc |-> "idle"]

ReaderState ==
       [pc : {"idle"}]
  \cup [pc : {"query"}, tenant : Tenants, query : Queries]
  \cup [pc : {"store"}, tenant : Tenants, query : Queries, val : Nat, raced : BOOLEAN]

IdleWriter == [pc |-> "idle"]

WriterState == [pc : {"idle"}] \cup [pc : {"announce", "commit"}, tenant : Tenants]

IdleInv == [pc |-> "idle"]

InvState ==
       [pc : {"idle"}]
  \cup [pc : {"scan", "del"}, tenant : Tenants, left : SUBSET CacheKeys,
        batch : SUBSET CacheKeys]

Init ==
  /\ db = [t \in Tenants |-> 0]
  /\ cache = [k \in CacheKeys |-> None]
  /\ reader = [r \in Readers |-> IdleReader]
  /\ writer = [w \in Writers |-> IdleWriter]
  /\ inv = [i \in Invalidations |-> IdleInv]
  /\ missed = [t \in Tenants |-> {}]

\* The keys that MATCH avail:{t}:*
Present(t) == {k \in {t} \X Queries : cache[k] # None}

Active(t) == {i \in Invalidations : inv[i].pc # "idle" /\ inv[i].tenant = t}

(***************************************************************************)
(* searchExperiences, getExperienceDetail.  A hit changes nothing.  A miss *)
(* queries the slots, answers, and stores the result without waiting.      *)
(***************************************************************************)
Miss(r, t, q) ==
  /\ reader[r].pc = "idle"
  /\ cache[cacheKey(t, q)] = None
  /\ reader' = [reader EXCEPT ![r] = [pc |-> "query", tenant |-> t, query |-> q]]
  /\ UNCHANGED <<db, cache, writer, inv, missed>>

Load(r) ==
  LET t == reader[r].tenant IN
  /\ reader[r].pc = "query"
  /\ reader' = [reader EXCEPT ![r] =
       [pc |-> "store", tenant |-> t, query |-> reader[r].query, val |-> db[t],
        raced |-> Active(t) # {}]]
  /\ UNCHANGED <<db, cache, writer, inv, missed>>

\* setCachedSearch, setCachedDetail
Store(r) ==
  LET q == reader[r] IN
  /\ q.pc = "store"
  /\ cache' = [cache EXCEPT ![cacheKey(q.tenant, q.query)] =
       [tenant |-> q.tenant, val |-> q.val, ttl |-> Ttl, raced |-> q.raced]]
  /\ reader' = [reader EXCEPT ![r] = IdleReader]
  /\ UNCHANGED <<db, writer, inv, missed>>

\* Experience or slot not found, a failed query or SET, a crash.
ReaderEnds(r) ==
  /\ reader[r].pc # "idle"
  /\ reader' = [reader EXCEPT ![r] = IdleReader]
  /\ UNCHANGED <<db, cache, writer, inv, missed>>

(***************************************************************************)
(* invalidateTenantAvailability: SCAN and DEL alternate until the cursor   *)
(* is back at 0.  Redis promises that a key present during the whole scan  *)
(* is returned; "left" are those not returned so far.  A key that appears  *)
(* during the scan, for the first time or again, may or may not be.        *)
(***************************************************************************)
\* An invalidation is no longer promised a key that was removed under it.
Forget(v, gone) == IF v.pc = "idle" THEN v ELSE [v EXCEPT !.left = @ \ gone]

StartInvalidation(t) ==
  /\ \E i \in Invalidations :
       /\ inv[i].pc = "idle"
       /\ inv' = [inv EXCEPT ![i] =
            [pc |-> "scan", tenant |-> t, left |-> Present(t), batch |-> {}]]
  /\ reader' = [r \in Readers |->
       IF reader[r].pc = "store" /\ reader[r].tenant = t
       THEN [reader[r] EXCEPT !.raced = TRUE] ELSE reader[r]]

Scan(i) ==
  LET v == inv[i] IN
  /\ v.pc = "scan"
  /\ \E batch \in (SUBSET Present(v.tenant)) \ {{}} :
       inv' = [inv EXCEPT ![i] =
         [pc |-> "del", tenant |-> v.tenant, left |-> v.left \ batch, batch |-> batch]]
  /\ UNCHANGED <<db, cache, reader, writer, missed>>

DelOnce(i) ==
  /\ inv[i].pc = "del"
  /\ cache' = [k \in CacheKeys |-> IF k \in inv[i].batch THEN None ELSE cache[k]]
  /\ inv' = [inv EXCEPT ![i] = IdleInv]
  /\ UNCHANGED <<db, reader, writer, missed>>

Del(i) ==
  LET v == inv[i] IN
  /\ v.pc = "del"
  /\ cache' = [k \in CacheKeys |-> IF k \in v.batch THEN None ELSE cache[k]]
  /\ inv' = [j \in Invalidations |->
       IF j = i THEN [pc |-> "scan", tenant |-> v.tenant, left |-> v.left, batch |-> {}]
                ELSE Forget(inv[j], v.batch)]
  /\ UNCHANGED <<db, reader, writer, missed>>

\* The cursor is back at 0.
ScanDone(i) ==
  LET v == inv[i] IN
  /\ v.pc = "scan"
  /\ v.left = {}
  /\ inv' = [inv EXCEPT ![i] = IdleInv]
  /\ UNCHANGED <<db, cache, reader, writer, missed>>

\* Redis fails or the process dies; the error is logged and nothing is retried.
InvalidationFails(i) ==
  /\ inv[i].pc # "idle"
  /\ inv' = [inv EXCEPT ![i] = IdleInv]
  /\ missed' = [missed EXCEPT ![inv[i].tenant] = @ \cup {"lost"}]
  /\ UNCHANGED <<db, cache, reader, writer>>

(***************************************************************************)
(* createReservation and cancelReservation commit and then invalidate.     *)
(***************************************************************************)
HandlerCommit(w, t) ==
  /\ writer[w].pc = "idle"
  /\ db[t] < MaxChanges
  /\ db' = [db EXCEPT ![t] = @ + 1]
  /\ writer' = [writer EXCEPT ![w] = [pc |-> "announce", tenant |-> t]]
  /\ UNCHANGED <<cache, reader, inv, missed>>

HandlerInvalidates(w) ==
  /\ writer[w].pc = "announce"
  /\ StartInvalidation(writer[w].tenant)
  /\ writer' = [writer EXCEPT ![w] = IdleWriter]
  /\ UNCHANGED <<db, cache, missed>>

HandlerDies(w) ==
  /\ writer[w].pc = "announce"
  /\ missed' = [missed EXCEPT ![writer[w].tenant] = @ \cup {"lost"}]
  /\ writer' = [writer EXCEPT ![w] = IdleWriter]
  /\ UNCHANGED <<db, cache, reader, inv>>

(***************************************************************************)
(* expireReservation invalidates inside its transaction, before the        *)
(* COMMIT: this change is not followed by an invalidation.                 *)
(***************************************************************************)
ExpireInvalidates(w, t) ==
  /\ writer[w].pc = "idle"
  /\ db[t] < MaxChanges
  /\ StartInvalidation(t)
  /\ writer' = [writer EXCEPT ![w] = [pc |-> "commit", tenant |-> t]]
  /\ UNCHANGED <<db, cache, missed>>

ExpireCommits(w) ==
  LET t == writer[w].tenant IN
  /\ writer[w].pc = "commit"
  /\ db[t] < MaxChanges
  /\ db' = [db EXCEPT ![t] = @ + 1]
  /\ missed' = [missed EXCEPT ![t] = @ \cup {"early"}]
  /\ writer' = [writer EXCEPT ![w] = IdleWriter]
  /\ UNCHANGED <<cache, reader, inv>>

ExpireRollsBack(w) ==
  /\ writer[w].pc = "commit"
  /\ writer' = [writer EXCEPT ![w] = IdleWriter]
  /\ UNCHANGED <<db, cache, reader, inv, missed>>

(***************************************************************************)
(* SET ... EX: a key lives for Ttl ticks.                                  *)
(***************************************************************************)
NeverAged(e) == e

AgedLate(e) == IF e = None THEN None ELSE [e EXCEPT !.ttl = @ - 1]

Aged(e) ==
  IF e = None \/ e.ttl = 1 THEN None ELSE [e EXCEPT !.ttl = @ - 1]

Tick ==
  /\ \E k \in CacheKeys : cache[k] # None
  /\ cache' = [k \in CacheKeys |-> Aged(cache[k])]
  /\ inv' = [i \in Invalidations |->
       Forget(inv[i], {k \in CacheKeys : Aged(cache[k]) = None})]
  /\ UNCHANGED <<db, reader, writer, missed>>

Next ==
  \/ \E r \in Readers : \/ \E t \in Tenants, q \in Queries : Miss(r, t, q)
                        \/ Load(r)
                        \/ Store(r)
                        \/ ReaderEnds(r)
  \/ \E i \in Invalidations : Scan(i) \/ Del(i) \/ ScanDone(i) \/ InvalidationFails(i)
  \/ \E w \in Writers : \/ \E t \in Tenants : HandlerCommit(w, t) \/ ExpireInvalidates(w, t)
                        \/ HandlerInvalidates(w)
                        \/ HandlerDies(w)
                        \/ ExpireCommits(w)
                        \/ ExpireRollsBack(w)
  \/ Tick

(***************************************************************************)
(* Fairness: time passes, and a request that missed comes to an end (its   *)
(* queries return or fail).  Nothing is assumed of the invalidations.      *)
(***************************************************************************)
SafetySpec == Init /\ [][Next]_vars

Spec ==
  /\ SafetySpec
  /\ WF_vars(Tick)
  /\ \A r \in Readers : WF_vars(Load(r)) /\ WF_vars(Store(r) \/ ReaderEnds(r))

(***************************************************************************)
(* Properties.                                                             *)
(***************************************************************************)
\* Every key, reader, writer and invalidation has its declared shape.
TypeOK ==
  /\ db \in [Tenants -> Nat]
  /\ cache \in [CacheKeys -> Entry \cup {None}]
  /\ reader \in [Readers -> ReaderState]
  /\ writer \in [Writers -> WriterState]
  /\ inv \in [Invalidations -> InvState]
  /\ missed \in [Tenants -> SUBSET {"lost", "early"}]

StaleEntry(k) == cache[k] # None /\ cache[k].val # db[k[1]]

\* An invalidation that will delete key k is due or under way.
Doomed(k) ==
  \/ \E w \in Writers : writer[w].pc = "announce" /\ writer[w].tenant = k[1]
  \/ \E i \in Active(k[1]) : k \in inv[i].left \cup inv[i].batch

\* A stale entry is about to be deleted, with three exceptions: its fill overlapped
\* an invalidation, an invalidation was lost, or the change was an expiry, which
\* invalidates before it commits.  The SCAN loop misses nothing else.
StaleIsDoomed ==
  \A k \in CacheKeys :
     (StaleEntry(k) /\ ~ cache[k].raced /\ missed[k[1]] = {}) => Doomed(k)

\* A key of one tenant never holds another tenant's slots.
CacheIsolation == \A k \in CacheKeys : cache[k] # None => cache[k].tenant = k[1]

\* Whatever races, losses and early invalidations happened, once the slots stop
\* changing every stale entry disappears for good: the TTL bounds staleness.
CacheConverges == <>[](\A k \in CacheKeys : ~ StaleEntry(k))

\* "broad tenant invalidation on slot changes" (README.md:13): when no change is
\* being made, no invalidation is running and none was lost, an entry that was not
\* being filled during an invalidation is current.
ChangesInvalidate ==
  \A t \in Tenants :
     (/\ Active(t) = {}
      /\ \A w \in Writers : writer[w].pc = "idle"
      /\ "lost" \notin missed[t])
     => \A q \in Queries : StaleEntry(<<t, q>>) => cache[<<t, q>>].raced

=============================================================================
