---------------------------- MODULE CacheProofs ----------------------------
(* Proofs about AvailabilityCache. *)
EXTENDS AvailabilityCache, TLAPS

\* What a reader that missed holds.
LEMMA ReaderFields ==
  ASSUME NEW q \in ReaderState
  PROVE  /\ q.pc \in {"idle", "query", "store"}
         /\ q.pc \in {"query", "store"} => q.tenant \in Tenants /\ q.query \in Queries
         /\ q.pc = "store" => q.val \in Nat /\ q.raced \in BOOLEAN
  BY DEF ReaderState

\* What a busy writer holds.
LEMMA WriterFields ==
  ASSUME NEW w \in WriterState
  PROVE  /\ w.pc \in {"idle", "announce", "commit"}
         /\ w.pc # "idle" => w.tenant \in Tenants
  BY DEF WriterState

\* What an invalidation under way holds.
LEMMA InvFields ==
  ASSUME NEW v \in InvState
  PROVE  /\ v.pc \in {"idle", "scan", "del"}
         /\ v.pc # "idle" => /\ v.tenant \in Tenants
                             /\ v.left \in SUBSET CacheKeys
                             /\ v.batch \in SUBSET CacheKeys
  BY DEF InvState

\* Forgetting keys changes nothing but which ones are still promised.
LEMMA ForgetEffect ==
  ASSUME NEW v \in InvState, NEW gone
  PROVE  /\ Forget(v, gone) \in InvState
         /\ Forget(v, gone).pc = v.pc
         /\ v.pc = "idle" => Forget(v, gone) = v
         /\ v.pc # "idle" => /\ Forget(v, gone).tenant = v.tenant
                             /\ Forget(v, gone).left = v.left \ gone
                             /\ Forget(v, gone).batch = v.batch
  <1>1. CASE v.pc = "idle"
    BY <1>1 DEF Forget
  <1>2. CASE v.pc # "idle"
    <2>1. v \in [pc : {"scan", "del"}, tenant : Tenants, left : SUBSET CacheKeys,
                 batch : SUBSET CacheKeys]
      BY <1>2 DEF InvState
    <2>2. Forget(v, gone) = [v EXCEPT !.left = v.left \ gone]
      BY <1>2 DEF Forget
    <2>3. Forget(v, gone) \in [pc : {"scan", "del"}, tenant : Tenants,
                               left : SUBSET CacheKeys, batch : SUBSET CacheKeys]
      BY <2>1, <2>2
    <2>4. Forget(v, gone) \in InvState
      BY <2>3 DEF InvState
    <2> QED BY <1>2, <2>1, <2>2, <2>4
  <1> QED BY <1>1, <1>2

(***************************************************************************)
(* Type correctness.                                                       *)
(***************************************************************************)
LEMMA InitType == Init => TypeOK
  BY DEF Init, TypeOK, IdleReader, IdleWriter, IdleInv, ReaderState, WriterState, InvState

\* What starting an invalidation does to the readers and the invalidations.
LEMMA StartEffect ==
  ASSUME TypeOK, NEW t \in Tenants, StartInvalidation(t)
  PROVE  /\ reader' \in [Readers -> ReaderState]
         /\ inv' \in [Invalidations -> InvState]
         /\ \A r \in Readers :
              /\ ~ (reader[r].pc = "store" /\ reader[r].tenant = t) => reader'[r] = reader[r]
              /\ reader'[r].pc = "store" => /\ reader[r].pc = "store"
                                            /\ reader'[r].tenant = reader[r].tenant
                                            /\ reader'[r].val = reader[r].val
              /\ (reader'[r].pc = "store" /\ reader'[r].tenant = t) => reader'[r].raced = TRUE
         /\ \A i \in Invalidations : inv[i].pc # "idle" => inv'[i] = inv[i]
         /\ \E i \in Invalidations :
              inv'[i] = [pc |-> "scan", tenant |-> t, left |-> Present(t), batch |-> {}]
         /\ \A i \in Invalidations : inv'[i].pc = "scan" =>
              inv'[i] = inv[i] \/ inv'[i].batch = {}
  <1>1. PICK i \in Invalidations :
          /\ inv[i].pc = "idle"
          /\ inv' = [inv EXCEPT ![i] =
               [pc |-> "scan", tenant |-> t, left |-> Present(t), batch |-> {}]]
    BY DEF StartInvalidation
  <1>2. [pc |-> "scan", tenant |-> t, left |-> Present(t), batch |-> {}] \in InvState
    BY DEF InvState, Present, CacheKeys
  <1>3. /\ inv' \in [Invalidations -> InvState]
        /\ \A j \in Invalidations : inv[j].pc # "idle" => inv'[j] = inv[j]
        /\ inv'[i] = [pc |-> "scan", tenant |-> t, left |-> Present(t), batch |-> {}]
        /\ \A j \in Invalidations \ {i} : inv'[j] = inv[j]
    BY <1>1, <1>2 DEF TypeOK
  <1>4. reader' = [r \in Readers |->
          IF reader[r].pc = "store" /\ reader[r].tenant = t
          THEN [reader[r] EXCEPT !.raced = TRUE] ELSE reader[r]]
    BY DEF StartInvalidation
  <1>5. ASSUME NEW r \in Readers
        PROVE  /\ reader'[r] \in ReaderState
               /\ ~ (reader[r].pc = "store" /\ reader[r].tenant = t) => reader'[r] = reader[r]
               /\ reader'[r].pc = "store" => /\ reader[r].pc = "store"
                                             /\ reader'[r].tenant = reader[r].tenant
                                             /\ reader'[r].val = reader[r].val
               /\ (reader'[r].pc = "store" /\ reader'[r].tenant = t) => reader'[r].raced = TRUE
    <2>1. CASE reader[r].pc = "store" /\ reader[r].tenant = t
      <3>1. reader[r] \in [pc : {"store"}, tenant : Tenants, query : Queries, val : Nat,
                           raced : BOOLEAN]
        BY <2>1 DEF TypeOK, ReaderState
      <3>2. reader'[r] = [reader[r] EXCEPT !.raced = TRUE]
        BY <1>4, <2>1
      <3>3. reader'[r] \in [pc : {"store"}, tenant : Tenants, query : Queries, val : Nat,
                            raced : BOOLEAN]
        BY <3>1, <3>2
      <3>4. /\ reader'[r].pc = "store" /\ reader'[r].tenant = reader[r].tenant
            /\ reader'[r].val = reader[r].val /\ reader'[r].raced = TRUE
        BY <2>1, <3>1, <3>2
      <3>5. reader'[r] \in ReaderState
        BY <3>3 DEF ReaderState
      <3> QED BY <2>1, <3>4, <3>5
    <2>2. CASE ~ (reader[r].pc = "store" /\ reader[r].tenant = t)
      BY <1>4, <2>2 DEF TypeOK
    <2> QED BY <2>1, <2>2
  <1>6. reader' \in [Readers -> ReaderState]
    <2> DEFINE new(r) == IF reader[r].pc = "store" /\ reader[r].tenant = t
                         THEN [reader[r] EXCEPT !.raced = TRUE] ELSE reader[r]
    <2>1. reader' = [r \in Readers |-> new(r)]
      BY <1>4
    <2> HIDE DEF new
    <2>2. \A r \in Readers : new(r) \in ReaderState
      BY <1>5, <2>1
    <2> QED BY <2>1, <2>2
  <1>7. \A j \in Invalidations : inv'[j].pc = "scan" =>
          inv'[j] = inv[j] \/ inv'[j].batch = {}
    <2>1. inv'[i].batch = {}
      BY <1>3
    <2> QED BY <1>3, <2>1
  <1> QED BY <1>3, <1>5, <1>6, <1>7

\* An entry that ages keeps what it holds, or goes.
LEMMA AgedEntry ==
  ASSUME NEW e \in Entry \cup {None}
  PROVE  /\ Aged(e) \in Entry \cup {None}
         /\ Aged(e) # None => /\ e # None
                              /\ Aged(e).tenant = e.tenant
                              /\ Aged(e).val = e.val
                              /\ Aged(e).raced = e.raced
  <1>1. CASE e = None \/ e.ttl = 1
    BY <1>1 DEF Aged
  <1>2. CASE e # None /\ e.ttl # 1
    <2>1. e \in Entry /\ e.ttl \in 1..Ttl /\ e.ttl - 1 \in 1..Ttl
      BY <1>2, CacheAssumption DEF Entry
    <2>2. Aged(e) = [e EXCEPT !.ttl = @ - 1]
      BY <1>2 DEF Aged
    <2> QED BY <1>2, <2>1, <2>2 DEF Entry
  <1> QED BY <1>1, <1>2

\* Every step keeps the types.
LEMMA NextType == TypeOK /\ [Next]_vars => TypeOK'
  <1> SUFFICES ASSUME TypeOK, [Next]_vars PROVE TypeOK'
    OBVIOUS
  <1>0. IdleReader \in ReaderState /\ IdleWriter \in WriterState /\ IdleInv \in InvState
    BY DEF IdleReader, IdleWriter, IdleInv, ReaderState, WriterState, InvState
  <1>1. ASSUME NEW r \in Readers, NEW t \in Tenants, NEW q \in Queries, Miss(r, t, q)
        PROVE  TypeOK'
    <2>1. [pc |-> "query", tenant |-> t, query |-> q] \in ReaderState
      BY DEF ReaderState
    <2> QED BY <1>1, <2>1 DEF Miss, TypeOK
  <1>2. ASSUME NEW r \in Readers, Load(r) PROVE TypeOK'
    <2> DEFINE q == reader[r]
    <2>1. q.tenant \in Tenants /\ q.query \in Queries /\ db[q.tenant] \in Nat
      BY <1>2, ReaderFields DEF Load, TypeOK
    <2>2. [pc |-> "store", tenant |-> q.tenant, query |-> q.query, val |-> db[q.tenant],
           raced |-> Active(q.tenant) # {}] \in ReaderState
      BY <2>1 DEF ReaderState
    <2>3. reader' \in [Readers -> ReaderState]
      BY <1>2, <2>2 DEF Load, TypeOK
    <2> QED BY <1>2, <2>3 DEF Load, TypeOK
  <1>3. ASSUME NEW r \in Readers, Store(r) PROVE TypeOK'
    <2> DEFINE q == reader[r]
    <2>1. /\ q.tenant \in Tenants /\ q.query \in Queries /\ q.val \in Nat
          /\ q.raced \in BOOLEAN
      BY <1>3, ReaderFields DEF Store, TypeOK
    <2>2. [tenant |-> q.tenant, val |-> q.val, ttl |-> Ttl, raced |-> q.raced] \in Entry
      BY <2>1, CacheAssumption DEF Entry
    <2>3. cache' \in [CacheKeys -> Entry \cup {None}]
      BY <1>3, <2>2 DEF Store, TypeOK
    <2> QED BY <1>0, <1>3, <2>3 DEF Store, TypeOK
  <1>4. ASSUME NEW r \in Readers, ReaderEnds(r) PROVE TypeOK'
    BY <1>0, <1>4 DEF ReaderEnds, TypeOK
  <1>5. ASSUME NEW i \in Invalidations, Scan(i) PROVE TypeOK'
    <2>1. PICK batch \in (SUBSET Present(inv[i].tenant)) \ {{}} :
            inv' = [inv EXCEPT ![i] =
              [pc |-> "del", tenant |-> inv[i].tenant, left |-> inv[i].left \ batch,
               batch |-> batch]]
      BY <1>5 DEF Scan
    <2>2. inv[i].tenant \in Tenants /\ inv[i].left \in SUBSET CacheKeys
      BY <1>5, InvFields DEF Scan, TypeOK
    <2>3. batch \in SUBSET CacheKeys
      BY <2>1, <2>2 DEF Present, CacheKeys
    <2>4. [pc |-> "del", tenant |-> inv[i].tenant, left |-> inv[i].left \ batch,
           batch |-> batch] \in InvState
      BY <2>2, <2>3 DEF InvState
    <2>5. inv' \in [Invalidations -> InvState]
      BY <2>1, <2>4 DEF TypeOK
    <2> QED BY <1>5, <2>5 DEF Scan, TypeOK
  <1>6. ASSUME NEW i \in Invalidations, Del(i) PROVE TypeOK'
    <2>1. inv[i].tenant \in Tenants /\ inv[i].left \in SUBSET CacheKeys
      BY <1>6, InvFields DEF Del, TypeOK
    <2>2. [pc |-> "scan", tenant |-> inv[i].tenant, left |-> inv[i].left, batch |-> {}]
            \in InvState
      BY <2>1 DEF InvState
    <2>3. \A j \in Invalidations : Forget(inv[j], inv[i].batch) \in InvState
      BY ForgetEffect DEF TypeOK
    <2>4. inv' = [j \in Invalidations |->
            IF j = i THEN [pc |-> "scan", tenant |-> inv[i].tenant, left |-> inv[i].left,
                           batch |-> {}]
                     ELSE Forget(inv[j], inv[i].batch)]
      BY <1>6 DEF Del
    <2>5. inv' \in [Invalidations -> InvState]
      BY <2>2, <2>3, <2>4
    <2>6. cache' \in [CacheKeys -> Entry \cup {None}]
      BY <1>6 DEF Del, TypeOK
    <2> QED BY <1>6, <2>5, <2>6 DEF Del, TypeOK
  <1>7. ASSUME NEW i \in Invalidations, ScanDone(i) PROVE TypeOK'
    BY <1>0, <1>7 DEF ScanDone, TypeOK
  <1>8. ASSUME NEW i \in Invalidations, InvalidationFails(i) PROVE TypeOK'
    <2>1. inv[i].tenant \in Tenants
      BY <1>8, InvFields DEF InvalidationFails, TypeOK
    <2>2. missed' \in [Tenants -> SUBSET {"lost", "early"}]
      BY <1>8, <2>1 DEF InvalidationFails, TypeOK
    <2> QED BY <1>0, <1>8, <2>2 DEF InvalidationFails, TypeOK
  <1>9. ASSUME NEW w \in Writers, NEW t \in Tenants, HandlerCommit(w, t) PROVE TypeOK'
    <2>1. [pc |-> "announce", tenant |-> t] \in WriterState
      BY DEF WriterState
    <2> QED BY <1>9, <2>1 DEF HandlerCommit, TypeOK
  <1>10. ASSUME NEW w \in Writers, NEW t \in Tenants, ExpireInvalidates(w, t) PROVE TypeOK'
    <2>1. [pc |-> "commit", tenant |-> t] \in WriterState
      BY DEF WriterState
    <2>2. reader' \in [Readers -> ReaderState] /\ inv' \in [Invalidations -> InvState]
      BY <1>10, StartEffect DEF ExpireInvalidates
    <2> QED BY <1>10, <2>1, <2>2 DEF ExpireInvalidates, TypeOK
  <1>11. ASSUME NEW w \in Writers, HandlerInvalidates(w) PROVE TypeOK'
    <2>1. writer[w].tenant \in Tenants
      BY <1>11, WriterFields DEF HandlerInvalidates, TypeOK
    <2>2. reader' \in [Readers -> ReaderState] /\ inv' \in [Invalidations -> InvState]
      BY <1>11, <2>1, StartEffect DEF HandlerInvalidates
    <2> QED BY <1>0, <1>11, <2>2 DEF HandlerInvalidates, TypeOK
  <1>12. ASSUME NEW w \in Writers, HandlerDies(w) PROVE TypeOK'
    <2>1. writer[w].tenant \in Tenants
      BY <1>12, WriterFields DEF HandlerDies, TypeOK
    <2>2. missed' \in [Tenants -> SUBSET {"lost", "early"}]
      BY <1>12, <2>1 DEF HandlerDies, TypeOK
    <2> QED BY <1>0, <1>12, <2>2 DEF HandlerDies, TypeOK
  <1>13. ASSUME NEW w \in Writers, ExpireCommits(w) PROVE TypeOK'
    <2>1. writer[w].tenant \in Tenants
      BY <1>13, WriterFields DEF ExpireCommits, TypeOK
    <2>2. /\ missed' \in [Tenants -> SUBSET {"lost", "early"}]
          /\ db' \in [Tenants -> Nat]
      BY <1>13, <2>1 DEF ExpireCommits, TypeOK
    <2> QED BY <1>0, <1>13, <2>2 DEF ExpireCommits, TypeOK
  <1>14. ASSUME NEW w \in Writers, ExpireRollsBack(w) PROVE TypeOK'
    BY <1>0, <1>14 DEF ExpireRollsBack, TypeOK
  <1>15. CASE Tick
    <2>1. \A k \in CacheKeys : Aged(cache[k]) \in Entry \cup {None}
      BY AgedEntry DEF TypeOK
    <2>2. cache' \in [CacheKeys -> Entry \cup {None}]
      BY <1>15, <2>1 DEF Tick
    <2> DEFINE gone == {k \in CacheKeys : Aged(cache[k]) = None}
    <2>3. inv' = [i \in Invalidations |-> Forget(inv[i], gone)]
      BY <1>15 DEF Tick
    <2> HIDE DEF gone
    <2>4. \A i \in Invalidations : Forget(inv[i], gone) \in InvState
      BY ForgetEffect DEF TypeOK
    <2>5. inv' \in [Invalidations -> InvState]
      BY <2>3, <2>4
    <2> QED BY <1>15, <2>2, <2>5 DEF Tick, TypeOK
  <1>16. CASE UNCHANGED vars
    BY <1>16 DEF vars, TypeOK
  <1> QED
    BY <1>1, <1>2, <1>3, <1>4, <1>5, <1>6, <1>7, <1>8, <1>9, <1>10, <1>11, <1>12, <1>13,
       <1>14, <1>15, <1>16 DEF Next

\* Every key, reader, writer and invalidation keeps its declared shape.
THEOREM CacheTypes == SafetySpec => []TypeOK
  BY InitType, NextType, PTL DEF SafetySpec

(***************************************************************************)
(* Staleness, per tenant.  StaleIsDoomed is not inductive: a stale result  *)
(* is stored by a reader that loaded it earlier, and what such a reader    *)
(* holds has to be doomed before it is an entry.                           *)
(***************************************************************************)
Announcing(t) == \E w \in Writers : writer[w].pc = "announce" /\ writer[w].tenant = t

\* Reader r is about to store a result of tenant t that is no longer current and that
\* no invalidation has had a chance to miss.
StaleFill(r, t) ==
  /\ reader[r].pc = "store"
  /\ reader[r].tenant = t
  /\ reader[r].raced = FALSE
  /\ reader[r].val # db[t]

Delible(k) == StaleEntry(k) /\ cache[k].raced = FALSE

StaleAt(t) ==
  missed[t] = {} =>
     /\ (\E r \in Readers : StaleFill(r, t)) => Announcing(t)
     /\ \A k \in CacheKeys : (k[1] = t /\ Delible(k)) => Doomed(k)

\* Between two SCANs no key waits for its DEL.
ScanEmpty == \A i \in Invalidations : inv[i].pc = "scan" => inv[i].batch = {}

StaleInv == ScanEmpty /\ \A t \in Tenants : StaleAt(t)

\* A step that loses no deletion to come of a tenant, and neither loads, stores nor
\* commits anything of it, changes nothing for it.
LEMMA StaleFrame ==
  ASSUME NEW t \in Tenants, StaleAt(t),
         missed'[t] = {} => missed[t] = {},
         missed'[t] = {} => (Announcing(t) => Announcing(t)'),
         \A r \in Readers : StaleFill(r, t)' => StaleFill(r, t),
         \A k \in CacheKeys : (k[1] = t /\ Delible(k)') => Delible(k),
         missed'[t] = {} => \A k \in CacheKeys :
            (k[1] = t /\ Delible(k)' /\ Doomed(k)) => Doomed(k)'
  PROVE  StaleAt(t)'
  BY DEF StaleAt

\* A commit that will be announced dooms every entry of its tenant.
LEMMA StaleAnnounced ==
  ASSUME NEW t \in Tenants, Announcing(t)'
  PROVE  StaleAt(t)'
  BY DEF StaleAt, Doomed, Announcing

\* The steps of a reader.
LEMMA StaleReader ==
  ASSUME TypeOK, StaleInv, NEW r \in Readers,
         \/ \E t \in Tenants, q \in Queries : Miss(r, t, q)
         \/ Load(r) \/ ReaderEnds(r)
  PROVE  StaleInv'
  <1>1. UNCHANGED <<db, cache, writer, inv, missed>>
    BY DEF Miss, Load, ReaderEnds
  <1>2. \A p \in Readers \ {r} : reader'[p] = reader[p]
    BY DEF Miss, Load, ReaderEnds, TypeOK
  <1>3. \A t \in Tenants : ~ StaleFill(r, t)'
    <2>1. CASE \E t \in Tenants, q \in Queries : Miss(r, t, q)
      <3>1. reader'[r].pc = "query"
        BY <2>1 DEF Miss, TypeOK
      <3> QED BY <3>1 DEF StaleFill
    <2>2. CASE ReaderEnds(r)
      <3>1. reader'[r].pc = "idle"
        BY <2>2 DEF ReaderEnds, TypeOK, IdleReader
      <3> QED BY <3>1 DEF StaleFill
    <2>3. CASE Load(r)
      <3>1. reader'[r].tenant = reader[r].tenant /\ reader'[r].val = db[reader[r].tenant]
        BY <2>3 DEF Load, TypeOK
      <3> QED BY <1>1, <3>1 DEF StaleFill
    <2> QED BY <2>1, <2>2, <2>3
  <1>4. ASSUME NEW t \in Tenants PROVE StaleAt(t)'
    <2>1. \A p \in Readers : StaleFill(p, t)' => StaleFill(p, t)
      BY <1>1, <1>2, <1>3 DEF StaleFill
    <2>2. Announcing(t)' <=> Announcing(t)
      BY <1>1 DEF Announcing
    <2>3. \A k \in CacheKeys : Delible(k)' <=> Delible(k)
      BY <1>1 DEF Delible, StaleEntry
    <2>4. \A k \in CacheKeys : Doomed(k) => Doomed(k)'
      BY <1>1 DEF Doomed, Active
    <2> QED BY <1>1, <2>1, <2>2, <2>3, <2>4, StaleFrame DEF StaleInv
  <1>5. ScanEmpty'
    BY <1>1 DEF StaleInv, ScanEmpty
  <1> QED BY <1>4, <1>5 DEF StaleInv

\* A stale result that is stored is doomed by then.
LEMMA StaleStore ==
  ASSUME TypeOK, StaleInv, NEW r \in Readers, Store(r)
  PROVE  StaleInv'
  <1>1. PICK t \in Tenants, q \in Queries :
          /\ reader[r].pc = "store" /\ reader[r].tenant = t /\ reader[r].query = q
          /\ reader[r].raced \in BOOLEAN
    BY ReaderFields DEF Store, TypeOK
  <1>2. UNCHANGED <<db, writer, inv, missed>>
    BY DEF Store
  <1>3. /\ \A p \in Readers \ {r} : reader'[p] = reader[p]
        /\ reader'[r].pc = "idle"
    BY DEF Store, TypeOK, IdleReader
  <1>4. /\ <<t, q>> \in CacheKeys
        /\ \A k \in CacheKeys \ {<<t, q>>} : cache'[k] = cache[k]
        /\ cache'[<<t, q>>].val = reader[r].val
        /\ cache'[<<t, q>>].raced = reader[r].raced
    BY <1>1 DEF Store, TypeOK, cacheKey, CacheKeys
  <1>5. \A u \in Tenants : \A p \in Readers : StaleFill(p, u)' => StaleFill(p, u)
    BY <1>2, <1>3 DEF StaleFill
  <1>6. \A u \in Tenants : Announcing(u)' <=> Announcing(u)
    BY <1>2 DEF Announcing
  <1>7. \A k \in CacheKeys \ {<<t, q>>} : Delible(k)' => Delible(k)
    BY <1>2, <1>4 DEF Delible, StaleEntry
  <1>8. \A k \in CacheKeys : Doomed(k) => Doomed(k)'
    BY <1>2 DEF Doomed, Active
  <1>9. ASSUME NEW u \in Tenants PROVE StaleAt(u)'
    <2>1. CASE u # t
      <3>1. \A k \in CacheKeys : k[1] = u => k # <<t, q>>
        BY <2>1
      <3> QED BY <1>2, <1>5, <1>6, <1>7, <1>8, <3>1, StaleFrame DEF StaleInv
    <2>2. CASE u = t
      <3> SUFFICES ASSUME missed[t] = {} PROVE StaleAt(t)'
        BY <1>2, <2>2 DEF StaleAt
      <3>1. Delible(<<t, q>>)' => Announcing(t)
        <4> SUFFICES ASSUME Delible(<<t, q>>)' PROVE Announcing(t)
          OBVIOUS
        <4>1. StaleFill(r, t)
          BY <1>1, <1>2, <1>4 DEF Delible, StaleEntry, StaleFill
        <4> QED BY <4>1 DEF StaleInv, StaleAt
      <3>2. CASE Announcing(t)
        BY <1>6, <3>2, StaleAnnounced
      <3>3. CASE ~ Announcing(t)
        <4>1. \A k \in CacheKeys : (k[1] = t /\ Delible(k)') => Delible(k)
          BY <1>7, <3>1, <3>3
        <4> QED BY <1>2, <1>5, <1>6, <1>8, <4>1, StaleFrame DEF StaleInv
      <3> QED BY <3>2, <3>3
    <2> QED BY <2>1, <2>2
  <1>10. ScanEmpty'
    BY <1>2 DEF StaleInv, ScanEmpty
  <1> QED BY <1>9, <1>10 DEF StaleInv

\* The steps of an invalidation delete what they no longer remember.
LEMMA StaleInvalidation ==
  ASSUME TypeOK, StaleInv, NEW i \in Invalidations,
         Scan(i) \/ Del(i) \/ ScanDone(i) \/ InvalidationFails(i)
  PROVE  StaleInv'
  <1>1. UNCHANGED <<db, reader, writer>>
    BY DEF Scan, Del, ScanDone, InvalidationFails
  <1>2. /\ inv[i].pc # "idle"
        /\ ~ Del(i) => \A j \in Invalidations \ {i} : inv'[j] = inv[j]
    BY DEF Scan, Del, ScanDone, InvalidationFails, TypeOK
  <1>3. ASSUME NEW j \in Invalidations \ {i}
         PROVE  /\ inv'[j].pc = inv[j].pc
                /\ inv[j].pc # "idle" =>
                     /\ inv'[j].tenant = inv[j].tenant
                     /\ inv'[j].batch = inv[j].batch
                     /\ \A k \in CacheKeys : (k \in inv[j].left /\ cache'[k] # None)
                          => k \in inv'[j].left
    <2>1. CASE ~ Del(i)
      BY <1>2, <2>1
    <2>2. CASE Del(i)
      <3>1. /\ inv[j] \in InvState
            /\ inv'[j] = Forget(inv[j], inv[i].batch)
            /\ \A k \in CacheKeys : cache'[k] # None => k \notin inv[i].batch
        BY <2>2 DEF Del, TypeOK
      <3> QED BY <3>1, ForgetEffect
    <2> QED BY <2>1, <2>2
  <1>4. \A u \in Tenants : \A p \in Readers : StaleFill(p, u)' <=> StaleFill(p, u)
    BY <1>1 DEF StaleFill
  <1>5. \A u \in Tenants : Announcing(u)' <=> Announcing(u)
    BY <1>1 DEF Announcing
  <1>6. \A k \in CacheKeys : Delible(k)' => Delible(k)
    <2>1. CASE Del(i)
      <3>1. \A k \in CacheKeys : cache'[k] = None \/ cache'[k] = cache[k]
        BY <2>1 DEF Del
      <3> QED BY <1>1, <3>1 DEF Delible, StaleEntry
    <2>2. CASE ~ Del(i)
      <3>1. cache' = cache
        BY <2>2 DEF Scan, ScanDone, InvalidationFails
      <3> QED BY <1>1, <3>1 DEF Delible, StaleEntry
    <2> QED BY <2>1, <2>2
  <1>7. \A u \in Tenants : missed'[u] = {} =>
          missed[u] = {} /\ ~ (InvalidationFails(i) /\ inv[i].tenant = u)
    <2>1. CASE InvalidationFails(i)
      BY <2>1, InvFields DEF InvalidationFails, TypeOK
    <2>2. CASE ~ InvalidationFails(i)
      BY <2>2 DEF Scan, Del, ScanDone
    <2> QED BY <2>1, <2>2
  <1>8. ASSUME NEW k \in CacheKeys, Delible(k)', Doomed(k), missed'[k[1]] = {}
        PROVE  Doomed(k)'
    <2>1. CASE \E w \in Writers : writer[w].pc = "announce" /\ writer[w].tenant = k[1]
      BY <1>1, <2>1 DEF Doomed
    <2>2. CASE \E j \in Active(k[1]) : j # i /\ k \in inv[j].left \cup inv[j].batch
      <3>1. PICK j \in Invalidations \ {i} :
              /\ inv[j].pc # "idle" /\ inv[j].tenant = k[1]
              /\ k \in inv[j].left \cup inv[j].batch
        BY <2>2 DEF Active
      <3>2. cache'[k] # None
        BY <1>8 DEF Delible, StaleEntry
      <3>3. /\ inv'[j].pc # "idle" /\ inv'[j].tenant = k[1]
            /\ k \in inv'[j].left \cup inv'[j].batch
        BY <1>3, <3>1, <3>2
      <3> QED BY <3>3 DEF Doomed, Active
    <2>3. CASE i \in Active(k[1]) /\ k \in inv[i].left \cup inv[i].batch
      <3>0. k[1] \in Tenants /\ cache'[k] # None /\ inv[i].tenant = k[1]
        BY <1>8, <2>3 DEF CacheKeys, Delible, StaleEntry, Active
      <3>1. CASE Scan(i)
        <4>1. PICK batch \in (SUBSET Present(inv[i].tenant)) \ {{}} :
                inv' = [inv EXCEPT ![i] =
                  [pc |-> "del", tenant |-> inv[i].tenant, left |-> inv[i].left \ batch,
                   batch |-> batch]]
          BY <3>1 DEF Scan
        <4>2. k \in inv[i].left
          BY <2>3, <3>1 DEF StaleInv, ScanEmpty, Scan
        <4>3. /\ inv'[i].pc = "del" /\ inv'[i].tenant = k[1]
              /\ k \in inv'[i].left \cup inv'[i].batch
          BY <3>0, <4>1, <4>2 DEF TypeOK
        <4> QED BY <4>3 DEF Doomed, Active
      <3>2. CASE Del(i)
        <4>1. k \notin inv[i].batch
          BY <3>0, <3>2 DEF Del
        <4>2. inv'[i].pc = "scan" /\ inv'[i].tenant = k[1] /\ k \in inv'[i].left
          BY <2>3, <3>0, <3>2, <4>1 DEF Del, TypeOK
        <4> QED BY <4>2 DEF Doomed, Active
      <3>3. CASE ScanDone(i)
        <4>1. k \in inv[i].left
          BY <2>3, <3>3 DEF StaleInv, ScanEmpty, ScanDone
        <4> QED BY <3>3, <4>1 DEF ScanDone
      <3>4. CASE InvalidationFails(i)
        BY <1>7, <1>8, <3>0, <3>4
      <3> QED BY <3>1, <3>2, <3>3, <3>4
    <2> QED BY <1>8, <2>1, <2>2, <2>3 DEF Doomed
  <1>9. \A t \in Tenants : StaleAt(t)'
    BY <1>4, <1>5, <1>6, <1>7, <1>8, StaleFrame DEF StaleInv
  <1>10. ScanEmpty'
    <2>1. inv'[i].pc = "scan" => inv'[i].batch = {}
      BY DEF Scan, Del, ScanDone, InvalidationFails, TypeOK, IdleInv
    <2> QED BY <1>3, <2>1 DEF StaleInv, ScanEmpty
  <1> QED BY <1>9, <1>10 DEF StaleInv

\* An invalidation that starts dooms every entry of its tenant, and marks every fill
\* under way.
LEMMA StaleStart ==
  ASSUME TypeOK, StaleInv, NEW t \in Tenants, StartInvalidation(t),
         UNCHANGED <<db, cache, missed>>,
         \A u \in Tenants \ {t} : Announcing(u) => Announcing(u)'
  PROVE  StaleInv'
  <1>1. /\ \A r \in Readers :
             /\ ~ (reader[r].pc = "store" /\ reader[r].tenant = t) => reader'[r] = reader[r]
             /\ reader'[r].pc = "store" => /\ reader[r].pc = "store"
                                           /\ reader'[r].tenant = reader[r].tenant
                                           /\ reader'[r].val = reader[r].val
             /\ (reader'[r].pc = "store" /\ reader'[r].tenant = t) => reader'[r].raced = TRUE
        /\ \A i \in Invalidations : inv[i].pc # "idle" => inv'[i] = inv[i]
        /\ \A i \in Invalidations : inv'[i].pc = "scan" =>
             inv'[i] = inv[i] \/ inv'[i].batch = {}
    BY StartEffect
  <1>2. PICK i \in Invalidations :
          inv'[i] = [pc |-> "scan", tenant |-> t, left |-> Present(t), batch |-> {}]
    BY StartEffect
  <1>3. \A k \in CacheKeys : Delible(k)' => Delible(k)
    BY DEF Delible, StaleEntry
  <1>4. ASSUME NEW u \in Tenants \ {t} PROVE StaleAt(u)'
    <2>1. \A r \in Readers : StaleFill(r, u)' => StaleFill(r, u)
      BY <1>1 DEF StaleFill
    <2>2. \A k \in CacheKeys : (k[1] = u /\ Doomed(k)) => Doomed(k)'
      BY <1>1 DEF Doomed, Active, Announcing
    <2> QED BY <1>3, <2>1, <2>2, StaleFrame DEF StaleInv
  <1>5. StaleAt(t)'
    <2>1. \A r \in Readers : ~ StaleFill(r, t)'
      BY <1>1 DEF StaleFill
    <2>2. ASSUME NEW k \in CacheKeys, k[1] = t, Delible(k)'
          PROVE  Doomed(k)'
      <3>1. k \in Present(t)
        BY <2>2 DEF Delible, StaleEntry, Present, CacheKeys
      <3> QED BY <1>2, <2>2, <3>1 DEF Doomed, Active
    <2> QED BY <2>1, <2>2 DEF StaleAt
  <1>6. ScanEmpty'
    BY <1>1 DEF StaleInv, ScanEmpty
  <1> QED BY <1>4, <1>5, <1>6 DEF StaleInv

\* The steps of a handler or an expiry that commits, invalidates or gives up.
LEMMA StaleWriter ==
  ASSUME TypeOK, StaleInv, NEW w \in Writers,
         \/ \E t \in Tenants : HandlerCommit(w, t) \/ ExpireInvalidates(w, t)
         \/ HandlerInvalidates(w) \/ HandlerDies(w) \/ ExpireCommits(w) \/ ExpireRollsBack(w)
  PROVE  StaleInv'
  <1>1. \A v \in Writers \ {w} : writer'[v] = writer[v]
    BY DEF HandlerCommit, ExpireInvalidates, HandlerInvalidates, HandlerDies, ExpireCommits,
           ExpireRollsBack, TypeOK
  <1>2. ASSUME NEW u, Announcing(u), ~ (writer[w].pc = "announce" /\ writer[w].tenant = u)
        PROVE  Announcing(u)'
    BY <1>1, <1>2 DEF Announcing
  <1>3. ASSUME NEW t \in Tenants, HandlerCommit(w, t) PROVE StaleInv'
    <2>1. /\ UNCHANGED <<cache, reader, inv, missed>> /\ writer[w].pc = "idle"
          /\ writer'[w] = [pc |-> "announce", tenant |-> t]
          /\ \A u \in Tenants \ {t} : db'[u] = db[u]
      BY <1>3 DEF HandlerCommit, TypeOK
    <2>2. Announcing(t)'
      BY <2>1 DEF Announcing
    <2>3. ASSUME NEW u \in Tenants \ {t} PROVE StaleAt(u)'
      <3>1. \A r \in Readers : StaleFill(r, u)' => StaleFill(r, u)
        BY <2>1 DEF StaleFill
      <3>2. \A k \in CacheKeys : (k[1] = u /\ Delible(k)') => Delible(k)
        BY <2>1 DEF Delible, StaleEntry
      <3>3. \A k \in CacheKeys : (k[1] = u /\ Doomed(k)) => Doomed(k)'
        BY <1>2, <2>1 DEF Doomed, Active, Announcing
      <3>4. Announcing(u) => Announcing(u)'
        BY <1>2, <2>1
      <3> QED BY <2>1, <3>1, <3>2, <3>3, <3>4, StaleFrame DEF StaleInv
    <2>4. ScanEmpty'
      BY <2>1 DEF StaleInv, ScanEmpty
    <2> QED BY <2>2, <2>3, <2>4, StaleAnnounced DEF StaleInv
  <1>4. ASSUME NEW t \in Tenants, ExpireInvalidates(w, t) PROVE StaleInv'
    <2>1. /\ StartInvalidation(t) /\ UNCHANGED <<db, cache, missed>>
          /\ writer[w].pc = "idle"
      BY <1>4 DEF ExpireInvalidates
    <2> QED BY <1>2, <2>1, StaleStart
  <1>5. CASE HandlerInvalidates(w)
    <2>1. PICK t \in Tenants : t = writer[w].tenant
      BY <1>5, WriterFields DEF HandlerInvalidates, TypeOK
    <2>2. StartInvalidation(t) /\ UNCHANGED <<db, cache, missed>>
      BY <1>5, <2>1 DEF HandlerInvalidates
    <2>3. \A u \in Tenants \ {t} : Announcing(u) => Announcing(u)'
      BY <1>2, <2>1
    <2> QED BY <2>2, <2>3, StaleStart
  <1>6. CASE HandlerDies(w) \/ ExpireCommits(w) \/ ExpireRollsBack(w)
    <2>1. UNCHANGED <<cache, reader, inv>>
      BY <1>6 DEF HandlerDies, ExpireCommits, ExpireRollsBack
    <2>2. writer[w].pc # "idle" /\ writer[w].tenant \in Tenants
      BY <1>6, WriterFields DEF HandlerDies, ExpireCommits, ExpireRollsBack, TypeOK
    <2>3. ASSUME NEW u \in Tenants, missed'[u] = {}
          PROVE  /\ missed[u] = {} /\ db'[u] = db[u]
                 /\ ~ (writer[w].pc = "announce" /\ writer[w].tenant = u)
      <3>1. PICK t \in Tenants : t = writer[w].tenant
        BY <2>2
      <3>2. CASE HandlerDies(w)
        <4>1. missed' = [missed EXCEPT ![t] = @ \cup {"lost"}] /\ UNCHANGED db
          BY <3>1, <3>2 DEF HandlerDies
        <4>2. u # t
          BY <2>3, <4>1 DEF TypeOK
        <4> QED BY <2>3, <3>1, <4>1, <4>2 DEF TypeOK
      <3>3. CASE ExpireCommits(w)
        <4>1. /\ missed' = [missed EXCEPT ![t] = @ \cup {"early"}]
              /\ db' = [db EXCEPT ![t] = @ + 1]
          BY <3>1, <3>3 DEF ExpireCommits
        <4>2. u # t
          BY <2>3, <4>1 DEF TypeOK
        <4> QED BY <2>3, <3>1, <4>1, <4>2 DEF TypeOK
      <3>4. CASE ExpireRollsBack(w)
        BY <2>3, <3>4 DEF ExpireRollsBack
      <3> QED BY <1>6, <3>2, <3>3, <3>4
    <2>4. ASSUME NEW u \in Tenants PROVE StaleAt(u)'
      <3> SUFFICES ASSUME missed'[u] = {} PROVE StaleAt(u)'
        BY DEF StaleAt
      <3>1. \A r \in Readers : StaleFill(r, u)' => StaleFill(r, u)
        BY <2>1, <2>3 DEF StaleFill
      <3>2. \A k \in CacheKeys : (k[1] = u /\ Delible(k)') => Delible(k)
        BY <2>1, <2>3 DEF Delible, StaleEntry
      <3>3. \A k \in CacheKeys : (k[1] = u /\ Doomed(k)) => Doomed(k)'
        BY <1>2, <2>1, <2>3 DEF Doomed, Active, Announcing
      <3>4. Announcing(u) => Announcing(u)'
        BY <1>2, <2>3
      <3> QED BY <2>3, <3>1, <3>2, <3>3, <3>4, StaleFrame DEF StaleInv
    <2>5. ScanEmpty'
      BY <2>1 DEF StaleInv, ScanEmpty
    <2> QED BY <2>4, <2>5 DEF StaleInv
  <1> QED BY <1>3, <1>4, <1>5, <1>6

\* A key that ages is no staler than before.
LEMMA StaleTick ==
  ASSUME TypeOK, StaleInv, Tick
  PROVE  StaleInv'
  <1>1. UNCHANGED <<db, reader, writer, missed>>
    BY DEF Tick
  <1>2. \A k \in CacheKeys : cache'[k] # None =>
          /\ cache[k] # None
          /\ cache'[k].val = cache[k].val
          /\ cache'[k].raced = cache[k].raced
    BY AgedEntry DEF Tick, TypeOK
  <1>3. \A k \in CacheKeys : Delible(k)' => Delible(k)
    BY <1>1, <1>2 DEF Delible, StaleEntry
  <1>4. ASSUME NEW i \in Invalidations
        PROVE  /\ inv'[i].pc = inv[i].pc
               /\ inv[i].pc # "idle" =>
                    /\ inv'[i].tenant = inv[i].tenant
                    /\ inv'[i].batch = inv[i].batch
                    /\ \A k \in CacheKeys : (k \in inv[i].left /\ cache'[k] # None)
                         => k \in inv'[i].left
    <2> DEFINE gone == {k \in CacheKeys : Aged(cache[k]) = None}
    <2>1. /\ inv[i] \in InvState
          /\ inv'[i] = Forget(inv[i], gone)
          /\ \A k \in CacheKeys : cache'[k] # None => k \notin gone
      BY DEF Tick, TypeOK
    <2> HIDE DEF gone
    <2> QED BY <2>1, ForgetEffect
  <1>5. ASSUME NEW k \in CacheKeys, Delible(k)', Doomed(k) PROVE Doomed(k)'
    <2>1. CASE \E w \in Writers : writer[w].pc = "announce" /\ writer[w].tenant = k[1]
      BY <1>1, <2>1 DEF Doomed
    <2>2. CASE \E i \in Active(k[1]) : k \in inv[i].left \cup inv[i].batch
      <3>1. PICK i \in Invalidations :
              /\ inv[i].pc # "idle" /\ inv[i].tenant = k[1]
              /\ k \in inv[i].left \cup inv[i].batch
        BY <2>2 DEF Active
      <3>2. cache'[k] # None
        BY <1>5 DEF Delible, StaleEntry
      <3>3. /\ inv'[i].pc # "idle" /\ inv'[i].tenant = k[1]
            /\ k \in inv'[i].left \cup inv'[i].batch
        BY <1>4, <3>1, <3>2
      <3> QED BY <3>3 DEF Doomed, Active
    <2> QED BY <1>5, <2>1, <2>2 DEF Doomed
  <1>6. \A t \in Tenants : \A r \in Readers : StaleFill(r, t)' => StaleFill(r, t)
    BY <1>1 DEF StaleFill
  <1>7. \A t \in Tenants : Announcing(t) => Announcing(t)'
    BY <1>1 DEF Announcing
  <1>8. \A t \in Tenants : StaleAt(t)'
    BY <1>1, <1>3, <1>5, <1>6, <1>7, StaleFrame DEF StaleInv
  <1>9. ScanEmpty'
    BY <1>4 DEF StaleInv, ScanEmpty
  <1> QED BY <1>8, <1>9 DEF StaleInv

\* Every step keeps the invariant.
LEMMA StaleNext == TypeOK /\ StaleInv /\ [Next]_vars => StaleInv'
  <1> SUFFICES ASSUME TypeOK, StaleInv, [Next]_vars PROVE StaleInv'
    OBVIOUS
  <1>1. CASE UNCHANGED vars
    BY <1>1 DEF vars, StaleInv, ScanEmpty, StaleAt, StaleFill, Delible, StaleEntry,
                Announcing, Doomed, Active
  <1> QED
    BY <1>1, StaleReader, StaleStore, StaleInvalidation, StaleWriter, StaleTick DEF Next

\* A stale entry is about to be deleted, unless its fill overlapped an invalidation or
\* a change of its tenant was never followed by one that ran to its end.
THEOREM StaleEntriesDoomed == SafetySpec => []StaleIsDoomed
  <1>1. Init => StaleInv
    BY DEF Init, StaleInv, ScanEmpty, StaleAt, StaleFill, Delible, StaleEntry, IdleInv,
           IdleReader
  <1>2. TypeOK /\ StaleInv => StaleIsDoomed
    <2> SUFFICES ASSUME TypeOK, StaleInv, NEW k \in CacheKeys, StaleEntry(k),
                        ~ cache[k].raced, missed[k[1]] = {}
                 PROVE  Doomed(k)
      BY DEF StaleIsDoomed
    <2>1. k[1] \in Tenants
      BY DEF CacheKeys
    <2>2. cache[k].raced = FALSE
      BY DEF TypeOK, StaleEntry, Entry
    <2> QED BY <2>1, <2>2 DEF StaleInv, StaleAt, Delible
  <1> QED BY <1>1, <1>2, StaleNext, CacheTypes, PTL DEF SafetySpec

(***************************************************************************)
(* Isolation.                                                              *)
(***************************************************************************)
\* A key of one tenant never holds another tenant's slots.
THEOREM TenantsApart == SafetySpec => []CacheIsolation
  <1>1. Init => CacheIsolation
    BY DEF Init, CacheIsolation
  <1>2. TypeOK /\ CacheIsolation /\ [Next]_vars => CacheIsolation'
    <2> SUFFICES ASSUME TypeOK, CacheIsolation, [Next]_vars PROVE CacheIsolation'
      OBVIOUS
    <2>1. ASSUME NEW r \in Readers, Store(r) PROVE CacheIsolation'
      <3>1. reader[r].tenant \in Tenants /\ reader[r].query \in Queries
        BY <2>1, ReaderFields DEF Store, TypeOK
      <3>2. \A k \in CacheKeys : cache'[k] = cache[k] \/ cache'[k].tenant = k[1]
        BY <2>1, <3>1 DEF Store, TypeOK, cacheKey, CacheKeys
      <3> QED BY <3>2 DEF CacheIsolation
    <2>2. ASSUME NEW i \in Invalidations, Del(i) PROVE CacheIsolation'
      <3>1. \A k \in CacheKeys : cache'[k] = None \/ cache'[k] = cache[k]
        BY <2>2 DEF Del
      <3> QED BY <3>1 DEF CacheIsolation
    <2>3. CASE Tick
      <3>1. \A k \in CacheKeys : cache'[k] # None =>
              cache[k] # None /\ cache'[k].tenant = cache[k].tenant
        BY <2>3, AgedEntry DEF Tick, TypeOK
      <3> QED BY <3>1 DEF CacheIsolation
    <2>4. CASE UNCHANGED cache
      BY <2>4 DEF CacheIsolation
    <2> QED
      BY <2>1, <2>2, <2>3, <2>4
         DEF Next, vars, Miss, Load, ReaderEnds, Scan, ScanDone, InvalidationFails,
             HandlerCommit, HandlerInvalidates, HandlerDies, ExpireInvalidates,
             ExpireCommits, ExpireRollsBack
  <1> QED BY <1>1, <1>2, CacheTypes, PTL DEF SafetySpec

=============================================================================
