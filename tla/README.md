# Verification of the Booking Availability Platform

TLA+ models of the protocols of this repository, the TLC configurations that check them on
small instances, and TLAPS proofs of what matters most for every instance. Paths below are
relative to the repository; `booking.service.ts:254` means line 254 of that file.

```
tlc -workers 2 -config BookingSafety.cfg MCBooking.tla     # one run
tlapm BookingProofs.tla                                    # one proof module
```

`PROJECT.json` lists for every definition the lines it models, for every run its properties, and
for every property a mutation of the model that violates it.

## 1. The system

An Express server, PostgreSQL behind Prisma, Redis, and a BullMQ worker in the same process.
Several processes may run against one database and one Redis (nothing in the code is
process-local except timers), so all the state that matters is in tables and keys and every
handler, every worker and every fire-and-forget promise is a concurrent actor.

| Part | State it keeps | Operations | Interacts with |
|---|---|---|---|
| Booking service (`services/booking.service.ts`, `booking-state.ts`) | `availability_slots` (`reserved`, `version`), `bookings`, `booking_status_history` | reserve, confirm, cancel, expire, read | audit log in the same transaction; webhook dispatch and cache invalidation after it (reserve, cancel), webhook only (confirm), both *before* the COMMIT (expire) |
| Expiry worker and queue (`workers/`, `queues/`) | the batch of one poll, in memory | poll every minute, at most 50 overdue holds, one transaction each | booking service |
| Audit log (`lib/audit.ts`) | `audit_logs` | append, inside the caller's transaction | bookings, sessions, webhooks |
| Availability cache (`lib/availability-cache.ts`) | Redis keys `avail:{tenant}:*` with a TTL | get, set, SCAN + DEL of a whole tenant | filled by search and detail, emptied by slot changes |
| Experience search and detail (`services/experience.service.ts`) | none | search (matches, count, page, prices in four queries), detail | cache, pricing, and the slots that bookings change |
| Admin lists (`services/admin-booking.service.ts`, `audit-log.service.ts`) | none | bookings and audit rows, filtered, ordered, a count and a page in two queries | bookings and audit log, while they change |
| Sessions (`services/auth.service.ts`, `auth/tokens.ts`) | `refresh_token_families`, `refresh_tokens` | login, refresh (rotation, reuse detection), logout | audit log |
| Webhook registration (`services/webhook.service.ts`) | `tenant_webhooks` | register or replace, test | audit log |
| Webhook dispatch and delivery (`booking-webhook.service.ts`, `webhook-delivery.service.ts`) | none | read hook, read booking, post once | booking service, the tenant's endpoint |
| Pricing (`services/pricing.service.ts`) | none | price of a party under the supplier's rules | detail preview, reservation |
| Authentication, roles, validation, HTTP, logging, configuration | none | stateless checks | everything |

### What is hard

* **Reads before the transaction.** Every booking handler and the refresh read rows, await, and
  then write in a transaction built from that snapshot. Reserve and cancel carry the slot's
  `version` as an optimistic lock; confirm carries nothing. `findFirst` with `include` is more
  than one SELECT, so a snapshot may itself be of two moments.
* **Row locks taken in different orders.** A cancel updates the slot and then the booking, an expiry the
  booking and then the slot; an UPDATE that waited evaluates its WHERE clause on what it waited for.
* **Several queries, one answer.** A search is four queries and a list two, each of its own moment; pages
  are offsets into rows that are still being added.
* **Two workers, one hold.** Polls of two processes overlap; a claim (`updateMany` on id, status
  and `reservedUntil`) decides.
* **Effects before COMMIT.** An expiry starts its webhook and its invalidation inside its
  transaction.
* **Fire and forget.** Dispatches and invalidations are neither awaited nor retried; a process
  may die before, within or after them.
* **A cache filled by slow readers** while it is being emptied by a SCAN that is not a snapshot.
* **Lost answers and overlapping requests** of a client that rotates tokens.
* **Failures that are swallowed** and left to the next poll.
* **Data nobody validated when it was written**: pricing configs.

### What makes each part correct

* Booking: `reserved` stays between 0 and the capacity, counts exactly the seats held, moves only
  with a history row and a version; timelines and audit agree with the booking, and say where it came from; a
  confirmed booking is never expired; every overdue hold ends.
* Worker: a hold is expired once, and never while it could still be confirmed; what a claim established
  holds until COMMIT.
* Transactions: interleaved statements do what whole transactions would; only a cancel and an expiry of
  one overdue hold deadlock; every transaction ends.
* Searches and lists: each part of an answer is exact for the moment its query saw, whatever commits between
  the queries; what is sorted by price is in the order it shows; pages are full, and walking them misses no row
  that was there, except what ties and a stale total on the last page can hide.
* Cache: a stale entry is about to be deleted, or there is one of three known reasons; the TTL
  ends staleness; tenants are apart.
* Sessions: an open session has one live token and one more for every fork, and only rotated ones are
  dead; a closed session stays closed; a client that behaves is never logged out, one that lost an answer
  always is; sessions are in the audit log.
* Webhooks: announcements and history rows balance, event by event, counting what is lost and what an expiry
  announced in vain; no payload shows an older state than its event's; it goes to the
  tenant, signed with a secret of that tenant; racing registrations leave one row.
* Pricing: the total does not depend on the order of the rules, is in range whatever the configs
  say, is explained by the adjustments shown, and is not cheaper after waiting.

## 2. The modules

| Module | Models | State and actions |
|---|---|---|
| `Booking` | booking service, worker, audit rows of bookings | One variable per table; `req` and `worker` hold what a handler or a poll carries across its awaits. A `...Read` action is a read and its early returns, a `...Commit` action one whole transaction (a transaction that would fail is not enabled; `Abort` stands for every failure). Cancel has two reads because its snapshot is two SELECTs. An expiry is `ExpireBody` (until it announces) and `ExpireCommit`, between which its rows are locked. |
| `SeatLifecycle` | **abstract**: what the booking service promises of seats | One variable for the seats taken and one for the holds. Take, keep, give back, lapse, and the two steps the code can do beyond its state machine: revive, give back again. |
| `BookingLifecycle` | `Booking` **as an implementation of `SeatLifecycle`** | The mapping: `reserved` is the seats taken, a booking is a hold whose phase is its status. |
| `BookingTx` | the transactions of the booking service **statement by statement** | Committed rows as in `Booking`; `tx` is the open transaction of every handler and worker: the statement to run next and the rows it has written, which are its locks. An UPDATE of a locked row is not enabled (it waits); `BreakDeadlock` is PostgreSQL's choice of a victim. `B` is `Booking` under the mapping that leaves open transactions of handlers out and calls a worker with nothing left but COMMIT "commit". |
| `Search` | the queries of one search, **over the slots of `Booking`** | `reader` goes from matches to count, page and prices, and remembers the slots that each of the last three saw; filters, the set of orders the database may answer with (ties in any order), LIMIT or slice, the cheapest slot per experience and its fallback, the stable sort by price. |
| `AdminLists` | both admin lists and a client that walks their pages, **over `Booking` and next to `Search`** | Count and findMany are two steps. `stamp` keeps `createdAt`, which is taken before the COMMIT and may lag behind. |
| `AvailabilityCache` | cache, and search, detail and slot changes as its users | What a result shows is abstracted to the number of slot changes committed when its first slot query ran. Miss, Load and Store are the awaits of a reader; Scan, Del and ScanDone the loop of an invalidation, to which SCAN promises only the keys that were there throughout (`Forget`); `raced` and `missed` are auxiliary and name the three reasons for staleness. |
| `RefreshTokens` | login, refresh, logout, and the client | Refresh: `ReadToken`, then the family (`Accepted`, `Rejected`, `ReuseDetected`), then the transaction (`Rotate`, `RevokeReused`), then the answer (`Respond`, or `Abort` when it is lost). `why` records what the client did that may close a session. |
| `BookingWebhooks` | registration, dispatch and delivery **composed with `Booking`** | EXTENDS `Booking`; `Announce` and `ExpireBody` are conjoined with the start of a dispatch, a failing COMMIT and a crash before the announcement with the counters `rollbacks` and `lost`, which are auxiliary; all other booking steps leave the webhooks alone. |
| `Pricing` | `calculatePricingPreview` as previewed by a detail and charged by a reservation | The loop takes any remaining rule next (the query has no ORDER BY). The running total is an exact fraction; `formatMoney` rounds to the nearest cent and either way at a tie. |
| `MCBooking`, `MCBookingTx`, `MCRefreshTokens`, `MCBookingWebhooks`, `MCPricing`, `MCReads` | instances | values of the constants that are functions or records, and symmetry sets |
| `BookingProofs`, `BookingRowsProofs`, `BookingTxProofs`, `CacheProofs`, `RefreshProofs`, `WebhookProofs`, `PricingProofs`, `ReadsProofs` | proofs | see section 4 |

Operators that no action uses (`CanReserveById`, `DelOnce`, ...), each next to the one it varies,
are the mutations of `PROJECT.json`.

Abstractions: ids, references, names, urls and secrets are model values or numbers; wording,
logging and HTTP status codes are left out; a refused request is a step that is not enabled,
because it changes nothing. Money is absent from `Booking`, exact in `Pricing`, and a constant per slot in
`Search`. PostgreSQL runs at READ COMMITTED (Prisma's default here). `Booking` takes a whole
transaction of a handler for one step, and the one transaction with an effect outside the
database before its COMMIT for two; that this hides nothing is what `BookingTx` is for, and it is proved.

## 3. Runs

| Run | Question | States | Result |
|---|---|---|---|
| `BookingSafety` | do seats, versions, timelines and audit stay consistent, and do seats live as `SeatLifecycle` says? | 269,535 | holds |
| `BookingWorkers` | two workers, overlapping batches: once, and eventually? | 20,252 | holds |
| `BookingTx` | statements, locks and deadlocks: is it still `Booking`, and does every transaction end? | 10,479 | holds |
| `Cache` | are all stale entries accounted for, tenants apart, and entries eventually current? | 670,596 | holds |
| `RefreshSafety` | sessions with overlap, loss, logout, expiry | 326,179 | holds |
| `Webhooks` | do announcements and events balance, with two tenants, racing registrations and dispatches? | 658,424 | holds |
| `Pricing` | order, sign, rounding, clock | 95,592 | holds |
| `Reads` | searches and page walks while bookings come and go | 1,121,424 | holds |
| `BookingTransitions` | does a status follow `ALLOWED_TRANSITIONS`? | | violated |
| `BookingBatchStarves` | does every overdue hold end, if only other slots left the lifecycle? | | violated |
| `CacheEarly` | does every slot change invalidate? | | violated |
| `WebhookEarly` | did what was announced happen? | | violated |

### Bounds, and why they are enough

* `BookingSafety`: two bookings of one or two seats on a slot of four with one seeded, two handlers,
  one worker. Two handlers are what a race needs, two bookings are what makes a wrong release
  visible on somebody else's seats, and the seeded seat keeps a double release from being stopped by
  `reserved >= n`. `ReserveTtl = 0` makes a hold end with the tick it was made in, so `MaxTime = 1`
  has both sides of the strict comparisons. Handlers and bookings are symmetric.
* `BookingWorkers`: two workers, a batch of two, two bookings made at different times
  (`MaxTime = 2`), so that polls overlap and "oldest first" matters. No symmetry: it has liveness.
* `BookingTx`: one booking, two handlers and two workers on a slot of three with one seat seeded. Two of each
  are what lock waits and deadlocks need; one booking makes all of them meet on the same two rows.
  Everything but `TransactionsEnd` is also proved for all sizes.
* `Cache`: two tenants, two queries, one reader, one writer, one invalidation, one change, `Ttl = 1`, since a tick
  only takes a key away. A fill that races the scan and a change that no invalidation follows both
  happen with one of each; the safety properties are proved for any number.
* `Reads`: a user who books for two, two bookings and one handler, no worker (a booking that goes
  away by expiry is no different to a reader from one that is cancelled), `MaxTime = 1` and `MaxLag = 1`
  for rows that appear out of the order of their times. Three experiences of which one has two slots, one
  a seat that is already gone, and one belongs to another tenant; pages of one and of two.
  Bookings are symmetric.
* `RefreshSafety`: two families, four tokens, so one session may rotate three times or fork; two
  overlapping requests; one tick is enough for a token to expire; `MaxLogouts = 1`.
* `Webhooks`: a user, a slot and a hook per tenant, two registrations racing (`MaxSecrets = 2`), two
  dispatches; `MaxRollbacks = 1` bounds the expiries of a booking that are announced and then fail, which
  the code does not bound (the theorems hold for any number). One booking and one handler: the properties relate
  one booking to its own dispatches, and the booking races have their own run.
* `Pricing`: at most three of five rules (every type, two discounts of one type, one config that no
  schema accepts), base prices of 5 cents (where 50 percent of one guest is a tie) and 99, one
  and three guests, and zero to two days ahead, on both sides of the one day the rule asks for.

TLC's deadlock check is on in every run but `Pricing`, whose behaviours end with the charge. The
specifications of the violated runs are those of the passing ones; `BookingBatchStarves`
refutes a liveness property under the full fairness below. It has a slot of two seats and one
of a single seat and a batch of one, so that one stuck hold fills it.

### Fairness

* `Booking!Spec`: `registerBookingExpiryScheduler` upserts a repeating job and the worker processes
  it, so a poll is weakly fair and so is `ExpireSkip`, which only says that the loop over a batch is not
  abandoned. A transaction is attempted anew on every poll; assuming that it does not fail
  *every* time is strong fairness of `ExpireBody` and `ExpireCommit`. Time passes. Nothing is assumed of
  users, and a crash may happen again and again.
* `BookingTx!Spec`: PostgreSQL runs the statements of an open transaction (weak fairness) and breaks
  deadlocks; those that wait for a row lock are queued, so an UPDATE that finds its row free again and
  again gets it (strong fairness of `CancelUpdates` and `ExpireReleases`, the two that may wait inside
  a transaction). Nothing is assumed of transactions that have not begun.
* `AvailabilityCache!Spec`: Redis ages keys (`Tick`), and a query or SET returns or fails. Nothing is
  assumed of an invalidation: the TTL alone must do it.

### Disagreements with the documentation

1. `BookingTransitions`. Confirm validates a row and later updates it by id alone
   (`booking.service.ts:254`). A cancel or an expiry in between is overwritten: CANCELLED or EXPIRED
   becomes CONFIRMED, which `booking-state.ts:12-13` rules out, and a seat that was released, and may have
   been sold again, is held once more. Cancelled once more, it gives its seats back a second time.
2. `BookingBatchStarves`. Cancel loads the booking and the version of its slot with two SELECTs
   (`booking.service.ts:297`). If another cancel or an expiry commits between them, the old status comes
   with the new version and the seats are released twice. `reserved` may then be too small to release
   another hold; its expiry fails on every poll and the comment "retry on next poll"
   (`booking.service.ts:463`) never comes true. A poll takes the oldest overdue holds, as many as a batch holds (`:450`); stuck
   holds are the oldest on every poll, and once they fill a batch no younger hold is expired either, on any slot.
3. `CacheEarly`. An expiry invalidates before it commits; a search in between caches the old seats until
   the TTL, although `README.md:13` promises invalidation on slot changes.
4. `WebhookEarly`. An expiry announces before it commits; if it rolls back, a subscriber has heard of an
   expiry that did not happen.

The passing properties are stated around these: `RegularSlotsExact` and `HoldsEnd` speak of slots and
histories that kept to the lifecycle, `LedgerBalanced` of all of them,
`FromStatusHeld` says how far a stale snapshot can distort a timeline, `VersionGuardsCancel` says exactly what the
version check does protect, `SeatLifecycle` has the steps `Revive` and `GiveBackAgain` for what 1 and 2 do
to seats, and nothing else, `StaleIsDoomed` and `ChangesInvalidate` separate the three sources of staleness,
`AnnouncedOnce` counts the expiries announced in vain, `PayloadNotOlder` excepts the payloads about an expiry that show
what was before its COMMIT, and `LiveTokensCounted` counts the forks.

## 4. Theorems

All of them hold for any number of slots, users, handlers, workers, keys, readers, tokens, and
any values of the bounds. They assume only the ASSUMEs of the modules (capacities and bounds are naturals,
party sizes positive, nothing seeded above capacity, `Null` is not a number, a user or a token; where rows are
counted or multiplied up, that the table of slots and the table of rules are finite, and that days, prices
and titles are ordered like numbers), which TLC evaluates in every run. Every invariant of a passing run is
a theorem, and three properties that are proved for all sizes have no run: `DeadMeansRotated`, `SessionsAudited` and
`PriceInRange`. What is only model-checked is at the end of this section.

* **Booking.** `TypeOK` is not inductive: that `ExpireCommit` leaves `reserved` natural rests on the row
  locks. `IInv == TypeOK /\ LocksHeld` is, and gives `TypeCorrect` and `LocksCorrect`. `CapacityCorrect`,
  `ConfirmedStays`, `ClaimsAreOver` and `CancelGuarded` follow from it with one lemma about what a step may do to the
  tables (`TableStep`); `CancelGuarded` needs `SnapshotInv`: as long as the slot is still at the version a cancel
  saw first, the booking it read may still be cancelled. `ClaimsAreOver` adds that the clock only goes forward and that a claimed
  booking keeps its `reservedUntil` until the COMMIT.
* **Rows** (`BookingRowsProofs`). `TrailCorrect` first; then `SeatsExact` from
  `ExactInv == IInv /\ TrailComplete /\ SeatsFinite /\ RegularSlotsExact`: a timeline that is
  complete is what makes "every status followed from the one before" say something about the
  booking's status, and so about whether its seats are in the count. `RegularNotOversold`
  combines it with `CapacityCorrect`: seats held plus seats seeded fit in the capacity.
  `LedgerCorrect` needs no lifecycle: every table step adds one history row and moves as many seats
  as the row counts for, so that rows and seats of a slot balance on every slot, also after a double release.
  `TenantsIsolated` needs `OwnerInv`: the user a handler commits for is the owner of the booking it read, and
  owners never change. `FromStatusCorrect` (`FromRows`, `FromRead`) needs to know of every snapshot that the booking was once in the status it shows,
  and that on a regular booking only a cancel can be overtaken, and only by a confirm. `ExpiredAtMostOnce` needs `OnceInv`: a RESERVED booking has no expiry in its
  history, since a status never returns to RESERVED.
* **Lifecycle.** `LifecycleImplemented`: initial states map to initial states, and each of the ways `TableStep` allows
  maps to a step of `SeatLifecycle`, every other step to a stutter. That the mapped holds have the seats
  to give back rests on `IInv`.
* **Transactions** (`BookingTxProofs`). `TxImplementsBooking` from `TxInv == P!IInv /\ Kept`: what a transaction has written
  so far is what the one step of `Booking` would write, computed from committed rows that are still as they
  were when it wrote, because it has locked them and no row is locked twice (`RowsApart`). A COMMIT is then the
  `...Commit` of `Booking`, an expiry's last UPDATE its `ExpireBody`, and every other statement a
  stutter. `P!IInv` is the invariant of `BookingProofs`, which every step keeps because it is a step
  of `Booking`. So every safety theorem about `Booking` holds of the statements. `DeadlocksKnown`: who waits
  inside a transaction holds one row and wants the other kind, so a circle has a cancel and
  an expiry of the same booking in it, which is still an overdue hold.
* **Webhooks.** `WebhooksKeepBookings` shows that `BookingWebhooks` implements `Booking`: every step is a step of
  `Booking` or leaves its variables alone, so all of the above holds with webhooks running.
  `HookTrailCorrect` from `HookInv` (a registration that found a row still finds one), and `SignedForItsTenant` from
  `SignInv`, which says of a dispatch, from the moment it read the webhook, what the property says of
  payloads, and rests on the log of secrets only growing and a booking never changing its tenant.
  `WebhookTypes` adds that an inbox stays a bag of payloads. `PayloadsNotOlder` follows an event from the history row
  its transaction wrote, through the handler and the dispatch, to the payload (`LateInv`), and
  needs `TrailComplete`: the booking a dispatch reads has the status its history ends in.
  It excepts an expiry, whose dispatch may read the booking before the COMMIT or after a rollback, exactly so far
  (`Lapsing`: the booking has expired, is about to, or has had an expiry fail).
  `AnnouncementsBalance` is an equation, for every event (`TallyInv`): payloads, dispatches under way, announcements due and those
  lost are the history rows of the event plus the expiries without a row. A commit adds a row and a handler to
  announce it, an announcement is a handler less and a dispatch more, a post a dispatch less and a payload more, a failure
  or a crash one more lost; an expiry that announces is a dispatch and an attempt pending, which its COMMIT turns into a row
  and a rollback into one announced in vain.
* **Cache.** `CacheTypes`, `TenantsApart`, and `StaleEntriesDoomed` from
  `StaleInv == ScanEmpty /\ \A t \in Tenants : StaleAt(t)`, which says of a result that is yet to be stored what
  `StaleIsDoomed` says of entries, and that a scanning invalidation has an empty batch. An invalidation forgets a
  key only when the key is gone, so an entry that is there is still promised to it.
* **Sessions.** `SessionTypes`; `DeadTokens` and `LiveTokens` from an invariant that holds of every family on its own
  (`FamilyAt`): all its tokens but one were issued by a rotation, and while it is open those are live that were not rotated,
  so that counting tokens by what issued them and by what became of them gives one live token and one per fork; `HonestSessionLives` from `HonestInv`, which follows the token of
  a client that behaves through each step of its request, and `LostAnswerCostsSession` from `LostInv`, which does the same from
  the moment an answer is lost; `ClosedForGood`; `AllSessionsAudited` counts the finite
  sets of sessions that were opened and that a logout closed.
* **Pricing.** `PricesTyped` (no running total is negative: a factor is at least 100 - 100), `PricesInRange` (without a
  surcharge the total is at most the subtotal, and rounding does not lift it above a whole number of cents), and
  `AdjustmentsAddUp`: the running total stays within half a cent per applied rule of the subtotal plus the
  amounts shown (`Near`), and the last rounding adds one more half. `OrderDoesNotMatter` says that two factors
  commute, so that the product over the rules already applied is the same whichever was taken last;
  `WaitingDoesNotPay` that no factor of a rule set shrinks as the slot comes nearer, so that neither does the
  product. A product over an arbitrary finite set of rules is defined by recursion over the set; in place of
  an induction both proofs take a smallest set for which the claim fails (`LeastSet`: strict inclusion of
  finite sets is well-founded) and refute it by the set with one rule less.
* **Searches and lists** (`ReadsProofs`). `PricesInOrder` from `PriceInv`: what the last query of a search sorts has
  no experience twice, so a place in the answer identifies its row and its price. `AnswersExact` from `SearchInv`, which
  says of the total, the rows and the prices, as they are read, what they are of the slots at that moment: the rows are those of the
  experiences with a slot left, an order of them has nothing smaller behind what is in front, so a place in it bounds
  the rank from both sides, and sorting by price keeps the rows. No assumption is made on what commits between the queries.
  `PagesFull` from `FullInv`: a list that is settled only grows (bookings and audit rows are never
  taken away, and a status that a filter asks for may be left only where the list is not settled), so the page is cut from at
  least as many rows as the total claims. `WalksComplete` from `WalkInv`: a row that
  ties with no other, was there when the walk began and was not shown yet lies behind the pages taken (new rows can only push it
  back); so what is left after a page that the total calls the last is at most what was committed between that
  total and its page (`late`). Rows that tie may change places between two pages, and nothing is claimed of them. Both rest on `StampInv`, by
  which every audit row has its time, and on lemmas about pages as slices of an order: what is before an offset, what
  a page holds, and that `totalPages` pages hold everything (`PagesCover`).

Only model-checked: the liveness properties `HoldsEnd`, `CacheConverges` and `TransactionsEnd` (temporal reasoning
under fairness needs ENABLED), and the violated ones.

## 5. What is not modelled

* Authentication and roles: stateless; no code in the repository writes the users table. HTTP,
  logging, configuration: no protocol. Request validation is modelled only where it bounds a query (searches and lists);
  elsewhere the models take the user, tenant and party size it lets through.
* Passwords, access tokens and hashes; price fields of a booking; the reference collision (it is an `Abort`).
* `getExperienceDetail` reads its slots in a single query; its caching is in `AvailabilityCache` and its preview in `Pricing`.
  Which experiences a destination, supplier or price filter lets through is a set in `Search`.
* `sendTestWebhook`: reads and posts, changes nothing.
* `outbox_events`: written by the seed only. The initial state has the slots as the seed loads them
  (`Capacity`, `Seeded`) and none of its other rows: not its four sample bookings with their history
  (`seed.ts:275-376`), nor its webhooks (`seed.ts:378-394`), as in a database that was migrated and given a catalogue
  but no sample bookings. The properties speak only of rows the services write.
* Fractions of a percent in a pricing config; audit rows of other entities than bookings in the audit list, and with them
  its filter on `entity_type`.
* Key-share locks of foreign keys: no UPDATE of the booking service waits for one.

## 6. Plan

Done: sections 2 to 4, in the order booking, cache, sessions, webhooks, pricing, lifecycle, transactions, searches
and lists.

What would come next: `Platform`, `Booking` composed with `AvailabilityCache`, so that staleness is of real
seats; `createReservation` charging with
`Pricing` in the same transaction as the seats it takes.
