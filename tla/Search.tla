------------------------------- MODULE Search -------------------------------
(***************************************************************************)
(* searchExperiences (src/services/experience.service.ts) beyond its       *)
(* cache: the matching experiences, their count, the page and its prices   *)
(* are four queries at READ COMMITTED, so each sees the slots of its own   *)
(* moment while the booking service goes on.                               *)
(*                                                                         *)
(* Experiences, suppliers and rules are written by the seed only.  Which   *)
(* of them destination, supplier_id, min_price and max_price let through   *)
(* is a set (`among`), and what calculatePricingPreview says of a slot is a *)
(* constant: module Pricing is about that.  Days and prices are numbers.   *)
(***************************************************************************)
EXTENDS Booking, FiniteSetsExt

CONSTANTS
  Experiences,
  ExperienceOf,   \* experience of every slot
  OwnerOf,        \* tenant of every experience
  Room,           \* capacity column of every experience
  BasePrice,
  Title,          \* rank of every title
  StartsAt,       \* day of every slot
  PriceOf,        \* total price of every slot
  SearchQueries   \* queries that experienceSearchQuerySchema lets through

ASSUME CatalogAssumption ==
  /\ IsFiniteSet(Slots)   \* the rows of a table
  /\ ExperienceOf \in [Slots -> Experiences]
  /\ OwnerOf \in [Experiences -> Tenants]
  /\ \A s \in Slots : TenantOf[s] = OwnerOf[ExperienceOf[s]]
  /\ ActiveSlots = {s \in Slots : \E t \in ActiveSlots : ExperienceOf[s] = ExperienceOf[t]}
  /\ StartsAt \in [Slots -> Int] /\ PriceOf \in [Slots -> Int]
  /\ Title \in [Experiences -> Int] /\ BasePrice \in [Experiences -> Int]

SortKeys == {"starts_at", "price", "title", "available_spots"}

\* experienceSearchQuerySchema
WellFormedSearch(q) ==
  /\ q.party \in 1..100
  /\ q.end >= q.start
  /\ q.sortBy \in SortKeys /\ q.desc \in BOOLEAN
  /\ q.page \in Nat \ {0} /\ q.pageSize \in 1..100

ASSUME QueriesAssumption ==
  \A q \in SearchQueries :
     q.tenant \in Tenants /\ q.among \subseteq Experiences /\ WellFormedSearch(q)

VARIABLE reader   \* the one read request that is followed

ReaderIdle == [pc |-> "idle"]

(***************************************************************************)
(* The queries.  `table` is the column of slots that they read and that    *)
(* bookings change.                                                        *)
(***************************************************************************)
Reserved == [s \in Slots |-> slots[s].reserved]

\* buildExperienceWhere; an experience is active with its slots.
Matching(q) ==
  {e \in q.among : /\ OwnerOf[e] = q.tenant
                   /\ Room[e] >= q.party
                   /\ \A s \in Slots : ExperienceOf[s] = e => s \in ActiveSlots}

\* endDateExclusive: the last day is included.
SlotsFor(table, q, ids) ==
  {s \in Slots : /\ ExperienceOf[s] \in ids
                 /\ TenantOf[s] = q.tenant
                 /\ StartsAt[s] \in q.start..q.end
                 /\ Capacity[s] - table[s] >= q.party}

\* The slots found of one experience, and the experiences that have one.
Offers(table, q, e) == SlotsFor(table, q, {e})

OpenAmong(table, q, ids) == {ExperienceOf[s] : s \in SlotsFor(table, q, ids)}

\* groupedFrom: one row per experience that has a slot left.
GroupedRow(table, q, e) ==
  [id |-> e, available |-> Cardinality(Offers(table, q, e)),
   earliest |-> Min({StartsAt[s] : s \in Offers(table, q, e)})]

GroupedRows(table, q, ids) == {GroupedRow(table, q, e) : e \in OpenAmong(table, q, ids)}

Before(desc, x, y) == IF desc THEN x > y ELSE x < y

\* ORDER BY: the orders of the rows; PostgreSQL may return ties in any.
Orders(rows, key, desc) ==
  {order \in Bijection(1..Cardinality(rows), rows) :
     \A i, j \in DOMAIN order : i < j => ~ Before(desc, key[order[j]], key[order[i]])}

\* LIMIT and OFFSET, and Array.slice.
PageFromOne(order, page, size) ==
  SubSeq(order, page * size + 1, Min({page * size + size, Len(order)}))

Page(order, page, size) ==
  SubSeq(order, (page - 1) * size + 1, Min({page * size, Len(order)}))

totalPages(total, size) == (total + size - 1) \div size

RowKey(q, row) ==
  CASE q.sortBy = "title" -> Title[row.id]
    [] q.sortBy = "available_spots" -> row.available
    [] OTHER -> row.earliest

\* fromPriceByExperienceId: the cheapest slot of each experience that has one.
FromPrices(table, q, ids) ==
  [e \in OpenAmong(table, q, ids) |-> Min({PriceOf[s] : s \in Offers(table, q, e)})]

\* The price shown, with the base price for want of another.
ShownPrice(prices, row) ==
  IF row.id \in DOMAIN prices THEN prices[row.id] ELSE BasePrice[row.id]

PriceOrZero(prices, row) ==
  IF row.id \in DOMAIN prices THEN prices[row.id] ELSE 0

SortPrice(prices, row) == ShownPrice(prices, row)

\* What Array.sort may return: it is stable, so there is one such sequence.
SortedByPrice(rows, prices, desc) ==
  LET price(i) == SortPrice(prices, rows[i])
      sorted(order) ==
        \A i, j \in DOMAIN order : i < j =>
          /\ ~ Before(desc, price(order[j]), price(order[i]))
          /\ price(order[i]) = price(order[j]) => order[i] < order[j] IN
  {[i \in DOMAIN rows |-> rows[order[i]]] :
     order \in {order \in Bijection(DOMAIN rows, DOMAIN rows) : sorted(order)}}

(***************************************************************************)
(* searchExperiences after a cache miss.  `counted`, `paged` and `priced`  *)
(* are auxiliary: the slots as the three queries found them.               *)
(***************************************************************************)
Answered(q, total, items, counted, paged) ==
  reader' = [pc |-> "answered", query |-> q, total |-> total,
             pages |-> totalPages(total, q.pageSize), items |-> items,
             counted |-> counted, paged |-> paged, priced |-> Reserved]

SearchMatches(q) ==
  LET ids == Matching(q) IN
  /\ reader.pc = "idle"
  /\ IF ids = {}
     THEN Answered(q, 0, << >>, Reserved, Reserved)
     ELSE reader' = [pc |-> "count", query |-> q, ids |-> ids]

SearchCounts ==
  LET q == reader.query IN
  /\ reader.pc = "count"
  /\ reader' = [pc |-> "page", query |-> q, ids |-> reader.ids, counted |-> Reserved,
                total |-> Cardinality(GroupedRows(Reserved, q, reader.ids))]

LimitAlways(q, order) == Page(order, q.page, q.pageSize)

\* Sorting by price is left to the program: no LIMIT then.
Limit(q, order) == IF q.sortBy = "price" THEN order ELSE Page(order, q.page, q.pageSize)

SearchPages ==
  LET q == reader.query
      rows == GroupedRows(Reserved, q, reader.ids) IN
  /\ reader.pc = "page"
  /\ \E order \in Orders(rows, [row \in rows |-> RowKey(q, row)], q.desc) :
       reader' = [pc |-> "prices", query |-> q, total |-> reader.total,
                  counted |-> reader.counted, paged |-> Reserved, rows |-> Limit(q, order),
                  ids |-> IF q.sortBy = "price" THEN reader.ids
                          ELSE {row.id : row \in Range(Limit(q, order))}]

\* The items of the answer.
Priced(rows, prices) ==
  [i \in DOMAIN rows |-> [id |-> rows[i].id, available |-> rows[i].available,
                          earliest |-> rows[i].earliest,
                          fromPrice |-> ShownPrice(prices, rows[i])]]

SearchPrices ==
  LET q == reader.query
      prices == FromPrices(Reserved, q, reader.ids) IN
  /\ reader.pc = "prices"
  /\ \/ /\ q.sortBy = "price"
        /\ \E rows \in SortedByPrice(reader.rows, prices, q.desc) :
             Answered(q, reader.total, Priced(Page(rows, q.page, q.pageSize), prices),
                      reader.counted, reader.paged)
     \/ /\ q.sortBy # "price"
        /\ Answered(q, reader.total, Priced(reader.rows, prices), reader.counted, reader.paged)

\* The answer is sent, or a query failed.
SearchEnds ==
  /\ reader.pc \in {"count", "page", "prices", "answered"}
  /\ reader' = ReaderIdle

SearchStep ==
  \/ \E q \in SearchQueries : SearchMatches(q)
  \/ SearchCounts
  \/ SearchPages
  \/ SearchPrices
  \/ SearchEnds

(***************************************************************************)
(* Properties.                                                             *)
(***************************************************************************)
\* The experiences that have a slot for the party in the given slots, what each costs
\* there, and what the page and the prices sort it by.
OpenIn(table, q) == OpenAmong(table, q, Experiences) \cap Matching(q)

PriceIn(table, q, e) ==
  IF e \in OpenIn(table, q) THEN Min({PriceOf[s] : s \in Offers(table, q, e)}) ELSE BasePrice[e]

KeyIn(paged, priced, q, e) ==
  CASE q.sortBy = "title" -> Title[e]
    [] q.sortBy = "available_spots" -> Cardinality(Offers(paged, q, e))
    [] q.sortBy = "price" -> PriceIn(priced, q, e)
    [] OTHER -> Min({StartsAt[s] : s \in Offers(paged, q, e)})

\* Bookings that change the slots between the queries of a search mix what three moments
\* say, and nothing else: the total counts the experiences with room when the count ran;
\* item i of the page has, among those with room when the page was read, the rank that page
\* and page size give it in the chosen order; and its price is that of its cheapest slot
\* when the prices were read, the base price only if it had none left then.
AnswerExact ==
  reader.pc = "answered" =>
    LET q == reader.query
        items == reader.items
        open == OpenIn(reader.paged, q)
        offset == (q.page - 1) * q.pageSize
        key(e) == KeyIn(reader.paged, reader.priced, q, e) IN
    /\ reader.total = Cardinality(OpenIn(reader.counted, q))
    /\ Len(items) = Max({0, Min({q.pageSize, Cardinality(open) - offset})})
    /\ \A i \in DOMAIN items :
         LET e == items[i].id IN
         /\ e \in open
         /\ \A j \in DOMAIN items : items[j].id = e => i = j
         /\ Cardinality({x \in open : Before(q.desc, key(x), key(e))}) < offset + i
         /\ Cardinality({x \in open : ~ Before(q.desc, key(e), key(x))}) >= offset + i
         /\ items[i].fromPrice = PriceIn(reader.priced, q, e)

\* Whatever bookings are made and released between its queries, a search sorted by price
\* lists its items in the order of the prices it shows, and never one twice.
PriceOrder ==
  reader.pc = "answered" /\ reader.query.sortBy = "price" =>
    \A i, j \in DOMAIN reader.items : i < j =>
      /\ reader.items[i].id # reader.items[j].id
      /\ ~ Before(reader.query.desc, reader.items[j].fromPrice, reader.items[i].fromPrice)

=============================================================================
