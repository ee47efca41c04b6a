---------------------------- MODULE ReadsProofs ----------------------------
(* Proofs about Search and AdminLists: pages and orders, what a search        *)
(* answers when nothing changed under it and when something did, and what a   *)
(* client sees that walks through a list.                                     *)
EXTENDS AdminLists, BookingRowsProofs, SequenceTheorems

(***************************************************************************)
(* Least members, orders and pages.  LeastSet and the bijections of the    *)
(* library stand in for induction over a set.                              *)
(***************************************************************************)
\* A family of subsets of a finite set has a smallest member.
LEMMA LeastSet ==
  ASSUME NEW S, IsFiniteSet(S), NEW Bad \in SUBSET SUBSET S, Bad # {}
  PROVE  \E T \in Bad : \A U \in SUBSET T : U # T => U \notin Bad
  <1>1. FiniteSubsetsOf(S) = SUBSET S
    BY FS_FiniteSubsetsOfFinite
  <1>2. IsWellFoundedOn(StrictSubsetOrdering(S), SUBSET S)
    BY <1>1, FS_StrictSubsetOrderingWellFounded
  <1>3. PICK T \in Bad : \A U \in Bad : <<U, T>> \notin StrictSubsetOrdering(S)
    BY <1>2, WFMin
  <1> QED BY <1>3 DEF StrictSubsetOrdering

\* A finite set of integers has a least member: a smallest set without one would have one
\* without any of its members.
LEMMA LeastMember ==
  ASSUME NEW S \in SUBSET Int, IsFiniteSet(S), S # {}
  PROVE  Min(S) \in S /\ \A y \in S : Min(S) <= y
  <1> DEFINE Least(U, x) == x \in U /\ \A y \in U : x <= y
             Bad == {U \in SUBSET S : U # {} /\ \A x \in U : ~ Least(U, x)}
  <1>1. \E x \in S : Least(S, x)
    <2> SUFFICES ASSUME \A x \in S : ~ Least(S, x) PROVE FALSE
      OBVIOUS
    <2>1. S \in Bad
      OBVIOUS
    <2>2. PICK U \in Bad : \A V \in SUBSET U : V # U => V \notin Bad
      <3>1. Bad \in SUBSET SUBSET S /\ Bad # {}
        BY <2>1
      <3> HIDE DEF Bad
      <3> QED BY <3>1, LeastSet
    <2>3. PICK x \in U : TRUE
      OBVIOUS
    <2> DEFINE V == U \ {x}
    <2>4. V \in SUBSET U /\ V # U /\ U \in SUBSET Int /\ V \in SUBSET S
      BY <2>3
    <2>5. CASE V = {}
      <3>1. U = {x}
        BY <2>5
      <3>2. Least(U, x)
        BY <2>4, <3>1
      <3> QED BY <3>2
    <2>6. CASE V # {}
      <3>1. PICK y \in V : Least(V, y)
        BY <2>2, <2>4, <2>6
      <3>2. Least(U, x) \/ Least(U, y)
        BY <2>4, <3>1
      <3> QED BY <3>1, <3>2
    <2> QED BY <2>5, <2>6
  <1>2. Min(S) = CHOOSE x \in S : \A y \in S : x <= y
    BY DEF Min
  <1> QED BY <1>1, <1>2

\* Min and Max of the pairs that the model cuts pages with.
LEMMA MinPair ==
  ASSUME NEW a \in Int, NEW b \in Int
  PROVE  Min({a, b}) = IF a <= b THEN a ELSE b
  <1>1. {a, b} \in SUBSET Int /\ {a, b} # {} /\ IsFiniteSet({a, b})
    <2>1. IsFiniteSet({a}) /\ {a, b} = {a} \cup {b}
      BY FS_Singleton
    <2>2. IsFiniteSet({a} \cup {b})
      BY <2>1, FS_AddElement
    <2> QED BY <2>1, <2>2
  <1>2. Min({a, b}) \in {a, b} /\ \A y \in {a, b} : Min({a, b}) <= y
    BY <1>1, LeastMember
  <1> QED BY <1>2

LEMMA MaxWithZero ==
  ASSUME NEW a \in Int
  PROVE  Max({0, a}) = IF a <= 0 THEN 0 ELSE a
  <1>1. Max({0, a}) = CHOOSE x \in {0, a} : \A y \in {0, a} : x >= y
    BY DEF Max
  <1>2. \E x \in {0, a} : \A y \in {0, a} : x >= y
    OBVIOUS
  <1> QED BY <1>1, <1>2

\* How many of N rows a page holds.
PageLength(N, page, size) ==
  LET left == N - (page - 1) * size IN
  IF left <= 0 THEN 0 ELSE IF left <= size THEN left ELSE size

\* How many rows lie before a page.
Offset(page, size) == (page - 1) * size

\* The items are those of `order` from the offset on, at most `size`.
IsSlice(items, order, page, size) ==
  /\ Offset(page, size) \in Nat
  /\ Len(items) = PageLength(Len(order), page, size)
  /\ Len(items) \in Nat
  /\ DOMAIN items = 1..Len(items)
  /\ \A i \in DOMAIN items : /\ Offset(page, size) + i \in 1..Len(order)
                            /\ i <= size
                            /\ items[i] = order[Offset(page, size) + i]

\* A page of a sequence is that slice of it.
LEMMA PageSlice ==
  ASSUME NEW S, NEW order \in Seq(S), NEW page \in Nat \ {0}, NEW size \in Nat \ {0}
  PROVE  /\ Page(order, page, size) \in Seq(S)
         /\ IsSlice(Page(order, page, size), order, page, size)
  <1> DEFINE offset == (page - 1) * size
             N == Len(order)
             last == Min({page * size, N})
  <1>1. N \in Nat /\ offset \in Nat /\ page * size = offset + size
    OBVIOUS
  <1>2. page * size \in Int
    OBVIOUS
  <1>3. last = IF page * size <= N THEN page * size ELSE N
    BY <1>1, <1>2, MinPair
  <1>4. last \in Int /\ Page(order, page, size) = SubSeq(order, offset + 1, last)
    BY <1>1, <1>2, <1>3 DEF Page
  <1> HIDE DEF last, offset, N
  <1>10. /\ N \in Nat /\ offset \in Nat /\ size \in Nat \ {0}
         /\ last = IF offset + size <= N THEN offset + size ELSE N
    BY <1>1, <1>3
  <1>5. \A i \in (offset + 1)..last : order[i] \in S
    BY <1>10 DEF N
  <1>6. /\ SubSeq(order, offset + 1, last) \in Seq(S)
        /\ Len(SubSeq(order, offset + 1, last)) =
             IF offset + 1 <= last THEN last - (offset + 1) + 1 ELSE 0
        /\ \A i \in 1..(last - (offset + 1) + 1) :
             SubSeq(order, offset + 1, last)[i] = order[(offset + 1) + i - 1]
    BY <1>1, <1>4, <1>5, SubSeqProperties
  <1> DEFINE items == SubSeq(order, offset + 1, last)
  <1>7. Len(items) = PageLength(N, page, size)
    <2>1. PageLength(N, page, size) =
            IF N - offset <= 0 THEN 0 ELSE IF N - offset <= size THEN N - offset ELSE size
      BY DEF PageLength, offset
    <2> QED BY <1>10, <1>6, <2>1
  <1>8. DOMAIN items = 1..Len(items)
    BY <1>6
  <1>9. ASSUME NEW i \in 1..Len(items)
        PROVE  offset + i \in 1..N /\ i <= size /\ items[i] = order[offset + i]
    <2>1. Len(items) \in Nat /\ i \in Nat /\ 1 <= i /\ i <= Len(items)
      BY <1>6, <1>9
    <2>2. Len(items) = IF offset + 1 <= last THEN last - (offset + 1) + 1 ELSE 0
      BY <1>6
    <2>3. last \in Int
      BY <1>4
    <2> HIDE DEF items
    <2>4. i <= last - offset /\ i <= size /\ offset + i <= N
      BY <1>10, <2>1, <2>2, <2>3
    <2>5. i \in 1..(last - (offset + 1) + 1) /\ (offset + 1) + i - 1 = offset + i
      BY <1>10, <2>1, <2>3, <2>4
    <2>6. items[i] = order[(offset + 1) + i - 1]
      BY <1>6, <2>5 DEF items
    <2>7. offset + i \in 1..N
      BY <1>10, <2>1, <2>4
    <2> QED BY <2>4, <2>5, <2>6, <2>7
  <1>11. Len(items) \in Nat
    BY <1>6
  <1> QED BY <1>1, <1>4, <1>6, <1>7, <1>8, <1>9, <1>11 DEF offset, N, IsSlice, Offset

\* The first k of an order.
First(order, k) == {order[j] : j \in 1..k}

\* The first k of an order are k.
LEMMA FirstCount ==
  ASSUME NEW N \in Nat, NEW S, NEW order \in Injection(1..N, S), NEW k \in 0..N
  PROVE  IsFiniteSet(First(order, k)) /\ Cardinality(First(order, k)) = k
  <1> DEFINE first == {order[j] : j \in 1..k}
             f == [j \in 1..k |-> order[j]]
  <1>1. order \in [1..N -> S] /\ \A a, b \in 1..N : order[a] = order[b] => a = b
    BY DEF Injection, IsInjective
  <1>2. k \in Nat /\ 1..k \subseteq 1..N
    OBVIOUS
  <1>3. f \in [1..k -> first] /\ \A a, b \in 1..k : f[a] = f[b] => a = b
    BY <1>1, <1>2
  <1>4. \A y \in first : \E j \in 1..k : f[j] = y
    OBVIOUS
  <1>5. f \in Bijection(1..k, first)
    <2> HIDE DEF f, first
    <2> QED BY <1>3, <1>4 DEF Bijection, Injection, Surjection, IsInjective
  <1>6. ExistsBijection(1..k, first)
    BY <1>5 DEF ExistsBijection
  <1>7. IsFiniteSet(1..k) /\ Cardinality(1..k) = k
    BY <1>2, FS_Interval
  <1> HIDE DEF first
  <1>8. IsFiniteSet(first) /\ Cardinality(first) = Cardinality(1..k)
    BY <1>6, <1>7, FS_Bijection
  <1> QED BY <1>7, <1>8 DEF first, First

\* No key comes before itself.
LEMMA BeforeStrict ==
  ASSUME NEW desc, NEW x \in Int
  PROVE  ~ Before(desc, x, x)
  BY DEF Before

\* No later key comes before an earlier one.
Sorted(order, key, desc) ==
  \A i, j \in DOMAIN order : i < j => ~ Before(desc, key[order[j]], key[order[i]])

\* What comes strictly before x, and what does not come after it.
Ahead(S, key, desc, x) == {y \in S : Before(desc, key[y], key[x])}

UpTo(S, key, desc, x) == {y \in S : ~ Before(desc, key[x], key[y])}

\* What position k of an order says of the keys: fewer than k come strictly before it, no
\* fewer than k do not come after it, and if it ties with no other then k - 1 come before it.
LEMMA RankAt ==
  ASSUME NEW N \in Nat, NEW S, NEW order \in Bijection(1..N, S), NEW key, NEW desc \in BOOLEAN,
         \A x \in S : key[x] \in Int,
         Sorted(order, key, desc), NEW k \in 1..N
  PROVE  /\ Cardinality(Ahead(S, key, desc, order[k])) < k
         /\ Cardinality(UpTo(S, key, desc, order[k])) >= k
         /\ (\A y \in S : y # order[k] => key[y] # key[order[k]])
              => Cardinality(Ahead(S, key, desc, order[k])) = k - 1
  <1> DEFINE x == order[k]
             before == {y \in S : Before(desc, key[y], key[x])}
             upto == {y \in S : ~ Before(desc, key[x], key[y])}
  <1>1. /\ order \in Injection(1..N, S)
        /\ order \in [1..N -> S]
        /\ \A y \in S : \E j \in 1..N : order[j] = y
    BY DEF Bijection, Injection, Surjection
  <1>2. k - 1 \in 0..N /\ k \in 0..N /\ k \in Nat
    OBVIOUS
  <1>3. IsFiniteSet(First(order, k)) /\ Cardinality(First(order, k)) = k
    BY <1>1, <1>2, FirstCount
  <1>4. IsFiniteSet(First(order, k - 1)) /\ Cardinality(First(order, k - 1)) = k - 1
    BY <1>1, <1>2, FirstCount
  <1>5. x \in S /\ key[x] \in Int /\ ~ Before(desc, key[x], key[x])
    BY <1>1, BeforeStrict
  <1>6. before \subseteq First(order, k - 1)
    <2> SUFFICES ASSUME NEW y \in S, Before(desc, key[y], key[x]) PROVE y \in First(order, k - 1)
      OBVIOUS
    <2>1. PICK j \in 1..N : order[j] = y
      BY <1>1
    <2>2. ~ (k < j)
      BY <1>1, <2>1 DEF Sorted
    <2>3. j # k
      BY <1>5, <2>1
    <2>4. j \in 1..(k - 1)
      BY <1>2, <2>2, <2>3
    <2> QED BY <2>1, <2>4 DEF First
  <1>7. First(order, k) \subseteq upto
    <2> SUFFICES ASSUME NEW j \in 1..k PROVE order[j] \in S /\ ~ Before(desc, key[x], key[order[j]])
      BY DEF First
    <2>1. CASE j = k
      BY <1>5, <2>1
    <2>2. CASE j < k
      BY <1>1, <1>2, <2>2 DEF Sorted
    <2> QED BY <1>2, <2>1, <2>2
  <1>8. IsFiniteSet(S)
    <2>1. ExistsBijection(1..N, S) /\ IsFiniteSet(1..N)
      BY FS_Interval DEF ExistsBijection
    <2> QED BY <2>1, FS_Bijection
  <1>9. ASSUME \A y \in S : y # x => key[y] # key[x]
        PROVE  First(order, k - 1) \subseteq before
    <2> SUFFICES ASSUME NEW j \in 1..(k - 1)
                 PROVE  order[j] \in S /\ Before(desc, key[order[j]], key[x])
      BY DEF First
    <2>1. j \in 1..N /\ j < k /\ order[j] \in S
      BY <1>1, <1>2
    <2>2. ~ Before(desc, key[x], key[order[j]])
      BY <1>1, <2>1 DEF Sorted
    <2>3. order[j] # x
      BY <2>1 DEF Bijection, Injection, IsInjective
    <2>4. key[order[j]] \in Int /\ key[x] \in Int /\ key[order[j]] # key[x]
      BY <1>5, <1>9, <2>1, <2>3
    <2> QED BY <2>1, <2>2, <2>4 DEF Before
  <1> HIDE DEF before, upto, x
  <1>10. IsFiniteSet(before) /\ Cardinality(before) <= k - 1
    BY <1>4, <1>6, FS_Subset
  <1>11. Cardinality(upto) >= k
    <2>1. IsFiniteSet(upto)
      BY <1>8, FS_Subset DEF upto
    <2> QED BY <1>3, <1>7, <2>1, FS_Subset
  <1>12. Cardinality(before) \in Nat
    BY <1>10, FS_CardinalityType
  <1>13. ASSUME \A y \in S : y # x => key[y] # key[x]
         PROVE  Cardinality(before) = k - 1
    <2>1. before = First(order, k - 1)
      BY <1>6, <1>9, <1>13
    <2> QED BY <1>4, <2>1
  <1>14. Cardinality(before) < k
    BY <1>10, <1>12, <1>2
  <1> QED BY <1>11, <1>13, <1>14 DEF before, upto, x, Ahead, UpTo

(***************************************************************************)
(* The rows of a search.                                                   *)
(***************************************************************************)
\* What the schema says of a query.
LEMMA SearchQuery ==
  ASSUME NEW q \in SearchQueries
  PROVE  /\ q.page \in Nat \ {0} /\ q.pageSize \in Nat \ {0}
         /\ q.sortBy \in SortKeys /\ q.desc \in BOOLEAN
         /\ Matching(q) \subseteq Experiences
  BY QueriesAssumption DEF WellFormedSearch, Matching

\* The image of a finite set is finite.
LEMMA FiniteImage ==
  ASSUME NEW S, IsFiniteSet(S), NEW f
  PROVE  IsFiniteSet({f[x] : x \in S})
  <1> DEFINE T == {f[x] : x \in S}
             g == [x \in S |-> f[x]]
  <1>1. g \in [S -> T] /\ \A y \in T : \E x \in S : g[x] = y
    OBVIOUS
  <1> HIDE DEF T, g
  <1>2. g \in Surjection(S, T)
    BY <1>1 DEF Surjection
  <1>3. IsFiniteSet(T)
    BY <1>2, FS_Surjection
  <1> QED BY <1>3 DEF T

\* A query finds finitely many slots.
LEMMA SlotsFinite ==
  ASSUME NEW table, NEW q, NEW ids
  PROVE  SlotsFor(table, q, ids) \subseteq Slots /\ IsFiniteSet(SlotsFor(table, q, ids))
  <1>1. SlotsFor(table, q, ids) \subseteq Slots
    BY DEF SlotsFor
  <1> QED BY <1>1, CatalogAssumption, FS_Subset

\* Every experience found has a slot, and finitely many of them.
LEMMA OpenOffers ==
  ASSUME NEW table, NEW q, NEW ids
  PROVE  /\ IsFiniteSet(OpenAmong(table, q, ids))
         /\ OpenAmong(table, q, ids) \subseteq ids
         /\ \A e \in OpenAmong(table, q, ids) :
              /\ Offers(table, q, e) # {}
              /\ Offers(table, q, e) \subseteq Slots
              /\ IsFiniteSet(Offers(table, q, e))
  <1>1. IsFiniteSet(OpenAmong(table, q, ids))
    BY SlotsFinite, FiniteImage DEF OpenAmong
  <1>2. OpenAmong(table, q, ids) \subseteq ids
    BY DEF OpenAmong, SlotsFor
  <1>3. ASSUME NEW e \in OpenAmong(table, q, ids)
        PROVE  Offers(table, q, e) # {}
    BY <1>3 DEF OpenAmong, SlotsFor, Offers
  <1>4. \A e : Offers(table, q, e) \subseteq Slots /\ IsFiniteSet(Offers(table, q, e))
    BY SlotsFinite DEF Offers
  <1> QED BY <1>1, <1>2, <1>3, <1>4

\* One row per experience: as many rows as experiences.
LEMMA GroupedById ==
  ASSUME NEW table, NEW q, NEW ids
  PROVE  LET rows == GroupedRows(table, q, ids) IN
         /\ IsFiniteSet(rows) /\ Cardinality(rows) = Cardinality(OpenAmong(table, q, ids))
         /\ \A row \in rows : /\ row.id \in OpenAmong(table, q, ids)
                              /\ row = GroupedRow(table, q, row.id)
         /\ \A e \in OpenAmong(table, q, ids) : \E row \in rows : row.id = e
  <1> DEFINE open == OpenAmong(table, q, ids)
             rows == {GroupedRow(table, q, e) : e \in open}
             f == [e \in open |-> GroupedRow(table, q, e)]
  <1>1. \A e \in open : f[e] = GroupedRow(table, q, e) /\ f[e] \in rows
    OBVIOUS
  <1>2. \A e : GroupedRow(table, q, e).id = e
    BY DEF GroupedRow
  <1>3. f \in [open -> rows] /\ \A y \in rows : \E e \in open : f[e] = y
    OBVIOUS
  <1>4. \A y \in rows : y.id \in open /\ y = GroupedRow(table, q, y.id)
    BY <1>2
  <1>5. IsFiniteSet(open)
    BY OpenOffers
  <1> HIDE DEF f, open, rows
  <1>6. f \in Bijection(open, rows)
    BY <1>1, <1>2, <1>3 DEF Bijection, Injection, Surjection, IsInjective
  <1>7. IsFiniteSet(rows) /\ Cardinality(rows) = Cardinality(open)
    BY <1>5, <1>6, FS_Bijection DEF ExistsBijection
  <1>8. \A e \in open : \E row \in rows : row.id = e
    BY <1>1, <1>2
  <1>9. GroupedRows(table, q, ids) = rows
    BY DEF GroupedRows, rows, open
  <1> QED BY <1>4, <1>7, <1>8, <1>9 DEF open

\* An order of the rows is a sequence that has every row once.
LEMMA OrderOfRows ==
  ASSUME NEW rows, IsFiniteSet(rows), NEW key, NEW desc, NEW order \in Orders(rows, key, desc)
  PROVE  /\ order \in Seq(rows) /\ Len(order) = Cardinality(rows)
         /\ order \in Bijection(1..Cardinality(rows), rows)
         /\ DOMAIN order = 1..Cardinality(rows)
         /\ \A i, j \in DOMAIN order : order[i] = order[j] => i = j
         /\ Sorted(order, key, desc)
  <1>1. Cardinality(rows) \in Nat
    BY FS_CardinalityType
  <1>2. order \in Bijection(1..Cardinality(rows), rows)
    BY DEF Orders
  <1>3. /\ order \in [1..Cardinality(rows) -> rows]
        /\ \A i, j \in DOMAIN order : order[i] = order[j] => i = j
    BY <1>2 DEF Bijection, Injection, IsInjective
  <1>4. order \in Seq(rows) /\ Len(order) = Cardinality(rows)
    BY <1>1, <1>3
  <1> QED BY <1>2, <1>3, <1>4 DEF Orders, Sorted

(***************************************************************************)
(* A search sorted by price.  What it sorts has every experience once.     *)
(***************************************************************************)
\* A sequence of rows that has no experience twice.
DistinctRows(rows) ==
  /\ \E S : rows \in Seq(S)
  /\ \A i, j \in DOMAIN rows : rows[i].id = rows[j].id => i = j

\* The inductive invariant: what the last query of a search sorts is distinct.
PriceInv ==
  /\ reader.pc \in {"count", "page", "prices"} => reader.query \in SearchQueries
  /\ reader.pc = "prices" => DistinctRows(reader.rows)
  /\ PriceOrder

\* An order of the rows, whole or cut to a page, has no experience twice.
LEMMA LimitDistinct ==
  ASSUME NEW table, NEW q \in SearchQueries, NEW ids, NEW key,
         NEW order \in Orders(GroupedRows(table, q, ids), key, q.desc)
  PROVE  DistinctRows(order) /\ DistinctRows(Limit(q, order))
  <1> DEFINE rows == GroupedRows(table, q, ids)
  <1>1. /\ IsFiniteSet(rows)
        /\ \A row \in rows : row = GroupedRow(table, q, row.id)
    BY GroupedById
  <1>2. /\ order \in Seq(rows)
        /\ \A i, j \in DOMAIN order : order[i] = order[j] => i = j
    BY <1>1, OrderOfRows
  <1> HIDE DEF rows
  <1>3. \A i \in DOMAIN order : order[i] \in rows
    BY <1>2
  <1>4. \A i, j \in DOMAIN order : order[i].id = order[j].id => i = j
    BY <1>1, <1>2, <1>3
  <1>5. DistinctRows(order)
    BY <1>2, <1>4 DEF DistinctRows
  <1> DEFINE page == Page(order, q.page, q.pageSize)
             offset == Offset(q.page, q.pageSize)
  <1>6. page \in Seq(rows) /\ IsSlice(page, order, q.page, q.pageSize)
    BY <1>2, PageSlice, SearchQuery
  <1> HIDE DEF page, offset
  <1>7. /\ DOMAIN order = 1..Len(order) /\ offset \in Nat
        /\ DOMAIN page = 1..Len(page) /\ Len(page) \in Nat
        /\ \A i \in DOMAIN page : offset + i \in 1..Len(order) /\ page[i] = order[offset + i]
    BY <1>2, <1>6 DEF IsSlice, offset
  <1>8. ASSUME NEW i \in DOMAIN page, NEW j \in DOMAIN page, page[i].id = page[j].id
        PROVE  i = j
    <2>1. offset + i = offset + j
      BY <1>4, <1>7, <1>8
    <2> QED BY <1>7, <2>1
  <1>9. DistinctRows(page)
    BY <1>6, <1>8 DEF DistinctRows
  <1> QED BY <1>5, <1>9 DEF Limit, page

\* The slice of what Array.sort returns: where its items come from.
SortedBy(sorted, rows, prices, desc, order) ==
  /\ \A i \in 1..Len(rows) : sorted[i] = rows[order[i]]
  /\ order \in Bijection(1..Len(rows), 1..Len(rows))
  /\ order \in [1..Len(rows) -> 1..Len(rows)]
  /\ \A i, j \in 1..Len(rows) : order[i] = order[j] => i = j
  /\ \A i, j \in 1..Len(rows) : i < j =>
       ~ Before(desc, SortPrice(prices, rows[order[j]]), SortPrice(prices, rows[order[i]]))

\* The page cut from the rows sorted by price is a slice of a permutation of them.
LEMMA SortedSlice ==
  ASSUME NEW q \in SearchQueries, NEW rows, DistinctRows(rows), NEW prices,
         NEW sorted \in SortedByPrice(rows, prices, q.desc)
  PROVE  /\ Len(rows) \in Nat /\ DOMAIN rows = 1..Len(rows) /\ Len(sorted) = Len(rows)
         /\ IsSlice(Page(sorted, q.page, q.pageSize), sorted, q.page, q.pageSize)
         /\ \E order : SortedBy(sorted, rows, prices, q.desc, order)
  <1>1. PICK S : rows \in Seq(S)
    BY DEF DistinctRows
  <1>2. DOMAIN rows = 1..Len(rows) /\ Len(rows) \in Nat
    BY <1>1
  <1>3. PICK order \in Bijection(DOMAIN rows, DOMAIN rows) :
          /\ sorted = [i \in DOMAIN rows |-> rows[order[i]]]
          /\ \A i, j \in DOMAIN order : i < j =>
               ~ Before(q.desc, SortPrice(prices, rows[order[j]]), SortPrice(prices, rows[order[i]]))
    BY DEF SortedByPrice
  <1>4. /\ order \in [1..Len(rows) -> 1..Len(rows)]
        /\ \A i, j \in 1..Len(rows) : order[i] = order[j] => i = j
    BY <1>2, <1>3 DEF Bijection, Injection, IsInjective
  <1>5. sorted \in Seq(S) /\ Len(sorted) = Len(rows)
    BY <1>1, <1>2, <1>3, <1>4
  <1>6. IsSlice(Page(sorted, q.page, q.pageSize), sorted, q.page, q.pageSize)
    BY <1>5, PageSlice, SearchQuery
  <1>8. \A i \in 1..Len(rows) : sorted[i] = rows[order[i]]
    BY <1>2, <1>3
  <1>9. order \in Bijection(1..Len(rows), 1..Len(rows))
    BY <1>2, <1>3
  <1>7. SortedBy(sorted, rows, prices, q.desc, order)
    BY <1>3, <1>4, <1>8, <1>9 DEF SortedBy
  <1> QED BY <1>2, <1>5, <1>6, <1>7

\* What the last step of a search says when it sorts by price.
InPriceOrder(items, desc) ==
  \A i, j \in DOMAIN items : i < j =>
    /\ items[i].id # items[j].id
    /\ ~ Before(desc, items[j].fromPrice, items[i].fromPrice)

\* Its items are in the order of the prices shown.
LEMMA PricedOrder ==
  ASSUME NEW q \in SearchQueries, NEW rows, DistinctRows(rows), NEW prices,
         NEW sorted \in SortedByPrice(rows, prices, q.desc)
  PROVE  InPriceOrder(Priced(Page(sorted, q.page, q.pageSize), prices), q.desc)
  <1> DEFINE offset == Offset(q.page, q.pageSize)
             page == Page(sorted, q.page, q.pageSize)
             items == Priced(page, prices)
  <1>1. /\ Len(rows) \in Nat /\ DOMAIN rows = 1..Len(rows) /\ Len(sorted) = Len(rows)
        /\ IsSlice(page, sorted, q.page, q.pageSize)
    BY SortedSlice
  <1>2. PICK order : SortedBy(sorted, rows, prices, q.desc, order)
    BY SortedSlice
  <1>3. /\ DOMAIN items = DOMAIN page
        /\ \A i \in DOMAIN page : /\ items[i].id = page[i].id
                                  /\ items[i].fromPrice = SortPrice(prices, page[i])
    BY DEF Priced, SortPrice
  <1> HIDE DEF offset, page, items
  <1>4. /\ offset \in Nat /\ DOMAIN page = 1..Len(page) /\ Len(page) \in Nat
        /\ \A i \in DOMAIN page : /\ offset + i \in 1..Len(rows)
                                  /\ page[i] = rows[order[offset + i]]
    BY <1>1, <1>2 DEF IsSlice, offset, SortedBy
  <1>5. ASSUME NEW i \in DOMAIN page, NEW j \in DOMAIN page, i < j
        PROVE  /\ page[i].id # page[j].id
               /\ ~ Before(q.desc, SortPrice(prices, page[j]), SortPrice(prices, page[i]))
    <2>1. i \in Int /\ j \in Int
      BY <1>4
    <2>2. offset + i < offset + j /\ offset + i \in 1..Len(rows) /\ offset + j \in 1..Len(rows)
      BY <1>4, <1>5, <2>1
    <2>3. order[offset + i] # order[offset + j]
      BY <1>2, <2>2 DEF SortedBy
    <2>4. page[i].id # page[j].id
      BY <1>1, <1>2, <1>4, <2>2, <2>3 DEF DistinctRows, SortedBy
    <2>5. ~ Before(q.desc, SortPrice(prices, rows[order[offset + j]]),
                           SortPrice(prices, rows[order[offset + i]]))
      BY <1>2, <2>2 DEF SortedBy
    <2>6. page[i] = rows[order[offset + i]] /\ page[j] = rows[order[offset + j]]
      BY <1>4
    <2> QED BY <2>4, <2>5, <2>6
  <1> QED BY <1>3, <1>5 DEF items, page, InPriceOrder

\* The steps of a walk are not those of a search.
LEMMA ListPc == ListStep => reader'.pc \in {"idle", "listCount", "listFind", "listed"}
  <1>1. ASSUME NEW q \in ListQueries, WalkStarts(q)
        PROVE  reader'.pc = "listCount"
    BY <1>1 DEF WalkStarts
  <1>2. ListCounts => reader'.pc = "listFind"
    BY DEF ListCounts
  <1>3. ListFinds => reader'.pc = "listed"
    BY DEF ListFinds
  <1>4. WalkOn => reader'.pc = "listCount"
    BY DEF WalkOn
  <1>5. WalkEnds => reader'.pc = "idle"
    BY DEF WalkEnds, ReaderIdle
  <1> QED BY <1>1, <1>2, <1>3, <1>4, <1>5 DEF ListStep

\* No step puts the items of an answer out of order.
LEMMA PriceStep == PriceInv /\ [LNext]_lvars => PriceInv'
  <1> SUFFICES ASSUME PriceInv, [LNext]_lvars PROVE PriceInv'
    OBVIOUS
  <1>1. CASE UNCHANGED reader
    BY <1>1 DEF PriceInv, PriceOrder
  <1>2. ASSUME NEW q \in SearchQueries, SearchMatches(q)
        PROVE  PriceInv'
    BY <1>2 DEF SearchMatches, Answered, PriceInv, PriceOrder
  <1>3. CASE SearchCounts
    BY <1>3 DEF SearchCounts, PriceInv, PriceOrder
  <1>4. CASE SearchPages
    <2> DEFINE q == reader.query
               rows == GroupedRows(Reserved, q, reader.ids)
    <2>1. q \in SearchQueries
      BY <1>4 DEF SearchPages, PriceInv
    <2>2. PICK order \in Orders(rows, [row \in rows |-> RowKey(q, row)], q.desc) :
            reader'.pc = "prices" /\ reader'.query = q /\ reader'.rows = Limit(q, order)
      BY <1>4 DEF SearchPages
    <2>3. DistinctRows(Limit(q, order))
      BY <2>1, <2>2, LimitDistinct
    <2> QED BY <2>1, <2>2, <2>3 DEF PriceInv, PriceOrder
  <1>5. CASE SearchPrices
    <2> DEFINE q == reader.query
               prices == FromPrices(Reserved, q, reader.ids)
    <2>1. q \in SearchQueries /\ DistinctRows(reader.rows)
      BY <1>5 DEF SearchPrices, PriceInv
    <2>2. reader'.pc = "answered" /\ reader'.query = q
      BY <1>5 DEF SearchPrices, Answered
    <2>3. CASE q.sortBy = "price"
      <3>1. PICK sorted \in SortedByPrice(reader.rows, prices, q.desc) :
              reader'.items = Priced(Page(sorted, q.page, q.pageSize), prices)
        BY <1>5, <2>3 DEF SearchPrices, Answered
      <3> HIDE DEF prices, q
      <3>2. InPriceOrder(reader'.items, q.desc)
        BY <2>1, <3>1, PricedOrder
      <3> QED BY <2>2, <3>2 DEF PriceInv, PriceOrder, InPriceOrder, q
    <2>4. CASE q.sortBy # "price"
      BY <2>2, <2>4 DEF PriceInv, PriceOrder
    <2> QED BY <2>3, <2>4
  <1>6. CASE SearchEnds
    BY <1>6 DEF SearchEnds, ReaderIdle, PriceInv, PriceOrder
  <1>7. CASE ListStep
    <2>1. reader'.pc \in {"idle", "listCount", "listFind", "listed"}
      BY <1>7, ListPc
    <2> QED BY <2>1 DEF PriceInv, PriceOrder
  <1> QED BY <1>1, <1>2, <1>3, <1>4, <1>5, <1>6, <1>7 DEF LNext, SearchStep, lvars

\* Whatever changes between the four queries of a search, the items of an answer sorted by
\* price are in the order of the prices shown, and no experience is listed twice.
THEOREM PricesInOrder == LSpec => []PriceOrder
  <1>1. LInit => PriceInv
    BY DEF LInit, ReaderIdle, PriceInv, PriceOrder
  <1>2. PriceInv => PriceOrder
    BY DEF PriceInv
  <1> QED BY <1>1, <1>2, PriceStep, PTL DEF LSpec

(***************************************************************************)
(* A search whose queries see the slots of three moments.                  *)
(***************************************************************************)
\* What AnswerExact says of an answer.
Exact(q, total, items, counted, paged, priced) ==
  LET open == OpenIn(paged, q)
      offset == (q.page - 1) * q.pageSize
      key(e) == KeyIn(paged, priced, q, e) IN
  /\ total = Cardinality(OpenIn(counted, q))
  /\ Len(items) = Max({0, Min({q.pageSize, Cardinality(open) - offset})})
  /\ \A i \in DOMAIN items :
       LET e == items[i].id IN
       /\ e \in open
       /\ \A j \in DOMAIN items : items[j].id = e => i = j
       /\ Cardinality({x \in open : Before(q.desc, key(x), key(e))}) < offset + i
       /\ Cardinality({x \in open : ~ Before(q.desc, key(e), key(x))}) >= offset + i
       /\ items[i].fromPrice = PriceIn(priced, q, e)

\* The keys of the rows, and the rows of the experiences that match.
RowKeys(q, rows) == [row \in rows |-> RowKey(q, row)]

FoundIn(table, q) == GroupedRows(table, q, Matching(q))

\* The page is one of an order of the rows found in `table`.
PagedIn(table, q, rows, ids) ==
  \E order \in Orders(FoundIn(table, q), RowKeys(q, FoundIn(table, q)), q.desc) :
    /\ rows = Limit(q, order)
    /\ ids = IF q.sortBy = "price" THEN Matching(q) ELSE {row.id : row \in Range(Limit(q, order))}

\* The inductive invariant: the total is that of the slots as they were counted, and the
\* page one of the slots as they were read for it.
SearchInv ==
  /\ reader.pc \in {"count", "page", "prices"} => reader.query \in SearchQueries
  /\ reader.pc \in {"count", "page"} => reader.ids = Matching(reader.query)
  /\ reader.pc \in {"page", "prices"} =>
       reader.total = Cardinality(FoundIn(reader.counted, reader.query))
  /\ reader.pc = "prices" => PagedIn(reader.paged, reader.query, reader.rows, reader.ids)
  /\ AnswerExact

\* The sort keys of the experiences with room.
KeysIn(paged, priced, q) == [e \in OpenIn(paged, q) |-> KeyIn(paged, priced, q, e)]

\* The experiences of the items, in an order of all that have room.
Listing(items, paged, priced, q, order) ==
  /\ order \in Bijection(1..Cardinality(OpenIn(paged, q)), OpenIn(paged, q))
  /\ Sorted(order, KeysIn(paged, priced, q), q.desc)
  /\ Offset(q.page, q.pageSize) \in Nat
  /\ Len(items) \in Nat /\ DOMAIN items = 1..Len(items)
  /\ Len(items) = PageLength(Cardinality(OpenIn(paged, q)), q.page, q.pageSize)
  /\ \A i \in DOMAIN items :
       /\ Offset(q.page, q.pageSize) + i \in 1..Cardinality(OpenIn(paged, q))
       /\ items[i].id = order[Offset(q.page, q.pageSize) + i]
       /\ items[i].fromPrice = PriceIn(priced, q, items[i].id)

\* Asking among those that match is asking among all and keeping those that match.
LEMMA OpenMatching ==
  ASSUME NEW table, NEW q \in SearchQueries
  PROVE  OpenAmong(table, q, Matching(q)) = OpenIn(table, q)
  BY SearchQuery DEF OpenIn, OpenAmong, SlotsFor

\* The values of f on S.
Values(f, S) == {f[x] : x \in S}

\* The cheapest and the earliest slot of an experience with room are slots it has.
LEMMA LeastOffer ==
  ASSUME NEW table, NEW q, NEW ids, NEW e \in OpenAmong(table, q, ids),
         NEW value \in [Slots -> Int]
  PROVE  /\ Min(Values(value, Offers(table, q, e))) \in Int
         /\ \E s \in Offers(table, q, e) : Min(Values(value, Offers(table, q, e))) = value[s]
  <1> DEFINE offers == Offers(table, q, e)
             values == {value[s] : s \in offers}
  <1>1. offers # {} /\ offers \subseteq Slots /\ IsFiniteSet(offers)
    BY OpenOffers
  <1> HIDE DEF offers
  <1>2. values \in SUBSET Int /\ values # {} /\ IsFiniteSet(values)
    BY <1>1, FiniteImage
  <1>3. Min(values) \in values
    BY <1>2, LeastMember
  <1> QED BY <1>2, <1>3 DEF offers, Values

\* Every price is a number.
LEMMA PriceNumber ==
  ASSUME NEW table, NEW q \in SearchQueries, NEW e \in Experiences
  PROVE  PriceIn(table, q, e) \in Int
  <1>1. PriceOf \in [Slots -> Int] /\ BasePrice \in [Experiences -> Int]
    BY CatalogAssumption
  <1>2. ASSUME e \in OpenIn(table, q)
        PROVE  Min({PriceOf[s] : s \in Offers(table, q, e)}) \in Int
    <2>1. e \in OpenAmong(table, q, Matching(q))
      BY <1>2, OpenMatching
    <2> QED BY <1>1, <2>1, LeastOffer DEF Values
  <1> QED BY <1>1, <1>2 DEF PriceIn

\* Every sort key of an experience with room is a number.
LEMMA KeysNumbers ==
  ASSUME NEW paged, NEW priced, NEW q \in SearchQueries, NEW e \in OpenIn(paged, q)
  PROVE  KeyIn(paged, priced, q, e) \in Int
  <1>1. e \in Experiences /\ e \in OpenAmong(paged, q, Matching(q))
    BY OpenMatching, SearchQuery DEF OpenIn
  <1>2. StartsAt \in [Slots -> Int] /\ Title \in [Experiences -> Int]
    BY CatalogAssumption
  <1>3. PriceIn(priced, q, e) \in Int
    BY <1>1, PriceNumber
  <1>4. Min({StartsAt[s] : s \in Offers(paged, q, e)}) \in Int
    BY <1>1, <1>2, LeastOffer DEF Values
  <1>5. Cardinality(Offers(paged, q, e)) \in Int
    BY <1>1, OpenOffers, FS_CardinalityType
  <1>6. Title[e] \in Int
    BY <1>1, <1>2
  <1> QED BY <1>3, <1>4, <1>5, <1>6, Zenon DEF KeyIn

\* The length that AnswerExact gives a page is that of the slice.
LEMMA PageFits ==
  ASSUME NEW N \in Nat, NEW page \in Nat \ {0}, NEW size \in Nat \ {0}
  PROVE  PageLength(N, page, size) = Max({0, Min({size, N - (page - 1) * size})})
  <1> DEFINE left == N - (page - 1) * size
             least == Min({size, left})
  <1>1. left \in Int /\ size \in Int /\ size > 0
    OBVIOUS
  <1>2. PageLength(N, page, size) = IF left <= 0 THEN 0 ELSE IF left <= size THEN left ELSE size
    BY DEF PageLength
  <1> HIDE DEF left
  <1>3. least = IF size <= left THEN size ELSE left
    BY <1>1, MinPair
  <1>4. least \in Int
    BY <1>1, <1>3
  <1> HIDE DEF least
  <1>5. Max({0, least}) = IF least <= 0 THEN 0 ELSE least
    BY <1>4, MaxWithZero
  <1>6. PageLength(N, page, size) = Max({0, least})
    BY <1>1, <1>2, <1>3, <1>5
  <1> QED BY <1>6 DEF least, left

\* Items that are listed in such an order say what AnswerExact asks.
LEMMA ListingExact ==
  ASSUME NEW counted, NEW paged, NEW priced, NEW q \in SearchQueries, NEW items, NEW order,
         Listing(items, paged, priced, q, order)
  PROVE  Exact(q, Cardinality(OpenIn(counted, q)), items, counted, paged, priced)
  <1> DEFINE open == OpenIn(paged, q)
             N == Cardinality(open)
             offset == Offset(q.page, q.pageSize)
             key == KeysIn(paged, priced, q)
  <1>1. q.page \in Nat \ {0} /\ q.pageSize \in Nat \ {0} /\ q.desc \in BOOLEAN
    BY SearchQuery
  <1>2. IsFiniteSet(open) /\ N \in Nat
    <2>1. IsFiniteSet(open)
      BY OpenOffers, OpenMatching
    <2> QED BY <2>1, FS_CardinalityType
  <1>3. \A e \in open : key[e] = KeyIn(paged, priced, q, e) /\ key[e] \in Int
    <2>1. \A e \in open : KeyIn(paged, priced, q, e) \in Int
      BY KeysNumbers
    <2> QED BY <2>1 DEF KeysIn
  <1>4. /\ order \in Bijection(1..N, open)
        /\ Sorted(order, key, q.desc)
        /\ offset \in Nat
        /\ Len(items) \in Nat /\ DOMAIN items = 1..Len(items)
        /\ Len(items) = PageLength(N, q.page, q.pageSize)
        /\ \A i \in DOMAIN items :
             /\ offset + i \in 1..N
             /\ items[i].id = order[offset + i]
             /\ items[i].fromPrice = PriceIn(priced, q, items[i].id)
    BY DEF Listing
  <1>6. offset = (q.page - 1) * q.pageSize
    BY DEF Offset
  <1> HIDE DEF open, N, offset, key
  <1>5. Len(items) = Max({0, Min({q.pageSize, N - (q.page - 1) * q.pageSize})})
    <2> DEFINE Fits(n, page, size) == Max({0, Min({size, n - (page - 1) * size})})
    <2>1. \A n \in Nat : \A page, size \in Nat \ {0} :
            PageLength(n, page, size) = Fits(n, page, size)
      BY PageFits
    <2> HIDE DEF Fits
    <2>2. PageLength(N, q.page, q.pageSize) = Fits(N, q.page, q.pageSize)
      BY <1>1, <1>2, <2>1
    <2> QED BY <1>4, <2>2 DEF Fits
  <1>7. order \in [1..N -> open] /\ \A a, b \in 1..N : order[a] = order[b] => a = b
    BY <1>4 DEF Bijection, Injection, IsInjective
  <1>8. ASSUME NEW i \in DOMAIN items
        PROVE  LET e == items[i].id IN
               /\ e \in open
               /\ \A j \in DOMAIN items : items[j].id = e => i = j
               /\ Cardinality(Ahead(open, key, q.desc, e)) < offset + i
               /\ Cardinality(UpTo(open, key, q.desc, e)) >= offset + i
               /\ items[i].fromPrice = PriceIn(priced, q, e)
    <2> DEFINE e == items[i].id
    <2>1. offset + i \in 1..N /\ e = order[offset + i] /\ e \in open
      BY <1>4, <1>7
    <2>2. \A j \in DOMAIN items : items[j].id = e => i = j
      <3> SUFFICES ASSUME NEW j \in DOMAIN items, items[j].id = e PROVE i = j
        OBVIOUS
      <3>1. offset + j = offset + i
        BY <1>4, <1>7, <2>1
      <3> QED BY <1>4, <3>1
    <2>3. /\ Cardinality(Ahead(open, key, q.desc, order[offset + i])) < offset + i
          /\ Cardinality(UpTo(open, key, q.desc, order[offset + i])) >= offset + i
      BY <1>1, <1>2, <1>3, <1>4, <2>1, RankAt
    <2>4. items[i].fromPrice = PriceIn(priced, q, e)
      BY <1>4
    <2> QED BY <2>1, <2>2, <2>3, <2>4
  <1>9. \A e \in open :
          /\ Ahead(open, key, q.desc, e) =
               {x \in open : Before(q.desc, KeyIn(paged, priced, q, x), KeyIn(paged, priced, q, e))}
          /\ UpTo(open, key, q.desc, e) =
               {x \in open : ~ Before(q.desc, KeyIn(paged, priced, q, e), KeyIn(paged, priced, q, x))}
    BY <1>3 DEF Ahead, UpTo
  <1>10. \A i \in DOMAIN items :
           LET e == items[i].id IN
           /\ e \in open
           /\ \A j \in DOMAIN items : items[j].id = e => i = j
           /\ Cardinality({x \in open : Before(q.desc, KeyIn(paged, priced, q, x), KeyIn(paged, priced, q, e))})
                < offset + i
           /\ Cardinality({x \in open : ~ Before(q.desc, KeyIn(paged, priced, q, e), KeyIn(paged, priced, q, x))})
                >= offset + i
           /\ items[i].fromPrice = PriceIn(priced, q, e)
    BY <1>8, <1>9
  <1> QED BY <1>5, <1>6, <1>10 DEF Exact, open, N

\* A sequence that has one row of every experience orders the experiences.
IdOrder(rows) == [i \in 1..Len(rows) |-> rows[i].id]

\* It does so if no experience is left out or comes twice.
LEMMA IdBijection ==
  ASSUME NEW rows, NEW open,
         \A i \in 1..Len(rows) : rows[i].id \in open,
         \A i, j \in 1..Len(rows) : rows[i].id = rows[j].id => i = j,
         \A e \in open : \E i \in 1..Len(rows) : rows[i].id = e
  PROVE  IdOrder(rows) \in Bijection(1..Len(rows), open)
  <1> DEFINE f == IdOrder(rows)
             D == 1..Len(rows)
  <1>1. f \in [D -> open] /\ \A i \in D : f[i] = rows[i].id
    BY DEF IdOrder
  <1> HIDE DEF f, D
  <1>2. \A i, j \in D : f[i] = f[j] => i = j
    BY <1>1 DEF D
  <1>3. \A e \in open : \E i \in D : f[i] = e
    BY <1>1 DEF D
  <1>4. f \in Bijection(D, open)
    BY <1>1, <1>2, <1>3 DEF Bijection, Injection, Surjection, IsInjective
  <1> QED BY <1>4 DEF f, D

\* The rows of a search in the order of its query, and the keys that order them.
LEMMA FoundOrder ==
  ASSUME NEW table, NEW q \in SearchQueries,
         NEW order \in Orders(FoundIn(table, q), RowKeys(q, FoundIn(table, q)), q.desc)
  PROVE  /\ Len(order) = Cardinality(OpenIn(table, q)) /\ Len(order) \in Nat
         /\ order \in Seq(FoundIn(table, q)) /\ DOMAIN order = 1..Len(order)
         /\ IdOrder(order) \in Bijection(1..Len(order), OpenIn(table, q))
         /\ \A i \in 1..Len(order) : /\ order[i].id \in OpenIn(table, q)
                                     /\ order[i] = GroupedRow(table, q, order[i].id)
         /\ Sorted(order, RowKeys(q, FoundIn(table, q)), q.desc)
  <1> DEFINE rows == FoundIn(table, q)
             open == OpenIn(table, q)
  <1>1. /\ IsFiniteSet(rows) /\ Cardinality(rows) = Cardinality(open)
        /\ \A row \in rows : row.id \in open /\ row = GroupedRow(table, q, row.id)
        /\ \A e \in open : \E row \in rows : row.id = e
    BY GroupedById, OpenMatching DEF FoundIn
  <1>2. /\ order \in Seq(rows) /\ Len(order) = Cardinality(rows)
        /\ order \in Bijection(1..Cardinality(rows), rows)
        /\ DOMAIN order = 1..Cardinality(rows)
        /\ \A i, j \in DOMAIN order : order[i] = order[j] => i = j
        /\ Sorted(order, RowKeys(q, rows), q.desc)
    BY <1>1, OrderOfRows
  <1> HIDE DEF rows, open
  <1>3. DOMAIN order = 1..Len(order) /\ Len(order) \in Nat /\ Len(order) = Cardinality(open)
    BY <1>1, <1>2
  <1>4. \A i \in 1..Len(order) : order[i] \in rows
    BY <1>2, <1>3
  <1>5. \A i \in 1..Len(order) : order[i].id \in open /\ order[i] = GroupedRow(table, q, order[i].id)
    BY <1>1, <1>4
  <1>6. \A i, j \in 1..Len(order) : order[i].id = order[j].id => i = j
    BY <1>1, <1>2, <1>3, <1>4
  <1>7. \A row \in rows : \E i \in 1..Len(order) : order[i] = row
    BY <1>2 DEF Bijection, Surjection
  <1>8. \A e \in open : \E i \in 1..Len(order) : order[i].id = e
    BY <1>1, <1>7
  <1>9. IdOrder(order) \in Bijection(1..Len(order), open)
    BY <1>5, <1>6, <1>8, IdBijection
  <1> QED BY <1>2, <1>3, <1>5, <1>9 DEF rows, open

\* The price shown of an experience that matches, if its slots were asked for.
LEMMA CheapestShown ==
  ASSUME NEW table, NEW q \in SearchQueries, NEW ids, NEW row,
         row.id \in ids, row.id \in Matching(q)
  PROVE  ShownPrice(FromPrices(table, q, ids), row) = PriceIn(table, q, row.id)
  <1>1. row.id \in OpenAmong(table, q, ids) <=> row.id \in OpenIn(table, q)
    BY SearchQuery DEF OpenIn, OpenAmong, SlotsFor
  <1> QED BY <1>1 DEF ShownPrice, FromPrices, PriceIn

\* The items of an answer and the rows they are made of.
LEMMA PricedItems ==
  ASSUME NEW rows, NEW prices, Len(rows) \in Nat, DOMAIN rows = 1..Len(rows)
  PROVE  /\ DOMAIN Priced(rows, prices) = 1..Len(rows) /\ Len(Priced(rows, prices)) = Len(rows)
         /\ \A i \in 1..Len(rows) :
              /\ Priced(rows, prices)[i].id = rows[i].id
              /\ Priced(rows, prices)[i].fromPrice = ShownPrice(prices, rows[i])
  <1>1. DOMAIN Priced(rows, prices) = 1..Len(rows)
    BY DEF Priced
  <1>2. Len(Priced(rows, prices)) = Len(rows)
    BY <1>1
  <1> QED BY <1>1, <1>2 DEF Priced

\* An answer that is sorted by anything but the price.
LEMMA PagesListed ==
  ASSUME NEW paged, NEW priced, NEW q \in SearchQueries, q.sortBy # "price",
         NEW order \in Orders(FoundIn(paged, q), RowKeys(q, FoundIn(paged, q)), q.desc),
         NEW ids, ids = {row.id : row \in Range(Page(order, q.page, q.pageSize))}
  PROVE  Listing(Priced(Page(order, q.page, q.pageSize), FromPrices(priced, q, ids)), paged, priced,
                 q, IdOrder(order))
  <1> DEFINE rows == FoundIn(paged, q)
             open == OpenIn(paged, q)
             key == RowKeys(q, rows)
             page == Page(order, q.page, q.pageSize)
             offset == Offset(q.page, q.pageSize)
             prices == FromPrices(priced, q, ids)
             items == Priced(page, prices)
  <1>1. /\ Len(order) = Cardinality(open) /\ Len(order) \in Nat
        /\ order \in Seq(rows) /\ DOMAIN order = 1..Len(order)
        /\ IdOrder(order) \in Bijection(1..Len(order), open)
        /\ \A i \in 1..Len(order) : /\ order[i].id \in open
                                    /\ order[i] = GroupedRow(paged, q, order[i].id)
        /\ Sorted(order, key, q.desc)
    BY FoundOrder
  <1>2. IsSlice(page, order, q.page, q.pageSize)
    BY <1>1, PageSlice, SearchQuery
  <1>3. \A i \in 1..Len(order) : key[order[i]] = KeysIn(paged, priced, q)[order[i].id]
    <2> SUFFICES ASSUME NEW i \in 1..Len(order)
                 PROVE  key[order[i]] = KeysIn(paged, priced, q)[order[i].id]
      OBVIOUS
    <2>1. order[i] \in rows
      BY <1>1
    <2>2. key[order[i]] = RowKey(q, order[i])
      BY <2>1 DEF RowKeys
    <2>3. KeysIn(paged, priced, q)[order[i].id] = KeyIn(paged, priced, q, order[i].id)
      BY <1>1 DEF KeysIn
    <2>4. /\ order[i].available = Cardinality(Offers(paged, q, order[i].id))
          /\ order[i].earliest = Min({StartsAt[s] : s \in Offers(paged, q, order[i].id)})
      <3>1. \A e : /\ GroupedRow(paged, q, e).available = Cardinality(Offers(paged, q, e))
                   /\ GroupedRow(paged, q, e).earliest
                        = Min({StartsAt[s] : s \in Offers(paged, q, e)})
        BY DEF GroupedRow
      <3>2. order[i] = GroupedRow(paged, q, order[i].id)
        BY <1>1
      <3> QED BY <3>1, <3>2
    <2> HIDE DEF rows, key
    <2>5. RowKey(q, order[i]) = KeyIn(paged, priced, q, order[i].id)
      BY <2>4, Zenon DEF RowKey, KeyIn
    <2> QED BY <2>2, <2>3, <2>5
  <1>4. \A i \in 1..Len(order) : IdOrder(order)[i] = order[i].id
    BY DEF IdOrder
  <1>5. DOMAIN IdOrder(order) = 1..Len(order)
    BY DEF IdOrder
  <1> HIDE DEF rows, open, key, page, offset, prices, items
  <1>6. Sorted(IdOrder(order), KeysIn(paged, priced, q), q.desc)
    BY <1>1, <1>3, <1>4, <1>5 DEF Sorted
  <1>7. /\ offset \in Nat /\ Len(page) = PageLength(Len(order), q.page, q.pageSize)
        /\ Len(page) \in Nat /\ DOMAIN page = 1..Len(page)
        /\ \A i \in DOMAIN page : offset + i \in 1..Len(order) /\ page[i] = order[offset + i]
    BY <1>2 DEF IsSlice, offset
  <1>8. /\ DOMAIN items = 1..Len(page) /\ Len(items) = Len(page)
        /\ \A i \in 1..Len(page) : /\ items[i].id = page[i].id
                                   /\ items[i].fromPrice = ShownPrice(prices, page[i])
    BY <1>7, PricedItems DEF items
  <1>9. ASSUME NEW i \in 1..Len(page)
        PROVE  ShownPrice(prices, page[i]) = PriceIn(priced, q, page[i].id)
    <2>1. page[i].id \in Matching(q)
      BY <1>1, <1>7 DEF open, OpenIn
    <2>2. page[i] \in Range(page)
      BY <1>7 DEF Range
    <2>3. page[i].id \in ids
      BY <2>2 DEF page
    <2> QED BY <2>1, <2>3, CheapestShown DEF prices
  <1>10. \A i \in 1..Len(items) :
           /\ offset + i \in 1..Len(order)
           /\ items[i].id = IdOrder(order)[offset + i]
           /\ items[i].fromPrice = PriceIn(priced, q, items[i].id)
    BY <1>4, <1>7, <1>8, <1>9
  <1> QED BY <1>1, <1>6, <1>7, <1>8, <1>10 DEF Listing, open, offset, items, page, prices

\* An answer that is sorted by price.
LEMMA PricesListed ==
  ASSUME NEW paged, NEW priced, NEW q \in SearchQueries, q.sortBy = "price",
         NEW order \in Orders(FoundIn(paged, q), RowKeys(q, FoundIn(paged, q)), q.desc),
         NEW sorted \in SortedByPrice(order, FromPrices(priced, q, Matching(q)), q.desc)
  PROVE  Listing(Priced(Page(sorted, q.page, q.pageSize), FromPrices(priced, q, Matching(q))),
                 paged, priced, q, IdOrder(sorted))
  <1> DEFINE open == OpenIn(paged, q)
             page == Page(sorted, q.page, q.pageSize)
             offset == Offset(q.page, q.pageSize)
             prices == FromPrices(priced, q, Matching(q))
             items == Priced(page, prices)
  <1>1. /\ Len(order) = Cardinality(open) /\ Len(order) \in Nat
        /\ order \in Seq(FoundIn(paged, q)) /\ DOMAIN order = 1..Len(order)
        /\ IdOrder(order) \in Bijection(1..Len(order), open)
        /\ \A i \in 1..Len(order) : order[i].id \in open
    BY FoundOrder
  <1>2. DistinctRows(order)
    BY LimitDistinct DEF FoundIn
  <1>3. /\ Len(sorted) = Len(order)
        /\ IsSlice(page, sorted, q.page, q.pageSize)
    BY <1>2, SortedSlice
  <1>4. PICK perm : SortedBy(sorted, order, prices, q.desc, perm)
    BY <1>2, SortedSlice
  <1> HIDE DEF open, page, offset, prices, items
  <1>5. /\ \A i \in 1..Len(order) : sorted[i] = order[perm[i]] /\ perm[i] \in 1..Len(order)
        /\ \A i \in 1..Len(order) : \E j \in 1..Len(order) : perm[j] = i
        /\ \A i, j \in 1..Len(order) : perm[i] = perm[j] => i = j
        /\ \A i, j \in 1..Len(order) : i < j =>
             ~ Before(q.desc, SortPrice(prices, order[perm[j]]), SortPrice(prices, order[perm[i]]))
    BY <1>4 DEF SortedBy, Bijection, Surjection
  <1>6. \A e \in open : \E i \in 1..Len(order) : order[i].id = e
    BY <1>1 DEF Bijection, Surjection, IdOrder
  <1>7. /\ \A i \in 1..Len(sorted) : sorted[i].id \in open
        /\ \A i, j \in 1..Len(sorted) : sorted[i].id = sorted[j].id => i = j
        /\ \A e \in open : \E i \in 1..Len(sorted) : sorted[i].id = e
    <2> DEFINE D == 1..Len(order)
    <2>0. /\ D = 1..Len(sorted) /\ D = DOMAIN order
          /\ \A i \in D : order[i].id \in open
          /\ \A i \in D : sorted[i] = order[perm[i]] /\ perm[i] \in D
          /\ \A i, j \in D : perm[i] = perm[j] => i = j
          /\ \A i, j \in D : order[i].id = order[j].id => i = j
          /\ \A i \in D : \E j \in D : perm[j] = i
          /\ \A e \in open : \E i \in D : order[i].id = e
      BY <1>1, <1>2, <1>3, <1>5, <1>6 DEF DistinctRows
    <2> HIDE DEF D
    <2>1. \A i \in 1..Len(sorted) : sorted[i].id \in open
      BY <2>0
    <2>2. \A i, j \in 1..Len(sorted) : sorted[i].id = sorted[j].id => i = j
      <3> SUFFICES ASSUME NEW i \in D, NEW j \in D, sorted[i].id = sorted[j].id PROVE i = j
        BY <2>0
      <3>1. perm[i] \in D /\ perm[j] \in D /\ order[perm[i]].id = order[perm[j]].id
        BY <2>0
      <3>2. perm[i] = perm[j]
        BY <2>0, <3>1
      <3> QED BY <2>0, <3>2
    <2>3. \A e \in open : \E i \in 1..Len(sorted) : sorted[i].id = e
      <3> SUFFICES ASSUME NEW e \in open PROVE \E i \in D : sorted[i].id = e
        BY <2>0
      <3>1. PICK k \in D : order[k].id = e
        BY <2>0
      <3>2. PICK i \in D : perm[i] = k
        BY <2>0
      <3> QED BY <2>0, <3>1, <3>2
    <2> QED BY <2>1, <2>2, <2>3
  <1>8. IdOrder(sorted) \in Bijection(1..Len(sorted), open)
    BY <1>7, IdBijection
  <1>9. \A i \in 1..Len(sorted) : /\ IdOrder(sorted)[i] = sorted[i].id
                                  /\ SortPrice(prices, sorted[i]) = KeysIn(paged, priced, q)[sorted[i].id]
    <2> SUFFICES ASSUME NEW i \in 1..Len(sorted)
                 PROVE  /\ IdOrder(sorted)[i] = sorted[i].id
                        /\ SortPrice(prices, sorted[i]) = KeysIn(paged, priced, q)[sorted[i].id]
      OBVIOUS
    <2>1. IdOrder(sorted)[i] = sorted[i].id
      BY DEF IdOrder
    <2>2. sorted[i].id \in open /\ sorted[i].id \in Matching(q)
      BY <1>7 DEF open, OpenIn
    <2>3. SortPrice(prices, sorted[i]) = PriceIn(priced, q, sorted[i].id)
      BY <2>2, CheapestShown DEF SortPrice, prices
    <2>4. KeysIn(paged, priced, q)[sorted[i].id] = KeyIn(paged, priced, q, sorted[i].id)
      BY <2>2 DEF KeysIn, open
    <2>5. KeyIn(paged, priced, q, sorted[i].id) = PriceIn(priced, q, sorted[i].id)
      BY DEF KeyIn
    <2> QED BY <2>1, <2>3, <2>4, <2>5
  <1>10. DOMAIN IdOrder(sorted) = 1..Len(sorted)
    BY DEF IdOrder
  <1>11. Sorted(IdOrder(sorted), KeysIn(paged, priced, q), q.desc)
    <2> DEFINE D == 1..Len(order)
               key == KeysIn(paged, priced, q)
               ids == IdOrder(sorted)
    <2>1. /\ DOMAIN ids = D
          /\ \A i \in D : sorted[i] = order[perm[i]]
          /\ \A i \in D : ids[i] = sorted[i].id /\ SortPrice(prices, sorted[i]) = key[sorted[i].id]
          /\ \A i, j \in D : i < j =>
               ~ Before(q.desc, SortPrice(prices, order[perm[j]]), SortPrice(prices, order[perm[i]]))
      BY <1>3, <1>5, <1>9, <1>10
    <2> HIDE DEF D, key, ids
    <2>2. \A i \in D : key[ids[i]] = SortPrice(prices, order[perm[i]])
      BY <2>1
    <2>3. Sorted(ids, key, q.desc)
      BY <2>1, <2>2 DEF Sorted
    <2> QED BY <2>3 DEF ids, key
  <1>12. /\ offset \in Nat /\ Len(page) = PageLength(Len(sorted), q.page, q.pageSize)
         /\ Len(page) \in Nat /\ DOMAIN page = 1..Len(page)
         /\ \A i \in DOMAIN page : offset + i \in 1..Len(sorted) /\ page[i] = sorted[offset + i]
    BY <1>3 DEF IsSlice, offset
  <1>13. /\ DOMAIN items = 1..Len(page) /\ Len(items) = Len(page)
         /\ \A i \in 1..Len(page) : /\ items[i].id = page[i].id
                                    /\ items[i].fromPrice = ShownPrice(prices, page[i])
    BY <1>12, PricedItems DEF items
  <1>14. ASSUME NEW i \in 1..Len(page)
         PROVE  ShownPrice(prices, page[i]) = PriceIn(priced, q, page[i].id)
    <2>1. page[i].id \in Matching(q)
      BY <1>7, <1>12 DEF open, OpenIn
    <2> QED BY <2>1, CheapestShown DEF prices
  <1>15. \A i \in 1..Len(items) :
           /\ offset + i \in 1..Len(sorted)
           /\ items[i].id = IdOrder(sorted)[offset + i]
           /\ items[i].fromPrice = PriceIn(priced, q, items[i].id)
    BY <1>9, <1>12, <1>13, <1>14
  <1> QED BY <1>1, <1>3, <1>8, <1>11, <1>12, <1>13, <1>15
          DEF Listing, open, offset, items, page, prices

\* Exact is what AnswerExact says of an answer.
LEMMA ExactNext ==
  ASSUME Exact(reader'.query, reader'.total, reader'.items,
               reader'.counted, reader'.paged, reader'.priced)
  PROVE  AnswerExact'
  BY Zenon DEF AnswerExact, Exact

\* Nothing matches: an empty page of nothing.
LEMMA NothingExact ==
  ASSUME NEW q \in SearchQueries, Matching(q) = {}, NEW table
  PROVE  Exact(q, 0, << >>, table, table, table)
  <1>1. OpenIn(table, q) = {}
    BY DEF OpenIn
  <1>2. q.page \in Nat \ {0} /\ q.pageSize \in Nat \ {0}
    BY SearchQuery
  <1>3. Max({0, Min({q.pageSize, 0 - (q.page - 1) * q.pageSize})}) = 0
    <2> DEFINE Fits(n, page, size) == Max({0, Min({size, n - (page - 1) * size})})
    <2>1. \A n \in Nat : \A page, size \in Nat \ {0} :
            PageLength(n, page, size) = Fits(n, page, size)
      BY PageFits
    <2> HIDE DEF Fits
    <2>2. PageLength(0, q.page, q.pageSize) = Fits(0, q.page, q.pageSize)
      BY <1>2, <2>1
    <2>3. (q.page - 1) * q.pageSize >= 0
      BY <1>2
    <2>4. PageLength(0, q.page, q.pageSize) = 0
      BY <1>2, <2>3 DEF PageLength
    <2> QED BY <2>2, <2>4 DEF Fits
  <1>4. Cardinality({}) = 0 /\ Len(<< >>) = 0 /\ DOMAIN << >> = {}
    BY FS_EmptySet
  <1> QED BY <1>1, <1>3, <1>4 DEF Exact

\* The last query of a search gives an exact answer.
LEMMA PricingExact ==
  ASSUME NEW q, q \in SearchQueries, NEW rows, NEW ids, NEW counted, NEW paged, NEW priced,
         PagedIn(paged, q, rows, ids), NEW items,
         IF q.sortBy = "price"
         THEN \E sorted \in SortedByPrice(rows, FromPrices(priced, q, ids), q.desc) :
                items = Priced(Page(sorted, q.page, q.pageSize), FromPrices(priced, q, ids))
         ELSE items = Priced(rows, FromPrices(priced, q, ids))
  PROVE  Exact(q, Cardinality(FoundIn(counted, q)), items, counted, paged, priced)
  <1> DEFINE found == FoundIn(paged, q)
             prices == FromPrices(priced, q, ids)
  <1>1. PICK order \in Orders(found, RowKeys(q, found), q.desc) :
          /\ rows = Limit(q, order)
          /\ ids = IF q.sortBy = "price" THEN Matching(q)
                   ELSE {row.id : row \in Range(Limit(q, order))}
    BY DEF PagedIn
  <1>2. Cardinality(FoundIn(counted, q)) = Cardinality(OpenIn(counted, q))
    BY GroupedById, OpenMatching DEF FoundIn
  <1>3. CASE q.sortBy = "price"
    <2>1. rows = order /\ ids = Matching(q)
      BY <1>1, <1>3 DEF Limit
    <2>2. PICK sorted \in SortedByPrice(rows, prices, q.desc) :
            items = Priced(Page(sorted, q.page, q.pageSize), prices)
      BY <1>3
    <2> HIDE DEF found
    <2>3. Listing(items, paged, priced, q, IdOrder(sorted))
      BY <1>1, <1>3, <2>1, <2>2, PricesListed DEF found
    <2> QED BY <1>2, <2>3, ListingExact DEF found
  <1>4. CASE q.sortBy # "price"
    <2>1. /\ rows = Page(order, q.page, q.pageSize) /\ items = Priced(rows, prices)
          /\ ids = {row.id : row \in Range(Page(order, q.page, q.pageSize))}
      BY <1>1, <1>4 DEF Limit
    <2>2. Listing(items, paged, priced, q, IdOrder(order))
      BY <1>1, <1>4, <2>1, PagesListed
    <2> QED BY <1>2, <2>2, ListingExact
  <1> QED BY <1>3, <1>4

\* Only the last query of a search makes an answer, and one that finds no experience.
LEMMA Unanswered ==
  ASSUME reader'.pc # "answered"
  PROVE  AnswerExact'
  BY DEF AnswerExact

\* No step, of the reader or of the booking service, breaks the invariant.
LEMMA SearchInvStep == SearchInv /\ [LNext]_lvars => SearchInv'
  <1> SUFFICES ASSUME SearchInv, [LNext]_lvars PROVE SearchInv'
    OBVIOUS
  <1>1. CASE UNCHANGED reader
    <2>1. AnswerExact'
      BY <1>1, Zenon DEF SearchInv, AnswerExact
    <2> QED BY <1>1, <2>1 DEF SearchInv
  <1>2. ASSUME NEW q \in SearchQueries, SearchMatches(q)
        PROVE  SearchInv'
    <2>1. CASE Matching(q) = {}
      <3>1. /\ reader'.pc = "answered" /\ reader'.query = q /\ reader'.total = 0
            /\ reader'.items = << >> /\ reader'.counted = Reserved
            /\ reader'.paged = Reserved /\ reader'.priced = Reserved
        BY <1>2, <2>1 DEF SearchMatches, Answered
      <3>2. Exact(q, 0, << >>, Reserved, Reserved, Reserved)
        BY <2>1, NothingExact
      <3>3. AnswerExact'
        BY <3>1, <3>2, ExactNext
      <3> QED BY <3>1, <3>3 DEF SearchInv
    <2>2. CASE Matching(q) # {}
      <3>1. reader' = [pc |-> "count", query |-> q, ids |-> Matching(q)]
        BY <1>2, <2>2 DEF SearchMatches
      <3>2. reader'.pc = "count" /\ reader'.query = q /\ reader'.ids = Matching(q)
        BY <3>1
      <3> QED BY <3>2, Unanswered DEF SearchInv
    <2> QED BY <2>1, <2>2
  <1>3. CASE SearchCounts
    <2> DEFINE q == reader.query
    <2>1. reader.pc = "count" /\ q \in SearchQueries /\ reader.ids = Matching(q)
      BY <1>3 DEF SearchCounts, SearchInv
    <2>2. /\ reader'.pc = "page" /\ reader'.query = q /\ reader'.ids = reader.ids
          /\ reader'.total = Cardinality(GroupedRows(Reserved, q, reader.ids))
          /\ reader'.counted = Reserved
      BY <1>3 DEF SearchCounts
    <2>3. AnswerExact'
      BY <2>2, Unanswered
    <2> HIDE DEF q
    <2>4. reader'.total = Cardinality(FoundIn(reader'.counted, q))
      BY <2>1, <2>2 DEF FoundIn
    <2> QED BY <2>1, <2>2, <2>3, <2>4 DEF SearchInv
  <1>4. CASE SearchPages
    <2> DEFINE q == reader.query
               rows == GroupedRows(Reserved, q, reader.ids)
    <2>1. /\ reader.pc = "page" /\ q \in SearchQueries /\ reader.ids = Matching(q)
          /\ reader.total = Cardinality(FoundIn(reader.counted, q))
      BY <1>4 DEF SearchPages, SearchInv
    <2>2. PICK order \in Orders(rows, [row \in rows |-> RowKey(q, row)], q.desc) :
            reader' = [pc |-> "prices", query |-> q, total |-> reader.total,
                       counted |-> reader.counted, paged |-> Reserved, rows |-> Limit(q, order),
                       ids |-> IF q.sortBy = "price" THEN reader.ids
                               ELSE {row.id : row \in Range(Limit(q, order))}]
      BY <1>4 DEF SearchPages
    <2>3. /\ reader'.pc = "prices" /\ reader'.query = q /\ reader'.total = reader.total
          /\ reader'.counted = reader.counted /\ reader'.paged = Reserved
          /\ reader'.rows = Limit(q, order)
          /\ reader'.ids = IF q.sortBy = "price" THEN reader.ids
                           ELSE {row.id : row \in Range(Limit(q, order))}
      BY <2>2
    <2>4. PagedIn(reader'.paged, q, reader'.rows, reader'.ids)
      <3>1. rows = FoundIn(Reserved, q) /\ [row \in rows |-> RowKey(q, row)] = RowKeys(q, rows)
        BY <2>1 DEF FoundIn, RowKeys
      <3>2. order \in Orders(FoundIn(Reserved, q), RowKeys(q, FoundIn(Reserved, q)), q.desc)
        BY <3>1
      <3> HIDE DEF rows, q
      <3> QED BY <2>1, <2>3, <3>2 DEF PagedIn
    <2>5. AnswerExact'
      BY <2>3, Unanswered
    <2> HIDE DEF q, rows
    <2> QED BY <2>1, <2>3, <2>4, <2>5 DEF SearchInv
  <1>5. CASE SearchPrices
    <2> DEFINE q == reader.query
               prices == FromPrices(Reserved, q, reader.ids)
    <2>1. /\ reader.pc = "prices" /\ q \in SearchQueries
          /\ reader.total = Cardinality(FoundIn(reader.counted, q))
          /\ PagedIn(reader.paged, q, reader.rows, reader.ids)
      BY <1>5 DEF SearchPrices, SearchInv
    <2>2. PICK items :
            /\ Answered(q, reader.total, items, reader.counted, reader.paged)
            /\ IF q.sortBy = "price"
               THEN \E sorted \in SortedByPrice(reader.rows, prices, q.desc) :
                      items = Priced(Page(sorted, q.page, q.pageSize), prices)
               ELSE items = Priced(reader.rows, prices)
      BY <1>5 DEF SearchPrices
    <2>3. /\ reader'.pc = "answered" /\ reader'.query = q /\ reader'.total = reader.total
          /\ reader'.items = items /\ reader'.counted = reader.counted
          /\ reader'.paged = reader.paged /\ reader'.priced = Reserved
      BY <2>2 DEF Answered
    <2> HIDE DEF q
    <2>4. Exact(q, Cardinality(FoundIn(reader.counted, q)), items,
                reader.counted, reader.paged, Reserved)
      BY <2>1, <2>2, PricingExact
    <2>5. AnswerExact'
      BY <2>1, <2>3, <2>4, ExactNext
    <2> QED BY <2>3, <2>5 DEF SearchInv
  <1>6. CASE SearchEnds
    <2>1. reader'.pc = "idle"
      BY <1>6 DEF SearchEnds, ReaderIdle
    <2> QED BY <2>1, Unanswered DEF SearchInv
  <1>7. CASE ListStep
    <2>1. reader'.pc \in {"idle", "listCount", "listFind", "listed"}
      BY <1>7, ListPc
    <2> QED BY <2>1, Unanswered DEF SearchInv
  <1> QED BY <1>1, <1>2, <1>3, <1>4, <1>5, <1>6, <1>7 DEF LNext, SearchStep, lvars

\* The steps of a reader are no steps of the booking service.
LEMMA ReaderStep == IInv /\ [LNext]_lvars => IInv'
  <1>1. [LNext]_lvars => [Next]_vars
    BY DEF LNext, lvars, vars
  <1> QED BY <1>1, IInvStep

\* The answer to a search is exact for the three moments at which its queries ran, for
\* any number of slots, experiences and bookings, every query, and whatever changes the
\* slots in between.
THEOREM AnswersExact == LSpec => []AnswerExact
  <1>1. LInit => SearchInv
    BY DEF LInit, ReaderIdle, SearchInv, AnswerExact
  <1>2. SearchInv => AnswerExact
    BY DEF SearchInv
  <1> QED BY <1>1, <1>2, SearchInvStep, PTL DEF LSpec

(***************************************************************************)
(* The rows of a list.                                                     *)
(***************************************************************************)
\* Every audit row has its time, and every booking an audit row.
StampInv ==
  /\ IsFiniteSet(DOMAIN bookings)
  /\ DOMAIN stamp = DOMAIN bookings
  /\ \A b \in DOMAIN bookings :
       stamp[b] \in Seq(Nat) /\ Len(stamp[b]) = Len(audit[b]) /\ Len(audit[b]) >= 1

\* What a step keeps of a booking and its audit rows.
Extended(b) ==
  /\ b \in DOMAIN bookings'
  /\ bookings'[b].tenantId = bookings[b].tenantId /\ bookings'[b].userId = bookings[b].userId
  /\ bookings'[b].slotId = bookings[b].slotId /\ bookings'[b].partySize = bookings[b].partySize
  /\ audit'[b] = audit[b] \/ \E row \in AuditRow : audit'[b] = Append(audit[b], row)

\* A step takes no booking and no audit row away.
LEMMA TablesGrow ==
  ASSUME IInv, StampInv, [Next]_vars
  PROVE  /\ \A b \in DOMAIN bookings : Extended(b)
         /\ \A b \in DOMAIN bookings' \ DOMAIN bookings :
              audit'[b] \in Seq(AuditRow) /\ Len(audit'[b]) = 1
         /\ IsFiniteSet(DOMAIN bookings')
  <1> USE DEF IInv
  <1>0. {"CONFIRMED", "CANCELLED", "EXPIRED", "RESERVED"} \subseteq Status
    BY DEF Status
  <1>1. CASE UNCHANGED <<slots, bookings, history, audit>>
    BY <1>1 DEF Extended, StampInv
  <1>2. ASSUME NEW b \in BookingIds \ DOMAIN bookings, NEW row \in BookingRow, Created(b, row)
        PROVE  /\ \A c \in DOMAIN bookings : Extended(c)
               /\ \A c \in DOMAIN bookings' \ DOMAIN bookings :
                    audit'[c] \in Seq(AuditRow) /\ Len(audit'[c]) = 1
               /\ IsFiniteSet(DOMAIN bookings')
    <2>1. DOMAIN bookings' = DOMAIN bookings \cup {b}
      BY <1>2, CreatedRows
    <2>2. \A c \in DOMAIN bookings : Extended(c)
      BY <1>2, <2>1, CreatedRows DEF Extended
    <2>3. IsFiniteSet(DOMAIN bookings')
      BY <2>1, FS_AddElement DEF StampInv
    <2>4. audit'[b] \in Seq(AuditRow) /\ Len(audit'[b]) = 1
      <3> DEFINE first == [event |-> "RESERVED", actorUserId |-> row.userId]
      <3>1. first \in AuditRow
        BY <1>0 DEF AuditRow, BookingRow
      <3>2. audit'[b] = <<first>>
        BY <1>2, CreatedRows
      <3> HIDE DEF first
      <3> QED BY <3>1, <3>2
    <2> QED BY <2>1, <2>2, <2>3, <2>4
  <1>3. ASSUME NEW b \in DOMAIN bookings, NEW from \in Status, NEW to \in Status,
               NEW actor \in Users \cup {Null}, Changed(b, from, to, actor)
        PROVE  /\ \A c \in DOMAIN bookings : Extended(c)
               /\ DOMAIN bookings' = DOMAIN bookings
    <2>1. DOMAIN bookings' = DOMAIN bookings
      BY <1>3, ChangedRows
    <2>2. \A c \in DOMAIN bookings : c # b => Extended(c)
      BY <1>3, <2>1, ChangedRows DEF Extended
    <2>3. Extended(b)
      <3>1. [event |-> to, actorUserId |-> actor] \in AuditRow
        BY DEF AuditRow
      <3>2. /\ bookings'[b].tenantId = bookings[b].tenantId
            /\ bookings'[b].userId = bookings[b].userId
        BY <1>3 DEF Changed, SetStatus, TypeOK, BookingRow
      <3>3. /\ b \in DOMAIN bookings' /\ bookings'[b].slotId = bookings[b].slotId
            /\ bookings'[b].partySize = bookings[b].partySize
            /\ audit'[b] = Append(audit[b], [event |-> to, actorUserId |-> actor])
        BY <1>3, <2>1, ChangedRows
      <3> QED BY <3>1, <3>2, <3>3 DEF Extended
    <2> QED BY <2>1, <2>2, <2>3
  <1>4. ASSUME NEW b \in DOMAIN bookings, NEW from \in Status, NEW to \in Status,
               NEW actor \in Users \cup {Null}, Changed(b, from, to, actor)
        PROVE  /\ \A c \in DOMAIN bookings : Extended(c)
               /\ \A c \in DOMAIN bookings' \ DOMAIN bookings :
                    audit'[c] \in Seq(AuditRow) /\ Len(audit'[c]) = 1
               /\ IsFiniteSet(DOMAIN bookings')
    BY <1>3, <1>4 DEF StampInv
  <1> QED BY <1>0, <1>1, <1>2, <1>4, TableStep

\* Rows of the booking service and their times: what was written stays.
Grown ==
  \A b \in DOMAIN bookings :
    /\ Extended(b)
    /\ Len(audit[b]) <= Len(audit'[b])
    /\ \A i \in 1..Len(audit[b]) : audit'[b][i] = audit[b][i] /\ stamp'[b][i] = stamp[b][i]

\* The times keep up with the rows, and what was written keeps its time.
LEMMA StampStep ==
  ASSUME IInv, StampInv, [Next]_vars, Stamps
  PROVE  StampInv' /\ Grown
  <1> USE DEF IInv
  <1>1. /\ DOMAIN audit = DOMAIN bookings
        /\ \A b \in DOMAIN bookings : audit[b] \in Seq(AuditRow)
    BY DEF TypeOK
  <1>2. DOMAIN audit' = DOMAIN bookings'
    <2>1. IInv'
      BY IInvStep
    <2> QED BY <2>1 DEF TypeOK
  <1>3. PICK t \in Max({0, now - MaxLag})..now :
          stamp' = [b \in DOMAIN audit' |->
            IF b \notin DOMAIN audit THEN <<t>>
            ELSE IF Len(audit'[b]) > Len(audit[b]) THEN Append(stamp[b], t)
            ELSE stamp[b]]
    BY DEF Stamps
  <1>4. t \in Nat
    <2>1. now \in Nat /\ now - MaxLag \in Int
      BY LagAssumption DEF TypeOK
    <2>2. Max({0, now - MaxLag}) \in Nat
      BY <2>1, MaxWithZero
    <2> QED BY <2>1, <2>2
  <1>5. ASSUME NEW b \in DOMAIN bookings
        PROVE  /\ Extended(b)
               /\ Len(audit[b]) <= Len(audit'[b])
               /\ \A i \in 1..Len(audit[b]) : audit'[b][i] = audit[b][i] /\ stamp'[b][i] = stamp[b][i]
               /\ stamp'[b] \in Seq(Nat) /\ Len(stamp'[b]) = Len(audit'[b]) /\ Len(audit'[b]) >= 1
    <2> DEFINE a == audit[b]
               s == stamp[b]
    <2>1. Extended(b)
      BY TablesGrow
    <2>2. b \in DOMAIN audit' /\ b \in DOMAIN audit
      BY <1>1, <1>2, <2>1 DEF Extended
    <2>3. stamp'[b] = IF Len(audit'[b]) > Len(a) THEN Append(s, t) ELSE s
      BY <1>3, <2>2
    <2>4. a \in Seq(AuditRow) /\ s \in Seq(Nat) /\ Len(s) = Len(a) /\ Len(a) >= 1
      BY <1>1 DEF StampInv
    <2>5. CASE audit'[b] = a
      <3>1. stamp'[b] = s
        BY <2>3, <2>4, <2>5
      <3> QED BY <2>1, <2>4, <2>5, <3>1
    <2>6. ASSUME NEW row \in AuditRow, audit'[b] = Append(a, row)
          PROVE  /\ Len(a) <= Len(audit'[b])
                 /\ \A i \in 1..Len(a) : audit'[b][i] = a[i] /\ stamp'[b][i] = s[i]
                 /\ stamp'[b] \in Seq(Nat) /\ Len(stamp'[b]) = Len(audit'[b])
                 /\ Len(audit'[b]) >= 1
      <3> HIDE DEF a, s
      <3>1. Len(audit'[b]) = Len(a) + 1 /\ Len(a) \in Nat /\ \A i \in 1..Len(a) : audit'[b][i] = a[i]
        BY <2>4, <2>6
      <3>2. stamp'[b] = Append(s, t)
        BY <2>3, <3>1
      <3>3. /\ Append(s, t) \in Seq(Nat) /\ Len(Append(s, t)) = Len(s) + 1
            /\ \A i \in 1..Len(s) : Append(s, t)[i] = s[i]
        BY <1>4, <2>4
      <3> QED BY <2>4, <3>1, <3>2, <3>3
    <2> QED BY <2>1, <2>5, <2>6 DEF Extended
  <1>6. ASSUME NEW b \in DOMAIN bookings', b \notin DOMAIN bookings
        PROVE  stamp'[b] \in Seq(Nat) /\ Len(stamp'[b]) = Len(audit'[b]) /\ Len(audit'[b]) >= 1
    <2>1. stamp'[b] = <<t>>
      BY <1>1, <1>2, <1>3, <1>6
    <2>2. Len(audit'[b]) = 1
      BY <1>6, TablesGrow
    <2> QED BY <1>4, <2>1, <2>2
  <1>7. DOMAIN stamp' = DOMAIN bookings'
    BY <1>2, <1>3
  <1>8. IsFiniteSet(DOMAIN bookings')
    BY TablesGrow
  <1> QED BY <1>5, <1>6, <1>7, <1>8 DEF StampInv, Grown

\* Whatever a list asks for, its rows are among these, and they are finitely many.
AllRows(table, log) == {<<b, 0>> : b \in table} \cup UNION {{b} \X DOMAIN log[b] : b \in table}

\* They are finitely many because every booking has finitely many audit rows.
LEMMA RowsFinite ==
  ASSUME NEW table, IsFiniteSet(table), NEW log,
         \A b \in table : DOMAIN log[b] = 1..Len(log[b]) /\ Len(log[b]) \in Nat
  PROVE  IsFiniteSet(AllRows(table, log))
  <1> DEFINE first == [b \in table |-> <<b, 0>>]
             others == [b \in table |-> {b} \X DOMAIN log[b]]
             firsts == {first[b] : b \in table}
             sets == {others[b] : b \in table}
  <1>1. IsFiniteSet(firsts)
    <2> HIDE DEF first
    <2> QED BY FiniteImage
  <1>2. IsFiniteSet(sets)
    <2> HIDE DEF others
    <2> QED BY FiniteImage
  <1>3. \A T \in sets : IsFiniteSet(T)
    <2>1. \A b \in table : IsFiniteSet({b} \X DOMAIN log[b])
      BY SeatCount
    <2> QED BY <2>1
  <1>4. AllRows(table, log) = firsts \cup UNION sets
    BY DEF AllRows
  <1> HIDE DEF firsts, sets
  <1>5. IsFiniteSet(UNION sets)
    BY <1>2, <1>3, FS_UNION
  <1> QED BY <1>1, <1>4, <1>5, FS_Union

\* A list has finitely many rows, before a step and after it.
LEMMA ListFinite ==
  ASSUME TypeOK, StampInv, NEW q
  PROVE  IsFiniteSet(ListRows(q)) /\ Cardinality(ListRows(q)) \in Nat
  <1>1. ListRows(q) \subseteq AllRows(DOMAIN bookings, audit)
    BY DEF ListRows, BookingRows, AuditRows, AllRows, TypeOK
  <1>2. \A b \in DOMAIN bookings : DOMAIN audit[b] = 1..Len(audit[b]) /\ Len(audit[b]) \in Nat
    BY DEF TypeOK
  <1>3. IsFiniteSet(AllRows(DOMAIN bookings, audit))
    BY <1>2, RowsFinite DEF StampInv
  <1> QED BY <1>1, <1>3, FS_Subset, FS_CardinalityType

LEMMA ListFiniteNext ==
  ASSUME TypeOK', StampInv', NEW q
  PROVE  IsFiniteSet(ListRows(q)') /\ Cardinality(ListRows(q)') \in Nat
  <1>1. ListRows(q)' \subseteq AllRows(DOMAIN bookings', audit')
    BY DEF ListRows, BookingRows, AuditRows, AllRows, TypeOK
  <1>2. \A b \in DOMAIN bookings' :
          DOMAIN audit'[b] = 1..Len(audit'[b]) /\ Len(audit'[b]) \in Nat
    BY DEF TypeOK
  <1>3. IsFiniteSet(AllRows(DOMAIN bookings', audit'))
    BY <1>2, RowsFinite DEF StampInv
  <1> QED BY <1>1, <1>3, FS_Subset, FS_CardinalityType

\* What the rows of a list look like.
LEMMA RowShape ==
  ASSUME TypeOK, StampInv, NEW q, NEW row \in ListRows(q)
  PROVE  \E b \in DOMAIN bookings, i \in Nat :
           /\ row = <<b, i>> /\ i <= Len(audit[b])
           /\ CreatedAt(row) = stamp[b][IF i = 0 THEN 1 ELSE i]
           /\ q.list = "bookings" => i = 0
           /\ q.list # "bookings" => i >= 1
  <1>1. CASE q.list = "bookings"
    <2>1. row \in BookingRows(q)
      BY <1>1 DEF ListRows
    <2>2. PICK b \in DOMAIN bookings : row = <<b, 0>>
      BY <2>1 DEF BookingRows
    <2>3. Len(audit[b]) \in Nat
      BY DEF TypeOK
    <2> QED BY <1>1, <2>2, <2>3 DEF CreatedAt
  <1>2. CASE q.list # "bookings"
    <2>1. row \in AuditRows(q)
      BY <1>2 DEF ListRows
    <2>2. PICK b \in DOMAIN audit : row \in {b} \X DOMAIN audit[b]
      BY <2>1 DEF AuditRows
    <2>3. PICK i \in DOMAIN audit[b] : row = <<b, i>>
      BY <2>2
    <2>4. b \in DOMAIN bookings /\ audit[b] \in Seq(AuditRow)
      BY DEF TypeOK
    <2>5. i \in Nat /\ i >= 1 /\ i <= Len(audit[b])
      BY <2>4
    <2> QED BY <1>2, <2>3, <2>4, <2>5 DEF CreatedAt
  <1> QED BY <1>1, <1>2

\* A list with settled filters only grows, and its sort keys stay.
LEMMA ListGrows ==
  ASSUME TypeOK, TypeOK', StampInv, Grown, NEW q \in ListQueries, Settled(q)
  PROVE  /\ ListRows(q) \subseteq ListRows(q)'
         /\ \A row \in ListRows(q) : SortBy(q, row)' = SortBy(q, row)
  <1> SUFFICES ASSUME NEW row \in ListRows(q)
               PROVE  row \in ListRows(q)' /\ SortBy(q, row)' = SortBy(q, row)
    OBVIOUS
  <1>1. PICK b \in DOMAIN bookings, i \in Nat :
           /\ row = <<b, i>> /\ i <= Len(audit[b])
           /\ q.list = "bookings" => i = 0
           /\ q.list # "bookings" => i >= 1
    BY RowShape
  <1>2. /\ b \in DOMAIN bookings'
        /\ bookings'[b].tenantId = bookings[b].tenantId /\ bookings'[b].userId = bookings[b].userId
        /\ bookings'[b].slotId = bookings[b].slotId
        /\ bookings'[b].partySize = bookings[b].partySize
        /\ Len(audit[b]) <= Len(audit'[b])
        /\ \A j \in 1..Len(audit[b]) : audit'[b][j] = audit[b][j] /\ stamp'[b][j] = stamp[b][j]
    BY DEF Grown, Extended
  <1>3. /\ Len(audit[b]) \in Nat /\ Len(audit[b]) >= 1 /\ Len(audit'[b]) \in Nat
        /\ DOMAIN audit'[b] = 1..Len(audit'[b]) /\ DOMAIN audit[b] = 1..Len(audit[b])
        /\ b \in DOMAIN audit /\ b \in DOMAIN audit'
    BY <1>2 DEF StampInv, TypeOK
  <1>4. CreatedAt(row)' = CreatedAt(row)
    <2>1. row[1] = b /\ row[2] = i
      BY <1>1
    <2>2. (IF i = 0 THEN 1 ELSE i) \in 1..Len(audit[b])
      BY <1>1, <1>3
    <2>3. stamp'[b][IF i = 0 THEN 1 ELSE i] = stamp[b][IF i = 0 THEN 1 ELSE i]
      BY <1>2, <2>2
    <2> QED BY <2>1, <2>3 DEF CreatedAt
  <1>5. q.list \in {"bookings", "audit"} /\ q.sortBy \in BookingSort
        /\ (q.list = "audit" => q.sortBy = "created_at")
    BY ListQueriesAssumption DEF WellFormedList, BookingSort
  <1>6. q.sortBy # "status"
    BY <1>5 DEF Settled
  <1>7. SortBy(q, row)' = SortBy(q, row)
    <2>1. CASE q.sortBy = "created_at"
      BY <1>4, <2>1 DEF SortBy
    <2>2. CASE q.sortBy = "total_price"
      BY <1>1, <1>2, <2>2 DEF SortBy
    <2>3. CASE q.sortBy = "slot_starts_at"
      BY <1>1, <1>2, <2>3 DEF SortBy
    <2> QED BY <1>5, <1>6, <2>1, <2>2, <2>3 DEF BookingSort
  <1>8. CASE q.list = "bookings"
    <2>1. row \in BookingRows(q) /\ q.status = NoFilter
      BY <1>8 DEF ListRows, Settled
    <2>2. PICK c \in DOMAIN bookings :
            /\ row = <<c, 0>> /\ bookings[c].tenantId = q.tenant
            /\ Lets(q.user, bookings[c].userId) /\ Lets(q.booking, c)
            /\ bookings[c].slotId \in q.among
            /\ CreatedAt(<<c, 0>>) \in q.days
      BY <2>1 DEF BookingRows
    <2>3. c = b /\ CreatedAt(<<b, 0>>)' \in q.days
      BY <1>1, <1>4, <2>2
    <2>4. Lets(q.status, bookings'[b].status)
      BY <2>1 DEF Lets
    <2>5. row \in BookingRows(q)'
      BY <1>2, <2>2, <2>3, <2>4 DEF BookingRows
    <2> QED BY <1>7, <1>8, <2>5 DEF ListRows
  <1>9. CASE q.list # "bookings"
    <2>1. row \in AuditRows(q) /\ i \in 1..Len(audit[b]) /\ i \in 1..Len(audit'[b])
      BY <1>1, <1>2, <1>3, <1>9 DEF ListRows
    <2>2. row[1] = b /\ row[2] = i
      BY <1>1
    <2>3. /\ bookings[b].tenantId = q.tenant
          /\ Lets(q.status, audit[b][i].event)
          /\ Lets(q.user, audit[b][i].actorUserId)
          /\ Lets(q.booking, b)
          /\ CreatedAt(row) \in q.days
      BY <2>1, <2>2 DEF AuditRows
    <2>4. audit'[b][i] = audit[b][i]
      BY <1>2, <2>1
    <2>5. row \in {b} \X DOMAIN audit'[b]
      BY <1>1, <1>3, <2>1
    <2>6. row \in UNION {{c} \X DOMAIN audit'[c] : c \in DOMAIN audit'}
      BY <1>3, <2>5
    <2>7. row \in AuditRows(q)'
      BY <1>2, <1>4, <2>2, <2>3, <2>4, <2>6 DEF AuditRows
    <2> QED BY <1>7, <1>9, <2>7 DEF ListRows
  <1> QED BY <1>8, <1>9

\* The sort keys of such a list are numbers.
LEMMA ListKeys ==
  ASSUME TypeOK, StampInv, NEW q \in ListQueries, Settled(q), NEW row \in ListRows(q)
  PROVE  SortBy(q, row) \in Int
  <1>1. PICK b \in DOMAIN bookings, i \in Nat :
           /\ row = <<b, i>> /\ i <= Len(audit[b])
           /\ CreatedAt(row) = stamp[b][IF i = 0 THEN 1 ELSE i]
    BY RowShape
  <1>2. bookings[b].slotId \in Slots /\ bookings[b].partySize \in Nat
    BY DEF TypeOK, BookingRow
  <1>3. PriceOf[bookings[b].slotId] \in Int /\ StartsAt[bookings[b].slotId] \in Int
    BY <1>2, CatalogAssumption
  <1>4. CreatedAt(row) \in Int
    <2>1. stamp[b] \in Seq(Nat) /\ Len(stamp[b]) = Len(audit[b]) /\ Len(audit[b]) >= 1
      BY DEF StampInv
    <2>2. (IF i = 0 THEN 1 ELSE i) \in 1..Len(stamp[b])
      BY <1>1, <2>1
    <2> QED BY <1>1, <2>1, <2>2
  <1>5. q.list \in {"bookings", "audit"} /\ q.sortBy \in BookingSort
        /\ (q.list = "audit" => q.sortBy = "created_at")
    BY ListQueriesAssumption DEF WellFormedList, BookingSort
  <1>6. q.sortBy # "status"
    BY <1>5 DEF Settled
  <1>7. CASE q.sortBy = "created_at"
    BY <1>4, <1>7 DEF SortBy
  <1>8. CASE q.sortBy = "total_price"
    BY <1>1, <1>2, <1>3, <1>8 DEF SortBy
  <1>9. CASE q.sortBy = "slot_starts_at"
    BY <1>1, <1>3, <1>9 DEF SortBy
  <1> QED BY <1>5, <1>6, <1>7, <1>8, <1>9 DEF BookingSort

(***************************************************************************)
(* The walk through a list.                                                *)
(***************************************************************************)
\* Where a walk is between its start and its end.
Walking == {"listCount", "listFind", "listed"}

WalkTyped ==
  reader.pc \in Walking => reader.query \in ListQueries /\ reader.page \in Nat \ {0}

\* A count is never more than what is there when the page is cut.
FullInv ==
  /\ WalkTyped
  /\ reader.pc \in {"listFind", "listed"} => reader.total \in Nat
  /\ reader.pc = "listFind" /\ Settled(reader.query) =>
       reader.total <= Cardinality(ListRows(reader.query))
  /\ PageFull

\* What the schemas say of a list query.
LEMMA ListQuery ==
  ASSUME NEW q \in ListQueries
  PROVE  q.pageSize \in Nat \ {0} /\ q.desc \in BOOLEAN
  BY ListQueriesAssumption DEF WellFormedList

\* The steps of a search are not those of a walk.
LEMMA SearchPc == SearchStep => reader'.pc \in {"idle", "count", "page", "prices", "answered"}
  <1>1. ASSUME NEW q \in SearchQueries, SearchMatches(q)
        PROVE  reader'.pc \in {"count", "answered"}
    BY <1>1 DEF SearchMatches, Answered
  <1>2. SearchCounts => reader'.pc = "page"
    BY DEF SearchCounts
  <1>3. SearchPages => reader'.pc = "prices"
    BY DEF SearchPages
  <1>4. SearchPrices => reader'.pc = "answered"
    BY DEF SearchPrices, Answered
  <1>5. SearchEnds => reader'.pc = "idle"
    BY DEF SearchEnds, ReaderIdle
  <1> QED BY <1>1, <1>2, <1>3, <1>4, <1>5 DEF SearchStep

\* A page of an order of the list's rows.
LEMMA FoundPage ==
  ASSUME TypeOK, StampInv, NEW q \in ListQueries, NEW page \in Nat \ {0}, NEW key,
         NEW order \in Orders(ListRows(q), key, q.desc)
  PROVE  /\ order \in Bijection(1..Cardinality(ListRows(q)), ListRows(q))
         /\ Len(order) = Cardinality(ListRows(q)) /\ Cardinality(ListRows(q)) \in Nat
         /\ Sorted(order, key, q.desc)
         /\ IsSlice(Page(order, page, q.pageSize), order, page, q.pageSize)
  <1> DEFINE rows == ListRows(q)
  <1>1. IsFiniteSet(rows) /\ Cardinality(rows) \in Nat
    BY ListFinite
  <1> HIDE DEF rows
  <1>2. /\ order \in Seq(rows) /\ Len(order) = Cardinality(rows)
        /\ order \in Bijection(1..Cardinality(rows), rows)
        /\ Sorted(order, key, q.desc)
    BY <1>1, OrderOfRows DEF rows
  <1>3. q.pageSize \in Nat \ {0}
    BY ListQuery
  <1>4. IsSlice(Page(order, page, q.pageSize), order, page, q.pageSize)
    BY <1>2, <1>3, PageSlice
  <1> QED BY <1>1, <1>2, <1>4 DEF rows

\* A page of at least `total` rows is as long as `total` makes it.
LEMMA PageLengthBound ==
  ASSUME NEW N \in Nat, NEW total \in Nat, total <= N, NEW page \in Nat \ {0},
         NEW size \in Nat \ {0}
  PROVE  PageLength(N, page, size) >= Min({size, total - (page - 1) * size})
  <1> DEFINE offset == (page - 1) * size
  <1>1. offset \in Nat
    OBVIOUS
  <1> HIDE DEF offset
  <1>2. size \in Int /\ total - offset \in Int
    BY <1>1
  <1>3. Min({size, total - offset}) = IF size <= total - offset THEN size ELSE total - offset
    BY <1>2, MinPair
  <1>4. PageLength(N, page, size) =
          IF N - offset <= 0 THEN 0 ELSE IF N - offset <= size THEN N - offset ELSE size
    BY DEF PageLength, offset
  <1>5. PageLength(N, page, size) >= Min({size, total - offset})
    BY <1>1, <1>3, <1>4
  <1> QED BY <1>5 DEF offset

\* A row that comes between count and findMany only makes the page longer.
LEMMA FullStep ==
  ASSUME IInv, StampInv, FullInv, [LNext]_lvars
  PROVE  FullInv'
  <1>1. CASE Next /\ Stamps /\ UNCHANGED reader
    <2>1. TypeOK /\ TypeOK' /\ Grown /\ StampInv'
      BY <1>1, IInvStep, StampStep DEF IInv
    <2>2. WalkTyped' /\ PageFull' /\ (reader'.pc \in {"listFind", "listed"} => reader'.total \in Nat)
      <3>1. reader' = reader
        BY <1>1
      <3>2. PageFull'
        BY <3>1, Zenon DEF FullInv, PageFull, Settled
      <3> QED BY <3>1, <3>2 DEF FullInv, WalkTyped
    <2>3. ASSUME reader.pc = "listFind", Settled(reader.query)
          PROVE  reader.total <= Cardinality(ListRows(reader.query)')
      <3>1. PICK q \in ListQueries : q = reader.query
        BY <2>3 DEF FullInv, WalkTyped, Walking
      <3>2. ListRows(q) \subseteq ListRows(q)'
        BY <2>1, <2>3, <3>1, ListGrows
      <3>3. IsFiniteSet(ListRows(q)) /\ Cardinality(ListRows(q)) \in Nat
        BY <2>1, ListFinite
      <3>4. IsFiniteSet(ListRows(q)') /\ Cardinality(ListRows(q)') \in Nat
        BY <2>1, ListFiniteNext
      <3> DEFINE before == ListRows(q)
                 after == ListRows(q)'
      <3>5. reader.total <= Cardinality(before) /\ reader.total \in Nat
        BY <2>3, <3>1 DEF FullInv
      <3> HIDE DEF before, after
      <3>6. Cardinality(before) <= Cardinality(after)
        BY <3>2, <3>3, <3>4, FS_Subset DEF before, after
      <3>7. reader.total <= Cardinality(after)
        BY <3>3, <3>4, <3>5, <3>6 DEF before, after
      <3>8. reader'.query = q
        BY <1>1, <3>1
      <3> QED BY <3>7, <3>8 DEF after
    <2>4. reader' = reader
      BY <1>1
    <2> QED BY <2>2, <2>3, <2>4 DEF FullInv, Settled
  <1>2. CASE SearchStep
    BY <1>2, SearchPc DEF FullInv, WalkTyped, Walking, PageFull
  <1>3. CASE UNCHANGED lvars
    <2>1. \A q : ListRows(q)' = ListRows(q)
      BY <1>3 DEF lvars, ListRows, BookingRows, AuditRows, CreatedAt
    <2>2. reader' = reader
      BY <1>3 DEF lvars
    <2> QED BY <2>1, <2>2 DEF FullInv, WalkTyped, PageFull, Settled
  <1>4. CASE ListStep /\ UNCHANGED <<vars, stamp>>
    <2>1. \A q : ListRows(q)' = ListRows(q)
      BY <1>4 DEF vars, ListRows, BookingRows, AuditRows, CreatedAt
    <2>2. ASSUME NEW q \in ListQueries, WalkStarts(q)
          PROVE  FullInv'
      BY <2>2 DEF WalkStarts, FullInv, WalkTyped, Walking, PageFull
    <2>3. CASE ListCounts
      <3>1. PICK q \in ListQueries : q = reader.query
        BY <2>3 DEF ListCounts, FullInv, WalkTyped, Walking
      <3>2. /\ reader'.pc = "listFind" /\ reader'.query = q /\ reader'.page = reader.page
            /\ reader'.total = Cardinality(ListRows(q))
        BY <2>3, <3>1 DEF ListCounts, ListCount
      <3>3. Cardinality(ListRows(q)) \in Nat /\ reader.page \in Nat \ {0}
        BY <2>3, ListFinite DEF ListCounts, FullInv, WalkTyped, Walking, IInv
      <3>4. reader'.total <= Cardinality(ListRows(q)')
        BY <2>1, <3>2, <3>3
      <3> QED BY <3>2, <3>3, <3>4 DEF FullInv, WalkTyped, Walking, PageFull
    <2>4. CASE ListFinds
      <3>1. PICK q \in ListQueries : q = reader.query
        BY <2>4 DEF ListFinds, FullInv, WalkTyped, Walking
      <3>2. /\ reader.pc = "listFind" /\ reader.page \in Nat \ {0} /\ reader.total \in Nat
            /\ Settled(q) => reader.total <= Cardinality(ListRows(q))
        BY <2>4, <3>1 DEF ListFinds, FullInv, WalkTyped, Walking
      <3>3. PICK order \in Orders(ListRows(q), [row \in ListRows(q) |-> SortBy(q, row)], q.desc) :
              /\ reader'.pc = "listed" /\ reader'.query = q /\ reader'.page = reader.page
              /\ reader'.total = reader.total
              /\ reader'.length = Len(Page(order, reader.page, q.pageSize))
        BY <2>4, <3>1 DEF ListFinds
      <3>4. /\ Cardinality(ListRows(q)) \in Nat /\ Len(order) = Cardinality(ListRows(q))
            /\ IsSlice(Page(order, reader.page, q.pageSize), order, reader.page, q.pageSize)
        BY <3>2, FoundPage DEF IInv
      <3>5. reader'.length = PageLength(Cardinality(ListRows(q)), reader.page, q.pageSize)
        BY <3>3, <3>4 DEF IsSlice
      <3>6. q.pageSize \in Nat \ {0}
        BY ListQuery
      <3>7. Settled(q) =>
              reader'.length >= Min({q.pageSize, reader.total - (reader.page - 1) * q.pageSize})
        BY <3>2, <3>4, <3>5, <3>6, PageLengthBound
      <3>8. PageFull'
        BY <3>3, <3>7 DEF PageFull, Settled
      <3> QED BY <3>2, <3>3, <3>8 DEF FullInv, WalkTyped, Walking
    <2>5. CASE WalkOn
      <3>1. /\ reader.pc = "listed" /\ reader'.pc = "listCount" /\ reader'.query = reader.query
            /\ reader'.page = reader.page + 1
        BY <2>5 DEF WalkOn
      <3> QED BY <3>1 DEF FullInv, WalkTyped, Walking, PageFull
    <2>6. CASE WalkEnds
      BY <2>6 DEF WalkEnds, ReaderIdle, FullInv, WalkTyped, Walking, PageFull
    <2> QED BY <1>4, <2>2, <2>3, <2>4, <2>5, <2>6 DEF ListStep
  <1> QED BY <1>1, <1>2, <1>3, <1>4 DEF LNext

\* The times of the audit rows keep up with the rows.
LEMMA StampKept == IInv /\ StampInv /\ [LNext]_lvars => StampInv'
  <1> SUFFICES ASSUME IInv, StampInv, [LNext]_lvars PROVE StampInv'
    OBVIOUS
  <1>1. CASE Next /\ Stamps /\ UNCHANGED reader
    BY <1>1, StampStep
  <1>2. CASE UNCHANGED <<vars, stamp>>
    BY <1>2 DEF vars, StampInv
  <1>3. CASE UNCHANGED lvars
    BY <1>3 DEF lvars, StampInv
  <1> QED BY <1>1, <1>2, <1>3 DEF LNext

\* No booking, no time.
LEMMA InitStamp == LInit => IInv /\ StampInv
  <1> SUFFICES ASSUME LInit PROVE IInv /\ StampInv
    OBVIOUS
  <1>1. DOMAIN bookings = {} /\ DOMAIN stamp = {}
    BY DEF LInit, Init, EmptyTable
  <1> QED BY <1>1, InitIInv, FS_EmptySet DEF LInit, StampInv

\* A page of a list with settled filters is never shorter than the total in the same answer
\* makes it, for any number of bookings, any page size and any times of the rows.
THEOREM PagesFull == LSpec => []PageFull
  <1>1. LInit => IInv /\ StampInv /\ FullInv
    BY InitStamp DEF LInit, ReaderIdle, FullInv, WalkTyped, Walking, PageFull
  <1>2. FullInv => PageFull
    BY DEF FullInv
  <1>3. IInv /\ StampInv /\ FullInv /\ [LNext]_lvars => FullInv'
    BY FullStep
  <1> QED BY <1>1, <1>2, <1>3, ReaderStep, StampKept, PTL DEF LSpec

\* The rows that tie with no other.
Untied(q, missing) == {row \in missing : ~ Tied(q, row)}

\* The sort keys of the list.
KeyOf(q) == [row \in ListRows(q) |-> SortBy(q, row)]

\* How many rows come before a row.
Place(q, row) == Cardinality(Ahead(ListRows(q), KeyOf(q), q.desc, row))

\* What was not shown yet and does not tie lies on the page or behind it.
WalkedTo(q, page, missing) ==
  /\ missing \subseteq ListRows(q)
  /\ \A row \in Untied(q, missing) : Place(q, row) >= Offset(page, q.pageSize)

\* Of N rows the ones that are missing lie behind the pages before this one.
Behind(q, page, missing, N) ==
  Untied(q, missing) # {} =>
    Cardinality(Untied(q, missing)) + Offset(page, q.pageSize) <= N

\* The inductive invariant: what the walk did not show yet lies behind the pages it took, and
\* there were at least as many rows behind them when the last page was cut.
WalkInv ==
  reader.pc \in Walking /\ Settled(reader.query) =>
    /\ reader.pc # "listed" => WalkedTo(reader.query, reader.page, reader.missing)
    /\ reader.pc = "listed" =>
         /\ WalkedTo(reader.query, reader.page + 1, reader.missing)
         /\ reader.late \in Nat
         /\ Behind(reader.query, reader.page + 1, reader.missing, reader.total + reader.late)

\* The next page starts where this one ends.
LEMMA OffsetNext ==
  ASSUME NEW page \in Nat \ {0}, NEW size \in Nat \ {0}
  PROVE  /\ Offset(page, size) \in Nat
         /\ Offset(page + 1, size) = Offset(page, size) + size
         /\ Offset(page + 1, size) = page * size
  BY DEF Offset

\* The rows before a row can be counted.
LEMMA PlaceNumber ==
  ASSUME TypeOK, StampInv, NEW q, NEW row
  PROVE  /\ IsFiniteSet(Ahead(ListRows(q), KeyOf(q), q.desc, row))
         /\ Place(q, row) \in Nat
  <1>1. Ahead(ListRows(q), KeyOf(q), q.desc, row) \subseteq ListRows(q)
    BY DEF Ahead
  <1> QED BY <1>1, ListFinite, FS_Subset, FS_CardinalityType DEF Place

\* And so can the missing ones.
LEMMA UntiedNumber ==
  ASSUME TypeOK, StampInv, NEW q, NEW missing, missing \subseteq ListRows(q)
  PROVE  IsFiniteSet(Untied(q, missing)) /\ Cardinality(Untied(q, missing)) \in Nat
  <1>1. Untied(q, missing) \subseteq ListRows(q)
    BY DEF Untied
  <1> QED BY <1>1, ListFinite, FS_Subset, FS_CardinalityType

\* Rows that come in push no row forward, and rows that tie go on to tie.
LEMMA WalkGrows ==
  ASSUME TypeOK, TypeOK', StampInv, StampInv', Grown, NEW q \in ListQueries, Settled(q),
         NEW page \in Nat \ {0}, NEW missing, WalkedTo(q, page, missing)
  PROVE  /\ WalkedTo(q, page, missing)'
         /\ \A N \in Nat : Behind(q, page, missing, N) => Behind(q, page, missing, N)'
  <1>1. /\ ListRows(q) \subseteq ListRows(q)'
        /\ \A row \in ListRows(q) : SortBy(q, row)' = SortBy(q, row)
    BY ListGrows
  <1>2. missing \subseteq ListRows(q)
    BY DEF WalkedTo
  <1>3. Untied(q, missing)' \subseteq Untied(q, missing)
    BY <1>1, <1>2 DEF Untied, Tied
  <1>4. ASSUME NEW row \in ListRows(q)
        PROVE  Place(q, row) <= Place(q, row)'
    <2> DEFINE before == Ahead(ListRows(q), KeyOf(q), q.desc, row)
               after == Ahead(ListRows(q), KeyOf(q), q.desc, row)'
    <2>1. before \subseteq after
      BY <1>1 DEF Ahead, KeyOf
    <2>2. IsFiniteSet(after)
      <3>1. after \subseteq ListRows(q)'
        BY DEF Ahead
      <3> QED BY <3>1, ListFiniteNext, FS_Subset
    <2> HIDE DEF before, after
    <2>3. Cardinality(before) <= Cardinality(after)
      BY <2>1, <2>2, FS_Subset
    <2> QED BY <2>3 DEF Place, before, after
  <1>5. WalkedTo(q, page, missing)'
    <2>1. missing \subseteq ListRows(q)'
      BY <1>1, <1>2
    <2>2. ASSUME NEW row \in Untied(q, missing)'
          PROVE  Place(q, row)' >= Offset(page, q.pageSize)
      <3>1. Place(q, row) >= Offset(page, q.pageSize) /\ row \in ListRows(q)
        BY <1>2, <1>3, <2>2 DEF WalkedTo, Untied
      <3>2. Place(q, row) \in Nat /\ Offset(page, q.pageSize) \in Nat
        BY PlaceNumber, OffsetNext, ListQuery
      <3>3. Place(q, row)' \in Nat
        <4>1. Ahead(ListRows(q), KeyOf(q), q.desc, row)' \subseteq ListRows(q)'
          BY DEF Ahead
        <4> QED BY <4>1, ListFiniteNext, FS_Subset, FS_CardinalityType DEF Place
      <3> QED BY <1>4, <3>1, <3>2, <3>3
    <2> QED BY <2>1, <2>2 DEF WalkedTo
  <1>6. ASSUME NEW N \in Nat, Behind(q, page, missing, N)
        PROVE  Behind(q, page, missing, N)'
    <2> DEFINE before == Untied(q, missing)
               after == Untied(q, missing)'
    <2>1. IsFiniteSet(before) /\ Cardinality(before) \in Nat
      BY <1>2, UntiedNumber
    <2>2. before # {} => Cardinality(before) + Offset(page, q.pageSize) <= N
      BY <1>6 DEF Behind
    <2>3. Offset(page, q.pageSize) \in Nat
      BY OffsetNext, ListQuery
    <2> HIDE DEF before, after
    <2>4. IsFiniteSet(after) /\ Cardinality(after) <= Cardinality(before)
      BY <1>3, <2>1, FS_Subset DEF before, after
    <2>5. Cardinality(after) \in Nat
      BY <2>4, FS_CardinalityType
    <2>6. after # {} => before # {}
      BY <1>3 DEF before, after
    <2>7. after # {} => Cardinality(after) + Offset(page, q.pageSize) <= N
      BY <2>1, <2>2, <2>3, <2>4, <2>5, <2>6
    <2> QED BY <2>7 DEF Behind, after
  <1> QED BY <1>5, <1>6

\* A page shows what lies on it: what it leaves out lies behind it.
LEMMA WalkFinds ==
  ASSUME TypeOK, StampInv, NEW q \in ListQueries, Settled(q),
         NEW page \in Nat \ {0}, NEW missing, WalkedTo(q, page, missing),
         NEW order \in Orders(ListRows(q), KeyOf(q), q.desc)
  PROVE  LET left == missing \ Range(Page(order, page, q.pageSize)) IN
         /\ WalkedTo(q, page + 1, left)
         /\ Behind(q, page + 1, left, Cardinality(ListRows(q)))
  <1> DEFINE rows == ListRows(q)
             key == KeyOf(q)
             N == Cardinality(rows)
             size == q.pageSize
             items == Page(order, page, size)
             offset == Offset(page, size)
             left == missing \ Range(items)
             owed == Untied(q, left)
  <1>1. /\ order \in Bijection(1..N, rows) /\ Len(order) = N /\ N \in Nat
        /\ Sorted(order, key, q.desc)
        /\ IsSlice(items, order, page, size)
    BY FoundPage
  <1>2. size \in Nat \ {0} /\ q.desc \in BOOLEAN
    BY ListQuery
  <1>3. offset \in Nat /\ Offset(page + 1, size) = offset + size
    BY <1>2, OffsetNext
  <1>4. /\ \A row \in rows : key[row] \in Int
        /\ \A x, y \in rows : x \in owed /\ y # x => key[y] # key[x]
    <2>1. \A row \in rows : SortBy(q, row) \in Int
      BY ListKeys
    <2> QED BY <2>1 DEF KeyOf, Untied, Tied
  <1>5. /\ missing \subseteq rows /\ owed \subseteq left
        /\ \A row \in owed : Place(q, row) >= offset
    BY DEF WalkedTo, Untied
  <1>6. /\ owed \subseteq rows /\ IsFiniteSet(rows)
        /\ order \in Injection(1..N, rows)
    BY <1>1, <1>5, ListFinite DEF Bijection
  <1> HIDE DEF rows, key, N, size, items, offset, owed
  <1>7. ASSUME NEW row \in owed
        PROVE  /\ Place(q, row) >= offset + size /\ N >= offset + size
               /\ row \notin First(order, offset + size)
    <2>1. PICK k \in 1..N : order[k] = row
      BY <1>1, <1>6 DEF Bijection, Surjection
    <2>2. \A y \in rows : y # order[k] => key[y] # key[order[k]]
      BY <1>4, <1>6, <2>1
    <2>3. Cardinality(Ahead(rows, key, q.desc, order[k])) = k - 1
      BY <1>1, <1>2, <1>4, <2>2, RankAt
    <2>4. Place(q, row) = k - 1
      BY <2>1, <2>3 DEF Place, rows, key
    <2>5. k - 1 >= offset
      BY <1>5, <2>4
    <2>6. ~ (k <= offset + size)
      <3> SUFFICES ASSUME k <= offset + size PROVE FALSE
        OBVIOUS
      <3>1. Len(items) = IF N - offset <= 0 THEN 0 ELSE IF N - offset <= size THEN N - offset ELSE size
        BY <1>1 DEF IsSlice, PageLength, Offset, offset
      <3>2. k - offset \in 1..Len(items)
        BY <1>1, <1>2, <1>3, <2>5, <3>1
      <3>3. items[k - offset] = order[offset + (k - offset)] /\ k - offset \in DOMAIN items
        BY <1>1, <3>2 DEF IsSlice, offset
      <3>4. offset + (k - offset) = k
        BY <1>3
      <3>5. items[k - offset] = row
        BY <2>1, <3>3, <3>4
      <3>6. row \in Range(items)
        BY <3>3, <3>5 DEF Range
      <3> QED BY <1>5, <3>6
    <2>7. row \notin First(order, offset + size)
      <3> SUFFICES ASSUME NEW j \in 1..(offset + size), order[j] = row PROVE FALSE
        BY DEF First
      <3>1. j \in 1..N /\ j # k
        BY <1>1, <1>2, <1>3, <2>6
      <3> QED BY <1>6, <2>1, <3>1 DEF Injection, IsInjective
    <2> QED BY <1>1, <1>2, <1>3, <2>4, <2>6, <2>7
  <1>8. WalkedTo(q, page + 1, left)
    <2>1. left \subseteq ListRows(q)
      BY <1>5 DEF rows
    <2> QED BY <1>3, <1>7, <2>1 DEF WalkedTo, owed, size
  <1>9. ASSUME owed # {}
        PROVE  Cardinality(owed) + (offset + size) <= N
    <2> DEFINE first == First(order, offset + size)
    <2>1. offset + size \in 0..N
      BY <1>1, <1>2, <1>3, <1>7, <1>9
    <2>2. IsFiniteSet(first) /\ Cardinality(first) = offset + size
      BY <1>1, <1>6, <2>1, FirstCount
    <2>3. first \subseteq rows
      <3> SUFFICES ASSUME NEW j \in 1..(offset + size) PROVE order[j] \in rows
        BY DEF First
      <3>1. j \in 1..N
        BY <1>1, <1>2, <1>3, <2>1
      <3> QED BY <1>6, <3>1 DEF Injection
    <2>4. owed \subseteq rows \ first
      BY <1>6, <1>7
    <2> HIDE DEF first
    <2>5. rows \cap first = first
      BY <2>3
    <2>6. IsFiniteSet(rows \ first) /\ Cardinality(rows \ first) = N - (offset + size)
      <3>1. IsFiniteSet(rows) /\ Cardinality(rows) = N
        BY <1>6 DEF N
      <3>2. /\ IsFiniteSet(rows \ first)
            /\ Cardinality(rows \ first) = Cardinality(rows) - Cardinality(rows \cap first)
        BY <3>1, FS_Difference
      <3> QED BY <2>2, <2>5, <3>1, <3>2
    <2>7. IsFiniteSet(owed) /\ Cardinality(owed) <= N - (offset + size)
      BY <2>4, <2>6, FS_Subset
    <2>8. Cardinality(owed) \in Nat
      BY <2>7, FS_CardinalityType
    <2> QED BY <1>1, <1>2, <1>3, <2>7, <2>8
  <1>10. Behind(q, page + 1, left, N)
    BY <1>3, <1>9 DEF Behind, owed, size
  <1> QED BY <1>8, <1>10 DEF items, N, rows, size

\* The last page holds all that is left of the total.
LEMMA PagesCover ==
  ASSUME NEW total \in Nat, NEW size \in Nat \ {0}, NEW page \in Nat, page >= totalPages(total, size)
  PROVE  total <= page * size
  <1> DEFINE pages == (total + size - 1) \div size
  <1>1. total <= pages * size /\ pages \in Int
    OBVIOUS
  <1>2. pages <= page
    BY DEF totalPages
  <1> HIDE DEF pages
  <1>3. pages * size <= page * size
    BY <1>1, <1>2
  <1>4. pages * size \in Int /\ page * size \in Int
    BY <1>1
  <1> QED BY <1>1, <1>3, <1>4

\* The steps of the reader change no list.
LEMMA SameRows ==
  ASSUME UNCHANGED <<vars, stamp>>
  PROVE  /\ \A q, page, missing : WalkedTo(q, page, missing)' = WalkedTo(q, page, missing)
         /\ \A q, page, missing, N : Behind(q, page, missing, N)' = Behind(q, page, missing, N)
  <1>1. bookings' = bookings /\ audit' = audit /\ stamp' = stamp
    BY DEF vars
  <1>2. \A q : ListRows(q)' = ListRows(q)
    BY <1>1 DEF ListRows, BookingRows, AuditRows, CreatedAt
  <1>3. \A q, row : SortBy(q, row)' = SortBy(q, row)
    BY <1>1 DEF SortBy, CreatedAt
  <1>4. \A q : KeyOf(q)' = KeyOf(q)
    BY <1>2, <1>3 DEF KeyOf
  <1>5. \A q, row : Place(q, row)' = Place(q, row)
    BY <1>2, <1>4 DEF Place, Ahead
  <1>6. \A q, missing : Untied(q, missing)' = Untied(q, missing)
    BY <1>2, <1>3 DEF Untied, Tied
  <1> QED BY <1>2, <1>5, <1>6 DEF WalkedTo, Behind

\* A step of the booking service may add rows between two pages.
LEMMA WalkBooking ==
  ASSUME IInv, StampInv, FullInv, WalkInv, Next, Stamps, UNCHANGED reader
  PROVE  WalkInv'
  <1>1. TypeOK /\ TypeOK' /\ Grown /\ StampInv'
    BY IInvStep, StampStep DEF IInv
  <1>2. reader' = reader
    OBVIOUS
  <1>3. CASE reader.pc \notin Walking \/ ~ Settled(reader.query)
    BY <1>2, <1>3 DEF WalkInv, Settled
  <1>4. CASE reader.pc \in Walking /\ Settled(reader.query)
    <2>1. PICK q \in ListQueries, page \in Nat \ {0} : q = reader.query /\ page = reader.page
      BY <1>4 DEF FullInv, WalkTyped
    <2>2. PICK missing : missing = reader.missing
      OBVIOUS
    <2>3. page + 1 \in Nat \ {0} /\ Settled(q)
      BY <1>4, <2>1
    <2>4. reader'.query = q /\ reader'.page = page /\ reader'.missing = missing
      BY <1>2, <2>1, <2>2
    <2>5. CASE reader.pc # "listed"
      <3>1. WalkedTo(q, page, missing)
        BY <1>4, <2>1, <2>2, <2>5 DEF WalkInv
      <3>2. WalkedTo(q, page, missing)'
        BY <1>1, <2>3, <3>1, WalkGrows
      <3> QED BY <1>2, <2>4, <2>5, <3>2 DEF WalkInv
    <2>6. CASE reader.pc = "listed"
      <3>1. PICK N : N = reader.total + reader.late
        OBVIOUS
      <3>2. /\ WalkedTo(q, page + 1, missing) /\ reader.late \in Nat
            /\ Behind(q, page + 1, missing, N)
        BY <1>4, <2>1, <2>2, <2>6, <3>1 DEF WalkInv
      <3>3. N \in Nat
        BY <2>6, <3>1, <3>2 DEF FullInv
      <3>4. WalkedTo(q, page + 1, missing)' /\ Behind(q, page + 1, missing, N)'
        BY <1>1, <2>3, <3>2, <3>3, WalkGrows
      <3> QED BY <1>2, <2>4, <2>6, <3>1, <3>2, <3>4 DEF WalkInv
    <2> QED BY <2>5, <2>6
  <1> QED BY <1>3, <1>4

\* No step breaks the invariant.
LEMMA WalkStep ==
  ASSUME IInv, StampInv, FullInv, WalkInv, [LNext]_lvars
  PROVE  WalkInv'
  <1>1. CASE Next /\ Stamps /\ UNCHANGED reader
    BY <1>1, WalkBooking
  <1>2. CASE SearchStep
    BY <1>2, SearchPc DEF WalkInv, Walking
  <1>3. CASE UNCHANGED lvars
    <2>1. UNCHANGED <<vars, stamp>> /\ reader' = reader
      BY <1>3 DEF lvars, vars
    <2>2. PICK q, page, missing, N : /\ q = reader.query /\ page = reader.page
                                     /\ missing = reader.missing
                                     /\ N = reader.total + reader.late
      OBVIOUS
    <2>3. /\ WalkedTo(q, page, missing)' = WalkedTo(q, page, missing)
          /\ WalkedTo(q, page + 1, missing)' = WalkedTo(q, page + 1, missing)
          /\ Behind(q, page + 1, missing, N)' = Behind(q, page + 1, missing, N)
      BY <2>1, SameRows
    <2>4. /\ reader'.query = q /\ reader'.page = page /\ reader'.missing = missing
          /\ reader'.total + reader'.late = N
      BY <2>1, <2>2
    <2> QED BY <2>1, <2>2, <2>3, <2>4 DEF WalkInv
  <1>4. CASE ListStep /\ UNCHANGED <<vars, stamp>>
    <2>1. ASSUME NEW q \in ListQueries, WalkStarts(q)
          PROVE  WalkInv'
      <3>1. /\ reader'.pc = "listCount" /\ reader'.query = q /\ reader'.page = 1
            /\ reader'.missing = ListRows(q)
        BY <2>1 DEF WalkStarts
      <3>2. WalkedTo(q, 1, ListRows(q))
        <4>1. Offset(1, q.pageSize) = 0
          BY ListQuery DEF Offset
        <4>2. \A row : Place(q, row) \in Nat
          BY PlaceNumber DEF IInv
        <4> QED BY <4>1, <4>2 DEF WalkedTo
      <3>3. PICK missing : missing = ListRows(q)
        OBVIOUS
      <3>4. WalkedTo(q, 1, missing)'
        BY <1>4, <3>2, <3>3, SameRows
      <3> QED BY <3>1, <3>3, <3>4 DEF WalkInv
    <2>2. CASE ListCounts
      <3>1. PICK q, page, missing : q = reader.query /\ page = reader.page /\ missing = reader.missing
        OBVIOUS
      <3>2. /\ reader.pc = "listCount" /\ reader'.pc = "listFind" /\ reader'.query = q
            /\ reader'.page = page /\ reader'.missing = missing
        BY <2>2, <3>1 DEF ListCounts
      <3>3. Settled(q) => WalkedTo(q, page, missing)
        BY <3>1, <3>2 DEF WalkInv, Walking
      <3>4. WalkedTo(q, page, missing)' = WalkedTo(q, page, missing)
        BY <1>4, SameRows
      <3> QED BY <3>2, <3>3, <3>4 DEF WalkInv, Settled
    <2>3. CASE ListFinds
      <3>1. PICK q \in ListQueries, page \in Nat \ {0} : q = reader.query /\ page = reader.page
        BY <2>3 DEF ListFinds, FullInv, WalkTyped, Walking
      <3>2. PICK missing, N : missing = reader.missing /\ N = Cardinality(ListRows(q))
        OBVIOUS
      <3>3. PICK order \in Orders(ListRows(q), [row \in ListRows(q) |-> SortBy(q, row)], q.desc) :
              /\ reader'.pc = "listed" /\ reader'.query = q /\ reader'.page = page
              /\ reader'.total = reader.total
              /\ reader'.missing = missing \ Range(Page(order, page, q.pageSize))
              /\ reader'.late = N - reader.total
        BY <2>3, <3>1, <3>2 DEF ListFinds
      <3>4. order \in Orders(ListRows(q), KeyOf(q), q.desc)
        BY <3>3 DEF KeyOf
      <3>5. reader.pc = "listFind"
        BY <2>3 DEF ListFinds
      <3>6. Settled(q) => WalkedTo(q, page, missing)
        BY <3>1, <3>2, <3>5 DEF WalkInv, Walking
      <3>7. PICK left : left = missing \ Range(Page(order, page, q.pageSize))
        OBVIOUS
      <3>8. Settled(q) => WalkedTo(q, page + 1, left) /\ Behind(q, page + 1, left, N)
        BY <3>2, <3>4, <3>6, <3>7, WalkFinds DEF IInv
      <3>9. /\ WalkedTo(q, page + 1, left)' = WalkedTo(q, page + 1, left)
            /\ Behind(q, page + 1, left, N)' = Behind(q, page + 1, left, N)
        BY <1>4, SameRows
      <3>10. N \in Nat /\ reader.total \in Nat /\ (Settled(q) => reader.total <= N)
        BY <3>1, <3>2, <3>5, ListFinite DEF FullInv, IInv
      <3>11. /\ reader'.total + reader'.late = N
             /\ Settled(q) => reader'.late \in Nat
        BY <3>3, <3>10
      <3>12. /\ reader'.pc = "listed" /\ reader'.query = q /\ reader'.page = page
             /\ reader'.missing = left
        BY <3>3, <3>7
      <3> QED BY <3>8, <3>9, <3>11, <3>12 DEF WalkInv, Settled
    <2>4. CASE WalkOn
      <3>1. PICK q, page, missing : q = reader.query /\ page = reader.page /\ missing = reader.missing
        OBVIOUS
      <3>2. /\ reader.pc = "listed" /\ reader'.pc = "listCount" /\ reader'.query = q
            /\ reader'.page = page + 1 /\ reader'.missing = missing
        BY <2>4, <3>1 DEF WalkOn
      <3>3. Settled(q) => WalkedTo(q, page + 1, missing)
        BY <3>1, <3>2 DEF WalkInv, Walking
      <3>4. WalkedTo(q, page + 1, missing)' = WalkedTo(q, page + 1, missing)
        BY <1>4, SameRows
      <3> QED BY <3>2, <3>3, <3>4 DEF WalkInv, Settled
    <2>5. CASE WalkEnds
      BY <2>5 DEF WalkEnds, ReaderIdle, WalkInv, Walking
    <2> QED BY <1>4, <2>1, <2>2, <2>3, <2>4, <2>5 DEF ListStep
  <1> QED BY <1>1, <1>2, <1>3, <1>4 DEF LNext

\* At the last page only what was committed after the count can lie behind it.
LEMMA WalkDone == IInv /\ StampInv /\ FullInv /\ WalkInv => WalkComplete
  <1> SUFFICES ASSUME IInv, StampInv, FullInv, WalkInv,
                      reader.pc = "listed", LastPage, Settled(reader.query)
               PROVE  Cardinality(Untied(reader.query, reader.missing)) <= reader.late
    BY DEF WalkComplete, Untied
  <1> DEFINE q == reader.query
             owed == Untied(q, reader.missing)
  <1>1. /\ q \in ListQueries /\ reader.page \in Nat \ {0} /\ reader.total \in Nat
        /\ reader.late \in Nat
        /\ reader.missing \subseteq ListRows(q)
        /\ owed # {} => Cardinality(owed) + Offset(reader.page + 1, q.pageSize)
                          <= reader.total + reader.late
    BY DEF FullInv, WalkTyped, WalkInv, Walking, WalkedTo, Behind
  <1>2. q.pageSize \in Nat \ {0}
    BY <1>1, ListQuery
  <1>3. reader.page >= totalPages(reader.total, q.pageSize)
    BY DEF LastPage
  <1>4. Cardinality(owed) \in Nat
    BY <1>1, UntiedNumber DEF IInv
  <1> HIDE DEF q
  <1>5. reader.total <= reader.page * q.pageSize
    BY <1>1, <1>2, <1>3, PagesCover
  <1>6. Offset(reader.page + 1, q.pageSize) = reader.page * q.pageSize
    BY <1>1, <1>2, OffsetNext
  <1>7. reader.page * q.pageSize \in Nat
    BY <1>1, <1>2
  <1>8. owed = {} => Cardinality(owed) = 0
    BY FS_EmptySet
  <1> HIDE DEF owed
  <1>9. Cardinality(owed) <= reader.late
    BY <1>1, <1>4, <1>5, <1>6, <1>7, <1>8
  <1> QED BY <1>9 DEF owed, q

\* A client that walks through all pages of a list with settled filters misses, of the rows
\* there were when it began and that tie with no other, at most as many as were committed
\* between the count and the findMany of its last page, for any number of bookings and any
\* page size: what was not shown yet always lies behind what the pages so far took.
THEOREM WalksComplete == LSpec => []WalkComplete
  <1>1. LInit => IInv /\ StampInv /\ FullInv /\ WalkInv
    BY InitStamp DEF LInit, ReaderIdle, FullInv, WalkTyped, Walking, PageFull, WalkInv
  <1>2. IInv /\ StampInv /\ FullInv /\ [LNext]_lvars => FullInv'
    BY FullStep
  <1>3. IInv /\ StampInv /\ FullInv /\ WalkInv /\ [LNext]_lvars => WalkInv'
    BY WalkStep
  <1> QED BY <1>1, <1>2, <1>3, ReaderStep, StampKept, WalkDone, PTL DEF LSpec

=============================================================================
