------------------------------ MODULE MCReads ------------------------------
(* An instance of AdminLists and Search for TLC: two tenants; the first has a user who books
   for two, an experience with two slots of two seats, and one with a slot that the seed left
   a single seat of; the second tenant has an experience of its own. *)
EXTENDS AdminLists, TLC

CONSTANTS s1, s2, s3, s4, u1, t1, t2, e1, e2, e3

Tenancy == [x \in {u1, s1, s2, s3, s4} |-> IF x = s4 THEN t2 ELSE t1]

Catalog == [s \in Slots |-> CASE s = s3 -> e2 [] s = s4 -> e3 [] OTHER -> e1]

Owners == [e \in Experiences |-> IF e = e3 THEN t2 ELSE t1]

TwoSeats == [s \in Slots |-> 2]

OneSeeded == [s \in Slots |-> IF s = s3 THEN 1 ELSE 0]

Rooms == [e \in Experiences |-> 2]

\* What e1 costs when its slots are gone is not what its cheapest slot costs.
Prices == [e \in Experiences |-> CASE e = e1 -> 5 [] e = e2 -> 4 [] OTHER -> 2]

Titles == [e \in Experiences |-> CASE e = e1 -> 2 [] e = e2 -> 1 [] OTHER -> 3]

Days == [s \in Slots |-> CASE s = s1 -> 1 [] s = s2 -> 3 [] OTHER -> 2]

\* The slot of e2 costs more than the cheaper slot of e1 and less than the dearer one.
SlotPrices == [s \in Slots |-> CASE s = s1 -> 2 [] s = s2 -> 6 [] OTHER -> 4]

\* Every order, with pages of one; and a page that holds everything, of a party that does
\* not fit everywhere.
Searches ==
  [tenant : {t1}, party : {1}, among : {Experiences}, start : {1}, end : {3},
   sortBy : {"price"}, desc : {TRUE}, page : {1}, pageSize : {2}]
  \cup
  [tenant : {t1}, party : {1}, among : {Experiences}, start : {1}, end : {2},
   sortBy : {"price", "starts_at", "available_spots"}, desc : {FALSE}, page : {2},
   pageSize : {1}]
  \cup
  [tenant : {t1}, party : {2, 3}, among : {Experiences}, start : {2}, end : {3},
   sortBy : {"title"}, desc : {TRUE}, page : {1}, pageSize : {2}]

Lists ==
  [list : {"bookings"}, tenant : {t1}, status : {NoFilter}, user : {NoFilter},
   booking : {NoFilter}, days : {0..MaxTime}, among : {Slots},
   sortBy : {"created_at"}, desc : BOOLEAN, pageSize : {1}]
  \cup
  [list : {"bookings"}, tenant : {t1}, status : {"CANCELLED"}, user : {u1},
   booking : {NoFilter}, days : {0..MaxTime}, among : {{s1, s2}},
   sortBy : {"status"}, desc : {TRUE}, pageSize : {1}]
  \cup
  [list : {"audit"}, tenant : {t1}, status : {"CANCELLED"}, user : {NoFilter},
   booking : {NoFilter}, days : {0..MaxTime}, among : {Slots},
   sortBy : {"created_at"}, desc : {TRUE}, pageSize : {1}]

\* Bookings are interchangeable.
Symmetry == Permutations(BookingIds)

=============================================================================
