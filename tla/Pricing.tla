------------------------------- MODULE Pricing -------------------------------
(***************************************************************************)
(* calculatePricingPreview (src/services/pricing.service.ts): the price of *)
(* a party under the active rules of a supplier, as a detail previews it   *)
(* and as createReservation charges it some time later.                    *)
(*                                                                         *)
(* The rules arrive in whatever order the database returns them, so the    *)
(* loop takes any rule next.  The running total is the exact fraction      *)
(* total / scale in cents: the code's floating-point error is far too      *)
(* small to matter to toFixed(2) except at a tie, where either neighbour   *)
(* may come out.                                                           *)
(***************************************************************************)
EXTENDS Integers, FiniteSets, FiniteSetsExt

CONSTANTS
  Items,    \* what is priced: base price per person in cents, party size, month of the slot
  RuleIds,
  RuleOf,   \* the row of every pricing rule
  MaxRules, \* bound on the active rules of the supplier
  Days,     \* values of "days until the slot starts"; negative once it has started
  Null

RuleType == {"GROUP_SIZE", "ADVANCE_BOOKING", "SEASONAL"}

\* A row with its JSON config.  Nothing checks a config when it is written; "bound" is
\* minPartySize or daysInAdvance, "percent" is discountPercent or surchargePercent,
\* a whole number here though the schemas let fractions of a percent through.
RuleRow == [ruleType : RuleType, bound : Int, months : SUBSET Int, percent : Int]

Item == [base : Nat, party : Nat \ {0}, month : 1..12]

ASSUME PricingAssumption ==
  /\ Items \subseteq Item
  /\ IsFiniteSet(RuleIds)  \* the rows of a table
  /\ RuleOf \in [RuleIds -> RuleRow]
  /\ Days \subseteq Int
  /\ MaxRules \in Nat

VARIABLES
  item,
  rules,    \* ids of the supplier's active rules
  days,     \* days until the slot starts
  calc,     \* the calculation under way
  preview,  \* what the last detail showed, or Null
  charged   \* totalPrice of the reservation, or Null

vars == <<item, rules, days, calc, preview, charged>>

\* "used" is auxiliary: the rules that applied.
Calculation ==
  [pc : {"preview", "charge"}, slot : BOOLEAN, left : SUBSET RuleIds, used : SUBSET RuleIds,
   total : Nat, scale : Nat \ {0}, adjusted : Int]

\* A PricingPreview: totalPrice as shown, the sum of the amounts of the adjustments as
\* shown, and (auxiliary) where they come from.
Price == [cents : Int, adjusted : Int, used : SUBSET RuleIds, total : Nat, scale : Nat \ {0},
          slot : BOOLEAN]

Init ==
  /\ item \in Items
  /\ rules \in UNION {kSubset(n, RuleIds) : n \in 0..MaxRules}
  /\ days \in Days
  /\ calc = Null
  /\ preview = Null
  /\ charged = Null

(***************************************************************************)
(* formatMoney: toFixed(2) of num / den cents.                             *)
(***************************************************************************)
formatMoney(num, den) ==
  {n \in {num \div den, num \div den + 1} :
     2 * (num - n * den) <= den /\ 2 * (n * den - num) <= den}

\* The amount an adjustment shows: negative for a discount.
UnsignedAmount(num, den) == formatMoney(IF num < 0 THEN - num ELSE num, den)

SignedAmount(num, den) == formatMoney(num, den)

(***************************************************************************)
(* safeParse of the three config schemas; a rule that fails is skipped.    *)
(***************************************************************************)
ParsesAnyPercent(r) ==
  CASE r.ruleType = "GROUP_SIZE" -> r.bound >= 1
    [] r.ruleType = "ADVANCE_BOOKING" -> r.bound >= 0
    [] r.ruleType = "SEASONAL" -> r.months # {} /\ r.months \subseteq 1..12

Parses(r) ==
  CASE r.ruleType = "GROUP_SIZE" -> r.bound >= 1 /\ r.percent \in 0..100
    [] r.ruleType = "ADVANCE_BOOKING" -> r.bound >= 0 /\ r.percent \in 0..100
    [] r.ruleType = "SEASONAL" -> /\ r.months # {}
                                  /\ r.months \subseteq 1..12
                                  /\ r.percent >= 0

LateBooking(r, slot) == slot /\ days <= r.bound

AdvanceBooking(r, slot) == slot /\ days >= r.bound

\* The conditions of the switch.  A detail without slots has no date to go by.
Applies(r, slot) ==
  /\ Parses(r)
  /\ CASE r.ruleType = "GROUP_SIZE" -> item.party >= r.bound
       [] r.ruleType = "ADVANCE_BOOKING" -> AdvanceBooking(r, slot)
       [] r.ruleType = "SEASONAL" -> slot /\ item.month \in r.months

\* The percentage a rule adds.
Change(r) == IF r.ruleType = "SEASONAL" THEN r.percent ELSE - r.percent

(***************************************************************************)
(* The loop.                                                               *)
(***************************************************************************)
Start(purpose, slot) ==
  /\ calc = Null
  /\ charged = Null
  /\ calc' = [pc |-> purpose, slot |-> slot, left |-> rules, used |-> {},
              total |-> item.base * item.party, scale |-> 1, adjusted |-> 0]
  /\ UNCHANGED <<item, rules, days, preview, charged>>

\* getExperienceDetail, with a slot or without.
StartPreview == \E slot \in BOOLEAN : Start("preview", slot)

\* createReservation
StartCharge == Start("charge", TRUE)

\* What `percent` of the running total is, as a numerator over scale * 100.
OfSubtotal(percent) == item.base * item.party * calc.scale * percent

OfRunningTotal(percent) == calc.total * percent

ApplyRule(id) ==
  LET amount == OfRunningTotal(Change(RuleOf[id])) IN
  /\ calc # Null
  /\ id \in calc.left
  /\ Applies(RuleOf[id], calc.slot)
  /\ \E shown \in SignedAmount(amount, calc.scale * 100) :
       calc' = [calc EXCEPT !.left = @ \ {id}, !.used = @ \cup {id},
                            !.total = @ * 100 + amount, !.scale = @ * 100,
                            !.adjusted = @ + shown]
  /\ UNCHANGED <<item, rules, days, preview, charged>>

SkipRule(id) ==
  /\ calc # Null
  /\ id \in calc.left
  /\ ~ Applies(RuleOf[id], calc.slot)
  /\ calc' = [calc EXCEPT !.left = @ \ {id}]
  /\ UNCHANGED <<item, rules, days, preview, charged>>

Finish ==
  /\ calc # Null
  /\ calc.left = {}
  /\ \E cents \in formatMoney(calc.total, calc.scale) :
       LET price == [cents |-> cents, adjusted |-> calc.adjusted, used |-> calc.used,
                     total |-> calc.total, scale |-> calc.scale, slot |-> calc.slot] IN
       IF calc.pc = "preview" THEN preview' = price /\ UNCHANGED charged
                              ELSE charged' = price /\ UNCHANGED preview
  /\ calc' = Null
  /\ UNCHANGED <<item, rules, days>>

\* Date.now() is read anew for every rule, so a day may begin within the loop.
DayPasses ==
  /\ days - 1 \in Days
  /\ days' = days - 1
  /\ UNCHANGED <<item, rules, calc, preview, charged>>

Next ==
  \/ StartPreview
  \/ StartCharge
  \/ \E id \in RuleIds : ApplyRule(id) \/ SkipRule(id)
  \/ Finish
  \/ DayPasses

Spec == Init /\ [][Next]_vars

(***************************************************************************)
(* Properties.                                                             *)
(***************************************************************************)
Subtotal == item.base * item.party

Prices == {preview, charged} \ {Null}

\* Item, rules and prices have their declared shape; in particular no running total is
\* ever negative, which only the upper bound of the config schemas prevents.
TypeOK ==
  /\ item \in Items
  /\ rules \subseteq RuleIds
  /\ days \in Days
  /\ calc # Null => /\ calc \in Calculation
                    /\ calc.left \subseteq rules
                    /\ calc.used \subseteq rules \ calc.left
  /\ \A p \in Prices : p \in Price

\* `base` times the factor of every rule of S.
Times(base, factor, S) ==
  MapThenFoldSet(LAMBDA x, y : x * y, base, LAMBDA id : factor[id],
                 LAMBDA T : CHOOSE id \in T : TRUE, S)

Factor == [id \in RuleIds |-> 100 + Change(RuleOf[id])]

Hundred == [id \in RuleIds |-> 100]

\* The total does not depend on the order in which the rules came: it is the subtotal
\* times the factors of the rules that applied, over 100 for each.
OrderIrrelevant ==
  \A p \in Prices : p.total = Times(Subtotal, Factor, p.used) /\ p.scale = Times(1, Hundred, p.used)

\* Whatever configs the rules have, a price is never negative, and without a seasonal
\* surcharge never above the subtotal.
PriceInRange ==
  \A p \in Prices :
     /\ p.cents >= 0
     /\ (\A id \in p.used : RuleOf[id].ruleType # "SEASONAL") => p.cents <= Subtotal

\* The adjustments shown explain the total shown up to rounding: half a cent for each
\* and half a cent for the total.
AdjustmentsExplain ==
  \A p \in Prices :
     LET gap == p.cents - (Subtotal + p.adjusted) IN
     2 * gap \in - (Cardinality(p.used) + 1) .. Cardinality(p.used) + 1

\* Waiting never makes a reservation cheaper than the preview of a slot: only an
\* advance booking discount can go away.  Of an exact half cent that the preview rounded
\* up, the charge may round down.
WaitingNeverCheaper ==
  (preview # Null /\ charged # Null /\ preview.slot) =>
     \/ charged.cents >= preview.cents
     \/ /\ charged.cents = preview.cents - 1
        /\ 2 * preview.total = (2 * preview.cents - 1) * preview.scale

=============================================================================
