--------------------------- MODULE PricingProofs ---------------------------
(* Proofs about Pricing: for any rules, configs, prices and parties.  What *)
(* multiplies two variables is put into lemmas of its own.                 *)
EXTENDS Pricing, TLAPS, FiniteSetTheorems

(***************************************************************************)
(* Arithmetic.                                                             *)
(***************************************************************************)
LEMMA MulOrder ==
  ASSUME NEW a \in Int, NEW b \in Int, NEW k \in Nat, a <= b
  PROVE  a * k <= b * k
  OBVIOUS

LEMMA MulNat ==
  ASSUME NEW a \in Nat, NEW b \in Nat
  PROVE  a * b \in Nat
  OBVIOUS

\* A shown amount is a whole number of cents, at most half a cent away.
LEMMA ShownNear ==
  ASSUME NEW num \in Int, NEW den \in Nat \ {0}, NEW n \in formatMoney(num, den)
  PROVE  /\ n \in Int
         /\ 2 * (num - n * den) <= den
         /\ 2 * (n * den - num) <= den
  <1>1. num \div den \in Int
    OBVIOUS
  <1> QED BY <1>1 DEF formatMoney

\* What is not negative is not shown as negative, and what is at most m cents not as more.
LEMMA ShownInRange ==
  ASSUME NEW num \in Nat, NEW den \in Nat \ {0}, NEW n \in formatMoney(num, den)
  PROVE  /\ n >= 0
         /\ \A m \in Nat : num <= m * den => n <= m
  <1>1. /\ n \in Int
        /\ 2 * (num - n * den) <= den
        /\ 2 * (n * den - num) <= den
    BY ShownNear
  <1>2. n * den \in Int
    BY <1>1
  <1>3. ASSUME n < 0 PROVE FALSE
    <2>1. n <= -1
      BY <1>1, <1>3
    <2>2. n * den <= (-1) * den
      BY <1>1, <2>1, MulOrder
    <2> QED BY <1>1, <1>2, <2>2
  <1>4. ASSUME NEW m \in Nat, num <= m * den, n > m PROVE FALSE
    <2>1. (m + 1) * den <= n * den
      BY <1>1, <1>4, MulOrder
    <2>2. (m + 1) * den = m * den + den /\ m * den \in Int
      OBVIOUS
    <2> QED BY <1>1, <1>2, <1>4, <2>1, <2>2
  <1> QED BY <1>1, <1>3, <1>4

(***************************************************************************)
(* Type correctness: only the upper bound of the discount schemas keeps a  *)
(* running total from becoming negative.                                   *)
(***************************************************************************)
\* What a rule that applies adds, in percent.
LEMMA ChangeBound ==
  ASSUME PricingAssumption, NEW id \in RuleIds, NEW slot, Applies(RuleOf[id], slot)
  PROVE  /\ Change(RuleOf[id]) \in Int
         /\ Change(RuleOf[id]) >= -100
         /\ RuleOf[id].ruleType # "SEASONAL" => Change(RuleOf[id]) <= 0
  <1> DEFINE r == RuleOf[id]
  <1>1. r \in RuleRow
    BY DEF PricingAssumption
  <1>2. r.percent \in Int /\ r.ruleType \in {"GROUP_SIZE", "ADVANCE_BOOKING", "SEASONAL"}
    BY <1>1 DEF RuleRow, RuleType
  <1>3. Parses(r)
    BY DEF Applies
  <1> HIDE DEF r
  <1>4. CASE r.ruleType = "GROUP_SIZE"
    BY <1>2, <1>3, <1>4 DEF Parses, Change, r
  <1>5. CASE r.ruleType = "ADVANCE_BOOKING"
    BY <1>2, <1>3, <1>5 DEF Parses, Change, r
  <1>6. CASE r.ruleType = "SEASONAL"
    BY <1>2, <1>3, <1>6 DEF Parses, Change, r
  <1> QED BY <1>2, <1>4, <1>5, <1>6 DEF r

\* The subtotal is a natural number of cents.
LEMMA SubtotalType ==
  ASSUME PricingAssumption, item \in Items
  PROVE  Subtotal \in Nat
  <1>1. item.base \in Nat /\ item.party \in Nat
    BY DEF PricingAssumption, Item
  <1> QED BY <1>1, MulNat DEF Subtotal

\* A calculation after one more rule: amount and shown are what it adds.
Adjusted(id, amount, shown) ==
  calc' = [calc EXCEPT !.left = @ \ {id}, !.used = @ \cup {id},
                       !.total = @ * 100 + amount, !.scale = @ * 100, !.adjusted = @ + shown]

LEMMA ApplyEffect ==
  ASSUME TypeOK, NEW id \in RuleIds, ApplyRule(id)
  PROVE  \E change \in Int, shown \in Int :
           /\ change = Change(RuleOf[id])
           /\ shown \in formatMoney(calc.total * change, calc.scale * 100)
           /\ calc' = [pc |-> calc.pc, slot |-> calc.slot, left |-> calc.left \ {id},
                       used |-> calc.used \cup {id}, total |-> calc.total * 100 + calc.total * change,
                       scale |-> calc.scale * 100, adjusted |-> calc.adjusted + shown]
           /\ calc'.total \in Nat /\ calc'.scale \in Nat \ {0}
  <1> DEFINE change == Change(RuleOf[id])
  <1>1. change \in Int /\ change >= -100
    BY PricingAssumption, ChangeBound DEF ApplyRule
  <1>2. calc \in Calculation /\ calc # Null
    BY DEF ApplyRule, TypeOK
  <1>3. /\ calc.total \in Nat /\ calc.scale \in Nat \ {0} /\ calc.adjusted \in Int
    BY <1>2 DEF Calculation
  <1> HIDE DEF change
  <1>4. calc.total * change \in Int /\ calc.scale * 100 \in Nat \ {0}
    BY <1>1, <1>3
  <1>5. PICK shown \in formatMoney(calc.total * change, calc.scale * 100) :
          Adjusted(id, calc.total * change, shown)
    BY DEF ApplyRule, OfRunningTotal, SignedAmount, Adjusted, change
  <1>6. shown \in Int
    BY <1>4, ShownNear
  <1>7. calc' = [pc |-> calc.pc, slot |-> calc.slot, left |-> calc.left \ {id},
                 used |-> calc.used \cup {id}, total |-> calc.total * 100 + calc.total * change,
                 scale |-> calc.scale * 100, adjusted |-> calc.adjusted + shown]
    BY <1>2, <1>5 DEF Adjusted, Calculation
  <1>8. calc.total * 100 + calc.total * change \in Nat
    <2>1. calc.total * (100 + change) \in Nat
      BY <1>1, <1>3, MulNat
    <2>2. calc.total * (100 + change) = calc.total * 100 + calc.total * change
      BY <1>1, <1>3
    <2> QED BY <2>1, <2>2
  <1> QED BY <1>1, <1>4, <1>5, <1>6, <1>7, <1>8 DEF change

LEMMA StartEffect ==
  ASSUME TypeOK, NEW purpose \in {"preview", "charge"}, NEW slot \in BOOLEAN, Start(purpose, slot)
  PROVE  /\ calc' = [pc |-> purpose, slot |-> slot, left |-> rules, used |-> {},
                     total |-> Subtotal, scale |-> 1, adjusted |-> 0]
         /\ calc' \in Calculation
         /\ UNCHANGED <<item, rules, days, preview, charged>>
  <1>1. Subtotal \in Nat
    BY PricingAssumption, SubtotalType DEF TypeOK
  <1> QED BY <1>1 DEF Start, Subtotal, Calculation, TypeOK

\* The price that ends a calculation.
LEMMA FinishEffect ==
  ASSUME TypeOK, Finish
  PROVE  /\ calc # Null /\ calc' = Null
         /\ UNCHANGED <<item, rules, days>>
         /\ \E price \in Price :
              /\ price.cents \in formatMoney(calc.total, calc.scale)
              /\ price.adjusted = calc.adjusted /\ price.used = calc.used
              /\ Prices' \subseteq Prices \cup {price}
  <1>1. calc \in Calculation /\ calc # Null
    BY DEF Finish, TypeOK
  <1>2. PICK cents \in formatMoney(calc.total, calc.scale) :
          LET price == [cents |-> cents, adjusted |-> calc.adjusted, used |-> calc.used,
                        total |-> calc.total, scale |-> calc.scale, slot |-> calc.slot] IN
          IF calc.pc = "preview" THEN preview' = price /\ UNCHANGED charged
                                 ELSE charged' = price /\ UNCHANGED preview
    BY DEF Finish
  <1> DEFINE price == [cents |-> cents, adjusted |-> calc.adjusted, used |-> calc.used,
                       total |-> calc.total, scale |-> calc.scale, slot |-> calc.slot]
  <1>3. /\ calc.total \in Nat /\ calc.scale \in Nat \ {0} /\ calc.adjusted \in Int
        /\ calc.used \subseteq RuleIds /\ calc.slot \in BOOLEAN
    BY <1>1 DEF Calculation
  <1>4. cents \in Int
    BY <1>2, <1>3, ShownNear
  <1>5. price \in Price
    BY <1>3, <1>4 DEF Price
  <1>6. /\ price.cents = cents /\ price.adjusted = calc.adjusted /\ price.used = calc.used
    OBVIOUS
  <1>7. \/ preview' = price /\ charged' = charged
        \/ charged' = price /\ preview' = preview
    BY <1>2
  <1> HIDE DEF price
  <1>8. Prices' \subseteq Prices \cup {price}
    BY <1>7 DEF Prices
  <1> QED BY <1>1, <1>2, <1>5, <1>6, <1>8 DEF Finish

LEMMA PricingTypeStep == TypeOK /\ [Next]_vars => TypeOK'
  <1> SUFFICES ASSUME TypeOK, [Next]_vars PROVE TypeOK'
    OBVIOUS
  <1>1. ASSUME NEW purpose \in {"preview", "charge"}, NEW slot \in BOOLEAN, Start(purpose, slot)
        PROVE  TypeOK'
    BY <1>1, StartEffect DEF TypeOK, Prices
  <1>2. ASSUME NEW id \in RuleIds, ApplyRule(id)
        PROVE  TypeOK'
    <2>1. calc \in Calculation /\ id \in calc.left /\ UNCHANGED <<item, rules, days, preview, charged>>
      BY <1>2 DEF ApplyRule, TypeOK
    <2>2. /\ calc'.left = calc.left \ {id} /\ calc'.used = calc.used \cup {id}
          /\ calc' \in Calculation
      BY <1>2, <2>1, ApplyEffect DEF Calculation
    <2> QED BY <1>2, <2>1, <2>2 DEF TypeOK, Prices, ApplyRule
  <1>3. ASSUME NEW id \in RuleIds, SkipRule(id)
        PROVE  TypeOK'
    <2>1. /\ calc # Null /\ calc \in Calculation
          /\ calc' = [calc EXCEPT !.left = @ \ {id}]
          /\ UNCHANGED <<item, rules, days, preview, charged>>
      BY <1>3 DEF SkipRule, TypeOK
    <2>2. calc' \in Calculation /\ calc'.left = calc.left \ {id} /\ calc'.used = calc.used
      BY <2>1 DEF Calculation
    <2> QED BY <2>1, <2>2 DEF TypeOK, Prices
  <1>4. CASE Finish
    BY <1>4, FinishEffect DEF TypeOK
  <1>5. CASE DayPasses
    BY <1>5 DEF DayPasses, TypeOK, Prices
  <1>6. CASE UNCHANGED vars
    BY <1>6 DEF vars, TypeOK, Prices
  <1> QED BY <1>1, <1>2, <1>3, <1>4, <1>5, <1>6 DEF Next, StartPreview, StartCharge

LEMMA PricingTypeInit == Init => TypeOK
  BY DEF Init, TypeOK, Prices, kSubset

\* No running total is ever negative, whatever the configs of the rules say.
THEOREM PricesTyped == Spec => []TypeOK
  BY PricingTypeInit, PricingTypeStep, PTL DEF Spec

(***************************************************************************)
(* The range.  Every discount leaves at most what there was, so that a     *)
(* running total without a surcharge is at most the subtotal.              *)
(***************************************************************************)
Discounted(S) == \A id \in S : RuleOf[id].ruleType # "SEASONAL"

RangeInv ==
  /\ calc # Null => (Discounted(calc.used) => calc.total <= Subtotal * calc.scale)
  /\ PriceInRange

\* The price that a calculation within range ends with is in range.
LEMMA RangeFinish ==
  ASSUME TypeOK, RangeInv, Finish
  PROVE  RangeInv'
  <1>1. PICK price \in Price :
          /\ price.cents \in formatMoney(calc.total, calc.scale)
          /\ price.used = calc.used
          /\ Prices' \subseteq Prices \cup {price}
    BY FinishEffect
  <1>2. calc # Null /\ calc' = Null /\ item' = item
    BY FinishEffect
  <1>3. calc.total \in Nat /\ calc.scale \in Nat \ {0} /\ Subtotal \in Nat
    BY <1>2, PricingAssumption, SubtotalType DEF TypeOK, Calculation
  <1>4. /\ price.cents >= 0
        /\ Discounted(price.used) => price.cents <= Subtotal
    BY <1>1, <1>2, <1>3, ShownInRange DEF RangeInv
  <1>5. Subtotal' = Subtotal
    BY <1>2 DEF Subtotal
  <1> QED BY <1>1, <1>2, <1>4, <1>5 DEF RangeInv, PriceInRange, Discounted

LEMMA RangeStep == TypeOK /\ RangeInv /\ [Next]_vars => RangeInv'
  <1> SUFFICES ASSUME TypeOK, RangeInv, [Next]_vars PROVE RangeInv'
    OBVIOUS
  <1>0. Subtotal \in Nat
    BY PricingAssumption, SubtotalType DEF TypeOK
  <1>1. ASSUME NEW purpose \in {"preview", "charge"}, NEW slot \in BOOLEAN, Start(purpose, slot)
        PROVE  RangeInv'
    <2>1. /\ calc'.total = Subtotal /\ calc'.scale = 1
          /\ UNCHANGED <<item, preview, charged>>
      BY <1>1, StartEffect
    <2>2. Subtotal' = Subtotal /\ Prices' = Prices
      BY <2>1 DEF Subtotal, Prices
    <2> QED BY <1>0, <2>1, <2>2 DEF RangeInv, PriceInRange
  <1>2. ASSUME NEW id \in RuleIds, ApplyRule(id)
        PROVE  RangeInv'
    <2>1. PICK change \in Int :
            /\ change = Change(RuleOf[id])
            /\ calc'.total = calc.total * 100 + calc.total * change
            /\ calc'.scale = calc.scale * 100
            /\ calc'.used = calc.used \cup {id}
      BY <1>2, ApplyEffect
    <2>2. /\ calc # Null /\ Applies(RuleOf[id], calc.slot)
          /\ UNCHANGED <<item, preview, charged>>
      BY <1>2 DEF ApplyRule
    <2>3. calc.total \in Nat /\ calc.scale \in Nat
      BY <2>2 DEF TypeOK, Calculation
    <2>4. Subtotal' = Subtotal /\ Prices' = Prices
      BY <2>2 DEF Subtotal, Prices
    <2>5. ASSUME Discounted(calc.used \cup {id})
          PROVE  calc'.total <= Subtotal * calc'.scale
      <3>1. RuleOf[id].ruleType # "SEASONAL" /\ calc.total <= Subtotal * calc.scale
        BY <2>2, <2>5 DEF RangeInv, Discounted
      <3>2. change <= 0
        BY <2>1, <2>2, <3>1, PricingAssumption, ChangeBound
      <3>3. calc.total * change <= 0
        <4>1. change * calc.total <= 0 * calc.total
          BY <2>3, <3>2, MulOrder
        <4> QED BY <2>3, <4>1
      <3>4. Subtotal * (calc.scale * 100) = (Subtotal * calc.scale) * 100
        BY <1>0, <2>3
      <3>5. Subtotal * calc.scale \in Int /\ calc.total * change \in Int
        BY <1>0, <2>3
      <3> QED BY <2>1, <2>3, <3>1, <3>3, <3>4, <3>5
    <2> QED BY <2>1, <2>4, <2>5 DEF RangeInv, PriceInRange, Discounted
  <1>3. ASSUME NEW id \in RuleIds, SkipRule(id)
        PROVE  RangeInv'
    <2>1. /\ calc # Null /\ calc \in Calculation
          /\ calc' = [calc EXCEPT !.left = @ \ {id}]
          /\ UNCHANGED <<item, preview, charged>>
      BY <1>3 DEF SkipRule, TypeOK
    <2>2. calc'.used = calc.used /\ calc'.total = calc.total /\ calc'.scale = calc.scale
      BY <2>1 DEF Calculation
    <2>3. Subtotal' = Subtotal /\ Prices' = Prices
      BY <2>1 DEF Subtotal, Prices
    <2> QED BY <2>1, <2>2, <2>3 DEF RangeInv, PriceInRange, Discounted
  <1>4. CASE DayPasses \/ UNCHANGED vars
    <2>1. UNCHANGED <<item, calc, preview, charged>>
      BY <1>4 DEF DayPasses, vars
    <2>2. Subtotal' = Subtotal /\ Prices' = Prices
      BY <2>1 DEF Subtotal, Prices
    <2> QED BY <2>1, <2>2 DEF RangeInv, PriceInRange
  <1> QED BY <1>1, <1>2, <1>3, <1>4, RangeFinish DEF Next, StartPreview, StartCharge

\* No price is negative, and none without a seasonal surcharge is above the subtotal.
THEOREM PricesInRange == Spec => []PriceInRange
  <1>1. Init => TypeOK /\ RangeInv
    <2>1. Init => RangeInv
      BY DEF Init, RangeInv, PriceInRange, Prices
    <2> QED BY <2>1, PricingTypeInit
  <1>2. RangeInv => PriceInRange
    BY DEF RangeInv
  <1> QED BY <1>1, <1>2, PricingTypeStep, RangeStep, PTL DEF Spec

(***************************************************************************)
(* What is shown adds up.  Every rule adds at most half a cent to the gap  *)
(* between the running total and the subtotal with the amounts shown.      *)
(***************************************************************************)
\* total / scale is at most k / 2 away from n.
Near(total, scale, n, k) ==
  /\ 2 * (total - n * scale) <= k * scale
  /\ 2 * (n * scale - total) <= k * scale

LEMMA NearApply ==
  ASSUME NEW T \in Nat, NEW S \in Nat \ {0}, NEW n \in Int, NEW k \in Nat, Near(T, S, n, k),
         NEW amount \in Int, NEW shown \in formatMoney(amount, S * 100)
  PROVE  Near(T * 100 + amount, S * 100, n + shown, k + 1)
  <1> DEFINE P == n * S
             Q == shown * (S * 100)
             R == k * S
  <1>0. S * 100 \in Nat \ {0}
    OBVIOUS
  <1>1. /\ shown \in Int
        /\ 2 * (amount - Q) <= S * 100
        /\ 2 * (Q - amount) <= S * 100
    BY <1>0, ShownNear
  <1>2. 2 * (T - P) <= R /\ 2 * (P - T) <= R
    BY DEF Near
  <1>3. (n + shown) * (S * 100) = P * 100 + Q
    <2>1. (n + shown) * (S * 100) = n * (S * 100) + shown * (S * 100)
      BY <1>0, <1>1
    <2>2. n * (S * 100) = (n * S) * 100
      OBVIOUS
    <2> QED BY <2>1, <2>2
  <1>4. (k + 1) * (S * 100) = R * 100 + S * 100
    <2>1. (k + 1) * (S * 100) = k * (S * 100) + S * 100
      BY <1>0
    <2>2. k * (S * 100) = (k * S) * 100
      OBVIOUS
    <2> QED BY <2>1, <2>2
  <1>5. P \in Int /\ Q \in Int /\ R \in Int
    BY <1>0, <1>1
  <1> HIDE DEF P, Q, R
  <1>6. 2 * ((T * 100 + amount) - (P * 100 + Q)) <= R * 100 + S * 100
    BY <1>1, <1>2, <1>5
  <1>7. 2 * ((P * 100 + Q) - (T * 100 + amount)) <= R * 100 + S * 100
    BY <1>1, <1>2, <1>5
  <1> QED BY <1>3, <1>4, <1>6, <1>7 DEF Near

LEMMA NearFinish ==
  ASSUME NEW T \in Nat, NEW S \in Nat \ {0}, NEW n \in Int, NEW k \in Nat, Near(T, S, n, k),
         NEW cents \in formatMoney(T, S)
  PROVE  2 * (cents - n) \in - (k + 1) .. k + 1
  <1> DEFINE gap == 2 * (cents - n)
  <1>1. /\ cents \in Int
        /\ 2 * (T - cents * S) <= S
        /\ 2 * (cents * S - T) <= S
    BY ShownNear
  <1>2. 2 * (T - n * S) <= k * S /\ 2 * (n * S - T) <= k * S
    BY DEF Near
  <1>3. gap \in Int /\ gap * S = 2 * (cents * S) - 2 * (n * S)
    BY <1>1
  <1>4. (k + 2) * S = k * S + 2 * S /\ (- (k + 2)) * S = - (k * S) - 2 * S
    OBVIOUS
  <1>5. n * S \in Int /\ cents * S \in Int /\ k * S \in Int /\ gap * S \in Int
    BY <1>1, <1>3
  <1> HIDE DEF gap
  <1>6. ASSUME gap > k + 1 PROVE FALSE
    <2>1. (k + 2) * S <= gap * S
      BY <1>3, <1>6, MulOrder
    <2> QED BY <1>1, <1>2, <1>3, <1>4, <1>5, <2>1
  <1>7. ASSUME gap < - (k + 1) PROVE FALSE
    <2>1. gap <= - (k + 2)
      BY <1>3, <1>7
    <2>2. gap * S <= (- (k + 2)) * S
      BY <1>3, <2>1, MulOrder
    <2> QED BY <1>1, <1>2, <1>3, <1>4, <1>5, <2>2
  <1> QED BY <1>3, <1>6, <1>7 DEF gap

ExplainInv ==
  /\ calc # Null =>
       /\ IsFiniteSet(calc.used)
       /\ Near(calc.total, calc.scale, Subtotal + calc.adjusted, Cardinality(calc.used))
  /\ AdjustmentsExplain

LEMMA ExplainFinish ==
  ASSUME TypeOK, ExplainInv, Finish
  PROVE  ExplainInv'
  <1>1. PICK price \in Price :
          /\ price.cents \in formatMoney(calc.total, calc.scale)
          /\ price.adjusted = calc.adjusted /\ price.used = calc.used
          /\ Prices' \subseteq Prices \cup {price}
    BY FinishEffect
  <1>2. calc # Null /\ calc' = Null /\ item' = item
    BY FinishEffect
  <1>3. /\ calc.total \in Nat /\ calc.scale \in Nat \ {0} /\ calc.adjusted \in Int
        /\ Subtotal \in Nat
    BY <1>2, PricingAssumption, SubtotalType DEF TypeOK, Calculation
  <1>4. Cardinality(calc.used) \in Nat
    BY <1>2, FS_CardinalityType DEF ExplainInv
  <1>5. 2 * (price.cents - (Subtotal + price.adjusted))
           \in - (Cardinality(price.used) + 1) .. Cardinality(price.used) + 1
    <2> DEFINE n == Subtotal + calc.adjusted
               k == Cardinality(calc.used)
    <2>1. n \in Int /\ k \in Nat /\ Near(calc.total, calc.scale, n, k)
      BY <1>2, <1>3, <1>4 DEF ExplainInv
    <2> HIDE DEF n, k
    <2>2. 2 * (price.cents - n) \in - (k + 1) .. k + 1
      BY <1>1, <1>3, <2>1, NearFinish
    <2> QED BY <1>1, <2>2 DEF n, k
  <1>6. Subtotal' = Subtotal
    BY <1>2 DEF Subtotal
  <1> QED BY <1>1, <1>2, <1>5, <1>6 DEF ExplainInv, AdjustmentsExplain

LEMMA ExplainStep == TypeOK /\ ExplainInv /\ [Next]_vars => ExplainInv'
  <1> SUFFICES ASSUME TypeOK, ExplainInv, [Next]_vars PROVE ExplainInv'
    OBVIOUS
  <1>0. Subtotal \in Nat
    BY PricingAssumption, SubtotalType DEF TypeOK
  <1>1. ASSUME NEW purpose \in {"preview", "charge"}, NEW slot \in BOOLEAN, Start(purpose, slot)
        PROVE  ExplainInv'
    <2>1. /\ calc'.total = Subtotal /\ calc'.scale = 1 /\ calc'.used = {} /\ calc'.adjusted = 0
          /\ UNCHANGED <<item, preview, charged>>
      BY <1>1, StartEffect
    <2>2. Subtotal' = Subtotal /\ Prices' = Prices
      BY <2>1 DEF Subtotal, Prices
    <2>3. IsFiniteSet({}) /\ Cardinality({}) = 0
      BY FS_EmptySet
    <2>4. Near(Subtotal, 1, Subtotal + 0, 0)
      BY <1>0 DEF Near
    <2> QED BY <2>1, <2>2, <2>3, <2>4 DEF ExplainInv, AdjustmentsExplain
  <1>2. ASSUME NEW id \in RuleIds, ApplyRule(id)
        PROVE  ExplainInv'
    <2>1. PICK change \in Int, shown \in Int :
            /\ shown \in formatMoney(calc.total * change, calc.scale * 100)
            /\ calc'.total = calc.total * 100 + calc.total * change
            /\ calc'.scale = calc.scale * 100
            /\ calc'.used = calc.used \cup {id}
            /\ calc'.adjusted = calc.adjusted + shown
      BY <1>2, ApplyEffect
    <2>2. /\ calc # Null /\ id \notin calc.used
          /\ UNCHANGED <<item, preview, charged>>
      BY <1>2 DEF ApplyRule, TypeOK
    <2>3. /\ calc.total \in Nat /\ calc.scale \in Nat \ {0} /\ calc.adjusted \in Int
          /\ calc.total * change \in Int
      BY <2>2 DEF TypeOK, Calculation
    <2>4. Subtotal' = Subtotal /\ Prices' = Prices
      BY <2>2 DEF Subtotal, Prices
    <2>5. /\ IsFiniteSet(calc.used) /\ Cardinality(calc.used) \in Nat
          /\ IsFiniteSet(calc.used \cup {id})
          /\ Cardinality(calc.used \cup {id}) = Cardinality(calc.used) + 1
      BY <2>2, FS_AddElement, FS_CardinalityType DEF ExplainInv
    <2>6. Near(calc'.total, calc'.scale, (Subtotal + calc.adjusted) + shown,
               Cardinality(calc.used) + 1)
      <3> DEFINE n == Subtotal + calc.adjusted
                 amount == calc.total * change
      <3>1. n \in Int /\ Near(calc.total, calc.scale, n, Cardinality(calc.used))
        BY <1>0, <2>2, <2>3 DEF ExplainInv
      <3>2. amount \in Int /\ shown \in formatMoney(amount, calc.scale * 100)
        BY <2>1, <2>3
      <3> HIDE DEF n, amount
      <3>3. Near(calc.total * 100 + amount, calc.scale * 100, n + shown, Cardinality(calc.used) + 1)
        BY <2>3, <2>5, <3>1, <3>2, NearApply
      <3> QED BY <2>1, <3>3 DEF n, amount
    <2>7. (Subtotal + calc.adjusted) + shown = Subtotal + calc'.adjusted
      BY <1>0, <2>1, <2>3
    <2> QED BY <2>1, <2>4, <2>5, <2>6, <2>7 DEF ExplainInv, AdjustmentsExplain
  <1>3. ASSUME NEW id \in RuleIds, SkipRule(id)
        PROVE  ExplainInv'
    <2>1. /\ calc # Null /\ calc \in Calculation
          /\ calc' = [calc EXCEPT !.left = @ \ {id}]
          /\ UNCHANGED <<item, preview, charged>>
      BY <1>3 DEF SkipRule, TypeOK
    <2>2. /\ calc'.used = calc.used /\ calc'.total = calc.total /\ calc'.scale = calc.scale
          /\ calc'.adjusted = calc.adjusted
      BY <2>1 DEF Calculation
    <2>3. Subtotal' = Subtotal /\ Prices' = Prices
      BY <2>1 DEF Subtotal, Prices
    <2> QED BY <2>1, <2>2, <2>3 DEF ExplainInv, AdjustmentsExplain
  <1>4. CASE DayPasses \/ UNCHANGED vars
    <2>1. UNCHANGED <<item, calc, preview, charged>>
      BY <1>4 DEF DayPasses, vars
    <2>2. Subtotal' = Subtotal /\ Prices' = Prices
      BY <2>1 DEF Subtotal, Prices
    <2> QED BY <2>1, <2>2 DEF ExplainInv, AdjustmentsExplain
  <1> QED BY <1>1, <1>2, <1>3, <1>4, ExplainFinish DEF Next, StartPreview, StartCharge

\* The adjustments shown explain the total shown, up to half a cent for each of them and
\* half a cent for the total, however many rules apply and in whatever order.
THEOREM AdjustmentsAddUp == Spec => []AdjustmentsExplain
  <1>1. Init => TypeOK /\ ExplainInv
    <2>1. Init => ExplainInv
      BY DEF Init, ExplainInv, AdjustmentsExplain, Prices
    <2> QED BY <2>1, PricingTypeInit
  <1>2. ExplainInv => AdjustmentsExplain
    BY DEF ExplainInv
  <1> QED BY <1>1, <1>2, PricingTypeStep, ExplainStep, PTL DEF Spec

(***************************************************************************)
(* Products over finite sets of rules.  A smallest counterexample does for *)
(* finite sets what induction would.                                       *)
(***************************************************************************)
LEMMA LeastSet ==
  ASSUME NEW S, IsFiniteSet(S), NEW Bad \in SUBSET SUBSET S, Bad # {}
  PROVE  \E T \in Bad : \A U \in SUBSET T : U # T => U \notin Bad
  <1>1. FiniteSubsetsOf(S) = SUBSET S
    BY FS_FiniteSubsetsOfFinite
  <1>2. IsWellFoundedOn(StrictSubsetOrdering(S), SUBSET S)
    BY <1>1, FS_StrictSubsetOrderingWellFounded
  <1>3. PICK T \in Bad : \A U \in Bad : <<U, T>> \notin StrictSubsetOrdering(S)
    BY <1>2, WFMin
  <1> QED BY <1>3 DEF StrictSubsetOrdering

Any(T) == CHOOSE id \in T : TRUE

\* g is the product over every subset of S.
IsProduct(g, base, f, S) ==
  g = [T \in SUBSET S |-> IF T = {} THEN base ELSE f[Any(T)] * g[T \ {Any(T)}]]

LEMMA ProductUnique ==
  ASSUME NEW base, NEW f, NEW R, NEW S, NEW g, NEW h,
         IsProduct(g, base, f, R), IsProduct(h, base, f, S),
         NEW T, IsFiniteSet(T), T \subseteq R, T \subseteq S
  PROVE  g[T] = h[T]
  <1> DEFINE Bad == {U \in SUBSET T : g[U] # h[U]}
  <1>1. SUFFICES ASSUME Bad # {} PROVE FALSE
    OBVIOUS
  <1>2. PICK U \in Bad : \A V \in SUBSET U : V # U => V \notin Bad
    <2>1. Bad \in SUBSET SUBSET T
      OBVIOUS
    <2> HIDE DEF Bad
    <2> QED BY <1>1, <2>1, LeastSet
  <1>3. U # {} => Any(U) \in U
    BY DEF Any
  <1>4. U # {} => g[U \ {Any(U)}] = h[U \ {Any(U)}]
    BY <1>2, <1>3
  <1>5. g[U] = IF U = {} THEN base ELSE f[Any(U)] * g[U \ {Any(U)}]
    BY DEF IsProduct
  <1>6. h[U] = IF U = {} THEN base ELSE f[Any(U)] * h[U \ {Any(U)}]
    BY DEF IsProduct
  <1> QED BY <1>4, <1>5, <1>6

LEMMA ProductExists ==
  ASSUME NEW base, NEW f, NEW S, IsFiniteSet(S)
  PROVE  \E g : IsProduct(g, base, f, S)
  <1> DEFINE Bad == {U \in SUBSET S : ~ \E g : IsProduct(g, base, f, U)}
  <1>1. SUFFICES ASSUME Bad # {} PROVE FALSE
    OBVIOUS
  <1>2. PICK U \in Bad : \A V \in SUBSET U : V # U => V \notin Bad
    <2>1. Bad \in SUBSET SUBSET S
      OBVIOUS
    <2> HIDE DEF Bad
    <2> QED BY <1>1, <2>1, LeastSet
  <1> DEFINE part(V) == CHOOSE g : IsProduct(g, base, f, V)
             value(V) == part(V)[V]
             whole == [V \in SUBSET U |->
                         IF V = {} THEN base ELSE f[Any(V)] * value(V \ {Any(V)})]
  <1>3. \A V \in SUBSET U : V # U => IsProduct(part(V), base, f, V)
    BY <1>2
  <1>4. \A V \in SUBSET U : V # {} => Any(V) \in V
    BY DEF Any
  <1>5. ASSUME NEW V \in SUBSET U, V # U PROVE whole[V] = value(V)
    <2>1. value(V) = IF V = {} THEN base ELSE f[Any(V)] * part(V)[V \ {Any(V)}]
      <3>1. IsProduct(part(V), base, f, V)
        BY <1>3, <1>5
      <3> HIDE DEF part
      <3>2. part(V)[V] = IF V = {} THEN base ELSE f[Any(V)] * part(V)[V \ {Any(V)}]
        BY <3>1 DEF IsProduct
      <3> QED BY <3>2
    <2>2. CASE V = {}
      BY <2>1, <2>2
    <2>3. CASE V # {}
      <3> DEFINE W == V \ {Any(V)}
      <3>1. W \in SUBSET U /\ W # U /\ W \subseteq V /\ IsFiniteSet(W)
        BY <1>4, <1>5, FS_Subset
      <3>2. IsProduct(part(W), base, f, W) /\ IsProduct(part(V), base, f, V)
        BY <1>3, <1>5, <3>1
      <3> HIDE DEF part, W
      <3>3. part(W)[W] = part(V)[W]
        BY <3>1, <3>2, ProductUnique
      <3> QED BY <2>1, <2>3, <3>3 DEF W
    <2> QED BY <2>2, <2>3
  <1>6. \A V \in SUBSET U : V # {} => whole[V \ {Any(V)}] = value(V \ {Any(V)})
    BY <1>4, <1>5
  <1>7. IsProduct(whole, base, f, U)
    <2>1. \A V \in SUBSET U : whole[V] = IF V = {} THEN base ELSE f[Any(V)] * whole[V \ {Any(V)}]
      <3> HIDE DEF value
      <3> QED BY <1>6
    <2> HIDE DEF whole, value
    <2>2. whole = [V \in SUBSET U |-> whole[V]]
      BY DEF whole
    <2> QED BY <2>1, <2>2 DEF IsProduct
  <1> QED BY <1>2, <1>7

\* Times does what its recursion says.
LEMMA TimesUnfolds ==
  ASSUME NEW base, NEW f, NEW S, IsFiniteSet(S)
  PROVE  Times(base, f, S) = IF S = {} THEN base
                             ELSE f[Any(S)] * Times(base, f, S \ {Any(S)})
  <1> DEFINE prod(T) == CHOOSE g : IsProduct(g, base, f, T)
  <1>1. \A T : Times(base, f, T) = prod(T)[T]
    BY DEF Times, MapThenFoldSet, IsProduct, Any
  <1>2. IsProduct(prod(S), base, f, S)
    BY ProductExists
  <1>3. prod(S)[S] = IF S = {} THEN base ELSE f[Any(S)] * prod(S)[S \ {Any(S)}]
    BY <1>2 DEF IsProduct
  <1>4. CASE S = {}
    BY <1>1, <1>3, <1>4
  <1>5. CASE S # {}
    <2> DEFINE T == S \ {Any(S)}
    <2>1. T \subseteq S /\ IsFiniteSet(T)
      BY FS_Subset
    <2>2. IsProduct(prod(T), base, f, T)
      BY <2>1, ProductExists
    <2> HIDE DEF prod, T
    <2>3. prod(S)[T] = prod(T)[T]
      BY <1>2, <2>1, <2>2, ProductUnique
    <2> QED BY <1>1, <1>3, <1>5, <2>3 DEF T
  <1> QED BY <1>4, <1>5

LEMMA TimesType ==
  ASSUME NEW base \in Nat, NEW f, NEW S, IsFiniteSet(S), \A id \in S : f[id] \in Nat
  PROVE  Times(base, f, S) \in Nat
  <1> DEFINE Bad == {U \in SUBSET S : Times(base, f, U) \notin Nat}
  <1>1. SUFFICES ASSUME Bad # {} PROVE FALSE
    OBVIOUS
  <1>2. PICK U \in Bad : \A V \in SUBSET U : V # U => V \notin Bad
    <2>1. Bad \in SUBSET SUBSET S
      OBVIOUS
    <2> HIDE DEF Bad
    <2> QED BY <1>1, <2>1, LeastSet
  <1>3. U # {} => Any(U) \in U
    BY DEF Any
  <1>4. U # {} => Times(base, f, U \ {Any(U)}) \in Nat
    BY <1>2, <1>3
  <1>5. Times(base, f, U) = IF U = {} THEN base ELSE f[Any(U)] * Times(base, f, U \ {Any(U)})
    BY FS_Subset, TimesUnfolds
  <1>6. U # {} => f[Any(U)] * Times(base, f, U \ {Any(U)}) \in Nat
    BY <1>3, <1>4, MulNat
  <1> QED BY <1>5, <1>6

\* It does not matter which factor is taken out first.
LEMMA TimesTakes ==
  ASSUME NEW base \in Nat, NEW f, NEW S, IsFiniteSet(S), \A id \in S : f[id] \in Nat,
         NEW x \in S
  PROVE  Times(base, f, S) = f[x] * Times(base, f, S \ {x})
  <1> DEFINE Bad == {U \in SUBSET S : \E y \in U : Times(base, f, U) # f[y] * Times(base, f, U \ {y})}
  <1>1. SUFFICES ASSUME Bad # {} PROVE FALSE
    OBVIOUS
  <1>2. PICK U \in Bad : \A V \in SUBSET U : V # U => V \notin Bad
    <2>1. Bad \in SUBSET SUBSET S
      OBVIOUS
    <2> HIDE DEF Bad
    <2> QED BY <1>1, <2>1, LeastSet
  <1>3. PICK y \in U : Times(base, f, U) # f[y] * Times(base, f, U \ {y})
    BY <1>2
  <1> DEFINE z == Any(U)
             rest == U \ {y, z}
  <1>4. z \in U
    BY <1>3 DEF Any
  <1>5. IsFiniteSet(U) /\ IsFiniteSet(rest)
    BY FS_Subset
  <1>6. Times(base, f, U) = f[z] * Times(base, f, U \ {z})
    BY <1>3, <1>5, TimesUnfolds
  <1>7. y # z
    BY <1>3, <1>6
  <1>8. Times(base, f, U \ {z}) = f[y] * Times(base, f, rest)
    <2>1. (U \ {z}) \ {y} = rest /\ y \in U \ {z}
      BY <1>3, <1>7
    <2>2. U \ {z} \notin Bad
      BY <1>2, <1>4
    <2> QED BY <2>1, <2>2
  <1>9. Times(base, f, U \ {y}) = f[z] * Times(base, f, rest)
    <2>1. (U \ {y}) \ {z} = rest /\ z \in U \ {y}
      BY <1>4, <1>7
    <2>2. U \ {y} \notin Bad
      BY <1>2, <1>3
    <2> QED BY <2>1, <2>2
  <1>10. f[y] \in Nat /\ f[z] \in Nat /\ Times(base, f, rest) \in Nat
    <2>1. \A id \in rest : f[id] \in Nat
      OBVIOUS
    <2> QED BY <1>4, <1>5, <2>1, TimesType
  <1>11. \A a, b, c \in Nat : a * (b * c) = b * (a * c)
    OBVIOUS
  <1> QED BY <1>3, <1>6, <1>8, <1>9, <1>10, <1>11

\* More discounts make a product no larger, per hundred.
LEMMA TimesCompare ==
  ASSUME NEW base \in Nat, NEW f, NEW B, IsFiniteSet(B), NEW A \in SUBSET B,
         \A id \in B : f[id] \in Nat /\ Hundred[id] = 100,
         \A id \in B \ A : f[id] <= 100
  PROVE  Times(base, f, B) * Times(1, Hundred, A) <= Times(base, f, A) * Times(1, Hundred, B)
  <1> DEFINE P(U) == Times(base, f, U)
             H(U) == Times(1, Hundred, U)
             Bad == {U \in SUBSET B : A \subseteq U /\ ~ (P(U) * H(A) <= P(A) * H(U))}
  <1>0. \A U \in SUBSET B : P(U) \in Nat /\ H(U) \in Nat
    BY FS_Subset, TimesType
  <1>1. SUFFICES ASSUME Bad # {} PROVE FALSE
    BY <1>0
  <1>2. PICK U \in Bad : \A V \in SUBSET U : V # U => V \notin Bad
    <2>1. Bad \in SUBSET SUBSET B
      OBVIOUS
    <2> HIDE DEF Bad
    <2> QED BY <1>1, <2>1, LeastSet
  <1>3. U # A
    BY <1>0, <1>2
  <1>4. PICK x \in U \ A : TRUE
    BY <1>2, <1>3
  <1> DEFINE V == U \ {x}
  <1>5. V \in SUBSET B /\ A \subseteq V /\ P(V) * H(A) <= P(A) * H(V)
    BY <1>2, <1>4
  <1>6. P(U) = f[x] * P(V) /\ H(U) = 100 * H(V)
    BY <1>2, <1>4, FS_Subset, TimesTakes
  <1>7. f[x] \in Nat /\ f[x] <= 100
    BY <1>2, <1>4
  <1>8. /\ P(V) \in Nat /\ H(V) \in Nat /\ P(A) \in Nat /\ H(A) \in Nat
        /\ P(V) * H(A) \in Nat /\ P(A) * H(V) \in Nat
    BY <1>0, <1>5, MulNat
  <1>9. (f[x] * P(V)) * H(A) <= P(A) * (100 * H(V))
    <2> DEFINE a == P(V) * H(A)
    <2>1. (f[x] * P(V)) * H(A) = f[x] * a
      BY <1>7, <1>8
    <2>2. P(A) * (100 * H(V)) = 100 * (P(A) * H(V))
      BY <1>8
    <2>3. f[x] * a <= 100 * a
      BY <1>7, <1>8, MulOrder
    <2> HIDE DEF P, H
    <2> QED BY <1>5, <1>7, <1>8, <2>1, <2>2, <2>3
  <1> QED BY <1>2, <1>6, <1>9

(***************************************************************************)
(* The order of the rules.                                                 *)
(***************************************************************************)
\* Totals are products over the rules that applied, all of which have a config.
Explained(c) ==
  /\ c.used \subseteq rules
  /\ \A id \in c.used : Parses(RuleOf[id])
  /\ c.total = Times(Subtotal, Factor, c.used)
  /\ c.scale = Times(1, Hundred, c.used)

OrderInv ==
  /\ IsFiniteSet(rules)
  /\ calc # Null => Explained(calc)
  /\ \A p \in Prices : Explained(p)

\* The factor of a rule with a config is between 0 and 1, but for a surcharge.
LEMMA FactorBound ==
  ASSUME NEW id \in RuleIds, Parses(RuleOf[id])
  PROVE  /\ Change(RuleOf[id]) \in Int
         /\ Factor[id] = 100 + Change(RuleOf[id])
         /\ Factor[id] \in Nat
         /\ RuleOf[id].ruleType # "SEASONAL" => Factor[id] <= 100
         /\ Hundred[id] = 100
  <1> DEFINE r == RuleOf[id]
  <1>1. r \in RuleRow
    BY PricingAssumption
  <1>2. r.percent \in Int /\ r.ruleType \in {"GROUP_SIZE", "ADVANCE_BOOKING", "SEASONAL"}
    BY <1>1 DEF RuleRow, RuleType
  <1> HIDE DEF r
  <1>3. Factor[id] = 100 + Change(r) /\ Hundred[id] = 100
    BY DEF Factor, Hundred, r
  <1>4. Parses(r)
    BY DEF r
  <1>5. /\ Change(r) \in Int /\ Change(r) >= -100
        /\ r.ruleType # "SEASONAL" => Change(r) <= 0
    <2>1. CASE r.ruleType = "GROUP_SIZE"
      BY <1>2, <1>4, <2>1 DEF Parses, Change
    <2>2. CASE r.ruleType = "ADVANCE_BOOKING"
      BY <1>2, <1>4, <2>2 DEF Parses, Change
    <2>3. CASE r.ruleType = "SEASONAL"
      BY <1>2, <1>4, <2>3 DEF Parses, Change
    <2> QED BY <1>2, <2>1, <2>2, <2>3
  <1> QED BY <1>3, <1>5 DEF r

\* One more rule is one more factor, whichever it is.
LEMMA ExplainedApply ==
  ASSUME TypeOK, OrderInv, NEW id \in RuleIds, ApplyRule(id)
  PROVE  Explained(calc)'
  <1>1. /\ calc'.total = calc.total * 100 + calc.total * Change(RuleOf[id])
        /\ calc'.scale = calc.scale * 100
        /\ calc'.used = calc.used \cup {id}
    BY ApplyEffect
  <1>2. /\ calc # Null /\ id \in rules /\ id \notin calc.used /\ Parses(RuleOf[id])
        /\ item' = item /\ rules' = rules
    BY DEF ApplyRule, TypeOK, Applies
  <1>3. Explained(calc)
    BY <1>2 DEF OrderInv
  <1> DEFINE S == calc.used
             T == S \cup {id}
  <1>4. IsFiniteSet(T) /\ T \subseteq rules /\ T \subseteq RuleIds /\ T \ {id} = S
    BY <1>2, <1>3, FS_Subset DEF OrderInv, Explained, TypeOK
  <1>5. \A x \in T : Parses(RuleOf[x])
    BY <1>2, <1>3 DEF Explained
  <1>6. Subtotal \in Nat /\ Subtotal' = Subtotal
    BY <1>2, PricingAssumption, SubtotalType DEF TypeOK, Subtotal
  <1>7. \A x \in T : Factor[x] \in Nat /\ Hundred[x] \in Nat
    BY <1>4, <1>5, FactorBound
  <1>8. /\ Times(Subtotal, Factor, T) = Factor[id] * Times(Subtotal, Factor, S)
        /\ Times(1, Hundred, T) = Hundred[id] * Times(1, Hundred, S)
    BY <1>4, <1>6, <1>7, TimesTakes
  <1>9. /\ Change(RuleOf[id]) \in Int /\ Factor[id] = 100 + Change(RuleOf[id])
        /\ Hundred[id] = 100
    BY <1>2, FactorBound
  <1>10. calc.total \in Nat /\ calc.scale \in Nat
    BY <1>2 DEF TypeOK, Calculation
  <1>11. /\ calc'.total = Factor[id] * calc.total
         /\ calc'.scale = Hundred[id] * calc.scale
    BY <1>1, <1>9, <1>10
  <1> QED BY <1>1, <1>2, <1>3, <1>4, <1>5, <1>6, <1>8, <1>11 DEF Explained

LEMMA OrderStep == TypeOK /\ OrderInv /\ [Next]_vars => OrderInv'
  <1> SUFFICES ASSUME TypeOK, OrderInv, [Next]_vars PROVE OrderInv'
    OBVIOUS
  <1>1. item' = item /\ rules' = rules
    BY DEF Next, StartPreview, StartCharge, Start, ApplyRule, SkipRule, Finish, DayPasses, vars
  <1>2. Subtotal' = Subtotal /\ IsFiniteSet(rules)'
    BY <1>1 DEF Subtotal, OrderInv
  <1>3. ASSUME NEW c, Explained(c)
        PROVE  c.used \subseteq rules' /\ (\A id \in c.used : Parses(RuleOf[id]))
               /\ c.total = Times(Subtotal', Factor, c.used) /\ c.scale = Times(1, Hundred, c.used)
    BY <1>1, <1>2, <1>3 DEF Explained
  <1>4. ASSUME NEW purpose \in {"preview", "charge"}, NEW slot \in BOOLEAN, Start(purpose, slot)
        PROVE  OrderInv'
    <2>1. /\ calc'.total = Subtotal /\ calc'.scale = 1 /\ calc'.used = {}
          /\ UNCHANGED <<preview, charged>>
      BY <1>4, StartEffect
    <2>2. Times(Subtotal, Factor, {}) = Subtotal /\ Times(1, Hundred, {}) = 1
      BY FS_EmptySet, TimesUnfolds
    <2>3. Explained(calc)'
      BY <1>2, <2>1, <2>2 DEF Explained
    <2> QED BY <1>2, <1>3, <2>1, <2>3 DEF OrderInv, Explained, Prices
  <1>5. ASSUME NEW id \in RuleIds, ApplyRule(id)
        PROVE  OrderInv'
    <2>1. UNCHANGED <<preview, charged>>
      BY <1>5 DEF ApplyRule
    <2> QED BY <1>2, <1>3, <1>5, <2>1, ExplainedApply DEF OrderInv, Explained, Prices
  <1>6. ASSUME NEW id \in RuleIds, SkipRule(id)
        PROVE  OrderInv'
    <2>1. /\ calc # Null /\ calc \in Calculation
          /\ calc' = [calc EXCEPT !.left = @ \ {id}]
          /\ UNCHANGED <<preview, charged>>
      BY <1>6 DEF SkipRule, TypeOK
    <2>2. calc'.used = calc.used /\ calc'.total = calc.total /\ calc'.scale = calc.scale
      BY <2>1 DEF Calculation
    <2> QED BY <1>2, <1>3, <2>1, <2>2 DEF OrderInv, Explained, Prices
  <1>7. CASE Finish
    <2>1. PICK cents \in formatMoney(calc.total, calc.scale) :
            LET price == [cents |-> cents, adjusted |-> calc.adjusted, used |-> calc.used,
                          total |-> calc.total, scale |-> calc.scale, slot |-> calc.slot] IN
            IF calc.pc = "preview" THEN preview' = price /\ UNCHANGED charged
                                   ELSE charged' = price /\ UNCHANGED preview
      BY <1>7 DEF Finish
    <2>2. \A p \in Prices' : \/ p \in Prices
                             \/ p.total = calc.total /\ p.scale = calc.scale /\ p.used = calc.used
      BY <2>1 DEF Prices
    <2>3. calc # Null /\ calc' = Null
      BY <1>7 DEF Finish
    <2> QED BY <1>2, <1>3, <2>2, <2>3 DEF OrderInv, Explained
  <1>8. CASE DayPasses \/ UNCHANGED vars
    <2>1. UNCHANGED <<calc, preview, charged>>
      BY <1>8 DEF DayPasses, vars
    <2> QED BY <1>2, <1>3, <2>1 DEF OrderInv, Explained, Prices
  <1> QED BY <1>4, <1>5, <1>6, <1>7, <1>8 DEF Next, StartPreview, StartCharge

LEMMA OrderInit == Init => OrderInv
  <1> SUFFICES ASSUME Init PROVE OrderInv
    OBVIOUS
  <1>1. rules \subseteq RuleIds
    BY DEF Init, kSubset
  <1>2. IsFiniteSet(rules)
    BY <1>1, PricingAssumption, FS_Subset
  <1> QED BY <1>2 DEF Init, OrderInv, Prices

\* Whatever the rules and the order in which they came, a total is the subtotal times the
\* factors of the rules that applied, over a hundred for each.
THEOREM OrderDoesNotMatter == Spec => []OrderIrrelevant
  <1>1. OrderInv => OrderIrrelevant
    BY DEF OrderInv, OrderIrrelevant, Explained
  <1> QED BY <1>1, PricingTypeInit, PricingTypeStep, OrderInit, OrderStep, PTL DEF Spec

(***************************************************************************)
(* Waiting.  Until a reservation is charged the rules that depend on the   *)
(* day can only cease to apply, so that what a charge used is among what a *)
(* preview of a slot used, and what it did not use is a discount.          *)
(***************************************************************************)
\* A rule that does not depend on the day.
Lasting(id) == RuleOf[id].ruleType # "ADVANCE_BOOKING"

\* What applies to a slot now and was looked at is used; what lasts and was used applies.
Current(c, left) ==
  /\ \A id \in rules \ left : Applies(RuleOf[id], TRUE) => id \in c.used
  /\ \A id \in c.used : Lasting(id) => Applies(RuleOf[id], TRUE)

WaitInv ==
  /\ calc # Null =>
       /\ charged = Null
       /\ calc.pc = "charge" => calc.slot
       /\ calc.slot => Current(calc, calc.left)
  /\ \A p \in Prices : p.cents \in formatMoney(p.total, p.scale)
  /\ charged # Null => Current(charged, {})
  /\ preview # Null /\ preview.slot =>
       /\ Current(preview, {})
       /\ calc # Null /\ calc.pc = "charge" => calc.used \subseteq preview.used
       /\ charged # Null => charged.used \subseteq preview.used

\* A day that begins takes rules away, and none that lasts.
LEMMA DayTakesAway ==
  ASSUME TypeOK, DayPasses \/ UNCHANGED vars, NEW id \in RuleIds
  PROVE  /\ Applies(RuleOf[id], TRUE)' => Applies(RuleOf[id], TRUE)
         /\ Lasting(id) => (Applies(RuleOf[id], TRUE)' <=> Applies(RuleOf[id], TRUE))
  <1> DEFINE r == RuleOf[id]
  <1>1. r.bound \in Int /\ r.ruleType \in {"GROUP_SIZE", "ADVANCE_BOOKING", "SEASONAL"}
    BY PricingAssumption DEF RuleRow, RuleType
  <1>2. item' = item /\ days \in Int /\ days' \in Int /\ days' <= days
    BY PricingAssumption DEF DayPasses, vars, TypeOK
  <1> HIDE DEF r
  <1>3. CASE r.ruleType = "GROUP_SIZE"
    BY <1>2, <1>3 DEF Applies, Lasting, r
  <1>4. CASE r.ruleType = "ADVANCE_BOOKING"
    BY <1>1, <1>2, <1>4 DEF Applies, AdvanceBooking, Lasting, r
  <1>5. CASE r.ruleType = "SEASONAL"
    BY <1>2, <1>5 DEF Applies, Lasting, r
  <1> QED BY <1>1, <1>3, <1>4, <1>5

LEMMA WaitStep == TypeOK /\ WaitInv /\ [Next]_vars => WaitInv'
  <1> SUFFICES ASSUME TypeOK, WaitInv, [Next]_vars PROVE WaitInv'
    OBVIOUS
  <1>1. ASSUME NEW purpose \in {"preview", "charge"}, NEW slot \in BOOLEAN, Start(purpose, slot),
               purpose = "charge" => slot
        PROVE  WaitInv'
    <2>1. /\ calc'.pc = purpose /\ calc'.slot = slot /\ calc'.left = rules /\ calc'.used = {}
          /\ UNCHANGED <<item, rules, days, preview, charged>>
      BY <1>1, StartEffect
    <2>2. charged = Null
      BY <1>1 DEF Start
    <2> QED BY <1>1, <2>1, <2>2 DEF WaitInv, Current, Prices, Applies, AdvanceBooking
  <1>2. ASSUME NEW id \in RuleIds, ApplyRule(id)
        PROVE  WaitInv'
    <2>1. /\ calc'.pc = calc.pc /\ calc'.slot = calc.slot /\ calc'.left = calc.left \ {id}
          /\ calc'.used = calc.used \cup {id}
      BY <1>2, ApplyEffect
    <2>2. /\ calc # Null /\ id \in rules /\ Applies(RuleOf[id], calc.slot)
          /\ UNCHANGED <<item, rules, days, preview, charged>>
      BY <1>2 DEF ApplyRule, TypeOK
    <2>3. calc.slot \in BOOLEAN
      BY <2>2 DEF TypeOK, Calculation
    <2>4. \A i \in RuleIds : Applies(RuleOf[i], TRUE)' = Applies(RuleOf[i], TRUE)
      BY <2>2 DEF Applies, AdvanceBooking
    <2>5. calc.slot => Current(calc, calc.left)'
      BY <2>1, <2>2, <2>3, <2>4 DEF WaitInv, Current, TypeOK
    <2>6. /\ charged # Null => Current(charged, {})'
          /\ preview # Null /\ preview.slot => Current(preview, {})'
      BY <2>2, <2>4 DEF WaitInv, Current, Applies, AdvanceBooking
    <2>7. (preview # Null /\ preview.slot /\ calc.pc = "charge") => id \in preview.used
      BY <2>2, <2>3 DEF WaitInv, Current
    <2> QED BY <2>1, <2>2, <2>3, <2>5, <2>6, <2>7 DEF WaitInv, Prices
  <1>3. ASSUME NEW id \in RuleIds, SkipRule(id)
        PROVE  WaitInv'
    <2>1. /\ calc # Null /\ calc \in Calculation /\ ~ Applies(RuleOf[id], calc.slot)
          /\ calc' = [calc EXCEPT !.left = @ \ {id}]
          /\ UNCHANGED <<item, rules, days, preview, charged>>
      BY <1>3 DEF SkipRule, TypeOK
    <2>2. /\ calc'.used = calc.used /\ calc'.pc = calc.pc /\ calc'.slot = calc.slot
          /\ calc'.left = calc.left \ {id} /\ calc.slot \in BOOLEAN
      BY <2>1 DEF Calculation
    <2>3. calc.slot => Current(calc, calc.left)'
      BY <2>1, <2>2 DEF WaitInv, Current, Applies, AdvanceBooking
    <2>4. /\ charged # Null => Current(charged, {})'
          /\ preview # Null /\ preview.slot => Current(preview, {})'
      BY <2>1 DEF WaitInv, Current, Applies, AdvanceBooking
    <2> QED BY <2>1, <2>2, <2>3, <2>4 DEF WaitInv, Prices
  <1>4. CASE Finish
    <2>1. PICK cents \in formatMoney(calc.total, calc.scale) :
            LET price == [cents |-> cents, adjusted |-> calc.adjusted, used |-> calc.used,
                          total |-> calc.total, scale |-> calc.scale, slot |-> calc.slot] IN
            IF calc.pc = "preview" THEN preview' = price /\ UNCHANGED charged
                                   ELSE charged' = price /\ UNCHANGED preview
      BY <1>4 DEF Finish
    <2>2. /\ calc # Null /\ calc.left = {} /\ calc' = Null /\ calc \in Calculation
          /\ UNCHANGED <<item, rules, days>>
      BY <1>4 DEF Finish, TypeOK
    <2>3. calc.pc \in {"preview", "charge"} /\ calc.slot \in BOOLEAN
      BY <2>2 DEF Calculation
    <2>4. ASSUME NEW c, c.used = calc.used, calc.slot PROVE Current(c, {})'
      BY <2>2, <2>4 DEF WaitInv, Current, Applies, AdvanceBooking
    <2>5. \A p \in Prices' : \/ p \in Prices
                             \/ p.total = calc.total /\ p.scale = calc.scale /\ p.cents = cents
      BY <2>1 DEF Prices
    <2>6. charged = Null
      BY <2>2 DEF WaitInv
    <2>7. CASE calc.pc = "preview"
      <3>1. /\ preview'.used = calc.used /\ preview'.slot = calc.slot /\ charged' = charged
        BY <2>1, <2>7
      <3> QED BY <2>1, <2>2, <2>3, <2>4, <2>5, <2>6, <3>1 DEF WaitInv
    <2>8. CASE calc.pc = "charge"
      <3>1. /\ charged'.used = calc.used /\ preview' = preview
        BY <2>1, <2>8
      <3>2. preview # Null /\ preview.slot => Current(preview, {})' /\ calc.used \subseteq preview.used
        BY <2>2, <2>8, <3>1 DEF WaitInv, Current, Applies, AdvanceBooking
      <3>3. calc.slot
        BY <2>2, <2>8 DEF WaitInv
      <3> QED BY <2>1, <2>2, <2>3, <2>4, <2>5, <3>1, <3>2, <3>3 DEF WaitInv
    <2> QED BY <2>3, <2>7, <2>8
  <1>5. CASE DayPasses \/ UNCHANGED vars
    <2>1. UNCHANGED <<item, rules, calc, preview, charged>>
      BY <1>5 DEF DayPasses, vars
    <2>2. \A id \in RuleIds :
            /\ Applies(RuleOf[id], TRUE)' => Applies(RuleOf[id], TRUE)
            /\ Lasting(id) => (Applies(RuleOf[id], TRUE)' <=> Applies(RuleOf[id], TRUE))
      BY <1>5, DayTakesAway
    <2>3. ASSUME NEW c, NEW left, c.used \subseteq RuleIds, Current(c, left)
          PROVE  /\ \A id \in rules' \ left : Applies(RuleOf[id], TRUE)' => id \in c.used
                 /\ \A id \in c.used : Lasting(id) => Applies(RuleOf[id], TRUE)'
      BY <2>1, <2>2, <2>3 DEF Current, TypeOK
    <2>4. /\ calc # Null => calc.used \subseteq RuleIds
          /\ \A p \in Prices : p.used \subseteq RuleIds
      BY DEF TypeOK, Calculation, Price
    <2> HIDE DEF Applies
    <2>5. /\ calc # Null /\ calc.slot => Current(calc, calc.left)'
          /\ charged # Null => Current(charged, {})'
          /\ preview # Null /\ preview.slot => Current(preview, {})'
      BY <2>1, <2>3, <2>4 DEF WaitInv, Current, Prices
    <2> QED BY <2>1, <2>5 DEF WaitInv, Prices
  <1> QED BY <1>1, <1>2, <1>3, <1>4, <1>5 DEF Next, StartPreview, StartCharge

LEMMA MulCancel ==
  ASSUME NEW a \in Int, NEW b \in Int, NEW k \in Nat \ {0}, a * k = b * k
  PROVE  a = b
  <1>1. ASSUME NEW x \in Int, NEW y \in Int, x < y PROVE x * k < y * k
    <2>1. (x + 1) * k <= y * k
      BY <1>1, MulOrder
    <2>2. (x + 1) * k = x * k + k /\ x * k \in Int /\ y * k \in Int
      OBVIOUS
    <2> QED BY <2>1, <2>2
  <1>2. a * k \in Int
    OBVIOUS
  <1> QED BY <1>1, <1>2

\* What is at most as large, over the same hundreds, is shown as at most as large, but
\* for a tie.
LEMMA ShownOrder ==
  ASSUME NEW p \in Nat, NEW P \in Nat \ {0}, NEW c \in Nat, NEW C \in Nat \ {0},
         p * C <= c * P,
         NEW m \in formatMoney(p, P), NEW n \in formatMoney(c, C)
  PROVE  n >= m \/ (n = m - 1 /\ 2 * p = (2 * m - 1) * P)
  <1>1. /\ m \in Int /\ 2 * (p - m * P) <= P /\ 2 * (m * P - p) <= P
        /\ n \in Int /\ 2 * (c - n * C) <= C /\ 2 * (n * C - c) <= C
    BY ShownNear
  <1>2. SUFFICES ASSUME n < m PROVE n = m - 1 /\ 2 * p = (2 * m - 1) * P
    BY <1>1
  <1> DEFINE D == P * C
  <1>3. D \in Nat \ {0}
    OBVIOUS
  <1>4. 2 * (m * D) - 2 * (p * C) <= D
    <2>1. (2 * (m * P - p)) * C <= P * C
      BY <1>1, MulOrder
    <2>2. (2 * (m * P - p)) * C = 2 * (m * (P * C)) - 2 * (p * C)
      BY <1>1
    <2> QED BY <2>1, <2>2
  <1>5. 2 * (c * P) - 2 * (n * D) <= D
    <2>1. (2 * (c - n * C)) * P <= C * P
      BY <1>1, MulOrder
    <2>2. (2 * (c - n * C)) * P = 2 * (c * P) - 2 * (n * (P * C))
      BY <1>1
    <2>3. C * P = P * C
      OBVIOUS
    <2> QED BY <2>1, <2>2, <2>3
  <1>6. m * D - n * D = (m - n) * D /\ m * D \in Int /\ n * D \in Int
    BY <1>1, <1>3
  <1>7. p * C \in Int /\ c * P \in Int
    OBVIOUS
  <1>8. (m - n) * D <= D
    <2> HIDE DEF D
    <2> QED BY <1>3, <1>4, <1>5, <1>6, <1>7
  <1>9. m - n = 1
    <2>1. CASE m - n >= 2
      <3>1. 2 * D <= (m - n) * D
        BY <1>1, <1>3, <2>1, MulOrder
      <3> HIDE DEF D
      <3> QED BY <1>1, <1>3, <1>6, <1>8, <3>1
    <2> QED BY <1>1, <1>2, <2>1
  <1>10. 2 * (p * C) >= (2 * m - 1) * D
    <2>1. (2 * m - 1) * D = 2 * (m * D) - D
      BY <1>1, <1>3
    <2> HIDE DEF D
    <2> QED BY <1>3, <1>4, <1>6, <1>7, <2>1
  <1>11. 2 * (p * C) <= (2 * m - 1) * D
    <2>1. (2 * m - 1) * D = 2 * (n * D) + D
      <3>1. m * D = n * D + D
        BY <1>1, <1>3, <1>9
      <3>2. (2 * m - 1) * D = 2 * (m * D) - D
        BY <1>1, <1>3
      <3> HIDE DEF D
      <3> QED BY <1>3, <1>6, <3>1, <3>2
    <2> HIDE DEF D
    <2> QED BY <1>3, <1>5, <1>6, <1>7, <2>1
  <1>12. 2 * p = (2 * m - 1) * P
    <2>1. (2 * p) * C = ((2 * m - 1) * P) * C
      <3>1. (2 * p) * C = 2 * (p * C) /\ ((2 * m - 1) * P) * C = (2 * m - 1) * D
        BY <1>1
      <3>2. (2 * m - 1) * D \in Int
        BY <1>1, <1>3
      <3> HIDE DEF D
      <3> QED BY <1>7, <1>10, <1>11, <3>1, <3>2
    <2>3. 2 * p \in Int /\ (2 * m - 1) * P \in Int
      BY <1>1
    <2> QED BY <2>1, <2>3, MulCancel
  <1> QED BY <1>1, <1>9, <1>12

LEMMA WaitingCosts ==
  ASSUME TypeOK, OrderInv, WaitInv
  PROVE  WaitingNeverCheaper
  <1> SUFFICES ASSUME preview # Null, charged # Null, preview.slot
               PROVE  \/ charged.cents >= preview.cents
                      \/ /\ charged.cents = preview.cents - 1
                         /\ 2 * preview.total = (2 * preview.cents - 1) * preview.scale
    BY DEF WaitingNeverCheaper
  <1> DEFINE A == charged.used
             B == preview.used
  <1>1. preview \in Prices /\ charged \in Prices
    BY DEF Prices
  <1>2. Explained(preview) /\ Explained(charged)
    BY <1>1 DEF OrderInv
  <1>3. A \subseteq B /\ Current(preview, {}) /\ Current(charged, {})
    BY DEF WaitInv
  <1>4. B \subseteq rules /\ B \subseteq RuleIds /\ IsFiniteSet(B)
    BY <1>2, FS_Subset DEF Explained, OrderInv, TypeOK
  <1>5. \A id \in B : Parses(RuleOf[id])
    BY <1>2 DEF Explained
  <1>6. \A id \in B \ A : RuleOf[id].ruleType = "ADVANCE_BOOKING"
    BY <1>3, <1>4 DEF Current, Lasting
  <1>7. /\ \A id \in B : Factor[id] \in Nat /\ Hundred[id] = 100
        /\ \A id \in B \ A : Factor[id] <= 100
    BY <1>4, <1>5, <1>6, FactorBound
  <1>8. Subtotal \in Nat
    BY PricingAssumption, SubtotalType DEF TypeOK
  <1> HIDE DEF A, B
  <1>9. Times(Subtotal, Factor, B) * Times(1, Hundred, A)
          <= Times(Subtotal, Factor, A) * Times(1, Hundred, B)
    BY <1>3, <1>4, <1>7, <1>8, TimesCompare DEF A, B
  <1>10. preview.total * charged.scale <= charged.total * preview.scale
    BY <1>2, <1>9 DEF Explained, A, B
  <1>11. /\ preview.total \in Nat /\ preview.scale \in Nat \ {0}
         /\ charged.total \in Nat /\ charged.scale \in Nat \ {0}
    BY <1>1 DEF TypeOK, Price
  <1>12. /\ preview.cents \in formatMoney(preview.total, preview.scale)
         /\ charged.cents \in formatMoney(charged.total, charged.scale)
    BY <1>1 DEF WaitInv
  <1> QED BY <1>10, <1>11, <1>12, ShownOrder

\* A reservation is never charged less than an earlier detail showed for a slot, whatever
\* the rules and however many days passed, but for the cent of a tie.
THEOREM WaitingDoesNotPay == Spec => []WaitingNeverCheaper
  <1>1. Init => WaitInv
    BY DEF Init, WaitInv, Prices
  <1> QED BY <1>1, PricingTypeInit, PricingTypeStep, OrderInit, OrderStep, WaitStep, WaitingCosts,
             PTL DEF Spec

=============================================================================
