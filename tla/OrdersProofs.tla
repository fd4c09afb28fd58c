---------------------------- MODULE OrdersProofs ----------------------------
(***************************************************************************)
(* Proofs about the order operations, for every set of obligations,        *)
(* workers, request ids and amounts, and every terms of the offer:         *)
(* the payment policy, the inductive invariant OrderInv, what follows from *)
(* it (log, effects, acceptance, deadline, disposition, qualification,     *)
(* refund), and the refinement of the life cycle.                          *)
(***************************************************************************)
EXTENDS OrderPolicyCheck, OrderProperties, FiniteSetTheorems, TLAPS

-----------------------------------------------------------------------------
(* The payment policy, for every amount, price and quantity.               *)

(* Truncating division, as the proofs use it: the quotient is a natural    *)
(* number whose product with the divisor does not exceed the dividend.     *)
LEMMA Quotient ==
  ASSUME NEW a \in Nat, NEW b \in Nat \ {0}
  PROVE  /\ a \div b \in Nat
         /\ (a \div b) * b <= a
         /\ a < (a \div b) * b + b
  OBVIOUS

LEMMA MonotoneProduct ==
  ASSUME NEW a \in Nat, NEW b \in Nat, NEW c \in Nat, a <= b
  PROVE  /\ a * c \in Nat
         /\ a * c <= b * c
  OBVIOUS

-----------------------------------------------------------------------------
(* The JavaScript threshold (ceiling of the required amount) and the SQL   *)
(* threshold (both sides multiplied out) accept the same payments.         *)
THEOREM ThresholdFormsAgree ==
  \A sum, total \in Nat, bps \in Nat :
    sum >= requiredMinor(total, bps) <=> Reaches(sum, total, bps)
<1> TAKE sum, total \in Nat, bps \in Nat
<1> DEFINE required == total * bps
<1>1. required \in Nat
  OBVIOUS
<1>2. \A r \in Nat : sum >= (r + 9999) \div 10000 <=> sum * 10000 >= r
  OBVIOUS
<1> QED
  BY <1>1, <1>2 DEF requiredMinor, Reaches

(* Hence the JavaScript policy and the SQL CASE put every payment total in *)
(* the same tier.                                                          *)
THEOREM TierFormsAgreeAlways ==
  ASSUME NEW sum \in Nat, NEW total \in Nat, NEW bps \in Nat
  PROVE  Tier(sum, total, bps) = qualificationState(total, sum, bps)
<1> DEFINE js(b) == sum >= requiredMinor(total, b)
           sql(b) == Reaches(sum, total, b)
<1>1. \A b \in Nat : js(b) <=> sql(b)
  BY ThresholdFormsAgree
<1>2. /\ CURRENT_BATCH_BPS \in Nat
      /\ PRORATED_FULFILLMENT_BPS \in Nat
      /\ FULL_PAYMENT_BPS \in Nat
  BY DEF CURRENT_BATCH_BPS, PRORATED_FULFILLMENT_BPS, FULL_PAYMENT_BPS
<1>3. /\ js(FULL_PAYMENT_BPS) <=> sql(FULL_PAYMENT_BPS)
      /\ js(PRORATED_FULFILLMENT_BPS) <=> sql(PRORATED_FULFILLMENT_BPS)
      /\ js(CURRENT_BATCH_BPS) <=> sql(CURRENT_BATCH_BPS)
      /\ js(bps) <=> sql(bps)
  <2> HIDE DEF js, sql
  <2> QED
    BY <1>1, <1>2
<1> QED
  BY <1>3, Zenon DEF Tier, qualificationState

-----------------------------------------------------------------------------
(* Goods: no more than committed, and paid for.                            *)
LEMMA FulfillQtyBound ==
  ASSUME NEW sum \in Nat, NEW price \in Nat, NEW quantity \in Nat \ {0}
  PROVE  /\ FulfillQty(sum, price, quantity) \in Nat
         /\ FulfillQty(sum, price, quantity) <= quantity
         /\ sum < price => price * FulfillQty(sum, price, quantity) <= quantity * sum
<1>1. CASE sum >= price
  BY <1>1 DEF FulfillQty
<1>2. CASE sum < price
  <2> DEFINE q == (quantity * sum) \div price
  <2>1. /\ price \in Nat \ {0}
        /\ quantity * sum \in Nat
        /\ quantity * sum <= quantity * price
    BY <1>2
  <2>2. q \in Nat /\ q * price <= quantity * sum
    BY <2>1, Quotient
  <2>3. q <= quantity
    <3>1. SUFFICES ASSUME q >= quantity + 1 PROVE FALSE
      BY <2>2
    <3>2. (quantity + 1) * price <= q * price
      BY <2>1, <2>2, <3>1, MonotoneProduct
    <3> QED
      BY <2>1, <2>2, <3>2
  <2>4. price * q <= quantity * sum /\ price * 0 <= quantity * sum
    BY <2>1, <2>2
  <2> QED
    BY <1>2, <2>2, <2>3, <2>4 DEF FulfillQty
<1> QED
  BY <1>1, <1>2

(* Money kept for goods: a natural number, never more than was paid.       *)
LEMMA AppliedBound ==
  ASSUME NEW sum \in Nat, NEW price \in Nat, NEW quantity \in Nat \ {0}, NEW tier \in Tiers
  PROVE  /\ Applied(sum, price, quantity, tier) \in Nat
         /\ Applied(sum, price, quantity, tier) <= sum
<1> DEFINE fulfil == FulfillQty(sum, price, quantity)
           worth == (price * fulfil) \div quantity
<1>1. fulfil \in Nat /\ price * fulfil \in Nat
  BY FulfillQtyBound
<1>2. worth \in Nat
  BY <1>1, Quotient
<1> QED
  BY <1>2 DEF Applied

(* What is applied and what is credited are exactly what was paid, except  *)
(* for a rescheduled batch (carried forward whole) and a full payment.     *)
THEOREM PrepaidBalanceConserves ==
  ASSUME NEW sum \in Nat, NEW price \in Nat, NEW quantity \in Nat \ {0}, NEW tier \in Tiers
  PROVE  /\ PrepaidBalance(sum, price, quantity, tier) \in Nat
         /\ PrepaidBalance(sum, price, quantity, tier) <= sum
         /\ PrepaidBalance(sum, price, quantity, tier) > 0 =>
              Applied(sum, price, quantity, tier)
                + PrepaidBalance(sum, price, quantity, tier) = sum
BY AppliedBound DEF PrepaidBalance

LEMMA ReleaseQtyBound ==
  ASSUME NEW sum \in Nat, NEW price \in Nat, NEW quantity \in Nat \ {0}, NEW tier \in Tiers
  PROVE  /\ ReleaseQty(sum, price, quantity, tier) \in Nat
         /\ ReleaseQty(sum, price, quantity, tier) <= quantity
<1>1. /\ FulfillQty(sum, price, quantity) \in Nat
      /\ FulfillQty(sum, price, quantity) <= quantity
  BY FulfillQtyBound
<1> QED
  BY <1>1 DEF ReleaseQty

(* The goods a tier plans for and the goods it releases add up to the      *)
(* commitment, except for a rescheduled batch, which releases nothing.     *)
THEOREM GoodsAddUp ==
  ASSUME NEW sum \in Nat, NEW price \in Nat, NEW quantity \in Nat \ {0}, NEW bps
  PROVE  LET tier    == Tier(sum, price, bps)
             fulfil  == FulfillQty(sum, price, quantity)
             release == ReleaseQty(sum, price, quantity, tier)
         IN  /\ fulfil \in Nat /\ release \in Nat
             /\ tier = "FULLY_PAID" => fulfil = quantity /\ release = 0
             /\ tier = "PRORATED_FULFILLMENT" => fulfil + release = quantity
             /\ tier = "CURRENT_BATCH_RESCHEDULE" => fulfil = 0 /\ release = 0
             /\ tier \in {"UNQUALIFIED", "DEMAND_QUALIFIED"} => fulfil = 0 /\ release = quantity
<1> DEFINE tier    == Tier(sum, price, bps)
           fulfil  == FulfillQty(sum, price, quantity)
           release == ReleaseQty(sum, price, quantity, tier)
<1>1. fulfil \in Nat /\ fulfil <= quantity
  BY FulfillQtyBound
<1>2. Reaches(sum, price, FULL_PAYMENT_BPS) <=> sum >= price
  BY DEF Reaches, FULL_PAYMENT_BPS
<1>3. tier = "FULLY_PAID" <=> sum >= price
  BY <1>2 DEF Tier
<1>4. tier # "FULLY_PAID" /\ tier # "PRORATED_FULFILLMENT" =>
        ~(sum >= price) /\ ~Reaches(sum, price, PRORATED_FULFILLMENT_BPS)
  BY <1>2 DEF Tier
<1>5. /\ tier = "FULLY_PAID" => fulfil = quantity
      /\ tier # "FULLY_PAID" /\ tier # "PRORATED_FULFILLMENT" => fulfil = 0
  BY <1>3, <1>4 DEF FulfillQty
<1>6. release = IF tier \in {"UNQUALIFIED", "DEMAND_QUALIFIED"} THEN quantity
                ELSE IF tier = "PRORATED_FULFILLMENT" THEN quantity - fulfil ELSE 0
  BY DEF ReleaseQty
<1> HIDE DEF tier, fulfil, release
<1> QED
  BY <1>1, <1>5, <1>6 DEF tier, fulfil, release

LEMMA TierType ==
  ASSUME NEW sum, NEW price, NEW bps
  PROVE  Tier(sum, price, bps) \in Tiers
BY DEF Tier, Tiers

(* A refund is a natural number, within the settled amount and within the  *)
(* price share of the affected goods (rounded half up).                    *)
LEMMA RefundMinorBound ==
  ASSUME NEW price \in Nat, NEW quantity \in Nat \ {0}, NEW affected \in Nat,
         NEW settled \in Nat
  PROVE  /\ RefundMinor(price, quantity, affected, settled) \in Nat
         /\ RefundMinor(price, quantity, affected, settled) <= settled
         /\ RefundMinor(price, quantity, affected, settled) * (2 * quantity)
              <= 2 * price * affected + quantity
<1> DEFINE share == (2 * price * affected + quantity) \div (2 * quantity)
           r == RefundMinor(price, quantity, affected, settled)
<1>1. /\ 2 * price * affected + quantity \in Nat
      /\ 2 * quantity \in Nat \ {0}
  OBVIOUS
<1>2. /\ share \in Nat
      /\ share * (2 * quantity) <= 2 * price * affected + quantity
  BY <1>1, Quotient
<1>3. r \in Nat /\ r <= share /\ r <= settled
  BY <1>2 DEF RefundMinor
<1>4. r * (2 * quantity) <= share * (2 * quantity)
  BY <1>1, <1>2, <1>3, MonotoneProduct
<1> HIDE DEF r, share
<1>5. r * (2 * quantity) \in Nat /\ share * (2 * quantity) \in Nat
  BY <1>1, <1>2, <1>3
<1>6. r * (2 * quantity) <= 2 * price * affected + quantity
  BY <1>1, <1>2, <1>4, <1>5
<1> QED
  BY <1>3, <1>6 DEF r

COROLLARY RefundMinorWithinSettled ==
  ASSUME NEW price \in Nat, NEW quantity \in Nat \ {0}, NEW affected \in Nat,
         NEW settled \in Nat
  PROVE  /\ RefundMinor(price, quantity, affected, settled) \in Nat
         /\ RefundMinor(price, quantity, affected, settled) <= settled
BY RefundMinorBound

-----------------------------------------------------------------------------
(* The policy, order by order and payment by payment.                      *)

LEMMA QuotientMonotone ==
  ASSUME NEW a \in Nat, NEW b \in Nat, NEW c \in Nat \ {0}, a <= b
  PROVE  a \div c <= b \div c
<1>1. /\ a \div c \in Nat /\ (a \div c) * c <= a
      /\ b \div c \in Nat /\ b < (b \div c) * c + c
  BY Quotient
<1>2. SUFFICES ASSUME (b \div c) + 1 <= a \div c PROVE FALSE
  BY <1>1
<1> DEFINE q == a \div c
           r == b \div c
<1> HIDE DEF q, r
<1>3. ((r + 1) * c <= q * c) /\ (r + 1) * c = r * c + c
  BY <1>1, <1>2, MonotoneProduct DEF q, r
<1>4. r * c \in Nat /\ q * c \in Nat
  BY <1>1 DEF q, r
<1> QED
  BY <1>1, <1>3, <1>4 DEF q, r

(* A larger total is no worse in tier, goods and applied money.            *)
THEOREM MorePaidIsNoWorse ==
  ASSUME NEW low \in Nat, NEW high \in Nat, low <= high,
         NEW price \in Nat, NEW quantity \in Nat \ {0}, NEW bps \in Nat
  PROVE  LET t == Tier(low, price, bps)
             u == Tier(high, price, bps)
         IN  /\ Rank(u) >= Rank(t)
             /\ FulfillQty(high, price, quantity) >= FulfillQty(low, price, quantity)
             /\ Applied(high, price, quantity, u) >= Applied(low, price, quantity, t)
<1> DEFINE t == Tier(low, price, bps)
           u == Tier(high, price, bps)
           f == FulfillQty(low, price, quantity)
           g == FulfillQty(high, price, quantity)
<1>1. \A b \in Nat : Reaches(low, price, b) => Reaches(high, price, b)
  BY DEF Reaches
<1>2. /\ FULL_PAYMENT_BPS \in Nat /\ PRORATED_FULFILLMENT_BPS \in Nat
      /\ CURRENT_BATCH_BPS \in Nat
  BY DEF FULL_PAYMENT_BPS, PRORATED_FULFILLMENT_BPS, CURRENT_BATCH_BPS
<1>3. /\ Rank("UNQUALIFIED") = 0 /\ Rank("DEMAND_QUALIFIED") = 1
      /\ Rank("CURRENT_BATCH_RESCHEDULE") = 2 /\ Rank("PRORATED_FULFILLMENT") = 3
      /\ Rank("FULLY_PAID") = 4
  BY DEF Rank
<1>4. Rank(u) >= Rank(t)
  <2>1. /\ Reaches(low, price, FULL_PAYMENT_BPS) => Reaches(high, price, FULL_PAYMENT_BPS)
        /\ Reaches(low, price, PRORATED_FULFILLMENT_BPS) =>
             Reaches(high, price, PRORATED_FULFILLMENT_BPS)
        /\ Reaches(low, price, CURRENT_BATCH_BPS) => Reaches(high, price, CURRENT_BATCH_BPS)
        /\ Reaches(low, price, bps) => Reaches(high, price, bps)
    BY <1>1, <1>2
  <2> QED
    BY <1>3, <2>1 DEF Tier
<1>5. f \in Nat /\ f <= quantity /\ g \in Nat /\ g <= quantity
  BY FulfillQtyBound
<1>6. g >= f
  <2>1. CASE high >= price
    BY <1>5, <2>1 DEF FulfillQty
  <2>2. CASE high < price /\ Reaches(low, price, PRORATED_FULFILLMENT_BPS)
    <3>1. price \in Nat \ {0} /\ low < price
      BY <2>2
    <3>2. /\ quantity * low \in Nat /\ quantity * high \in Nat
          /\ quantity * low <= quantity * high
      BY MonotoneProduct
    <3>3. (quantity * low) \div price <= (quantity * high) \div price
      BY <3>1, <3>2, QuotientMonotone
    <3>4. Reaches(high, price, PRORATED_FULFILLMENT_BPS)
      BY <1>1, <1>2, <2>2
    <3>5. f = (quantity * low) \div price /\ g = (quantity * high) \div price
      BY <2>2, <3>1, <3>4 DEF FulfillQty
    <3> HIDE DEF f, g
    <3> QED
      BY <1>5, <3>3, <3>5
  <2>3. CASE high < price /\ ~Reaches(low, price, PRORATED_FULFILLMENT_BPS)
    <3>1. f = 0
      BY <2>3 DEF FulfillQty
    <3> QED
      BY <1>5, <3>1
  <2> QED
    BY <2>1, <2>2, <2>3
<1>7. Applied(high, price, quantity, u) >= Applied(low, price, quantity, t)
  <2> DEFINE v == (price * f) \div quantity
             w == (price * g) \div quantity
  <2>1. /\ price * f \in Nat /\ price * g \in Nat /\ price * f <= price * g
    BY <1>5, <1>6, MonotoneProduct
  <2>2. v \in Nat /\ w \in Nat /\ v <= w
    BY <2>1, Quotient, QuotientMonotone
  <2>3. /\ Applied(low, price, quantity, t) =
             IF t = "FULLY_PAID" THEN low
             ELSE IF t # "PRORATED_FULFILLMENT" THEN 0 ELSE IF low < v THEN low ELSE v
        /\ Applied(high, price, quantity, u) =
             IF u = "FULLY_PAID" THEN high
             ELSE IF u # "PRORATED_FULFILLMENT" THEN 0 ELSE IF high < w THEN high ELSE w
    BY DEF Applied
  <2>4. t \in Tiers /\ u \in Tiers
    BY TierType
  <2> HIDE DEF t, u, v, w
  <2> QED
    BY <1>3, <1>4, <2>2, <2>3, <2>4 DEF Tiers
<1> QED
  BY <1>4, <1>6, <1>7

(* What is kept as applied pays for no more than the goods planned, and a  *)
(* prorated plan is for fewer goods than committed.                        *)
LEMMA ProratedIsPaid ==
  ASSUME NEW sum \in Nat, NEW price \in Nat, NEW quantity \in Nat \ {0}, NEW bps,
         Tier(sum, price, bps) = "PRORATED_FULFILLMENT"
  PROVE  /\ Applied(sum, price, quantity, "PRORATED_FULFILLMENT") * quantity
              <= price * FulfillQty(sum, price, quantity)
         /\ FulfillQty(sum, price, quantity) < quantity
<1> DEFINE f == FulfillQty(sum, price, quantity)
           worth == (price * f) \div quantity
           applied == Applied(sum, price, quantity, "PRORATED_FULFILLMENT")
<1>1. sum < price
  BY DEF Tier, Reaches, FULL_PAYMENT_BPS
<1>2. f \in Nat /\ f <= quantity /\ price * f <= quantity * sum /\ price * f \in Nat
  BY <1>1, FulfillQtyBound
<1>3. worth \in Nat /\ worth * quantity <= price * f
  BY <1>2, Quotient
<1>4. applied = IF sum < worth THEN sum ELSE worth
  BY DEF Applied
<1>5. f # quantity
  <2>1. quantity * sum < quantity * price
    BY <1>1
  <2> QED
    BY <1>2, <2>1
<1> HIDE DEF f, worth, applied
<1>6. applied \in Nat /\ applied <= worth
  BY <1>3, <1>4
<1>7. applied * quantity <= worth * quantity /\ applied * quantity \in Nat
  BY <1>3, <1>6, MonotoneProduct
<1>8. worth * quantity \in Nat
  BY <1>3
<1>9. applied * quantity <= price * f
  BY <1>2, <1>3, <1>7, <1>8
<1> QED
  BY <1>2, <1>5, <1>9 DEF f, applied

(* What the deadline statement credits is what the JavaScript disposition  *)
(* names, and applied, credited and carried value add up to what was paid. *)
LEMMA DispositionsAgree ==
  ASSUME NEW sum \in Nat, NEW price \in Nat, NEW quantity \in Nat \ {0}, NEW bps \in Nat
  PROVE  \A tier, applied, js :
           /\ tier = Tier(sum, price, bps)
           /\ applied = Applied(sum, price, quantity, tier)
           /\ js = deadlineDisposition(price, sum, bps, applied)
           => /\ js.prepaid = PrepaidBalance(sum, price, quantity, tier)
              /\ js.applied + js.prepaid + js.carried = sum
<1> TAKE tier, applied, js
<1> HAVE /\ tier = Tier(sum, price, bps)
         /\ applied = Applied(sum, price, quantity, tier)
         /\ js = deadlineDisposition(price, sum, bps, applied)
<1>1. qualificationState(price, sum, bps) = tier
  BY TierFormsAgreeAlways
<1>2. tier \in Tiers
  BY TierType
<1>3. applied \in Nat /\ applied <= sum
  BY <1>2, AppliedBound
<1>4. (IF applied < sum THEN applied ELSE sum) = applied
  BY <1>3
<1>5. PrepaidBalance(sum, price, quantity, tier) =
        IF tier \in {"UNQUALIFIED", "DEMAND_QUALIFIED", "PRORATED_FULFILLMENT"}
        THEN sum - applied ELSE 0
  BY DEF PrepaidBalance
<1>6. tier \in {"UNQUALIFIED", "DEMAND_QUALIFIED"} => applied = 0
  BY DEF Applied
<1>7. CASE tier = "FULLY_PAID"
  <2>1. js = [applied |-> sum, prepaid |-> 0, carried |-> 0]
    BY <1>1, <1>4, <1>7 DEF deadlineDisposition
  <2> QED
    BY <1>5, <1>7, <2>1
<1>8. CASE tier = "PRORATED_FULFILLMENT"
  <2>1. js = [applied |-> applied, prepaid |-> sum - applied, carried |-> 0]
    BY <1>1, <1>4, <1>8 DEF deadlineDisposition
  <2> QED
    BY <1>3, <1>5, <1>8, <2>1
<1>9. CASE tier = "CURRENT_BATCH_RESCHEDULE"
  <2>1. js = [applied |-> 0, prepaid |-> 0, carried |-> sum]
    BY <1>1, <1>4, <1>9 DEF deadlineDisposition
  <2> QED
    BY <1>5, <1>9, <2>1
<1>10. CASE tier \in {"UNQUALIFIED", "DEMAND_QUALIFIED"}
  <2>1. js = [applied |-> 0, prepaid |-> sum, carried |-> 0]
    BY <1>1, <1>4, <1>10 DEF deadlineDisposition
  <2> QED
    BY <1>5, <1>6, <1>10, <2>1
<1> QED
  BY <1>2, <1>7, <1>8, <1>9, <1>10 DEF Tiers

PolicyTypes == order \in [price : Nat, quantity : Nat \ {0}, bps : Nat, paid : Nat]

LEMMA PolicyTypesStep == PolicyTypes /\ [PayOneMinor]_order => PolicyTypes'
BY DEF PolicyTypes, PayOneMinor

LEMMA PolicyTypesHold == PolicySpec => []PolicyTypes
<1>1. PolicyInit => PolicyTypes
  <2>1. BasisPoints \subseteq Nat
    BY DEF BasisPoints
  <2>2. Prices \subseteq Nat /\ Quantities \subseteq Nat \ {0} /\ Bps \subseteq Nat
    BY <2>1, PolicyAssumption
  <2>3. ASSUME NEW p \in Prices, NEW q \in Quantities, NEW b \in Bps
        PROVE  [price |-> p, quantity |-> q, bps |-> b, paid |-> 0] \in
                 [price : Nat, quantity : Nat \ {0}, bps : Nat, paid : Nat]
    BY <2>2
  <2>4. PolicyInit => \E p \in Prices, q \in Quantities, b \in Bps :
                        order = [price |-> p, quantity |-> q, bps |-> b, paid |-> 0]
    BY DEF PolicyInit
  <2> QED
    BY <2>3, <2>4 DEF PolicyTypes
<1> QED
  BY <1>1, PolicyTypesStep, PTL DEF PolicySpec

(* At every payment total of every order, the JavaScript and the SQL form  *)
(* of the policy give the same tier and the same disposition, and goods    *)
(* and money match.                                                        *)
THEOREM FormsAlwaysAgree == PolicySpec => []FormsAgree
<1>1. PolicyTypes => FormsAgree
  <2> SUFFICES ASSUME PolicyTypes PROVE FormsAgree
    OBVIOUS
  <2>1. /\ order.price \in Nat /\ order.quantity \in Nat \ {0}
        /\ order.bps \in Nat /\ order.paid \in Nat
    BY DEF PolicyTypes
  <2>2. TierFormsAgree
    BY <2>1, TierFormsAgreeAlways DEF TierFormsAgree, TierNow
  <2>3. DispositionFormsAgree
    <3> DEFINE js == deadlineDisposition(order.price, order.paid, order.bps, AppliedNow)
    <3>1. ASSUME NEW tier, NEW applied, NEW d,
                 tier = Tier(order.paid, order.price, order.bps),
                 applied = Applied(order.paid, order.price, order.quantity, tier),
                 d = deadlineDisposition(order.price, order.paid, order.bps, applied)
          PROVE  /\ d.prepaid = PrepaidBalance(order.paid, order.price, order.quantity, tier)
                 /\ d.applied + d.prepaid + d.carried = order.paid
      BY <2>1, <3>1, DispositionsAgree
    <3>2. /\ js.prepaid = PrepaidNow
          /\ js.applied + js.prepaid + js.carried = order.paid
      BY <3>1 DEF TierNow, AppliedNow, PrepaidNow
    <3> QED
      BY <3>2 DEF DispositionFormsAgree
  <2>4. TierNow # "CURRENT_BATCH_RESCHEDULE" => FulfilNow + ReleaseNow = order.quantity
    <3>1. TierNow \in Tiers
      BY TierType DEF TierNow
    <3> QED
      BY <2>1, <3>1, GoodsAddUp DEF Tiers, TierNow, FulfilNow, ReleaseNow
  <2>5. TierNow = "PRORATED_FULFILLMENT" => /\ AppliedNow * order.quantity <= order.price * FulfilNow
                                            /\ FulfilNow < order.quantity
    BY <2>1, ProratedIsPaid DEF TierNow, FulfilNow, AppliedNow
  <2> QED
    BY <2>2, <2>3, <2>4, <2>5 DEF FormsAgree, GoodsMatchMoney
<1> QED
  BY <1>1, PolicyTypesHold, PTL

(* Paying more never lowers the tier, the goods or the applied money.      *)
THEOREM PayingMoreIsSafe == PolicySpec => PayingMoreNeverHurts
<1> DEFINE Better == /\ Rank(TierNow') >= Rank(TierNow)
                     /\ FulfilNow' >= FulfilNow
                     /\ AppliedNow' >= AppliedNow
<1>1. PolicyTypes /\ [PayOneMinor]_order => [Better]_order
  <2> SUFFICES ASSUME PolicyTypes, PayOneMinor PROVE Better
    OBVIOUS
  <2>1. /\ order.price \in Nat /\ order.quantity \in Nat \ {0}
        /\ order.bps \in Nat /\ order.paid \in Nat
    BY DEF PolicyTypes
  <2>2. /\ order'.price = order.price /\ order'.quantity = order.quantity
        /\ order'.bps = order.bps /\ order'.paid = order.paid + 1
    BY DEF PolicyTypes, PayOneMinor
  <2>3. order'.paid \in Nat /\ order.paid <= order'.paid
    BY <2>1, <2>2
  <2> QED
    BY <2>1, <2>2, <2>3, MorePaidIsNoWorse DEF TierNow, FulfilNow, AppliedNow
<1>2. PolicySpec => [][Better]_order
  BY <1>1, PolicyTypesHold, PTL DEF PolicySpec
<1> QED
  BY <1>2 DEF PayingMoreNeverHurts

USE DEF orderRows, deadlineRows, deliveryRows, logRows

-----------------------------------------------------------------------------
(* Types of what the statements compute.                                   *)

LEMMA NoRowTypes ==
  /\ NoCommitment \in Commitments
  /\ NoPayment \in Payments
  /\ NoLedger \in Ledgers
  /\ NoPlan \in Plans
  /\ NoFulfillment \in Fulfillments
  /\ NoException \in Exceptions
  /\ NoRemedy \in Remedies
BY DEF NoCommitment, NoPayment, NoLedger, NoPlan, NoFulfillment, NoException, NoRemedy,
       Commitments, Payments, Ledgers, Plans, Fulfillments, Exceptions, Remedies, Tiers

LEMMA OfferTypes ==
  ASSUME NEW t \in OfferTerms
  PROVE  /\ t.open \in BOOLEAN
         /\ t.price \in Nat
         /\ t.quantity \in Nat \ {0}
         /\ t.bps \in BasisPoints
         /\ t.capacity \in Nat \cup {NoCapacity}
BY OrdersAssumption DEF OrdersAssumption

(* The op of a call tells its shape. *)
LEMMA CallTypes ==
  ASSUME NEW c \in Calls
  PROVE  /\ c = Idle \/ c.op \in {"commit", "pay", "deadline", "ready", "authorize"}
         /\ c.op = "commit" => c \in CommitCalls
         /\ c.op = "pay" => c \in PayCalls
         /\ c.op = "deadline" => c \in DeadlineCalls
         /\ c.op = "ready" => c \in ReadyCalls
         /\ c.op = "authorize" => c \in AuthorizeCalls
BY DEF Calls, Idle, CommitCalls, PayCalls, DeadlineCalls, ReadyCalls, AuthorizeCalls

LEMMA IdleGrounded == CallGrounded(Idle) /\ Idle \in Calls
BY DEF CallGrounded, Idle, Calls

-----------------------------------------------------------------------------
(* The initial state.                                                      *)

LEMMA InitInv == Init => OrderInv
<1> SUFFICES ASSUME Init PROVE OrderInv
  OBVIOUS
<1>1. TypeOK
  <2>1. calls \in [Workers -> Calls]
    BY IdleGrounded DEF Init
  <2>2. /\ commitment \in [Obligations -> Commitments]
        /\ payments \in [PayIds -> Payments]
        /\ ledger \in [Obligations -> Ledgers]
        /\ plan \in [Obligations -> Plans]
        /\ fulfillment \in [Obligations -> Fulfillments]
        /\ exception \in [Obligations -> Exceptions]
        /\ remedy \in [Obligations -> Remedies]
    BY NoRowTypes DEF Init
  <2> QED
    BY <2>1, <2>2 DEF Init, TypeOK
<1>2. RowsGrounded
  <2>1. ASSUME NEW o \in Obligations PROVE Uncommitted(o)
    BY DEF Init, Uncommitted
  <2> QED
    BY <2>1 DEF RowsGrounded
<1>3. PaymentsGrounded
  BY DEF Init, PaymentsGrounded, NoPayment
<1>4. CallsGrounded
  BY IdleGrounded DEF Init, CallsGrounded
<1>5. DeliveryCoherent
  BY DEF Init, DeliveryCoherent, NoException, NoFulfillment, NoRemedy, NoCommitment
<1> QED
  BY <1>1, <1>2, <1>3, <1>4, <1>5 DEF OrderInv

-----------------------------------------------------------------------------
(* Steps that change no row: a request takes its snapshot, or ends.        *)

LEMMA CallStep ==
  ASSUME OrderInv, NEW w \in Workers, NEW c \in Calls, CallGrounded(c),
         calls' = [calls EXCEPT ![w] = c],
         UNCHANGED <<offer, due, orderRows, deadlineRows, deliveryRows, logRows>>
  PROVE  OrderInv'
<1>1. TypeOK'
  <2>1. calls' \in [Workers -> Calls]
    BY DEF OrderInv, TypeOK
  <2> QED
    BY <2>1 DEF OrderInv, TypeOK
<1>2. (RowsGrounded /\ PaymentsGrounded /\ DeliveryCoherent)'
  BY DEF OrderInv, RowsGrounded, Uncommitted, PaymentsGrounded, DeliveryCoherent
<1>3. CallsGrounded'
  <2> SUFFICES ASSUME NEW v \in Workers PROVE CallGrounded(calls[v])'
    BY DEF CallsGrounded
  <2>1. CallGrounded(calls'[v])
    BY DEF OrderInv, TypeOK, CallsGrounded
  <2> QED
    BY <2>1 DEF CallGrounded, ConfirmedRows
<1> QED
  BY <1>1, <1>2, <1>3 DEF OrderInv

LEMMA BeginCommitInv ==
  ASSUME OrderInv, NEW w \in Workers, NEW id \in Requests, BeginCommit(w, id)
  PROVE  OrderInv'
<1> DEFINE c == [op |-> "commit", id |-> id, allocated |-> allocated]
<1>1. c \in Calls
  BY DEF OrderInv, TypeOK, Calls, CommitCalls
<1>2. CallGrounded(c)
  BY DEF CallGrounded
<1> QED
  BY <1>1, <1>2, CallStep DEF BeginCommit, Begin, OrderInv, TypeOK

LEMMA BeginPayInv ==
  ASSUME OrderInv, NEW w \in Workers, NEW id \in PayIds, NEW o \in Obligations,
         NEW a \in Amounts, NEW s \in {"CONFIRMED", "FAILED"}, BeginPay(w, id, o, a, s)
  PROVE  OrderInv'
<1> DEFINE c == [op |-> "pay", id |-> id, obl |-> o, amount |-> a,
                 status |-> s, paid |-> paid[o], bps |-> offer.bps]
<1>1. c \in Calls
  BY OfferTypes DEF OrderInv, TypeOK, Calls, PayCalls
<1>2. CallGrounded(c)
  BY DEF CallGrounded, BeginPay, Open, OrderInv, TypeOK
<1> QED
  BY <1>1, <1>2, CallStep DEF BeginPay, Begin, OrderInv, TypeOK

LEMMA BeginDeadlineInv ==
  ASSUME OrderInv, NEW w \in Workers, NEW o \in Obligations, BeginDeadline(w, o)
  PROVE  OrderInv'
<1> DEFINE c == [op |-> "deadline", obl |-> o, paid |-> paid[o], bps |-> offer.bps]
<1>1. c \in Calls
  BY OfferTypes DEF OrderInv, TypeOK, Calls, DeadlineCalls
<1>2. CallGrounded(c)
  BY DEF CallGrounded, BeginDeadline, Unprocessed, Open, OrderInv, TypeOK
<1> QED
  BY <1>1, <1>2, CallStep DEF BeginDeadline, Begin, OrderInv, TypeOK

LEMMA ConfirmedRowsGrounded ==
  ASSUME OrderInv, NEW o \in Obligations
  PROVE  /\ ConfirmedRows(o) \subseteq PayIds
         /\ ConfirmedRows(o) # {} => commitment[o].state # "NONE"
BY DEF ConfirmedRows, OrderInv, PaymentsGrounded

LEMMA BeginReadyInv ==
  ASSUME OrderInv, NEW w \in Workers, NEW id \in Requests, NEW o \in Obligations,
         BeginReady(w, id, o)
  PROVE  OrderInv'
<1> DEFINE c == [op |-> "ready", id |-> id, obl |-> o, rows |-> ConfirmedRows(o)]
<1>1. c \in Calls
  BY ConfirmedRowsGrounded DEF Calls, ReadyCalls
<1>2. CallGrounded(c)
  BY ConfirmedRowsGrounded DEF CallGrounded, BeginReady
<1> QED
  BY <1>1, <1>2, CallStep DEF BeginReady, Begin, OrderInv, TypeOK

LEMMA BeginAuthorizeInv ==
  ASSUME OrderInv, NEW w \in Workers, NEW id \in Requests, NEW o \in Obligations,
         BeginAuthorize(w, id, o)
  PROVE  OrderInv'
<1> DEFINE c == [op |-> "authorize", id |-> id, obl |-> o, rows |-> ConfirmedRows(o)]
<1>1. c \in Calls
  BY ConfirmedRowsGrounded DEF Calls, AuthorizeCalls
<1>2. CallGrounded(c)
  BY ConfirmedRowsGrounded DEF CallGrounded, BeginAuthorize
<1> QED
  BY <1>1, <1>2, CallStep DEF BeginAuthorize, Begin, OrderInv, TypeOK

(* A call that is refused or abandoned.                                    *)
LEMMA CallEndsInv ==
  ASSUME OrderInv, NEW w \in Workers, RefuseCall(w) \/ AbandonCall(w)
  PROVE  OrderInv'
BY IdleGrounded, CallStep DEF RefuseCall, AbandonCall, Finish, OrderInv, TypeOK

-----------------------------------------------------------------------------
(* Steps of the offer and the clock.                                       *)

LEMMA OfferInv ==
  ASSUME OrderInv, OfferStep
  PROVE  OrderInv'
<1>1. /\ offer' \in OfferTerms
      /\ due' \in BOOLEAN
      /\ UNCHANGED <<orderRows, deadlineRows, deliveryRows, logRows, calls>>
  BY DEF OfferStep, DeadlinePasses, EditOffer, OrderInv, TypeOK
<1> QED
  BY <1>1 DEF OrderInv, TypeOK, RowsGrounded, Uncommitted, PaymentsGrounded, CallsGrounded,
              CallGrounded, ConfirmedRows, DeliveryCoherent

-----------------------------------------------------------------------------
(* Steps that write rows.  What other requests have in flight stays true   *)
(* as long as commitments, payments and exceptions never go away and the   *)
(* paid total never shrinks.                                               *)

RowsOnlyGrow ==
  \A o \in Obligations :
    /\ commitment[o].state # "NONE" => commitment'[o].state # "NONE"
    /\ ConfirmedRows(o) \subseteq ConfirmedRows(o)'
    /\ exception[o].kind # "NONE" => exception'[o].kind # "NONE"
    /\ paid[o] \in Nat /\ paid'[o] \in Nat /\ paid[o] <= paid'[o]

LEMMA CallStaysGrounded ==
  ASSUME NEW c \in Calls, CallGrounded(c), RowsOnlyGrow
  PROVE  CallGrounded(c)'
<1>1. /\ c.op \in {"pay", "deadline", "ready", "authorize"} => c.obl \in Obligations
      /\ c.op \in {"pay", "deadline"} => c.paid \in Nat
  BY CallTypes DEF PayCalls, DeadlineCalls, ReadyCalls, AuthorizeCalls
<1>2. /\ c.op \in {"pay", "deadline", "ready", "authorize"} => commitment'[c.obl].state # "NONE"
      /\ c.op = "authorize" => exception'[c.obl].kind # "NONE"
  BY <1>1 DEF CallGrounded, RowsOnlyGrow
<1>3. c.op \in {"ready", "authorize"} => c.rows \subseteq ConfirmedRows(c.obl)'
  BY <1>1, Zenon DEF CallGrounded, RowsOnlyGrow
<1>4. c.op \in {"pay", "deadline"} => c.paid <= paid'[c.obl]
  BY <1>1 DEF CallGrounded, RowsOnlyGrow
<1> QED
  BY <1>2, <1>3, <1>4, Zenon DEF CallGrounded

LEMMA CallsStayGrounded ==
  ASSUME CallsGrounded, calls \in [Workers -> Calls], RowsOnlyGrow,
         \A v \in Workers : calls'[v] \in {calls[v], Idle}
  PROVE  CallsGrounded'
<1> SUFFICES ASSUME NEW v \in Workers PROVE CallGrounded(calls[v])'
  BY Zenon DEF CallsGrounded
<1> DEFINE c == calls[v]
<1>1. CASE calls'[v] = calls[v]
  <2>1. c \in Calls /\ CallGrounded(c)
    BY DEF CallsGrounded
  <2>2. \A d \in Calls : CallGrounded(d) => CallGrounded(d)'
    BY CallStaysGrounded
  <2>3. PICK d \in Calls : d = c
    BY <2>1
  <2> HIDE DEF c
  <2>4. CallGrounded(d)'
    BY <2>1, <2>2, <2>3
  <2>5. calls'[v] = d
    BY <1>1, <2>3 DEF c
  <2> QED
    BY <2>4, <2>5 DEF CallGrounded, ConfirmedRows
<1>2. CASE calls'[v] = Idle
  BY <1>2 DEF CallGrounded, Idle
<1> QED
  BY <1>1, <1>2

(* An obligation with a row of any kind has its commitment.                *)
LEMMA HasCommitment ==
  ASSUME OrderInv, NEW o \in Obligations,
         \/ commitment[o].state # "NONE"
         \/ fulfillment[o].state # "NONE"
         \/ exception[o].kind # "NONE"
         \/ remedy[o].status # "NONE"
         \/ plan[o].state # "NONE"
  PROVE  commitment[o].state # "NONE" /\ commitment[o].quantity \in Nat \ {0}
BY DEF OrderInv, TypeOK, Commitments, RowsGrounded, Uncommitted, NoCommitment,
       NoFulfillment, NoException, NoRemedy, NoPlan

LEMMA AppendType ==
  ASSUME OrderInv, NEW o \in Obligations, NEW type \in EventTypes, Append(o, type)
  PROVE  /\ version' \in [Obligations -> Nat]
         /\ events' \subseteq [obl : Obligations, version : Nat, type : EventTypes]
<1>1. version[o] + 1 \in Nat
  BY DEF OrderInv, TypeOK
<1> QED
  BY <1>1 DEF Append, OrderInv, TypeOK

LEMMA CommitApplyInv ==
  ASSUME OrderInv, NEW w \in Workers, NEW o \in Obligations, CommitApply(w, o)
  PROVE  OrderInv'
<1> DEFINE row == [state |-> "OPEN", request |-> calls[w].id, price |-> offer.price,
                   quantity |-> offer.quantity, released |-> 0, qual |-> "UNQUALIFIED",
                   qualified |-> FALSE, fullyPaid |-> FALSE, processed |-> FALSE]
<1>1. calls[w] \in CommitCalls
  BY CallTypes DEF CommitApply, OrderInv, TypeOK
<1>2. row \in Commitments /\ row.state = "OPEN" /\ row.quantity > 0
  <2>1. /\ offer.price \in Nat
        /\ offer.quantity \in Nat \ {0}
        /\ calls[w].id \in Requests
    BY <1>1, OfferTypes DEF CommitCalls, OrderInv, TypeOK
  <2> QED
    BY <2>1 DEF Commitments, Tiers
<1>3. commitment' = [commitment EXCEPT ![o] = row]
  BY DEF CommitApply
<1>4. calls' = [calls EXCEPT ![w] = Idle]
  BY DEF CommitApply, Finish
<1>5. /\ UNCHANGED <<offer, due, payments, paid, deadlineRows, deliveryRows>>
      /\ version' = [version EXCEPT ![o] = 1]
      /\ events' = events \cup {[obl |-> o, version |-> 1, type |-> "PURCHASE_COMMITTED"]}
      /\ allocated' = allocated + offer.quantity
      /\ commandKeys' = commandKeys \cup {calls[w].id}
  BY DEF CommitApply, Claim
<1>6. Uncommitted(o)
  BY DEF CommitApply, OrderInv, RowsGrounded
<1> HIDE DEF row
<1>7. TypeOK'
  <2>1. commitment' \in [Obligations -> Commitments] /\ calls' \in [Workers -> Calls]
    BY <1>2, <1>3, <1>4, IdleGrounded DEF OrderInv, TypeOK
  <2>2. allocated' \in Nat /\ commandKeys' \subseteq Requests
    BY <1>1, <1>5, OfferTypes DEF OrderInv, TypeOK, CommitCalls
  <2>3. /\ version' \in [Obligations -> Nat]
        /\ events' \subseteq [obl : Obligations, version : Nat, type : EventTypes]
    BY <1>5 DEF OrderInv, TypeOK, EventTypes
  <2> QED
    BY <1>5, <2>1, <2>2, <2>3 DEF OrderInv, TypeOK
<1>8. RowsGrounded'
  BY <1>2, <1>3, <1>5 DEF OrderInv, TypeOK, RowsGrounded, Uncommitted
<1>9. PaymentsGrounded'
  BY <1>2, <1>3, <1>5 DEF OrderInv, TypeOK, PaymentsGrounded
<1>10. CallsGrounded'
  <2>1. RowsOnlyGrow
    BY <1>2, <1>3, <1>5 DEF RowsOnlyGrow, ConfirmedRows, OrderInv, TypeOK
  <2> QED
    BY <1>4, <2>1, CallsStayGrounded DEF OrderInv, TypeOK
<1>11. DeliveryCoherent'
  BY <1>2, <1>3, <1>5, <1>6 DEF OrderInv, TypeOK, DeliveryCoherent, Uncommitted, NoRemedy
<1> QED
  BY <1>7, <1>8, <1>9, <1>10, <1>11 DEF OrderInv

(* Payment and deadline touch only the qualification and the release.      *)
LEMMA QualifiedByRow ==
  ASSUME NEW call \in PayCalls, commitment[call.obl] \in Commitments
  PROVE  /\ QualifiedBy(call) \in Commitments
         /\ QualifiedBy(call).state = commitment[call.obl].state
         /\ QualifiedBy(call).price = commitment[call.obl].price
         /\ QualifiedBy(call).quantity = commitment[call.obl].quantity
<1>1. TierAfter(call) \in Tiers \cup {"DEADLINE_PROCESSED"}
  BY TierType DEF TierAfter, Commitments
<1> QED
  BY <1>1 DEF QualifiedBy, Commitments

LEMMA PayApplyInv ==
  ASSUME OrderInv, NEW w \in Workers, PayApply(w)
  PROVE  OrderInv'
<1> DEFINE call == calls[w]
           o == call.obl
           c == commitment[o]
           payment == [status |-> call.status, obl |-> o, amount |-> call.amount]
           row == QualifiedBy(call)
           added == IF call.status = "CONFIRMED" THEN call.amount ELSE 0
<1>1. /\ call \in PayCalls
      /\ o \in Obligations
      /\ call.id \in PayIds
  BY CallTypes DEF PayApply, OrderInv, TypeOK, PayCalls
<1>2. /\ call.amount \in Nat
      /\ call.status \in {"CONFIRMED", "FAILED"}
      /\ call.bps \in BasisPoints
      /\ call.paid \in Nat
  BY <1>1, OrdersAssumption DEF PayCalls, OrdersAssumption
<1>3. payment \in Payments /\ payment.status # "NONE" /\ payment.obl = o
  BY <1>1, <1>2 DEF Payments
<1>4. c \in Commitments /\ c.state = "OPEN"
  BY <1>1 DEF PayApply, Open, OrderInv, TypeOK
<1>5. row \in Commitments /\ row.state = c.state /\ row.quantity = c.quantity
  BY <1>1, <1>4, QualifiedByRow
<1>6. /\ commitment' = [commitment EXCEPT ![o] = row]
      /\ payments' = [payments EXCEPT ![call.id] = payment]
      /\ paid' = [paid EXCEPT ![o] = @ + added]
      /\ payments[call.id].status = "NONE"
      /\ Append(o, "PAYMENT_OBSERVED")
      /\ calls' = [calls EXCEPT ![w] = Idle]
      /\ UNCHANGED <<offer, due, allocated, deadlineRows, deliveryRows, commandKeys>>
  BY DEF PayApply, Finish
<1>7. added \in Nat
  BY <1>2
<1> HIDE DEF row, payment, added
<1>8. TypeOK'
  <2>1. /\ commitment' \in [Obligations -> Commitments]
        /\ payments' \in [PayIds -> Payments]
        /\ paid' \in [Obligations -> Nat]
        /\ calls' \in [Workers -> Calls]
    BY <1>1, <1>3, <1>5, <1>6, <1>7, IdleGrounded DEF OrderInv, TypeOK
  <2>2. /\ version' \in [Obligations -> Nat]
        /\ events' \subseteq [obl : Obligations, version : Nat, type : EventTypes]
    <3>1. "PAYMENT_OBSERVED" \in EventTypes
      BY DEF EventTypes
    <3> QED
      BY <1>1, <1>6, <3>1, AppendType
  <2> QED
    BY <1>6, <2>1, <2>2 DEF OrderInv, TypeOK
<1>9. RowsGrounded'
  BY <1>4, <1>5, <1>6, <1>1, HasCommitment DEF OrderInv, TypeOK, RowsGrounded, Uncommitted, Append
<1>10. PaymentsGrounded'
  BY <1>1, <1>3, <1>4, <1>5, <1>6 DEF OrderInv, TypeOK, PaymentsGrounded
<1>11. CallsGrounded'
  <2>1. RowsOnlyGrow
    BY <1>1, <1>4, <1>5, <1>6, <1>7 DEF RowsOnlyGrow, ConfirmedRows, OrderInv, TypeOK
  <2> QED
    BY <1>6, <2>1, CallsStayGrounded DEF OrderInv, TypeOK
<1>12. DeliveryCoherent'
  BY <1>1, <1>5, <1>6 DEF OrderInv, TypeOK, DeliveryCoherent
<1> QED
  BY <1>8, <1>9, <1>10, <1>11, <1>12 DEF OrderInv

LEMMA LedgerAfterType ==
  ASSUME NEW o \in Obligations, NEW sum \in Nat, NEW tier \in Tiers,
         commitment[o] \in Commitments, commitment[o].quantity \in Nat \ {0},
         ledger[o] \in Ledgers
  PROVE  LedgerAfter(o, sum, tier) \in Ledgers
<1> DEFINE c == commitment[o]
<1>1. c.price \in Nat
  BY DEF Commitments
<1>2. /\ PrepaidBalance(sum, c.price, c.quantity, tier) \in Nat
      /\ Applied(sum, c.price, c.quantity, tier) \in Nat
  BY <1>1, PrepaidBalanceConserves, AppliedBound
<1> QED
  BY <1>2 DEF LedgerAfter, Ledgers

LEMMA PlanAfterType ==
  ASSUME NEW o \in Obligations, NEW sum \in Nat, NEW tier \in Tiers,
         commitment[o] \in Commitments, commitment[o].quantity \in Nat \ {0},
         plan[o] \in Plans
  PROVE  PlanAfter(o, sum, tier) \in Plans
<1> DEFINE c == commitment[o]
<1>1. c.price \in Nat
  BY DEF Commitments
<1>2. /\ FulfillQty(sum, c.price, c.quantity) \in Nat
      /\ ReleaseQty(sum, c.price, c.quantity, tier) \in Nat
  BY <1>1, FulfillQtyBound, ReleaseQtyBound
<1> QED
  BY <1>2 DEF PlanAfter, Plans

LEMMA DisposedByRow ==
  ASSUME NEW call \in DeadlineCalls, commitment[call.obl] \in Commitments,
         commitment[call.obl].quantity \in Nat \ {0}
  PROVE  /\ DisposedBy(call) \in Commitments
         /\ DisposedBy(call).state = commitment[call.obl].state
         /\ DisposedBy(call).price = commitment[call.obl].price
         /\ DisposedBy(call).quantity = commitment[call.obl].quantity
         /\ DisposedBy(call).processed
<1> DEFINE c == commitment[call.obl]
           tier == Tier(call.paid, c.price, call.bps)
           released == ReleaseQty(call.paid, c.price, c.quantity, tier)
           qual == IF tier \in {"FULLY_PAID", "CURRENT_BATCH_RESCHEDULE"}
                   THEN tier ELSE "DEADLINE_PROCESSED"
<1>1. call.paid \in Nat /\ c.price \in Nat
  BY DEF DeadlineCalls, Commitments
<1>2. tier \in Tiers
  BY TierType
<1>3. released \in Nat
  BY <1>1, <1>2, ReleaseQtyBound
<1>4. qual \in Tiers \cup {"DEADLINE_PROCESSED"}
  BY <1>2
<1>5. DisposedBy(call) = [c EXCEPT !.qual = qual, !.processed = TRUE, !.released = released]
  BY DEF DisposedBy
<1> HIDE DEF released, qual, tier
<1> QED
  BY <1>3, <1>4, <1>5 DEF Commitments

LEMMA DeadlineApplyInv ==
  ASSUME OrderInv, NEW w \in Workers, DeadlineApply(w)
  PROVE  OrderInv'
<1> DEFINE call == calls[w]
           o == call.obl
           tier == Tier(call.paid, commitment[o].price, call.bps)
<1>1. /\ call \in DeadlineCalls
      /\ o \in Obligations
      /\ call.paid \in Nat
  BY CallTypes DEF DeadlineApply, OrderInv, TypeOK, DeadlineCalls
<1>2. /\ commitment[o] \in Commitments
      /\ commitment[o].state = "OPEN"
      /\ commitment[o].quantity \in Nat \ {0}
  BY <1>1, HasCommitment DEF DeadlineApply, Unprocessed, Open, OrderInv, TypeOK
<1>3. tier \in Tiers
  BY TierType
<1>4. /\ commitment' = [commitment EXCEPT ![o] = DisposedBy(call)]
      /\ ledger' = [ledger EXCEPT ![o] = LedgerAfter(o, call.paid, tier)]
      /\ plan' = [plan EXCEPT ![o] = PlanAfter(o, call.paid, tier)]
      /\ calls' = [calls EXCEPT ![w] = Idle]
      /\ UNCHANGED <<offer, due, allocated, payments, paid, deliveryRows, logRows>>
  BY DEF DeadlineApply, Finish
<1>5. /\ DisposedBy(call) \in Commitments
      /\ DisposedBy(call).state = commitment[o].state
      /\ DisposedBy(call).quantity = commitment[o].quantity
  BY <1>1, <1>2, DisposedByRow
<1>6. LedgerAfter(o, call.paid, tier) \in Ledgers /\ PlanAfter(o, call.paid, tier) \in Plans
  BY <1>1, <1>2, <1>3, LedgerAfterType, PlanAfterType DEF OrderInv, TypeOK
<1> HIDE DEF tier
<1>7. TypeOK'
  <2>1. /\ commitment' \in [Obligations -> Commitments]
        /\ ledger' \in [Obligations -> Ledgers]
        /\ plan' \in [Obligations -> Plans]
        /\ calls' \in [Workers -> Calls]
    BY <1>4, <1>5, <1>6, IdleGrounded DEF OrderInv, TypeOK
  <2> QED
    BY <1>4, <2>1 DEF OrderInv, TypeOK
<1>8. RowsGrounded'
  BY <1>1, <1>2, <1>4, <1>5 DEF OrderInv, TypeOK, RowsGrounded, Uncommitted
<1>9. PaymentsGrounded'
  BY <1>1, <1>4, <1>5 DEF OrderInv, TypeOK, PaymentsGrounded
<1>10. CallsGrounded'
  <2>1. RowsOnlyGrow
    BY <1>1, <1>4, <1>5 DEF RowsOnlyGrow, ConfirmedRows, OrderInv, TypeOK
  <2> QED
    BY <1>4, <2>1, CallsStayGrounded DEF OrderInv, TypeOK
<1>11. DeliveryCoherent'
  BY <1>1, <1>4, <1>5 DEF OrderInv, TypeOK, DeliveryCoherent
<1> QED
  BY <1>7, <1>8, <1>9, <1>10, <1>11 DEF OrderInv

LEMMA SchedulePlanInv ==
  ASSUME OrderInv, NEW o \in Obligations, SchedulePlan(o)
  PROVE  OrderInv'
<1>1. /\ plan' = [plan EXCEPT ![o].state = "SCHEDULED"]
      /\ plan[o].state = "PENDING"
      /\ UNCHANGED <<offer, due, orderRows, ledger, deliveryRows, logRows, calls>>
  BY DEF SchedulePlan
<1>2. TypeOK'
  BY <1>1 DEF OrderInv, TypeOK, Plans
<1>3. RowsGrounded'
  BY <1>1, HasCommitment DEF OrderInv, TypeOK, RowsGrounded, Uncommitted
<1>4. (PaymentsGrounded /\ CallsGrounded /\ DeliveryCoherent)'
  BY <1>1 DEF OrderInv, PaymentsGrounded, CallsGrounded, CallGrounded, ConfirmedRows,
              DeliveryCoherent
<1> QED
  BY <1>2, <1>3, <1>4 DEF OrderInv

LEMMA EventTypesHold ==
  /\ "PURCHASE_COMMITTED" \in EventTypes
  /\ "PAYMENT_OBSERVED" \in EventTypes
  /\ "FULFILLMENT_READY" \in EventTypes
  /\ "FULFILLMENT_ACCEPTED" \in EventTypes
  /\ "FULFILLMENT_EXCEPTION" \in EventTypes
  /\ "REMEDY_AUTHORIZED" \in EventTypes
  /\ "REMEDY_COMPLETED" \in EventTypes
BY DEF EventTypes

(* Nothing is short before the member has answered.                        *)
LEMMA NotYetShort ==
  ASSUME OrderInv, NEW o \in Obligations, fulfillment[o].state \in {"NONE", "READY"}
  PROVE  /\ exception[o].kind = "NONE"
         /\ exception[o].affected = 0
         /\ remedy[o].status = "NONE"
<1>1. exception[o].kind = "NONE"
  BY DEF OrderInv, DeliveryCoherent
<1>2. fulfillment[o].shortfall \in Nat
  BY DEF OrderInv, TypeOK, Fulfillments
<1> QED
  BY <1>1, <1>2 DEF OrderInv, DeliveryCoherent

LEMMA ReadyApplyInv ==
  ASSUME OrderInv, NEW w \in Workers, ReadyApply(w)
  PROVE  OrderInv'
<1> DEFINE call == calls[w]
           o == call.obl
           row == [state |-> "READY", ready |-> commitment[o].quantity,
                   accepted |-> 0, shortfall |-> 0]
<1>1. call \in ReadyCalls /\ o \in Obligations /\ call.id \in Requests
  BY CallTypes DEF ReadyApply, OrderInv, TypeOK, ReadyCalls
<1>2. commitment[o].state # "NONE" /\ commitment[o] \in Commitments
  BY <1>1 DEF ReadyCalls, OrderInv, TypeOK, CallsGrounded, CallGrounded
<1>3. row \in Fulfillments
  BY <1>2 DEF Fulfillments, Commitments
<1>4. /\ fulfillment[o].state = "NONE"
      /\ fulfillment' = [fulfillment EXCEPT ![o] = row]
      /\ Append(o, "FULFILLMENT_READY")
      /\ commandKeys' = commandKeys \cup {call.id}
      /\ calls' = [calls EXCEPT ![w] = Idle]
      /\ UNCHANGED <<offer, due, orderRows, deadlineRows, exception, remedy>>
  BY DEF ReadyApply, Finish, Claim
<1>5. row.state = "READY" /\ row.shortfall = 0
  OBVIOUS
<1> HIDE DEF row
<1>6. TypeOK'
  <2>1. /\ fulfillment' \in [Obligations -> Fulfillments]
        /\ calls' \in [Workers -> Calls]
        /\ commandKeys' \subseteq Requests
    BY <1>1, <1>3, <1>4, IdleGrounded DEF OrderInv, TypeOK
  <2>2. /\ version' \in [Obligations -> Nat]
        /\ events' \subseteq [obl : Obligations, version : Nat, type : EventTypes]
    BY <1>1, <1>4, EventTypesHold, AppendType
  <2> QED
    BY <1>4, <2>1, <2>2 DEF OrderInv, TypeOK
<1>7. RowsGrounded'
  BY <1>1, <1>2, <1>4, HasCommitment DEF OrderInv, TypeOK, RowsGrounded, Uncommitted, Append
<1>8. PaymentsGrounded'
  BY <1>4 DEF OrderInv, PaymentsGrounded
<1>9. CallsGrounded'
  <2>1. RowsOnlyGrow
    BY <1>4 DEF RowsOnlyGrow, ConfirmedRows, OrderInv, TypeOK
  <2> QED
    BY <1>4, <2>1, CallsStayGrounded DEF OrderInv, TypeOK
<1>10. DeliveryCoherent'
  <2>1. exception[o].kind = "NONE" /\ exception[o].affected = 0
    BY <1>1, <1>4, NotYetShort
  <2> QED
    BY <1>1, <1>4, <1>5, <2>1 DEF OrderInv, TypeOK, DeliveryCoherent
<1> QED
  BY <1>6, <1>7, <1>8, <1>9, <1>10 DEF OrderInv

LEMMA AcceptInv ==
  ASSUME OrderInv, NEW o \in Obligations, NEW id \in Requests,
         NEW accepted \in 0..fulfillment[o].ready, AcceptFulfillment(o, id, accepted)
  PROVE  OrderInv'
<1> DEFINE ready == fulfillment[o].ready
           shortfall == ready - accepted
           state == IF accepted = ready THEN "ACCEPTED"
                    ELSE IF accepted = 0 THEN "REJECTED" ELSE "PARTIALLY_ACCEPTED"
           row == [state |-> state, ready |-> ready, accepted |-> accepted,
                   shortfall |-> shortfall]
           short == [kind |-> IF state = "REJECTED" THEN "REJECTION" ELSE "SHORTFALL",
                     affected |-> shortfall]
<1>1. /\ ready \in Nat /\ accepted \in Nat /\ shortfall \in Nat
      /\ fulfillment[o].state = "READY"
  BY DEF AcceptFulfillment, Acceptable, OrderInv, TypeOK, Fulfillments
<1>2. /\ row \in Fulfillments /\ short \in Exceptions
      /\ row.state \in {"ACCEPTED", "REJECTED", "PARTIALLY_ACCEPTED"}
      /\ row.state = "ACCEPTED" <=> shortfall = 0
      /\ row.shortfall = shortfall
      /\ short.kind # "NONE" /\ short.affected = shortfall
  BY <1>1 DEF Fulfillments, Exceptions
<1>3. /\ fulfillment' = [fulfillment EXCEPT ![o] = row]
      /\ \/ shortfall = 0 /\ UNCHANGED exception
         \/ shortfall > 0 /\ exception' = [exception EXCEPT ![o] = short]
      /\ commandKeys' = commandKeys \cup {id}
      /\ UNCHANGED <<offer, due, orderRows, deadlineRows, remedy, calls>>
  BY DEF AcceptFulfillment, Claim
<1>4. /\ version' \in [Obligations -> Nat]
      /\ events' \subseteq [obl : Obligations, version : Nat, type : EventTypes]
      /\ \A p \in Obligations : p # o => version'[p] = version[p]
  <2>1. CASE Append(o, "FULFILLMENT_ACCEPTED")
    BY <2>1, EventTypesHold, AppendType DEF Append, OrderInv, TypeOK
  <2>2. CASE /\ version' = [version EXCEPT ![o] = @ + 2]
             /\ events' = events \cup
                  {[obl |-> o, version |-> version[o] + 1, type |-> "FULFILLMENT_ACCEPTED"],
                   [obl |-> o, version |-> version[o] + 2, type |-> "FULFILLMENT_EXCEPTION"]}
    <3>1. version[o] \in Nat
      BY DEF OrderInv, TypeOK
    <3> QED
      BY <2>2, <3>1, EventTypesHold DEF OrderInv, TypeOK
  <2> QED
    BY <2>1, <2>2 DEF AcceptFulfillment
<1>5. /\ commitment[o].state # "NONE"
      /\ exception[o].kind = "NONE" /\ exception[o].affected = 0
      /\ remedy[o].status = "NONE"
  BY <1>1, NotYetShort, HasCommitment
<1> HIDE DEF row, short, shortfall
<1>6. TypeOK'
  <2>1. /\ fulfillment' \in [Obligations -> Fulfillments]
        /\ exception' \in [Obligations -> Exceptions]
        /\ commandKeys' \subseteq Requests
    BY <1>2, <1>3 DEF OrderInv, TypeOK
  <2> QED
    BY <1>3, <1>4, <2>1 DEF OrderInv, TypeOK
<1>7. RowsGrounded'
  BY <1>3, <1>4, <1>5, HasCommitment DEF OrderInv, TypeOK, RowsGrounded, Uncommitted
<1>8. PaymentsGrounded'
  BY <1>3 DEF OrderInv, PaymentsGrounded
<1>9. CallsGrounded'
  <2>1. RowsOnlyGrow
    BY <1>2, <1>3 DEF RowsOnlyGrow, ConfirmedRows, OrderInv, TypeOK
  <2> QED
    BY <1>3, <2>1, CallsStayGrounded DEF OrderInv, TypeOK
<1>10. DeliveryCoherent'
  BY <1>1, <1>2, <1>3, <1>5 DEF OrderInv, TypeOK, DeliveryCoherent
<1> QED
  BY <1>6, <1>7, <1>8, <1>9, <1>10 DEF OrderInv

LEMMA AuthorizeApplyInv ==
  ASSUME OrderInv, NEW w \in Workers, AuthorizeApply(w)
  PROVE  OrderInv'
<1> DEFINE call == calls[w]
           o == call.obl
<1>1. call \in AuthorizeCalls /\ o \in Obligations /\ call.id \in Requests
  BY CallTypes DEF AuthorizeApply, OrderInv, TypeOK, AuthorizeCalls
<1>2. /\ commitment[o].state # "NONE" /\ commitment[o] \in Commitments
      /\ exception[o].kind # "NONE"
      /\ commitment[o].quantity \in Nat \ {0}
  BY <1>1, HasCommitment DEF AuthorizeCalls, OrderInv, TypeOK, CallsGrounded, CallGrounded
<1>3. PICK i \in PayIds :
        /\ RefundOwed(o, i) > 0
        /\ remedy' = [remedy EXCEPT ![o] =
             [status |-> "AUTHORIZED", quantity |-> exception[o].affected,
              amount |-> RefundOwed(o, i)]]
  BY DEF AuthorizeApply
<1>4. RefundOwed(o, i) \in Nat \ {0}
  <2>1. /\ commitment[o].price \in Nat
        /\ exception[o].affected \in Nat
        /\ payments[i].amount \in Nat
    BY <1>1, <1>2 DEF Commitments, Exceptions, Payments, OrderInv, TypeOK
  <2>2. RefundMinor(commitment[o].price, commitment[o].quantity,
                    exception[o].affected, payments[i].amount) \in Nat
    BY <1>2, <2>1, RefundMinorWithinSettled
  <2>3. RefundOwed(o, i) = RefundMinor(commitment[o].price, commitment[o].quantity,
                                       exception[o].affected, payments[i].amount)
    BY DEF RefundOwed
  <2> QED
    BY <1>3, <2>2, <2>3
<1> DEFINE row == [status |-> "AUTHORIZED", quantity |-> exception[o].affected,
                   amount |-> RefundOwed(o, i)]
<1>5. row \in Remedies /\ row.status = "AUTHORIZED" /\ row.amount # 0
  BY <1>1, <1>4 DEF Remedies, Exceptions, OrderInv, TypeOK
<1>6. /\ remedy[o].status = "NONE"
      /\ remedy' = [remedy EXCEPT ![o] = row]
      /\ Append(o, "REMEDY_AUTHORIZED")
      /\ commandKeys' = commandKeys \cup {call.id}
      /\ calls' = [calls EXCEPT ![w] = Idle]
      /\ UNCHANGED <<offer, due, orderRows, deadlineRows, fulfillment, exception>>
  BY <1>3 DEF AuthorizeApply, Finish, Claim
<1> HIDE DEF row
<1>7. TypeOK'
  <2>1. /\ remedy' \in [Obligations -> Remedies]
        /\ calls' \in [Workers -> Calls]
        /\ commandKeys' \subseteq Requests
    BY <1>1, <1>5, <1>6, IdleGrounded DEF OrderInv, TypeOK
  <2>2. /\ version' \in [Obligations -> Nat]
        /\ events' \subseteq [obl : Obligations, version : Nat, type : EventTypes]
    BY <1>1, <1>6, EventTypesHold, AppendType
  <2> QED
    BY <1>6, <2>1, <2>2 DEF OrderInv, TypeOK
<1>8. RowsGrounded'
  BY <1>1, <1>2, <1>6, HasCommitment DEF OrderInv, TypeOK, RowsGrounded, Uncommitted, Append
<1>9. PaymentsGrounded'
  BY <1>6 DEF OrderInv, PaymentsGrounded
<1>10. CallsGrounded'
  <2>1. RowsOnlyGrow
    BY <1>6 DEF RowsOnlyGrow, ConfirmedRows, OrderInv, TypeOK
  <2> QED
    BY <1>6, <2>1, CallsStayGrounded DEF OrderInv, TypeOK
<1>11. DeliveryCoherent'
  BY <1>1, <1>2, <1>5, <1>6 DEF OrderInv, TypeOK, DeliveryCoherent
<1> QED
  BY <1>7, <1>8, <1>9, <1>10, <1>11 DEF OrderInv

LEMMA CompleteInv ==
  ASSUME OrderInv, NEW o \in Obligations, NEW id \in Requests, CompleteRefund(o, id)
  PROVE  OrderInv'
<1>1. /\ remedy[o].status = "AUTHORIZED"
      /\ remedy' = [remedy EXCEPT ![o].status = "COMPLETED"]
      /\ commitment' = [commitment EXCEPT ![o].state = "FULFILLED"]
      /\ Append(o, "REMEDY_COMPLETED")
      /\ commandKeys' = commandKeys \cup {id}
      /\ UNCHANGED <<offer, due, allocated, payments, paid, deadlineRows, fulfillment,
                     exception, calls>>
  BY DEF CompleteRefund, Claim
<1>2. commitment[o].state # "NONE"
  BY <1>1, HasCommitment
<1>3. TypeOK'
  <2>1. /\ remedy' \in [Obligations -> Remedies]
        /\ commitment' \in [Obligations -> Commitments]
        /\ commandKeys' \subseteq Requests
    <3>1. remedy' \in [Obligations -> Remedies]
      BY <1>1 DEF OrderInv, TypeOK, Remedies
    <3>2. commitment' \in [Obligations -> Commitments]
      <4> DEFINE row == [commitment[o] EXCEPT !.state = "FULFILLED"]
      <4>1. commitment[o] \in Commitments
        BY DEF OrderInv, TypeOK
      <4>2. row \in Commitments
        BY <4>1 DEF Commitments
      <4>3. commitment' = [commitment EXCEPT ![o] = row]
        BY <1>1
      <4> HIDE DEF row
      <4> QED
        BY <4>2, <4>3 DEF OrderInv, TypeOK
    <3> QED
      BY <1>1, <3>1, <3>2 DEF OrderInv, TypeOK
  <2>2. /\ version' \in [Obligations -> Nat]
        /\ events' \subseteq [obl : Obligations, version : Nat, type : EventTypes]
    BY <1>1, EventTypesHold, AppendType
  <2> QED
    BY <1>1, <2>1, <2>2 DEF OrderInv, TypeOK
<1>4. /\ \A p \in Obligations : /\ p # o => commitment'[p] = commitment[p]
                                /\ commitment'[p].quantity = commitment[p].quantity
                                /\ p # o => remedy'[p] = remedy[p]
                                /\ remedy'[p].amount = remedy[p].amount
      /\ commitment'[o].state = "FULFILLED"
      /\ remedy'[o].status = "COMPLETED"
  BY <1>1 DEF OrderInv, TypeOK, Commitments, Remedies
<1>5. RowsGrounded'
  BY <1>1, <1>2, <1>4, HasCommitment DEF OrderInv, TypeOK, RowsGrounded, Uncommitted, Append
<1>6. PaymentsGrounded'
  BY <1>1, <1>4 DEF OrderInv, PaymentsGrounded
<1>7. CallsGrounded'
  <2>1. RowsOnlyGrow
    BY <1>1, <1>4 DEF RowsOnlyGrow, ConfirmedRows, OrderInv, TypeOK
  <2> QED
    BY <1>1, <2>1, CallsStayGrounded DEF OrderInv, TypeOK
<1>8. DeliveryCoherent'
  BY <1>1, <1>4 DEF OrderInv, DeliveryCoherent
<1> QED
  BY <1>3, <1>5, <1>6, <1>7, <1>8 DEF OrderInv

-----------------------------------------------------------------------------
(* Every step, and every behaviour.                                        *)

LEMMA IdsAreRequests ==
  ASSUME NEW k \in {"commit", "ready", "accept", "authorize", "complete"},
         NEW id \in IdsOf[k]
  PROVE  id \in Requests
BY OrdersAssumption DEF OrdersAssumption, Commands

LEMMA NextInv == OrderInv /\ [Next]_vars => OrderInv'
<1> SUFFICES ASSUME OrderInv, [Next]_vars PROVE OrderInv'
  OBVIOUS
<1>1. CASE OfferStep
  BY <1>1, OfferInv
<1>2. ASSUME NEW w \in Workers, CommitStep(w) PROVE OrderInv'
  BY <1>2, BeginCommitInv, CommitApplyInv, IdsAreRequests DEF CommitStep
<1>3. ASSUME NEW w \in Workers, PayStep(w) PROVE OrderInv'
  BY <1>3, BeginPayInv, PayApplyInv DEF PayStep
<1>4. ASSUME NEW w \in Workers, DeadlineStep(w) PROVE OrderInv'
  BY <1>4, BeginDeadlineInv, DeadlineApplyInv DEF DeadlineStep
<1>5. ASSUME NEW w \in Workers, ReadyStep(w) PROVE OrderInv'
  BY <1>5, BeginReadyInv, ReadyApplyInv, IdsAreRequests DEF ReadyStep
<1>6. ASSUME NEW w \in Workers, AuthorizeStep(w) PROVE OrderInv'
  BY <1>6, BeginAuthorizeInv, AuthorizeApplyInv, IdsAreRequests DEF AuthorizeStep
<1>7. ASSUME NEW w \in Workers, RefuseCall(w) \/ AbandonCall(w) PROVE OrderInv'
  BY <1>7, CallEndsInv
<1>8. ASSUME NEW o \in Obligations, AtomicStep(o) PROVE OrderInv'
  BY <1>8, SchedulePlanInv, AcceptInv, CompleteInv, IdsAreRequests DEF AtomicStep
<1>9. CASE UNCHANGED vars
  BY <1>9 DEF vars, OrderInv, TypeOK, RowsGrounded, Uncommitted, PaymentsGrounded,
              CallsGrounded, CallGrounded, ConfirmedRows, DeliveryCoherent
<1> QED
  BY <1>1, <1>2, <1>3, <1>4, <1>5, <1>6, <1>7, <1>8, <1>9 DEF Next

(* The inductive invariant of the order tables: types, foreign keys, what  *)
(* a request in flight has read, and how the delivery tables agree.        *)
THEOREM OrderInvAlways == Spec => []OrderInv
BY InitInv, NextInv, PTL DEF Spec

(* Every row the statements leave has the columns' types: no quantity,     *)
(* balance or refund becomes negative or fractional, whatever is paid.     *)
THEOREM TypeCorrect == Spec => []TypeOK
<1>1. OrderInv => TypeOK
  BY DEF OrderInv
<1> QED
  BY <1>1, OrderInvAlways, PTL

-----------------------------------------------------------------------------
(* The canonical log.                                                      *)

(* A step appends one event, or two consecutive ones, or none. *)
AppendTwo(o, first, second) ==
  /\ version' = [version EXCEPT ![o] = @ + 2]
  /\ events' = events \cup {[obl |-> o, version |-> version[o] + 1, type |-> first],
                            [obl |-> o, version |-> version[o] + 2, type |-> second]}

(* How the log may move in one step. *)
LogMoves ==
  \/ UNCHANGED <<version, events>>
  \/ \E o \in Obligations, t \in EventTypes : Append(o, t)
  \/ \E o \in Obligations, t \in EventTypes, u \in EventTypes : AppendTwo(o, t, u)

LEMMA OneEvent ==
  ASSUME NEW o \in Obligations, NEW t \in EventTypes, Append(o, t)
  PROVE  LogMoves
BY DEF LogMoves

LEMMA TwoEvents ==
  ASSUME NEW o \in Obligations, NEW t \in EventTypes, NEW u \in EventTypes, AppendTwo(o, t, u)
  PROVE  LogMoves
BY DEF LogMoves

LEMMA NoEvent == ASSUME UNCHANGED <<version, events>> PROVE LogMoves
BY DEF LogMoves

LEMMA CallOnObligation ==
  ASSUME OrderInv, NEW w \in Workers, calls[w].op \in {"pay", "deadline", "ready", "authorize"}
  PROVE  calls[w].obl \in Obligations
BY CallTypes DEF OrderInv, TypeOK, PayCalls, DeadlineCalls, ReadyCalls, AuthorizeCalls, Idle

LEMMA LogSteps == ASSUME OrderInv, [Next]_vars PROVE LogMoves
<1>1. ASSUME NEW w \in Workers, NEW o \in Obligations, CommitApply(w, o) PROVE LogMoves
  <2>1. version[o] = 0
    BY <1>1 DEF OrderInv, RowsGrounded, Uncommitted, CommitApply
  <2>2. Append(o, "PURCHASE_COMMITTED")
    BY <1>1, <2>1 DEF CommitApply, Append, OrderInv, TypeOK
  <2>3. "PURCHASE_COMMITTED" \in EventTypes
    BY DEF EventTypes
  <2> QED
    BY <2>2, <2>3, OneEvent
<1>2. ASSUME NEW w \in Workers, PayApply(w) \/ ReadyApply(w) \/ AuthorizeApply(w)
      PROVE  LogMoves
  <2>1. calls[w].obl \in Obligations
    BY <1>2, CallOnObligation DEF PayApply, ReadyApply, AuthorizeApply
  <2>2. \E t \in EventTypes : Append(calls[w].obl, t)
    <3>1. "PAYMENT_OBSERVED" \in EventTypes
      BY DEF EventTypes
    <3> QED
      BY <1>2, <3>1, EventTypesHold DEF PayApply, ReadyApply, AuthorizeApply
  <2> QED
    BY <2>1, <2>2, OneEvent
<1>3. ASSUME NEW o \in Obligations, NEW id, NEW a, AcceptFulfillment(o, id, a)
      PROVE  LogMoves
  <2>1. \/ Append(o, "FULFILLMENT_ACCEPTED")
        \/ AppendTwo(o, "FULFILLMENT_ACCEPTED", "FULFILLMENT_EXCEPTION")
    BY <1>3 DEF AcceptFulfillment, AppendTwo
  <2> QED
    BY <2>1, EventTypesHold, OneEvent, TwoEvents
<1>4. ASSUME NEW o \in Obligations, NEW id, CompleteRefund(o, id) PROVE LogMoves
  <2>1. Append(o, "REMEDY_COMPLETED")
    BY <1>4 DEF CompleteRefund
  <2> QED
    BY <2>1, EventTypesHold, OneEvent
<1>5. CASE OfferStep
  <2>1. UNCHANGED <<version, events>>
    BY <1>5 DEF OfferStep, EditOffer, DeadlinePasses
  <2> QED
    BY <2>1, NoEvent
<1>6. ASSUME NEW w \in Workers, CommitStep(w) \/ PayStep(w) PROVE LogMoves
  <2>1. ASSUME NEW id, BeginCommit(w, id) PROVE UNCHANGED <<version, events>>
    BY <2>1 DEF BeginCommit
  <2>2. ASSUME NEW id, NEW o, NEW a, NEW s, BeginPay(w, id, o, a, s)
        PROVE  UNCHANGED <<version, events>>
    BY <2>2 DEF BeginPay
  <2> QED
    BY <1>1, <1>2, <1>6, <2>1, <2>2, NoEvent DEF CommitStep, PayStep
<1>7. ASSUME NEW w \in Workers, DeadlineStep(w) PROVE LogMoves
  <2>1. UNCHANGED <<version, events>>
    BY <1>7 DEF DeadlineStep, BeginDeadline, DeadlineApply
  <2> QED
    BY <2>1, NoEvent
<1>8. ASSUME NEW w \in Workers, ReadyStep(w) \/ AuthorizeStep(w) PROVE LogMoves
  <2>1. ASSUME NEW id, NEW o, BeginReady(w, id, o) \/ BeginAuthorize(w, id, o)
        PROVE  UNCHANGED <<version, events>>
    BY <2>1 DEF BeginReady, BeginAuthorize
  <2> QED
    BY <1>2, <1>8, <2>1, NoEvent DEF ReadyStep, AuthorizeStep
<1>9. ASSUME NEW w \in Workers, RefuseCall(w) \/ AbandonCall(w) PROVE LogMoves
  <2>1. UNCHANGED <<version, events>>
    BY <1>9 DEF RefuseCall, AbandonCall
  <2> QED
    BY <2>1, NoEvent
<1>10. ASSUME NEW o \in Obligations, AtomicStep(o) PROVE LogMoves
  <2>1. ASSUME SchedulePlan(o) PROVE UNCHANGED <<version, events>>
    BY <2>1 DEF SchedulePlan
  <2> QED
    BY <1>3, <1>4, <1>10, <2>1, NoEvent DEF AtomicStep
<1>11. CASE UNCHANGED vars
  <2>1. UNCHANGED <<version, events>>
    BY <1>11 DEF vars
  <2> QED
    BY <2>1, NoEvent
<1> QED
  BY <1>5, <1>6, <1>7, <1>8, <1>9, <1>10, <1>11 DEF Next

VersionsLogged ==
  \A o \in Obligations, n \in Nat :
    (n >= 1 /\ n <= version[o]) <=> \E e \in events : e.obl = o /\ e.version = n

VersionsUnique ==
  \A e, f \in events : e.obl = f.obl /\ e.version = f.version => e = f

LEMMA AppendKeepsLog ==
  ASSUME TypeOK, VersionsLogged, VersionsUnique, NEW o \in Obligations, NEW t, Append(o, t)
  PROVE  VersionsLogged' /\ VersionsUnique'
<1> DEFINE new == [obl |-> o, version |-> version[o] + 1, type |-> t]
<1>1. version[o] \in Nat
  BY DEF TypeOK
<1>2. version'[o] = version[o] + 1 /\ \A p \in Obligations : p # o => version'[p] = version[p]
  BY DEF Append, TypeOK
<1>3. events' = events \cup {new} /\ new.obl = o /\ new.version = version[o] + 1
  BY DEF Append
<1>4. \A e \in events : e.obl \in Obligations /\ e.version \in Nat
  BY DEF TypeOK
<1>5. \A e \in events : e.obl = o => e.version >= 1 /\ e.version <= version[o]
  BY <1>4 DEF VersionsLogged
<1> HIDE DEF new
<1>6. VersionsUnique'
  BY <1>1, <1>3, <1>4, <1>5 DEF VersionsUnique
<1>7. VersionsLogged'
  <2> SUFFICES ASSUME NEW p \in Obligations, NEW n \in Nat
               PROVE  (n >= 1 /\ n <= version'[p]) <=>
                        \E e \in events' : e.obl = p /\ e.version = n
    BY DEF VersionsLogged
  <2>1. (n >= 1 /\ n <= version[p]) <=> \E e \in events : e.obl = p /\ e.version = n
    BY DEF VersionsLogged
  <2>2. CASE p # o
    BY <1>2, <1>3, <2>1, <2>2
  <2>3. CASE p = o
    BY <1>1, <1>2, <1>3, <2>1, <2>3
  <2> QED
    BY <2>2, <2>3
<1> QED
  BY <1>6, <1>7

(* Two events are the second of them appended after the first. *)
LEMMA AppendTwoKeepsLog ==
  ASSUME TypeOK, VersionsLogged, VersionsUnique, NEW o \in Obligations, NEW t, NEW u,
         AppendTwo(o, t, u)
  PROVE  VersionsLogged' /\ VersionsUnique'
<1> DEFINE first == [obl |-> o, version |-> version[o] + 1, type |-> t]
           second == [obl |-> o, version |-> version[o] + 2, type |-> u]
<1>1. version[o] \in Nat
  BY DEF TypeOK
<1>2. version'[o] = version[o] + 2 /\ \A p \in Obligations : p # o => version'[p] = version[p]
  BY DEF AppendTwo, TypeOK
<1>3. /\ events' = events \cup {first, second}
      /\ first.obl = o /\ first.version = version[o] + 1
      /\ second.obl = o /\ second.version = version[o] + 2
  BY DEF AppendTwo
<1>4. \A e \in events : e.obl \in Obligations /\ e.version \in Nat
  BY DEF TypeOK
<1>5. \A e \in events : e.obl = o => e.version >= 1 /\ e.version <= version[o]
  BY <1>4 DEF VersionsLogged
<1> HIDE DEF first, second
<1>6. VersionsUnique'
  BY <1>1, <1>3, <1>4, <1>5 DEF VersionsUnique
<1>7. VersionsLogged'
  <2> SUFFICES ASSUME NEW p \in Obligations, NEW n \in Nat
               PROVE  (n >= 1 /\ n <= version'[p]) <=>
                        \E e \in events' : e.obl = p /\ e.version = n
    BY DEF VersionsLogged
  <2>1. (n >= 1 /\ n <= version[p]) <=> \E e \in events : e.obl = p /\ e.version = n
    BY DEF VersionsLogged
  <2>2. CASE p # o
    BY <1>2, <1>3, <2>1, <2>2
  <2>3. CASE p = o
    <3>1. (n >= 1 /\ n <= version[o] + 2) <=>
            (n >= 1 /\ n <= version[o]) \/ n = version[o] + 1 \/ n = version[o] + 2
      BY <1>1
    <3> QED
      BY <1>2, <1>3, <2>1, <2>3, <3>1
  <2> QED
    BY <2>2, <2>3
<1> QED
  BY <1>6, <1>7

LogInv == OrderInv /\ VersionsLogged /\ VersionsUnique

LEMMA LogInvStep == LogInv /\ [Next]_vars => LogInv'
<1> SUFFICES ASSUME LogInv, [Next]_vars PROVE LogInv'
  OBVIOUS
<1>1. OrderInv' /\ TypeOK
  BY NextInv DEF LogInv, OrderInv
<1>2. VersionsLogged' /\ VersionsUnique'
  <2>1. CASE UNCHANGED <<version, events>>
    BY <2>1 DEF LogInv, VersionsLogged, VersionsUnique
  <2> QED
    BY <1>1, <2>1, LogSteps, AppendKeepsLog, AppendTwoKeepsLog DEF LogInv, LogMoves
<1> QED
  BY <1>1, <1>2 DEF LogInv

LEMMA LogInvSuffices == ASSUME LogInv PROVE EventLogGapless
<1>1. ASSUME NEW o \in Obligations
      PROVE  {e.version : e \in {f \in events : f.obl = o}} = 1..version[o]
  <2>1. version[o] \in Nat
    BY DEF LogInv, OrderInv, TypeOK
  <2>2. ASSUME NEW n, n \in 1..version[o]
        PROVE  n \in {e.version : e \in {f \in events : f.obl = o}}
    <3>1. n \in Nat /\ n >= 1 /\ n <= version[o]
      BY <2>1, <2>2
    <3>2. PICK e \in events : e.obl = o /\ e.version = n
      BY <3>1 DEF LogInv, VersionsLogged
    <3> QED
      BY <3>2
  <2>3. ASSUME NEW n, n \in {e.version : e \in {f \in events : f.obl = o}}
        PROVE  n \in 1..version[o]
    <3>1. PICK e \in events : e.obl = o /\ e.version = n
      BY <2>3
    <3>2. n \in Nat
      BY <3>1 DEF LogInv, OrderInv, TypeOK
    <3>3. n >= 1 /\ n <= version[o]
      BY <3>1, <3>2 DEF LogInv, VersionsLogged
    <3> QED
      BY <2>1, <3>2, <3>3
  <2> QED
    BY <2>2, <2>3
<1> QED
  BY <1>1 DEF EventLogGapless, LogInv, VersionsUnique

LEMMA LogInvInit == Init => LogInv
BY InitInv DEF LogInv, Init, VersionsLogged, VersionsUnique

(* The canonical log of every obligation is gapless and unforked, however  *)
(* the seven appending statements interleave.                              *)
THEOREM LogAlwaysGapless == Spec => []EventLogGapless
<1>1. LogInv => EventLogGapless
  BY LogInvSuffices
<1> QED
  BY <1>1, LogInvInit, LogInvStep, PTL DEF Spec
-----------------------------------------------------------------------------
(* The log and the rows.                                                   *)

(* What the rows of o say of the event of a type. *)
Says(o, type) ==
  CASE type = "PURCHASE_COMMITTED" -> commitment[o].state # "NONE"
    [] type = "PAYMENT_OBSERVED" -> \E i \in PayIds : payments[i].obl = o
    [] type = "FULFILLMENT_READY" -> fulfillment[o].state # "NONE"
    [] type = "FULFILLMENT_ACCEPTED" -> fulfillment[o].state \notin {"NONE", "READY"}
    [] type = "FULFILLMENT_EXCEPTION" -> exception[o].kind # "NONE"
    [] type = "REMEDY_AUTHORIZED" -> remedy[o].status # "NONE"
    [] type = "REMEDY_COMPLETED" -> remedy[o].status = "COMPLETED"

(* The rows a type reads, before and after a step. *)
LEMMA SaysEach ==
  ASSUME NEW o
  PROVE  /\ Says(o, "PURCHASE_COMMITTED") <=> commitment[o].state # "NONE"
         /\ Says(o, "PAYMENT_OBSERVED") <=> \E i \in PayIds : payments[i].obl = o
         /\ Says(o, "FULFILLMENT_READY") <=> fulfillment[o].state # "NONE"
         /\ Says(o, "FULFILLMENT_ACCEPTED") <=> fulfillment[o].state \notin {"NONE", "READY"}
         /\ Says(o, "FULFILLMENT_EXCEPTION") <=> exception[o].kind # "NONE"
         /\ Says(o, "REMEDY_AUTHORIZED") <=> remedy[o].status # "NONE"
         /\ Says(o, "REMEDY_COMPLETED") <=> remedy[o].status = "COMPLETED"
BY DEF Says

LEMMA SaysEachNext ==
  ASSUME NEW o
  PROVE  /\ Says(o, "PURCHASE_COMMITTED")' <=> commitment'[o].state # "NONE"
         /\ Says(o, "PAYMENT_OBSERVED")' <=> \E i \in PayIds : payments'[i].obl = o
         /\ Says(o, "FULFILLMENT_READY")' <=> fulfillment'[o].state # "NONE"
         /\ Says(o, "FULFILLMENT_ACCEPTED")' <=> fulfillment'[o].state \notin {"NONE", "READY"}
         /\ Says(o, "FULFILLMENT_EXCEPTION")' <=> exception'[o].kind # "NONE"
         /\ Says(o, "REMEDY_AUTHORIZED")' <=> remedy'[o].status # "NONE"
         /\ Says(o, "REMEDY_COMPLETED")' <=> remedy'[o].status = "COMPLETED"
BY DEF Says

(* The pairs of types whose events the life cycle orders. *)
LifeOrder == {<<"PURCHASE_COMMITTED", "FULFILLMENT_READY">>,
              <<"PAYMENT_OBSERVED", "REMEDY_COMPLETED">>,
              <<"FULFILLMENT_READY", "FULFILLMENT_ACCEPTED">>,
              <<"FULFILLMENT_ACCEPTED", "FULFILLMENT_EXCEPTION">>,
              <<"FULFILLMENT_EXCEPTION", "REMEDY_AUTHORIZED">>,
              <<"REMEDY_AUTHORIZED", "REMEDY_COMPLETED">>}

RowsTold == \A o \in Obligations, t \in EventTypes : Logged(o, t) <=> Says(o, t)
OrderTold == \A o \in Obligations : \A pair \in LifeOrder : Before(o, pair[1], pair[2])

(* A payment row that is not there names no obligation. *)
BlankPayments == \A i \in PayIds : payments[i].status = "NONE" => payments[i].obl = "NONE"

ToldInv == LogInv /\ BlankPayments /\ RowsTold /\ OrderTold

LEMMA VersionsBounded ==
  ASSUME LogInv, NEW e \in events
  PROVE  /\ e.obl \in Obligations
         /\ e.version \in Nat
         /\ version[e.obl] \in Nat
         /\ e.version <= version[e.obl]
<1>1. /\ e.obl \in Obligations
      /\ e.version \in Nat
      /\ version[e.obl] \in Nat
  BY DEF LogInv, OrderInv, TypeOK
<1> QED
  BY <1>1 DEF LogInv, VersionsLogged

(* The rows say of every event what they said, and of the new one too. *)
Adds(o, t) ==
  \A p \in Obligations, u \in EventTypes : Says(p, u)' <=> Says(p, u) \/ (p = o /\ u = t)

AddsTwo(o, t, v) ==
  \A p \in Obligations, u \in EventTypes : Says(p, u)' <=> Says(p, u) \/ (p = o /\ u \in {t, v})

(* None of the types the life cycle puts after t has an event yet. *)
NothingAfter(o, t) == \A pair \in LifeOrder : pair[1] = t => ~Logged(o, pair[2])

LEMMA AppendTells ==
  ASSUME ToldInv, NEW o \in Obligations, NEW t \in EventTypes,
         Append(o, t), Adds(o, t), NothingAfter(o, t)
  PROVE  RowsTold' /\ OrderTold'
<1> DEFINE new == [obl |-> o, version |-> version[o] + 1, type |-> t]
<1>1. events' = events \cup {new} /\ new.obl = o /\ new.version = version[o] + 1 /\ new.type = t
  BY DEF Append
<1> HIDE DEF new
<1>2. RowsTold'
  <2> SUFFICES ASSUME NEW p \in Obligations, NEW u \in EventTypes
               PROVE  Logged(p, u)' <=> Says(p, u)'
    BY DEF RowsTold
  <2>1. Logged(p, u)' <=> Logged(p, u) \/ (p = o /\ u = t)
    BY <1>1 DEF Logged
  <2> QED
    BY <2>1 DEF ToldInv, RowsTold, Adds
<1>3. ASSUME NEW p \in Obligations, NEW pair \in LifeOrder
      PROVE  Before(p, pair[1], pair[2])'
  <2>1. Before(p, pair[1], pair[2])
    BY DEF ToldInv, OrderTold
  <2>2. SUFFICES ASSUME NEW e \in events', NEW f \in events', e.obl = p, f.obl = p,
                        e.type = pair[1], f.type = pair[2]
                 PROVE  e.version < f.version
    BY DEF Before
  <2>3. CASE e \in events /\ f \in events
    BY <2>1, <2>2, <2>3 DEF Before
  <2>4. CASE f = new /\ e \in events
    BY <1>1, <2>2, <2>4, VersionsBounded DEF ToldInv
  <2>5. CASE e = new
    <3>1. pair[1] = t /\ p = o /\ ~Logged(o, pair[2])
      BY <1>1, <2>2, <2>5 DEF NothingAfter
    <3>2. f = new
      BY <1>1, <2>2, <3>1 DEF Logged
    <3>3. pair[1] # pair[2]
      BY DEF LifeOrder
    <3> QED
      BY <2>2, <2>5, <3>2, <3>3
  <2> QED
    BY <1>1, <2>3, <2>4, <2>5
<1> QED
  BY <1>2, <1>3 DEF OrderTold

LEMMA AppendTwoTells ==
  ASSUME ToldInv, NEW o \in Obligations, NEW t \in EventTypes, NEW v \in EventTypes,
         AppendTwo(o, t, v), AddsTwo(o, t, v), NothingAfter(o, t), NothingAfter(o, v),
         <<v, t>> \notin LifeOrder
  PROVE  RowsTold' /\ OrderTold'
<1> DEFINE first == [obl |-> o, version |-> version[o] + 1, type |-> t]
           second == [obl |-> o, version |-> version[o] + 2, type |-> v]
<1>1. /\ events' = events \cup {first, second}
      /\ first.obl = o /\ first.version = version[o] + 1 /\ first.type = t
      /\ second.obl = o /\ second.version = version[o] + 2 /\ second.type = v
  BY DEF AppendTwo
<1> HIDE DEF first, second
<1>2. RowsTold'
  <2> SUFFICES ASSUME NEW p \in Obligations, NEW u \in EventTypes
               PROVE  Logged(p, u)' <=> Says(p, u)'
    BY DEF RowsTold
  <2>1. Logged(p, u)' <=> Logged(p, u) \/ (p = o /\ u \in {t, v})
    BY <1>1 DEF Logged
  <2> QED
    BY <2>1 DEF ToldInv, RowsTold, AddsTwo
<1>3. ASSUME NEW p \in Obligations, NEW pair \in LifeOrder
      PROVE  Before(p, pair[1], pair[2])'
  <2>1. /\ Before(p, pair[1], pair[2])
        /\ pair = <<pair[1], pair[2]>> /\ pair[1] # pair[2]
    BY DEF ToldInv, OrderTold, LifeOrder
  <2>2. SUFFICES ASSUME NEW e \in events', NEW f \in events', e.obl = p, f.obl = p,
                        e.type = pair[1], f.type = pair[2]
                 PROVE  e.version < f.version
    BY DEF Before
  <2>3. CASE e \in events /\ f \in events
    BY <2>1, <2>2, <2>3 DEF Before
  <2>4. CASE f \in {first, second} /\ e \in events
    BY <1>1, <2>2, <2>4, VersionsBounded DEF ToldInv
  <2>5. CASE e \in {first, second}
    <3>1. pair[1] \in {t, v} /\ p = o /\ ~Logged(o, pair[2])
      BY <1>1, <2>2, <2>5 DEF NothingAfter
    <3>2. f \in {first, second}
      BY <1>1, <2>2, <3>1 DEF Logged
    <3>3. e = first /\ f = second
      BY <1>1, <2>1, <2>2, <2>5, <3>2
    <3>4. version[o] \in Nat
      BY DEF ToldInv, LogInv, OrderInv, TypeOK
    <3> QED
      BY <1>1, <3>3, <3>4
  <2> QED
    BY <1>1, <2>3, <2>4, <2>5
<1> QED
  BY <1>2, <1>3 DEF OrderTold

LEMMA NothingAppended ==
  ASSUME ToldInv, UNCHANGED events,
         \A p \in Obligations, u \in EventTypes : Says(p, u)' <=> Says(p, u)
  PROVE  RowsTold' /\ OrderTold'
BY DEF ToldInv, RowsTold, OrderTold, Logged, Before

(* Rows that keep their states say the same. *)
LEMMA SaysSame ==
  ASSUME NEW p, NEW u \in EventTypes,
         commitment'[p].state = "NONE" <=> commitment[p].state = "NONE",
         fulfillment'[p] = fulfillment[p], exception'[p] = exception[p],
         remedy'[p] = remedy[p],
         (\E i \in PayIds : payments'[i].obl = p) <=> (\E i \in PayIds : payments[i].obl = p)
  PROVE  Says(p, u)' <=> Says(p, u)
BY DEF Says

LEMMA CommitTells ==
  ASSUME ToldInv, NEW w \in Workers, NEW o \in Obligations, CommitApply(w, o)
  PROVE  RowsTold' /\ OrderTold'
<1>1. OrderInv /\ TypeOK
  BY DEF ToldInv, LogInv, OrderInv
<1>2. version[o] = 0 /\ fulfillment[o] = NoFulfillment
  BY <1>1 DEF OrderInv, RowsGrounded, Uncommitted, CommitApply
<1>3. Append(o, "PURCHASE_COMMITTED")
  BY <1>1, <1>2 DEF CommitApply, Append, TypeOK
<1>4. /\ commitment'[o].state = "OPEN"
      /\ \A p \in Obligations \ {o} : commitment'[p] = commitment[p]
      /\ UNCHANGED <<payments, deliveryRows>>
  BY <1>1 DEF CommitApply, TypeOK
<1>5. Adds(o, "PURCHASE_COMMITTED")
  BY <1>4, SaysEach, SaysEachNext DEF Adds, EventTypes
<1>6. NothingAfter(o, "PURCHASE_COMMITTED")
  <2>1. ~Logged(o, "FULFILLMENT_READY")
    BY <1>2, EventTypesHold, SaysEach DEF ToldInv, RowsTold, NoFulfillment
  <2> QED
    BY <2>1 DEF NothingAfter, LifeOrder
<1> QED
  BY <1>3, <1>5, <1>6, AppendTells DEF EventTypes

LEMMA PayTells ==
  ASSUME ToldInv, NEW w \in Workers, PayApply(w)
  PROVE  RowsTold' /\ OrderTold'
<1> DEFINE o == calls[w].obl
           id == calls[w].id
<1>1. OrderInv /\ TypeOK
  BY DEF ToldInv, LogInv, OrderInv
<1>2. o \in Obligations /\ id \in PayIds
  BY <1>1, CallTypes DEF PayApply, PayCalls, TypeOK
<1>3. payments[id].obl = "NONE"
  BY <1>2 DEF PayApply, ToldInv, BlankPayments
<1>4. /\ payments'[id].obl = o
      /\ \A i \in PayIds \ {id} : payments'[i] = payments[i]
      /\ commitment' = [commitment EXCEPT ![o] = QualifiedBy(calls[w])]
      /\ UNCHANGED deliveryRows
      /\ Append(o, "PAYMENT_OBSERVED")
  BY <1>1, <1>2 DEF PayApply, TypeOK
<1>5. QualifiedBy(calls[w]).state = commitment[o].state
  BY <1>1, <1>2 DEF QualifiedBy, TypeOK, Commitments
<1>6. \A p \in Obligations : commitment'[p].state = commitment[p].state
  <2> HIDE DEF QualifiedBy, o
  <2> QED
    BY <1>1, <1>2, <1>4, <1>5 DEF TypeOK, o
<1>7. \A p \in Obligations : (\E i \in PayIds : payments'[i].obl = p)
                               <=> (\E i \in PayIds : payments[i].obl = p) \/ p = o
  BY <1>2, <1>3, <1>4, OrdersAssumption DEF OrdersAssumption
<1>8. Adds(o, "PAYMENT_OBSERVED")
  BY <1>4, <1>6, <1>7, SaysEach, SaysEachNext DEF Adds, EventTypes
<1>9. NothingAfter(o, "PAYMENT_OBSERVED")
  <2>1. remedy[o].status # "COMPLETED"
    BY <1>1, <1>2 DEF PayApply, Open, OrderInv, DeliveryCoherent
  <2>2. ~Logged(o, "REMEDY_COMPLETED")
    BY <1>2, <2>1, EventTypesHold, SaysEach DEF ToldInv, RowsTold
  <2> QED
    BY <2>2 DEF NothingAfter, LifeOrder
<1> QED
  BY <1>2, <1>4, <1>8, <1>9, AppendTells DEF EventTypes

LEMMA DeadlineTells ==
  ASSUME ToldInv, NEW w \in Workers, DeadlineApply(w)
  PROVE  RowsTold' /\ OrderTold'
<1> DEFINE o == calls[w].obl
<1>1. o \in Obligations /\ commitment \in [Obligations -> Commitments]
  BY CallOnObligation DEF DeadlineApply, ToldInv, LogInv, OrderInv, TypeOK
<1>2. /\ commitment' = [commitment EXCEPT ![o] = DisposedBy(calls[w])]
      /\ UNCHANGED <<payments, deliveryRows, events>>
  BY DEF DeadlineApply
<1>3. DisposedBy(calls[w]).state = commitment[o].state
  BY <1>1 DEF DisposedBy, Commitments
<1>4. \A p \in Obligations : commitment'[p].state = commitment[p].state
  <2> HIDE DEF DisposedBy, o
  <2> QED
    BY <1>1, <1>2, <1>3 DEF o
<1> QED
  BY <1>2, <1>4, SaysSame, NothingAppended

LEMMA ReadyTells ==
  ASSUME ToldInv, NEW w \in Workers, ReadyApply(w)
  PROVE  RowsTold' /\ OrderTold'
<1> DEFINE o == calls[w].obl
<1>1. OrderInv /\ TypeOK
  BY DEF ToldInv, LogInv, OrderInv
<1>2. o \in Obligations
  BY <1>1, CallOnObligation DEF ReadyApply
<1>3. /\ fulfillment[o].state = "NONE"
      /\ fulfillment'[o].state = "READY"
      /\ \A p \in Obligations \ {o} : fulfillment'[p] = fulfillment[p]
      /\ UNCHANGED <<commitment, payments, exception, remedy>>
      /\ Append(o, "FULFILLMENT_READY")
  BY <1>1, <1>2 DEF ReadyApply, TypeOK
<1>4. Adds(o, "FULFILLMENT_READY")
  BY <1>3, SaysEach, SaysEachNext DEF Adds, EventTypes
<1>5. NothingAfter(o, "FULFILLMENT_READY")
  <2>1. ~Logged(o, "FULFILLMENT_ACCEPTED")
    BY <1>2, <1>3, EventTypesHold, SaysEach DEF ToldInv, RowsTold
  <2> QED
    BY <2>1 DEF NothingAfter, LifeOrder
<1> QED
  BY <1>2, <1>3, <1>4, <1>5, AppendTells DEF EventTypes

LEMMA AcceptTells ==
  ASSUME ToldInv, NEW o \in Obligations, NEW id, NEW a, AcceptFulfillment(o, id, a)
  PROVE  RowsTold' /\ OrderTold'
<1>1. OrderInv /\ TypeOK
  BY DEF ToldInv, LogInv, OrderInv
<1>2. /\ fulfillment[o].state = "READY"
      /\ fulfillment'[o].state \in {"ACCEPTED", "PARTIALLY_ACCEPTED", "REJECTED"}
      /\ \A p \in Obligations \ {o} : fulfillment'[p] = fulfillment[p]
      /\ UNCHANGED <<commitment, payments, remedy>>
  BY <1>1 DEF AcceptFulfillment, Acceptable, TypeOK
<1>3. exception[o].kind = "NONE" /\ remedy[o].status = "NONE"
  BY <1>1, <1>2 DEF OrderInv, DeliveryCoherent
<1>4. NothingAfter(o, "FULFILLMENT_ACCEPTED") /\ NothingAfter(o, "FULFILLMENT_EXCEPTION")
  <2>1. ~Logged(o, "FULFILLMENT_EXCEPTION") /\ ~Logged(o, "REMEDY_AUTHORIZED")
    BY <1>3, EventTypesHold, SaysEach DEF ToldInv, RowsTold
  <2> QED
    BY <2>1 DEF NothingAfter, LifeOrder
<1>5. CASE Append(o, "FULFILLMENT_ACCEPTED") /\ UNCHANGED exception
  <2>1. Adds(o, "FULFILLMENT_ACCEPTED")
    BY <1>2, <1>5, SaysEach, SaysEachNext DEF Adds, EventTypes
  <2> QED
    BY <1>4, <1>5, <2>1, AppendTells DEF EventTypes
<1>6. CASE /\ AppendTwo(o, "FULFILLMENT_ACCEPTED", "FULFILLMENT_EXCEPTION")
           /\ \E k, n : k \in {"REJECTION", "SHORTFALL"} /\
                exception' = [exception EXCEPT ![o] = [kind |-> k, affected |-> n]]
  <2>1. /\ exception'[o].kind # "NONE"
        /\ \A p \in Obligations \ {o} : exception'[p] = exception[p]
    BY <1>1, <1>6 DEF TypeOK
  <2>2. AddsTwo(o, "FULFILLMENT_ACCEPTED", "FULFILLMENT_EXCEPTION")
    BY <1>2, <2>1, SaysEach, SaysEachNext DEF AddsTwo, EventTypes
  <2>3. <<"FULFILLMENT_EXCEPTION", "FULFILLMENT_ACCEPTED">> \notin LifeOrder
    BY DEF LifeOrder
  <2> QED
    BY <1>4, <1>6, <2>2, <2>3, AppendTwoTells DEF EventTypes
<1>7. \/ Append(o, "FULFILLMENT_ACCEPTED") /\ UNCHANGED exception
      \/ /\ AppendTwo(o, "FULFILLMENT_ACCEPTED", "FULFILLMENT_EXCEPTION")
         /\ \E k, n : k \in {"REJECTION", "SHORTFALL"} /\
              exception' = [exception EXCEPT ![o] = [kind |-> k, affected |-> n]]
  BY DEF AcceptFulfillment, AppendTwo
<1> QED
  BY <1>5, <1>6, <1>7

LEMMA AuthorizeTells ==
  ASSUME ToldInv, NEW w \in Workers, AuthorizeApply(w)
  PROVE  RowsTold' /\ OrderTold'
<1> DEFINE o == calls[w].obl
<1>1. OrderInv /\ TypeOK
  BY DEF ToldInv, LogInv, OrderInv
<1>2. o \in Obligations
  BY <1>1, CallOnObligation DEF AuthorizeApply
<1>3. /\ remedy[o].status = "NONE"
      /\ remedy'[o].status = "AUTHORIZED"
      /\ \A p \in Obligations \ {o} : remedy'[p] = remedy[p]
      /\ UNCHANGED <<commitment, payments, fulfillment, exception>>
      /\ Append(o, "REMEDY_AUTHORIZED")
  BY <1>1, <1>2 DEF AuthorizeApply, TypeOK
<1>4. Adds(o, "REMEDY_AUTHORIZED")
  BY <1>3, SaysEach, SaysEachNext DEF Adds, EventTypes
<1>5. NothingAfter(o, "REMEDY_AUTHORIZED")
  <2>1. ~Logged(o, "REMEDY_COMPLETED")
    BY <1>2, <1>3, EventTypesHold, SaysEach DEF ToldInv, RowsTold
  <2> QED
    BY <2>1 DEF NothingAfter, LifeOrder
<1> QED
  BY <1>2, <1>3, <1>4, <1>5, AppendTells DEF EventTypes

LEMMA CompleteTells ==
  ASSUME ToldInv, NEW o \in Obligations, NEW id, CompleteRefund(o, id)
  PROVE  RowsTold' /\ OrderTold'
<1>1. OrderInv /\ TypeOK
  BY DEF ToldInv, LogInv, OrderInv
<1>2. /\ remedy[o].status = "AUTHORIZED" /\ commitment[o].state # "NONE"
  BY <1>1 DEF CompleteRefund, OrderInv, RowsGrounded, Uncommitted, NoRemedy
<1>3. /\ remedy' = [remedy EXCEPT ![o].status = "COMPLETED"]
      /\ commitment' = [commitment EXCEPT ![o].state = "FULFILLED"]
      /\ UNCHANGED <<payments, fulfillment, exception>>
      /\ Append(o, "REMEDY_COMPLETED")
  BY DEF CompleteRefund
<1>4. /\ remedy'[o].status = "COMPLETED" /\ commitment'[o].state = "FULFILLED"
      /\ \A p \in Obligations \ {o} :
           remedy'[p] = remedy[p] /\ commitment'[p] = commitment[p]
  BY <1>1, <1>3 DEF TypeOK, Remedies, Commitments
<1>5. Adds(o, "REMEDY_COMPLETED")
  BY <1>2, <1>3, <1>4, SaysEach, SaysEachNext DEF Adds, EventTypes
<1>6. NothingAfter(o, "REMEDY_COMPLETED")
  BY DEF NothingAfter, LifeOrder
<1> QED
  BY <1>3, <1>5, <1>6, AppendTells DEF EventTypes

LEMMA ToldStep == ToldInv /\ [Next]_vars => ToldInv'
<1> SUFFICES ASSUME ToldInv, [Next]_vars PROVE BlankPayments' /\ RowsTold' /\ OrderTold'
  BY LogInvStep DEF ToldInv
<1>1. BlankPayments'
  <2>1. ASSUME NEW w \in Workers, PayApply(w) PROVE BlankPayments'
    <3>1. payments' = [payments EXCEPT ![calls[w].id] =
                         [status |-> calls[w].status, obl |-> calls[w].obl,
                          amount |-> calls[w].amount]]
      BY <2>1 DEF PayApply
    <3>2. calls[w].status # "NONE"
      BY <2>1, CallTypes DEF PayApply, PayCalls, ToldInv, LogInv, OrderInv, TypeOK
    <3>3. payments \in [PayIds -> Payments]
      BY DEF ToldInv, LogInv, OrderInv, TypeOK
    <3> QED
      BY <3>1, <3>2, <3>3 DEF ToldInv, BlankPayments
  <2>2. UNCHANGED payments => BlankPayments'
    BY DEF ToldInv, BlankPayments
  <2>3. \/ UNCHANGED payments
        \/ \E w \in Workers : PayApply(w)
    <3>1. OfferStep \/ UNCHANGED vars => UNCHANGED payments
      BY DEF OfferStep, EditOffer, DeadlinePasses, vars
    <3>2. ASSUME NEW w \in Workers,
                 CommitStep(w) \/ DeadlineStep(w) \/ RefuseCall(w) \/ AbandonCall(w)
          PROVE  UNCHANGED payments
      BY <3>2 DEF CommitStep, BeginCommit, CommitApply, DeadlineStep, BeginDeadline,
                  DeadlineApply, RefuseCall, AbandonCall
    <3>3. ASSUME NEW w \in Workers, ReadyStep(w) \/ AuthorizeStep(w)
          PROVE  UNCHANGED payments
      BY <3>3 DEF ReadyStep, BeginReady, ReadyApply, AuthorizeStep, BeginAuthorize,
                  AuthorizeApply
    <3>4. ASSUME NEW w \in Workers, PayStep(w)
          PROVE  UNCHANGED payments \/ PayApply(w)
      BY <3>4 DEF PayStep, BeginPay
    <3>5. ASSUME NEW o \in Obligations, AtomicStep(o)
          PROVE  UNCHANGED payments
      BY <3>5 DEF AtomicStep, SchedulePlan, AcceptFulfillment, CompleteRefund
    <3> QED
      BY <3>1, <3>2, <3>3, <3>4, <3>5 DEF Next
  <2> QED
    BY <2>1, <2>2, <2>3
<1>2. ASSUME UNCHANGED <<commitment, payments, deliveryRows, events>>
      PROVE  RowsTold' /\ OrderTold'
  <2>1. \A p \in Obligations, u \in EventTypes : Says(p, u)' <=> Says(p, u)
    BY <1>2, SaysSame
  <2> QED
    BY <1>2, <2>1, NothingAppended
<1>3. ASSUME OfferStep PROVE RowsTold' /\ OrderTold'
  BY <1>2, <1>3 DEF OfferStep, EditOffer, DeadlinePasses
<1>4. ASSUME NEW w \in Workers,
             CommitStep(w) \/ PayStep(w) \/ DeadlineStep(w) \/ ReadyStep(w) \/ AuthorizeStep(w)
      PROVE  RowsTold' /\ OrderTold'
  <2>1. ASSUME NEW id, NEW p, NEW a, NEW s,
               \/ BeginCommit(w, id) \/ BeginPay(w, id, p, a, s) \/ BeginDeadline(w, p)
               \/ BeginReady(w, id, p) \/ BeginAuthorize(w, id, p)
        PROVE  UNCHANGED <<commitment, payments, deliveryRows, events>>
    BY <2>1 DEF BeginCommit, BeginPay, BeginDeadline, BeginReady, BeginAuthorize
  <2> QED
    BY <1>2, <1>4, <2>1, CommitTells, PayTells, DeadlineTells, ReadyTells, AuthorizeTells
    DEF CommitStep, PayStep, DeadlineStep, ReadyStep, AuthorizeStep
<1>5. ASSUME NEW w \in Workers, RefuseCall(w) \/ AbandonCall(w)
      PROVE  UNCHANGED <<commitment, payments, deliveryRows, events>>
  BY <1>5 DEF RefuseCall, AbandonCall
<1>6. ASSUME NEW o \in Obligations, AtomicStep(o) PROVE RowsTold' /\ OrderTold'
  <2>1. ASSUME SchedulePlan(o)
        PROVE  UNCHANGED <<commitment, payments, deliveryRows, events>>
    BY <2>1 DEF SchedulePlan
  <2> QED
    BY <1>2, <1>6, <2>1, AcceptTells, CompleteTells DEF AtomicStep
<1>7. ASSUME UNCHANGED vars PROVE RowsTold' /\ OrderTold'
  BY <1>2, <1>7 DEF vars
<1> QED
  BY <1>1, <1>2, <1>3, <1>4, <1>5, <1>6, <1>7 DEF Next

LEMMA ToldInit == Init => ToldInv
<1> SUFFICES ASSUME Init PROVE BlankPayments /\ RowsTold /\ OrderTold
  BY LogInvInit DEF ToldInv
<1>1. BlankPayments
  BY DEF Init, BlankPayments, NoPayment
<1>2. RowsTold
  BY OrdersAssumption
  DEF OrdersAssumption, Init, RowsTold, Logged, Says, EventTypes, NoCommitment, NoPayment,
      NoFulfillment, NoException, NoRemedy
<1>3. OrderTold
  BY DEF Init, OrderTold, Before
<1> QED
  BY <1>1, <1>2, <1>3

LEMMA ToldSuffices == ASSUME ToldInv PROVE LogTellsTheRows
<1> SUFFICES ASSUME NEW o \in Obligations
             PROVE  /\ \A t \in EventTypes : Logged(o, t) <=> Says(o, t)
                    /\ \A pair \in LifeOrder : Before(o, pair[1], pair[2])
                    /\ exception[o].kind # "NONE" <=> fulfillment[o].shortfall > 0
                    /\ commitment[o].state = "FULFILLED" <=> remedy[o].status = "COMPLETED"
  BY EventTypesHold, SaysEach DEF LogTellsTheRows, LifeOrder
<1> QED
  BY DEF ToldInv, RowsTold, OrderTold, LogInv, OrderInv, DeliveryCoherent

(* Replaying the canonical log gives the rows: each row has its event and  *)
(* each event its row, in the order of the life cycle, although the        *)
(* handlers that append hold no lock in common.                            *)
THEOREM LogAlwaysTellsTheRows == Spec => []LogTellsTheRows
<1>1. ToldInv => LogTellsTheRows
  BY ToldSuffices
<1> QED
  BY <1>1, ToldInit, ToldStep, PTL DEF Spec

-----------------------------------------------------------------------------
(* Effects.                                                                *)

(* The effects of the five commands, as the tables hold them. *)
Committed  == {o \in Obligations : commitment[o].state # "NONE"}
MadeReady  == {o \in Obligations : fulfillment[o].state # "NONE"}
Answered   == {o \in Obligations : fulfillment[o].state \notin {"NONE", "READY"}}
Authorized == {o \in Obligations : remedy[o].status # "NONE"}
Completed  == {o \in Obligations : remedy[o].status = "COMPLETED"}

Effects == <<Committed, MadeReady, Answered, Authorized, Completed>>

Gains(old, new) == \E x : x \notin old /\ new = old \cup {x}

(* A step that claims a request id has one effect, any other has none. *)
EffectMoves ==
  \/ UNCHANGED commandKeys /\ UNCHANGED Effects
  \/ /\ Gains(commandKeys, commandKeys')
     /\ \/ /\ Gains(Committed, Committed')
           /\ UNCHANGED <<MadeReady, Answered, Authorized, Completed>>
        \/ /\ Gains(MadeReady, MadeReady')
           /\ UNCHANGED <<Committed, Answered, Authorized, Completed>>
        \/ /\ Gains(Answered, Answered')
           /\ UNCHANGED <<Committed, MadeReady, Authorized, Completed>>
        \/ /\ Gains(Authorized, Authorized')
           /\ UNCHANGED <<Committed, MadeReady, Answered, Completed>>
        \/ /\ Gains(Completed, Completed')
           /\ UNCHANGED <<Committed, MadeReady, Answered, Authorized>>

(* What the five sets read. *)
EffectStates(o) ==
  /\ commitment'[o].state = "NONE" <=> commitment[o].state = "NONE"
  /\ fulfillment'[o] = fulfillment[o]
  /\ remedy'[o] = remedy[o]

LEMMA SameEffects ==
  ASSUME UNCHANGED commandKeys, \A o \in Obligations : EffectStates(o)
  PROVE  EffectMoves
BY DEF EffectMoves, EffectStates, Effects, Committed, MadeReady, Answered, Authorized, Completed

LEMMA EffectSteps == ASSUME OrderInv, [Next]_vars PROVE EffectMoves
<1> USE DEF Effects, Committed, MadeReady, Answered, Authorized, Completed
<1>1. CASE UNCHANGED <<commitment, fulfillment, remedy, commandKeys>>
  BY <1>1, SameEffects DEF EffectStates
<1>2. ASSUME NEW w \in Workers, NEW o \in Obligations, CommitApply(w, o) PROVE EffectMoves
  <2>1. /\ Gains(commandKeys, commandKeys')
        /\ UNCHANGED deliveryRows
    BY <1>2 DEF CommitApply, Claim, Gains
  <2>2. o \notin Committed /\ Committed' = Committed \cup {o}
    BY <1>2 DEF CommitApply, OrderInv, TypeOK
  <2>3. Gains(Committed, Committed')
    BY <2>2 DEF Gains
  <2> QED
    BY <2>1, <2>3 DEF EffectMoves
<1>3. ASSUME NEW w \in Workers, PayApply(w) PROVE EffectMoves
  <2>1. /\ commitment' = [commitment EXCEPT ![calls[w].obl] = QualifiedBy(calls[w])]
        /\ UNCHANGED <<commandKeys, deliveryRows>>
    BY <1>3 DEF PayApply
  <2>2. calls[w].obl \in Obligations =>
          QualifiedBy(calls[w]).state = commitment[calls[w].obl].state
    BY DEF QualifiedBy, OrderInv, TypeOK, Commitments
  <2> HIDE DEF QualifiedBy
  <2> QED
    BY <2>1, <2>2, SameEffects DEF EffectStates, OrderInv, TypeOK
<1>4. ASSUME NEW w \in Workers, DeadlineApply(w) PROVE EffectMoves
  <2>1. /\ commitment' = [commitment EXCEPT ![calls[w].obl] = DisposedBy(calls[w])]
        /\ UNCHANGED <<deliveryRows, logRows>>
    BY <1>4 DEF DeadlineApply
  <2>2. calls[w].obl \in Obligations =>
          DisposedBy(calls[w]).state = commitment[calls[w].obl].state
    BY DEF DisposedBy, OrderInv, TypeOK, Commitments
  <2> HIDE DEF DisposedBy
  <2> QED
    BY <2>1, <2>2, SameEffects DEF EffectStates, OrderInv, TypeOK
<1>5. ASSUME NEW w \in Workers, ReadyApply(w) PROVE EffectMoves
  <2> DEFINE o == calls[w].obl
  <2>1. o \in Obligations
    BY <1>5, CallOnObligation DEF ReadyApply
  <2>2. /\ Gains(commandKeys, commandKeys')
        /\ UNCHANGED <<commitment, remedy>>
    BY <1>5 DEF ReadyApply, Claim, Gains
  <2>3. /\ fulfillment[o].state = "NONE" /\ fulfillment'[o].state = "READY"
        /\ \A p \in Obligations \ {o} : fulfillment'[p] = fulfillment[p]
    BY <1>5, <2>1 DEF ReadyApply, OrderInv, TypeOK
  <2>4. o \notin MadeReady /\ MadeReady' = MadeReady \cup {o} /\ Answered' = Answered
    BY <2>1, <2>3
  <2>5. Gains(MadeReady, MadeReady')
    BY <2>4 DEF Gains
  <2> QED
    BY <2>2, <2>4, <2>5 DEF EffectMoves
<1>6. ASSUME NEW w \in Workers, AuthorizeApply(w) PROVE EffectMoves
  <2> DEFINE o == calls[w].obl
  <2>1. o \in Obligations
    BY <1>6, CallOnObligation DEF AuthorizeApply
  <2>2. /\ Gains(commandKeys, commandKeys')
        /\ UNCHANGED <<commitment, fulfillment>>
    BY <1>6 DEF AuthorizeApply, Claim, Gains
  <2>3. /\ remedy[o].status = "NONE" /\ remedy'[o].status = "AUTHORIZED"
        /\ \A p \in Obligations \ {o} : remedy'[p] = remedy[p]
    BY <1>6, <2>1 DEF AuthorizeApply, OrderInv, TypeOK
  <2>4. o \notin Authorized /\ Authorized' = Authorized \cup {o} /\ Completed' = Completed
    BY <2>1, <2>3
  <2>5. Gains(Authorized, Authorized')
    BY <2>4 DEF Gains
  <2> QED
    BY <2>2, <2>4, <2>5 DEF EffectMoves
<1>7. ASSUME NEW o \in Obligations, NEW id, NEW a, AcceptFulfillment(o, id, a)
      PROVE  EffectMoves
  <2>1. /\ Gains(commandKeys, commandKeys')
        /\ UNCHANGED <<commitment, remedy>>
    BY <1>7 DEF AcceptFulfillment, Claim, Gains
  <2>2. /\ fulfillment[o].state = "READY"
        /\ fulfillment'[o].state \in {"ACCEPTED", "PARTIALLY_ACCEPTED", "REJECTED"}
        /\ \A p \in Obligations \ {o} : fulfillment'[p] = fulfillment[p]
    BY <1>7 DEF AcceptFulfillment, Acceptable, OrderInv, TypeOK
  <2>3. o \notin Answered /\ Answered' = Answered \cup {o} /\ MadeReady' = MadeReady
    BY <2>2
  <2>4. Gains(Answered, Answered')
    BY <2>3 DEF Gains
  <2> QED
    BY <2>1, <2>3, <2>4 DEF EffectMoves
<1>8. ASSUME NEW o \in Obligations, NEW id, CompleteRefund(o, id) PROVE EffectMoves
  <2>1. /\ Gains(commandKeys, commandKeys')
        /\ UNCHANGED fulfillment
    BY <1>8 DEF CompleteRefund, Claim, Gains
  <2>2. /\ remedy[o].status = "AUTHORIZED"
        /\ commitment[o].state # "NONE"
    BY <1>8 DEF CompleteRefund, OrderInv, RowsGrounded, Uncommitted, NoRemedy
  <2>3. /\ remedy' = [remedy EXCEPT ![o].status = "COMPLETED"]
        /\ commitment' = [commitment EXCEPT ![o].state = "FULFILLED"]
    BY <1>8 DEF CompleteRefund
  <2>4. /\ remedy'[o].status = "COMPLETED" /\ commitment'[o].state = "FULFILLED"
        /\ \A p \in Obligations \ {o} :
             remedy'[p] = remedy[p] /\ commitment'[p] = commitment[p]
    BY <2>3 DEF OrderInv, TypeOK, Remedies, Commitments
  <2>5. /\ o \notin Completed /\ Completed' = Completed \cup {o}
        /\ Authorized' = Authorized /\ Committed' = Committed
    BY <2>2, <2>4
  <2>6. Gains(Completed, Completed')
    BY <2>5 DEF Gains
  <2> QED
    BY <2>1, <2>5, <2>6 DEF EffectMoves
<1>9. CASE OfferStep
  BY <1>1, <1>9 DEF OfferStep, EditOffer, DeadlinePasses
<1>10. ASSUME NEW w \in Workers,
              CommitStep(w) \/ PayStep(w) \/ DeadlineStep(w) \/ ReadyStep(w) \/ AuthorizeStep(w)
       PROVE  EffectMoves
  <2>1. ASSUME NEW id, NEW p, NEW a, NEW s,
               \/ BeginCommit(w, id) \/ BeginPay(w, id, p, a, s) \/ BeginDeadline(w, p)
               \/ BeginReady(w, id, p) \/ BeginAuthorize(w, id, p)
        PROVE  UNCHANGED <<commitment, fulfillment, remedy, commandKeys>>
    BY <2>1 DEF BeginCommit, BeginPay, BeginDeadline, BeginReady, BeginAuthorize
  <2> QED
    BY <1>1, <1>2, <1>3, <1>4, <1>5, <1>6, <1>10, <2>1
    DEF CommitStep, PayStep, DeadlineStep, ReadyStep, AuthorizeStep
<1>11. ASSUME NEW w \in Workers, RefuseCall(w) \/ AbandonCall(w)
       PROVE  UNCHANGED <<commitment, fulfillment, remedy, commandKeys>>
  BY <1>11 DEF RefuseCall, AbandonCall
<1>12. ASSUME NEW o \in Obligations, AtomicStep(o) PROVE EffectMoves
  <2>1. ASSUME SchedulePlan(o)
        PROVE  UNCHANGED <<commitment, fulfillment, remedy, commandKeys>>
    BY <2>1 DEF SchedulePlan
  <2> QED
    BY <1>1, <1>7, <1>8, <1>12, <2>1 DEF AtomicStep
<1>13. CASE UNCHANGED vars
  BY <1>1, <1>13 DEF vars
<1> QED
  BY <1>1, <1>9, <1>10, <1>11, <1>12, <1>13 DEF Next

EffectsFinite ==
  /\ IsFiniteSet(commandKeys)
  /\ IsFiniteSet(Committed)
  /\ IsFiniteSet(MadeReady)
  /\ IsFiniteSet(Answered)
  /\ IsFiniteSet(Authorized)
  /\ IsFiniteSet(Completed)

EffectsCounted ==
  Cardinality(commandKeys) =
    Cardinality(Committed) + Cardinality(MadeReady) + Cardinality(Answered)
      + Cardinality(Authorized) + Cardinality(Completed)

(* However many obligations and request ids there may be, the tables hold  *)
(* finitely many effects.                                                  *)
EffectsInv == OrderInv /\ EffectsFinite /\ EffectsCounted

LEMMA GainCounts ==
  ASSUME NEW S, NEW T, IsFiniteSet(S), Gains(S, T)
  PROVE  /\ IsFiniteSet(T)
         /\ Cardinality(S) \in Nat
         /\ Cardinality(T) = Cardinality(S) + 1
BY FS_AddElement, FS_CardinalityType DEF Gains

LEMMA EffectsStep == EffectsInv /\ [Next]_vars => EffectsInv'
<1> SUFFICES ASSUME EffectsInv, EffectMoves
             PROVE  EffectsFinite' /\ EffectsCounted'
  BY NextInv, EffectSteps DEF EffectsInv
<1> USE DEF EffectsInv, EffectsFinite, EffectsCounted
<1>1. /\ Cardinality(commandKeys) \in Nat
      /\ Cardinality(Committed) \in Nat /\ Cardinality(MadeReady) \in Nat
      /\ Cardinality(Answered) \in Nat
      /\ Cardinality(Authorized) \in Nat /\ Cardinality(Completed) \in Nat
  BY FS_CardinalityType
<1>2. CASE UNCHANGED commandKeys /\ UNCHANGED Effects
  BY <1>2 DEF Effects
<1>3. CASE Gains(commandKeys, commandKeys')
  <2>1. IsFiniteSet(commandKeys') /\ Cardinality(commandKeys') = Cardinality(commandKeys) + 1
    BY <1>3, GainCounts
  <2>2. CASE /\ Gains(Committed, Committed')
             /\ UNCHANGED <<MadeReady, Answered, Authorized, Completed>>
    BY <1>1, <2>1, <2>2, GainCounts
  <2>3. CASE /\ Gains(MadeReady, MadeReady')
             /\ UNCHANGED <<Committed, Answered, Authorized, Completed>>
    BY <1>1, <2>1, <2>3, GainCounts
  <2>4. CASE /\ Gains(Answered, Answered')
             /\ UNCHANGED <<Committed, MadeReady, Authorized, Completed>>
    BY <1>1, <2>1, <2>4, GainCounts
  <2>5. CASE /\ Gains(Authorized, Authorized')
             /\ UNCHANGED <<Committed, MadeReady, Answered, Completed>>
    BY <1>1, <2>1, <2>5, GainCounts
  <2>6. CASE /\ Gains(Completed, Completed')
             /\ UNCHANGED <<Committed, MadeReady, Answered, Authorized>>
    BY <1>1, <2>1, <2>6, GainCounts
  <2>7. EffectMoves => \/ UNCHANGED commandKeys /\ UNCHANGED Effects
                       \/ /\ Gains(Committed, Committed')
                          /\ UNCHANGED <<MadeReady, Answered, Authorized, Completed>>
                       \/ /\ Gains(MadeReady, MadeReady')
                          /\ UNCHANGED <<Committed, Answered, Authorized, Completed>>
                       \/ /\ Gains(Answered, Answered')
                          /\ UNCHANGED <<Committed, MadeReady, Authorized, Completed>>
                       \/ /\ Gains(Authorized, Authorized')
                          /\ UNCHANGED <<Committed, MadeReady, Answered, Completed>>
                       \/ /\ Gains(Completed, Completed')
                          /\ UNCHANGED <<Committed, MadeReady, Answered, Authorized>>
    BY DEF EffectMoves
  <2> QED
    BY <1>2, <2>2, <2>3, <2>4, <2>5, <2>6, <2>7
<1> QED
  BY <1>2, <1>3 DEF EffectMoves

LEMMA EffectsInit == Init => EffectsInv
<1> SUFFICES ASSUME Init PROVE EffectsFinite /\ EffectsCounted
  BY InitInv DEF EffectsInv
<1>1. /\ commandKeys = {} /\ Committed = {} /\ MadeReady = {} /\ Answered = {}
      /\ Authorized = {} /\ Completed = {}
  BY DEF Init, Committed, MadeReady, Answered, Authorized, Completed,
         NoCommitment, NoFulfillment, NoRemedy
<1> QED
  BY <1>1, FS_EmptySet DEF EffectsFinite, EffectsCounted

(* Exactly one effect per request id, under every duplication and every    *)
(* crossing of request ids between the five commands: the ids recorded     *)
(* are as many as the effects in the tables.                               *)
THEOREM EffectsAlwaysCounted == Spec => []OneEffectPerRequest
<1>1. EffectsInv => OneEffectPerRequest
  BY DEF EffectsInv, EffectsCounted, OneEffectPerRequest, Count,
         Committed, MadeReady, Answered, Authorized, Completed
<1> QED
  BY <1>1, EffectsInit, EffectsStep, PTL DEF Spec

-----------------------------------------------------------------------------
(* The member's answer.                                                    *)

AnswerStands(o) ==
  fulfillment[o].state \notin {"NONE", "READY"} =>
    /\ fulfillment'[o] = fulfillment[o]
    /\ exception'[o] = exception[o]
    /\ remedy[o].status # "NONE" => /\ remedy'[o].amount = remedy[o].amount
                                    /\ remedy'[o].status # "NONE"

LEMMA AnswerStep ==
  ASSUME OrderInv, [Next]_vars, NEW o \in Obligations
  PROVE  AnswerStands(o)
<1>1. CASE UNCHANGED deliveryRows
  BY <1>1 DEF AnswerStands
<1>2. ASSUME NEW w \in Workers, ReadyApply(w) PROVE AnswerStands(o)
  BY <1>2 DEF ReadyApply, AnswerStands, OrderInv, TypeOK
<1>3. ASSUME NEW w \in Workers, AuthorizeApply(w) PROVE AnswerStands(o)
  BY <1>3 DEF AuthorizeApply, AnswerStands, OrderInv, TypeOK
<1>4. ASSUME NEW p \in Obligations, NEW id, NEW a, AcceptFulfillment(p, id, a)
      PROVE  AnswerStands(o)
  BY <1>4 DEF AcceptFulfillment, Acceptable, AnswerStands, OrderInv, TypeOK
<1>5. ASSUME NEW p \in Obligations, NEW id, CompleteRefund(p, id) PROVE AnswerStands(o)
  <2>1. remedy[o] \in Remedies
    BY DEF OrderInv, TypeOK
  <2>2. remedy'[o] = [remedy[o] EXCEPT !.status = "COMPLETED"] \/ remedy'[o] = remedy[o]
    BY <1>5 DEF CompleteRefund, OrderInv, TypeOK
  <2>3. remedy'[o].amount = remedy[o].amount
    BY <2>1, <2>2 DEF Remedies
  <2>4. remedy[o].status # "NONE" => remedy'[o].status # "NONE"
    BY <2>1, <2>2 DEF Remedies
  <2> QED
    BY <1>5, <2>3, <2>4 DEF CompleteRefund, AnswerStands
<1>6. CASE OfferStep
  BY <1>1, <1>6 DEF OfferStep, EditOffer, DeadlinePasses
<1>7. ASSUME NEW w \in Workers, CommitStep(w) \/ PayStep(w) \/ DeadlineStep(w)
      PROVE  UNCHANGED deliveryRows
  BY <1>7 DEF CommitStep, BeginCommit, CommitApply, PayStep, BeginPay, PayApply,
              DeadlineStep, BeginDeadline, DeadlineApply
<1>8. ASSUME NEW w \in Workers, ReadyStep(w) \/ AuthorizeStep(w) PROVE AnswerStands(o)
  <2>1. ASSUME NEW id, NEW p, BeginReady(w, id, p) \/ BeginAuthorize(w, id, p)
        PROVE  UNCHANGED deliveryRows
    BY <2>1 DEF BeginReady, BeginAuthorize
  <2> QED
    BY <1>1, <1>2, <1>3, <1>8, <2>1 DEF ReadyStep, AuthorizeStep
<1>9. ASSUME NEW w \in Workers, RefuseCall(w) \/ AbandonCall(w) PROVE UNCHANGED deliveryRows
  BY <1>9 DEF RefuseCall, AbandonCall
<1>10. ASSUME NEW p \in Obligations, AtomicStep(p) PROVE AnswerStands(o)
  <2>1. ASSUME SchedulePlan(p) PROVE UNCHANGED deliveryRows
    BY <2>1 DEF SchedulePlan
  <2> QED
    BY <1>1, <1>4, <1>5, <1>10, <2>1 DEF AtomicStep
<1>11. CASE UNCHANGED vars
  BY <1>1, <1>11 DEF vars
<1> QED
  BY <1>1, <1>6, <1>7, <1>8, <1>9, <1>10, <1>11 DEF Next

(* A member who has answered is never asked again: no interleaving of      *)
(* acceptances, authorizations and refunds changes what was answered or    *)
(* the amount once authorized.                                             *)
THEOREM AcceptanceStands == Spec => AcceptanceFinal
<1>1. OrderInv /\ [Next]_vars => [\A o \in Obligations : AnswerStands(o)]_vars
  BY AnswerStep
<1>2. Spec => [][\A o \in Obligations : AnswerStands(o)]_vars
  BY <1>1, OrderInvAlways, PTL DEF Spec
<1> QED
  BY <1>2 DEF AcceptanceFinal, AnswerStands

-----------------------------------------------------------------------------
(* The deadline.                                                           *)

(* The row changed, if at all, only where it is not the deadline's. *)
DecisionKept(o) ==
  /\ commitment'[o].processed = commitment[o].processed
  /\ commitment'[o].released = commitment[o].released
  /\ ledger'[o] = ledger[o]

PlanKept(o) ==
  /\ [plan'[o] EXCEPT !.state = plan[o].state] = plan[o]
  /\ plan[o].state = "NONE" => plan'[o].state = "NONE"

DecisionStands(o) ==
  commitment[o].processed =>
    /\ commitment'[o].processed
    /\ commitment'[o].released = commitment[o].released
    /\ ledger'[o] = ledger[o]
    /\ [plan'[o] EXCEPT !.state = plan[o].state] = plan[o]
    /\ plan[o].state = "NONE" => plan'[o].state = "NONE"

LEMMA KeptStands == ASSUME NEW o, DecisionKept(o), PlanKept(o) PROVE DecisionStands(o)
BY DEF DecisionKept, PlanKept, DecisionStands

LEMMA SamePlanKept ==
  ASSUME OrderInv, NEW o \in Obligations, plan'[o] = plan[o]
  PROVE  PlanKept(o)
BY DEF PlanKept, OrderInv, TypeOK, Plans

LEMMA SameDecisionKept ==
  ASSUME NEW o \in Obligations, UNCHANGED <<commitment, ledger>>
  PROVE  DecisionKept(o)
BY DEF DecisionKept

LEMMA DecisionStep ==
  ASSUME OrderInv, [Next]_vars, NEW o \in Obligations
  PROVE  DecisionStands(o)
<1>1. CASE UNCHANGED <<commitment, deadlineRows>>
  BY <1>1, KeptStands, SamePlanKept, SameDecisionKept
<1>2. ASSUME NEW w \in Workers, NEW p \in Obligations, CommitApply(w, p)
      PROVE  DecisionStands(o)
  <2>1. CASE p = o
    <3>1. ~commitment[o].processed
      BY <1>2, <2>1 DEF CommitApply, OrderInv, RowsGrounded, Uncommitted, NoCommitment
    <3> QED
      BY <3>1 DEF DecisionStands
  <2>2. CASE p # o
    BY <1>2, <2>2, KeptStands, SamePlanKept
    DEF CommitApply, DecisionKept, OrderInv, TypeOK
  <2> QED
    BY <2>1, <2>2
<1>3. ASSUME NEW w \in Workers, PayApply(w) PROVE DecisionStands(o)
  <2>1. /\ commitment' = [commitment EXCEPT ![calls[w].obl] = QualifiedBy(calls[w])]
        /\ UNCHANGED deadlineRows
    BY <1>3 DEF PayApply
  <2>2. calls[w].obl = o => /\ QualifiedBy(calls[w]).processed = commitment[o].processed
                            /\ QualifiedBy(calls[w]).released = commitment[o].released
    BY DEF QualifiedBy, OrderInv, TypeOK, Commitments
  <2> HIDE DEF QualifiedBy
  <2>3. DecisionKept(o)
    BY <2>1, <2>2 DEF DecisionKept, OrderInv, TypeOK
  <2> QED
    BY <2>1, <2>3, KeptStands, SamePlanKept
<1>4. ASSUME NEW w \in Workers, DeadlineApply(w) PROVE DecisionStands(o)
  <2>1. CASE calls[w].obl = o
    <3>1. ~commitment[o].processed
      BY <1>4, <2>1 DEF DeadlineApply, Unprocessed
    <3> QED
      BY <3>1 DEF DecisionStands
  <2>2. CASE calls[w].obl # o
    <3>1. commitment'[o] = commitment[o] /\ ledger'[o] = ledger[o] /\ plan'[o] = plan[o]
      BY <1>4, <2>2 DEF DeadlineApply, OrderInv, TypeOK
    <3> QED
      BY <3>1, KeptStands, SamePlanKept DEF DecisionKept
  <2> QED
    BY <2>1, <2>2
<1>5. ASSUME NEW p \in Obligations, SchedulePlan(p) PROVE DecisionStands(o)
  <2>1. /\ plan' = [plan EXCEPT ![p].state = "SCHEDULED"]
        /\ plan[p].state = "PENDING"
        /\ UNCHANGED <<commitment, ledger>>
    BY <1>5 DEF SchedulePlan
  <2>2. PlanKept(o)
    BY <2>1 DEF PlanKept, OrderInv, TypeOK, Plans
  <2> QED
    BY <2>1, <2>2, KeptStands, SameDecisionKept
<1>6. ASSUME NEW p \in Obligations, NEW id, CompleteRefund(p, id) PROVE DecisionStands(o)
  <2>1. /\ commitment' = [commitment EXCEPT ![p].state = "FULFILLED"]
        /\ UNCHANGED deadlineRows
    BY <1>6 DEF CompleteRefund
  <2>2. DecisionKept(o)
    BY <2>1 DEF DecisionKept, OrderInv, TypeOK, Commitments
  <2> QED
    BY <2>1, <2>2, KeptStands, SamePlanKept
<1>7. CASE OfferStep
  BY <1>1, <1>7 DEF OfferStep, EditOffer, DeadlinePasses
<1>8. ASSUME NEW w \in Workers, CommitStep(w) \/ PayStep(w) \/ DeadlineStep(w)
      PROVE  DecisionStands(o)
  <2>1. ASSUME NEW id, NEW p, NEW a, NEW s,
               BeginCommit(w, id) \/ BeginPay(w, id, p, a, s) \/ BeginDeadline(w, p)
        PROVE  UNCHANGED <<commitment, deadlineRows>>
    BY <2>1 DEF BeginCommit, BeginPay, BeginDeadline
  <2> QED
    BY <1>1, <1>2, <1>3, <1>4, <1>8, <2>1 DEF CommitStep, PayStep, DeadlineStep
<1>9. ASSUME NEW w \in Workers,
             ReadyStep(w) \/ AuthorizeStep(w) \/ RefuseCall(w) \/ AbandonCall(w)
      PROVE  UNCHANGED <<commitment, deadlineRows>>
  BY <1>9 DEF ReadyStep, BeginReady, ReadyApply, AuthorizeStep, BeginAuthorize,
              AuthorizeApply, RefuseCall, AbandonCall
<1>10. ASSUME NEW p \in Obligations, AtomicStep(p) PROVE DecisionStands(o)
  <2>1. ASSUME NEW id, NEW a, AcceptFulfillment(p, id, a)
        PROVE  UNCHANGED <<commitment, deadlineRows>>
    BY <2>1 DEF AcceptFulfillment
  <2> QED
    BY <1>1, <1>5, <1>6, <1>10, <2>1 DEF AtomicStep
<1>11. CASE UNCHANGED vars
  BY <1>1, <1>11 DEF vars
<1> QED
  BY <1>1, <1>7, <1>8, <1>9, <1>10, <1>11 DEF Next

(* The deadline decides about an obligation at most once: two processors   *)
(* whose statements overlap, late payments and offer edits leave what the  *)
(* first one released, credited and planned.                               *)
THEOREM DeadlineDecisionStands == Spec => DeadlineDecidesOnce
<1>1. OrderInv /\ [Next]_vars => [\A o \in Obligations : DecisionStands(o)]_vars
  BY DecisionStep
<1>2. Spec => [][\A o \in Obligations : DecisionStands(o)]_vars
  BY <1>1, OrderInvAlways, PTL DEF Spec
<1> QED
  BY <1>2 DEF DeadlineDecidesOnce, DecisionStands

-----------------------------------------------------------------------------
(* The disposition.                                                        *)

(* What the rows of one obligation say of its disposition; before the      *)
(* deadline there is none.                                                 *)
Disposition(c, l, p, total) ==
  /\ ~c.processed => l = NoLedger /\ p = NoPlan
  /\ l.state # "NONE" =>
       /\ c.processed
       /\ l.amount + l.applied = l.source
       /\ l.source <= total
       /\ p.planned = FulfillQty(l.source, c.price, c.quantity)
       /\ p.disposition # "RESCHEDULE_REQUIRED"
  /\ c.processed => p.planned + c.released = c.quantity
  /\ p.state # "NONE" => c.processed /\ p.released = c.released

(* One total decides the balance, the plan and what is released.           *)
LEMMA DeadlineDisposes ==
  ASSUME OrderInv, NEW w \in Workers, DeadlineApply(w), NEW o \in Obligations,
         o = calls[w].obl, Disposition(commitment[o], ledger[o], plan[o], paid[o])
  PROVE  Disposition(commitment'[o], ledger'[o], plan'[o], paid'[o])
<1> DEFINE call == calls[w]
           c == commitment[o]
           sum == call.paid
           tier == Tier(sum, c.price, call.bps)
           fulfil == FulfillQty(sum, c.price, c.quantity)
           release == ReleaseQty(sum, c.price, c.quantity, tier)
           balance == PrepaidBalance(sum, c.price, c.quantity, tier)
           applied == Applied(sum, c.price, c.quantity, tier)
           reschedule == tier = "CURRENT_BATCH_RESCHEDULE"
<1>1. /\ call \in DeadlineCalls
      /\ c \in Commitments
      /\ paid[o] \in Nat /\ sum \in Nat /\ sum <= paid[o]
      /\ c.price \in Nat /\ c.quantity \in Nat \ {0}
  BY CallTypes, HasCommitment
  DEF DeadlineApply, Unprocessed, Open, DeadlineCalls, OrderInv, TypeOK, CallsGrounded,
      CallGrounded, Commitments
<1>2. ledger[o] = NoLedger /\ plan[o] = NoPlan
  BY DEF DeadlineApply, Unprocessed, Disposition
<1>3. /\ paid'[o] = paid[o]
      /\ commitment'[o] = DisposedBy(call)
      /\ ledger'[o] = LedgerAfter(o, sum, tier)
      /\ plan'[o] = PlanAfter(o, sum, tier)
  BY DEF DeadlineApply, OrderInv, TypeOK
<1>4. /\ commitment'[o].processed
      /\ commitment'[o].price = c.price
      /\ commitment'[o].quantity = c.quantity
      /\ commitment'[o].released = release
  BY <1>1, <1>3 DEF DisposedBy, Commitments
<1>5. ledger'[o] = IF balance > 0
                   THEN [state |-> "AVAILABLE", amount |-> balance, source |-> sum,
                         applied |-> applied]
                   ELSE NoLedger
  BY <1>2, <1>3 DEF LedgerAfter, NoLedger
<1>6. plan'[o] =
        IF /\ tier \in {"CURRENT_BATCH_RESCHEDULE", "PRORATED_FULFILLMENT", "FULLY_PAID"}
           /\ (IF reschedule THEN c.quantity ELSE fulfil) > 0
        THEN [state |-> "PENDING",
              disposition |-> IF reschedule THEN "RESCHEDULE_REQUIRED" ELSE "READY_TO_FULFILL",
              planned |-> IF reschedule THEN c.quantity ELSE fulfil,
              released |-> release]
        ELSE NoPlan
  BY <1>2, <1>3 DEF PlanAfter, NoPlan
<1>7. /\ fulfil \in Nat /\ release \in Nat
      /\ tier = "FULLY_PAID" => fulfil = c.quantity /\ release = 0
      /\ tier = "PRORATED_FULFILLMENT" => fulfil + release = c.quantity
      /\ tier = "CURRENT_BATCH_RESCHEDULE" => fulfil = 0 /\ release = 0
      /\ tier \in {"UNQUALIFIED", "DEMAND_QUALIFIED"} => fulfil = 0 /\ release = c.quantity
  BY <1>1, GoodsAddUp
<1>8. tier \in Tiers
  BY TierType
<1>9. /\ balance \in Nat
      /\ balance > 0 => balance + applied = sum
      /\ balance > 0 => tier \in {"UNQUALIFIED", "DEMAND_QUALIFIED", "PRORATED_FULFILLMENT"}
  <2>0. c.price \in Nat /\ c.quantity \in Nat \ {0} /\ sum \in Nat
    BY <1>1
  <2> HIDE DEF tier, sum, c
  <2>1. /\ applied \in Nat
        /\ balance \in Nat
        /\ balance > 0 => applied + balance = sum
    BY <1>8, <2>0, AppliedBound, PrepaidBalanceConserves
  <2>2. ~(tier \in {"UNQUALIFIED", "DEMAND_QUALIFIED", "PRORATED_FULFILLMENT"}) => balance = 0
    BY DEF PrepaidBalance
  <2> HIDE DEF balance, applied
  <2> QED
    BY <2>1, <2>2
<1> HIDE DEF tier, fulfil, release, balance, applied
<1>10. plan'[o].planned = IF reschedule THEN c.quantity ELSE fulfil
  BY <1>1, <1>6, <1>7, <1>8 DEF NoPlan, Tiers
<1>11. plan'[o].planned + release = c.quantity
  BY <1>1, <1>7, <1>8, <1>10 DEF Tiers
<1>12. plan'[o].state # "NONE" => plan'[o].released = release
  BY <1>6 DEF NoPlan
<1>13. ASSUME ledger'[o].state # "NONE"
       PROVE  /\ ledger'[o].amount + ledger'[o].applied = ledger'[o].source
              /\ ledger'[o].source = sum
              /\ plan'[o].planned = fulfil
              /\ plan'[o].disposition # "RESCHEDULE_REQUIRED"
  <2>1. balance > 0
    BY <1>5, <1>13 DEF NoLedger
  <2> QED
    BY <1>5, <1>6, <1>9, <1>10, <2>1 DEF NoPlan
<1> QED
  BY <1>1, <1>3, <1>4, <1>11, <1>12, <1>13 DEF Disposition, fulfil

(* A step that is not the deadline's: at most the schedule moves on and    *)
(* more is paid.                                                           *)
DispositionKept(o) ==
  /\ commitment'[o].processed = commitment[o].processed
  /\ commitment'[o].price = commitment[o].price
  /\ commitment'[o].quantity = commitment[o].quantity
  /\ commitment'[o].released = commitment[o].released
  /\ ledger'[o] = ledger[o]
  /\ \/ plan'[o] = plan[o]
     \/ plan[o].state # "NONE" /\ plan'[o] = [plan[o] EXCEPT !.state = "SCHEDULED"]
  /\ paid[o] <= paid'[o]

LEMMA DispositionStays ==
  ASSUME OrderInv, OrderInv', NEW o \in Obligations, DispositionKept(o),
         Disposition(commitment[o], ledger[o], plan[o], paid[o])
  PROVE  Disposition(commitment'[o], ledger'[o], plan'[o], paid'[o])
<1>1. /\ ledger[o] \in Ledgers /\ plan[o] \in Plans
      /\ paid[o] \in Nat /\ paid'[o] \in Nat /\ ledger[o].source \in Nat
  BY DEF OrderInv, TypeOK, Ledgers
<1>2. /\ plan'[o].planned = plan[o].planned
      /\ plan'[o].disposition = plan[o].disposition
      /\ plan'[o].released = plan[o].released
      /\ plan'[o].state # "NONE" => plan[o].state # "NONE"
      /\ plan[o] = NoPlan => plan'[o] = NoPlan
  BY <1>1 DEF DispositionKept, Plans, NoPlan
<1>3. ledger[o].source <= paid[o] => ledger[o].source <= paid'[o]
  BY <1>1 DEF DispositionKept
<1> QED
  BY <1>2, <1>3 DEF Disposition, DispositionKept

DispositionInv ==
  /\ OrderInv
  /\ \A o \in Obligations : Disposition(commitment[o], ledger[o], plan[o], paid[o])

LEMMA DispositionInit == Init => DispositionInv
<1> SUFFICES ASSUME Init, NEW o \in Obligations
             PROVE  Disposition(commitment[o], ledger[o], plan[o], paid[o])
  BY InitInv DEF DispositionInv
<1> QED
  BY DEF Init, Disposition, NoCommitment, NoLedger, NoPlan

LEMMA DispositionStep == DispositionInv /\ [Next]_vars => DispositionInv'
<1> SUFFICES ASSUME DispositionInv, [Next]_vars, NEW o \in Obligations
             PROVE  Disposition(commitment'[o], ledger'[o], plan'[o], paid'[o])
  BY NextInv DEF DispositionInv
<1> USE DEF DispositionInv
<1>0. /\ OrderInv /\ OrderInv'
      /\ Disposition(commitment[o], ledger[o], plan[o], paid[o])
      /\ commitment[o] \in Commitments /\ paid[o] \in Nat
  BY NextInv DEF OrderInv, TypeOK
<1>1. SUFFICES \/ DispositionKept(o)
               \/ Disposition(commitment'[o], ledger'[o], plan'[o], paid'[o])
  BY <1>0, DispositionStays
<1>2. CASE UNCHANGED <<commitment, paid, deadlineRows>>
  BY <1>0, <1>2 DEF DispositionKept
<1>3. ASSUME NEW w \in Workers, NEW p \in Obligations, CommitApply(w, p)
      PROVE  \/ DispositionKept(o)
             \/ Disposition(commitment'[o], ledger'[o], plan'[o], paid'[o])
  <2>1. CASE p = o
    <3>1. ledger[o] = NoLedger /\ plan[o] = NoPlan
      BY <1>3, <2>1 DEF CommitApply, OrderInv, RowsGrounded, Uncommitted
    <3>2. commitment'[o].processed = FALSE /\ ledger'[o] = NoLedger /\ plan'[o] = NoPlan
      BY <1>3, <2>1, <3>1 DEF CommitApply, OrderInv, TypeOK
    <3> QED
      BY <3>2 DEF Disposition, NoLedger, NoPlan
  <2>2. CASE p # o
    BY <1>0, <1>3, <2>2 DEF CommitApply, DispositionKept, OrderInv, TypeOK
  <2> QED
    BY <2>1, <2>2
<1>4. ASSUME NEW w \in Workers, PayApply(w) PROVE DispositionKept(o)
  <2> DEFINE call == calls[w]
             added == IF call.status = "CONFIRMED" THEN call.amount ELSE 0
  <2>1. call \in PayCalls /\ call.amount \in Nat
    BY <1>4, CallTypes, OrdersAssumption
    DEF OrdersAssumption, PayApply, PayCalls, OrderInv, TypeOK
  <2>2. /\ commitment' = [commitment EXCEPT ![call.obl] = QualifiedBy(call)]
        /\ paid' = [paid EXCEPT ![call.obl] = @ + added]
        /\ UNCHANGED deadlineRows
    BY <1>4 DEF PayApply
  <2>3. paid[o] <= paid'[o]
    BY <1>0, <2>1, <2>2 DEF OrderInv, TypeOK
  <2>4. call.obl = o => /\ QualifiedBy(call).processed = commitment[o].processed
                        /\ QualifiedBy(call).price = commitment[o].price
                        /\ QualifiedBy(call).quantity = commitment[o].quantity
                        /\ QualifiedBy(call).released = commitment[o].released
    BY <1>0 DEF QualifiedBy, Commitments
  <2> HIDE DEF QualifiedBy
  <2> QED
    BY <2>2, <2>3, <2>4 DEF DispositionKept, OrderInv, TypeOK
<1>5. ASSUME NEW w \in Workers, DeadlineApply(w)
      PROVE  \/ DispositionKept(o)
             \/ Disposition(commitment'[o], ledger'[o], plan'[o], paid'[o])
  <2>1. CASE calls[w].obl = o
    BY <1>0, <1>5, <2>1, DeadlineDisposes
  <2>2. CASE calls[w].obl # o
    BY <1>0, <1>5, <2>2 DEF DeadlineApply, DispositionKept, OrderInv, TypeOK
  <2> QED
    BY <2>1, <2>2
<1>6. ASSUME NEW p \in Obligations, SchedulePlan(p) PROVE DispositionKept(o)
  <2>1. /\ plan' = [plan EXCEPT ![p].state = "SCHEDULED"]
        /\ plan[p].state = "PENDING"
        /\ UNCHANGED <<commitment, ledger, paid>>
    BY <1>6 DEF SchedulePlan
  <2>2. /\ p # o => plan'[o] = plan[o]
        /\ p = o => plan'[o] = [plan[o] EXCEPT !.state = "SCHEDULED"]
    BY <2>1 DEF OrderInv, TypeOK
  <2> QED
    BY <1>0, <2>1, <2>2 DEF DispositionKept
<1>7. ASSUME NEW p \in Obligations, NEW id, CompleteRefund(p, id) PROVE DispositionKept(o)
  <2>1. /\ commitment' = [commitment EXCEPT ![p].state = "FULFILLED"]
        /\ UNCHANGED <<paid, deadlineRows>>
    BY <1>7 DEF CompleteRefund
  <2> QED
    BY <1>0, <2>1 DEF DispositionKept, OrderInv, TypeOK, Commitments
<1>8. CASE OfferStep
  BY <1>2, <1>8 DEF OfferStep, EditOffer, DeadlinePasses
<1>9. ASSUME NEW w \in Workers, CommitStep(w) \/ PayStep(w) \/ DeadlineStep(w)
      PROVE  \/ DispositionKept(o)
             \/ Disposition(commitment'[o], ledger'[o], plan'[o], paid'[o])
  <2>1. ASSUME NEW id, NEW p, NEW a, NEW s,
               BeginCommit(w, id) \/ BeginPay(w, id, p, a, s) \/ BeginDeadline(w, p)
        PROVE  UNCHANGED <<commitment, paid, deadlineRows>>
    BY <2>1 DEF BeginCommit, BeginPay, BeginDeadline
  <2> QED
    BY <1>2, <1>3, <1>4, <1>5, <1>9, <2>1 DEF CommitStep, PayStep, DeadlineStep
<1>10. ASSUME NEW w \in Workers,
             ReadyStep(w) \/ AuthorizeStep(w) \/ RefuseCall(w) \/ AbandonCall(w)
       PROVE  UNCHANGED <<commitment, paid, deadlineRows>>
  BY <1>10 DEF ReadyStep, BeginReady, ReadyApply, AuthorizeStep, BeginAuthorize,
               AuthorizeApply, RefuseCall, AbandonCall
<1>11. ASSUME NEW p \in Obligations, AtomicStep(p) PROVE DispositionKept(o)
  <2>1. ASSUME NEW id, NEW a, AcceptFulfillment(p, id, a)
        PROVE  UNCHANGED <<commitment, paid, deadlineRows>>
    BY <2>1 DEF AcceptFulfillment
  <2>2. UNCHANGED <<commitment, paid, deadlineRows>> => DispositionKept(o)
    BY <1>0 DEF DispositionKept
  <2> QED
    BY <1>6, <1>7, <1>11, <2>1, <2>2 DEF AtomicStep
<1>12. CASE UNCHANGED vars
  BY <1>2, <1>12 DEF vars
<1> QED
  BY <1>2, <1>8, <1>9, <1>10, <1>11, <1>12 DEF Next

(* The ledger entry, the plan and the released quantity a deadline leaves  *)
(* were computed from one paid total, no greater than what was paid, and   *)
(* goods planned and goods released add up to the commitment.              *)
THEOREM DispositionAlwaysCoherent == Spec => []DispositionCoherent
<1>1. DispositionInv => DispositionCoherent
  BY DEF DispositionInv, Disposition, DispositionCoherent
<1> QED
  BY <1>1, DispositionInit, DispositionStep, PTL DEF Spec

-----------------------------------------------------------------------------
(* Qualification.                                                          *)

Earned(c, total) ==
  /\ c.qual = "FULLY_PAID" \/ c.fullyPaid => Reaches(total, c.price, FULL_PAYMENT_BPS)
  /\ c.qual = "PRORATED_FULFILLMENT" => Reaches(total, c.price, PRORATED_FULFILLMENT_BPS)
  /\ c.qual = "CURRENT_BATCH_RESCHEDULE" => Reaches(total, c.price, CURRENT_BATCH_BPS)

LEMMA MorePaidReachesMore ==
  ASSUME NEW p \in Nat, NEW q \in Nat, p <= q, NEW price \in Nat, NEW bps \in Nat,
         Reaches(p, price, bps)
  PROVE  Reaches(q, price, bps)
BY DEF Reaches

LEMMA Thresholds ==
  /\ FULL_PAYMENT_BPS \in Nat
  /\ PRORATED_FULFILLMENT_BPS \in Nat
  /\ CURRENT_BATCH_BPS \in Nat
BY DEF FULL_PAYMENT_BPS, PRORATED_FULFILLMENT_BPS, CURRENT_BATCH_BPS

(* More money, and a row that differs in nothing the tiers look at.        *)
LEMMA EarnedStays ==
  ASSUME NEW p \in Nat, NEW q \in Nat, p <= q, NEW c \in Commitments, NEW d,
         d.qual = c.qual, d.fullyPaid = c.fullyPaid, d.price = c.price, Earned(c, p)
  PROVE  Earned(d, q)
<1>1. c.price \in Nat
  BY DEF Commitments
<1> QED
  BY <1>1, MorePaidReachesMore, Thresholds DEF Earned

(* The tier a sum is given is a tier the sum reaches.                      *)
LEMMA TierReached ==
  ASSUME NEW p, NEW price, NEW bps
  PROVE  /\ Tier(p, price, bps) = "FULLY_PAID" => Reaches(p, price, FULL_PAYMENT_BPS)
         /\ Tier(p, price, bps) = "PRORATED_FULFILLMENT" =>
              Reaches(p, price, PRORATED_FULFILLMENT_BPS)
         /\ Tier(p, price, bps) = "CURRENT_BATCH_RESCHEDULE" =>
              Reaches(p, price, CURRENT_BATCH_BPS)
BY DEF Tier

LEMMA PaymentEarns ==
  ASSUME OrderInv, NEW w \in Workers, PayApply(w), NEW o \in Obligations, o = calls[w].obl,
         Earned(commitment[o], paid[o])
  PROVE  Earned(QualifiedBy(calls[w]), paid'[o])
<1> DEFINE call == calls[w]
           c == commitment[o]
           new == QualifiedBy(call)
           sum == call.paid + call.amount
<1>1. /\ call \in PayCalls
      /\ c \in Commitments
      /\ paid[o] \in Nat /\ call.paid \in Nat /\ call.paid <= paid[o]
  BY CallTypes DEF PayApply, PayCalls, OrderInv, TypeOK, CallsGrounded, CallGrounded
<1>2. call.amount \in Nat /\ call.status \in {"CONFIRMED", "FAILED"}
  BY <1>1, OrdersAssumption DEF OrdersAssumption, PayCalls
<1>3. paid'[o] = paid[o] + (IF call.status = "CONFIRMED" THEN call.amount ELSE 0)
  BY DEF PayApply, OrderInv, TypeOK
<1>4. c.price \in Nat /\ c.fullyPaid \in BOOLEAN
  BY <1>1 DEF Commitments
<1>5. /\ new.price = c.price
      /\ new.qual = TierAfter(call)
      /\ new.fullyPaid = (c.fullyPaid \/ (call.status = "CONFIRMED" /\ TierAfter(call) = "FULLY_PAID"))
  BY <1>1 DEF QualifiedBy, Commitments
<1> HIDE DEF new
<1>6. CASE call.status = "FAILED"
  <2>1. new.qual = c.qual /\ new.fullyPaid = c.fullyPaid
    BY <1>4, <1>5, <1>6 DEF TierAfter
  <2> QED
    BY <1>1, <1>3, <1>5, <1>6, <2>1, EarnedStays DEF new
<1>7. CASE call.status = "CONFIRMED"
  <2>1. sum \in Nat /\ paid'[o] \in Nat /\ sum <= paid'[o] /\ paid[o] <= paid'[o]
    BY <1>1, <1>2, <1>3, <1>7
  <2>2. new.qual = Tier(sum, c.price, call.bps)
    BY <1>5, <1>7 DEF TierAfter
  <2>3. /\ new.qual = "FULLY_PAID" => Reaches(sum, c.price, FULL_PAYMENT_BPS)
        /\ new.qual = "PRORATED_FULFILLMENT" => Reaches(sum, c.price, PRORATED_FULFILLMENT_BPS)
        /\ new.qual = "CURRENT_BATCH_RESCHEDULE" => Reaches(sum, c.price, CURRENT_BATCH_BPS)
    BY <2>2, TierReached
  <2> HIDE DEF sum
  <2>4. /\ new.qual = "FULLY_PAID" => Reaches(paid'[o], c.price, FULL_PAYMENT_BPS)
        /\ new.qual = "PRORATED_FULFILLMENT" =>
             Reaches(paid'[o], c.price, PRORATED_FULFILLMENT_BPS)
        /\ new.qual = "CURRENT_BATCH_RESCHEDULE" =>
             Reaches(paid'[o], c.price, CURRENT_BATCH_BPS)
    BY <1>4, <2>1, <2>3, MorePaidReachesMore, Thresholds
  <2>5. c.fullyPaid => Reaches(paid'[o], c.price, FULL_PAYMENT_BPS)
    BY <1>1, <1>4, <2>1, MorePaidReachesMore, Thresholds DEF Earned
  <2>6. new.fullyPaid => c.fullyPaid \/ new.qual = "FULLY_PAID"
    BY <1>5
  <2>7. Earned(new, paid'[o])
    BY <1>5, <2>4, <2>5, <2>6 DEF Earned
  <2> QED
    BY <2>7 DEF new
<1> QED
  BY <1>2, <1>6, <1>7

LEMMA DeadlineEarns ==
  ASSUME OrderInv, NEW w \in Workers, DeadlineApply(w), NEW o \in Obligations,
         o = calls[w].obl, Earned(commitment[o], paid[o])
  PROVE  Earned(DisposedBy(calls[w]), paid[o])
<1> DEFINE call == calls[w]
           c == commitment[o]
           new == DisposedBy(call)
           tier == Tier(call.paid, c.price, call.bps)
<1>1. /\ call \in DeadlineCalls
      /\ c \in Commitments
      /\ paid[o] \in Nat /\ call.paid \in Nat /\ call.paid <= paid[o]
  BY CallTypes DEF DeadlineApply, DeadlineCalls, OrderInv, TypeOK, CallsGrounded, CallGrounded
<1>2. c.price \in Nat
  BY <1>1 DEF Commitments
<1>3. /\ new.price = c.price /\ new.fullyPaid = c.fullyPaid
      /\ new.qual = IF tier \in {"FULLY_PAID", "CURRENT_BATCH_RESCHEDULE"}
                    THEN tier ELSE "DEADLINE_PROCESSED"
  BY <1>1 DEF DisposedBy, Commitments
<1>4. /\ tier = "FULLY_PAID" => Reaches(paid[o], c.price, FULL_PAYMENT_BPS)
      /\ tier = "CURRENT_BATCH_RESCHEDULE" => Reaches(paid[o], c.price, CURRENT_BATCH_BPS)
  BY <1>1, <1>2, TierReached, MorePaidReachesMore, Thresholds
<1> HIDE DEF new, tier
<1>5. Earned(new, paid[o])
  BY <1>3, <1>4 DEF Earned
<1> QED
  BY <1>5 DEF new

EarnedInv == OrderInv /\ \A o \in Obligations : Earned(commitment[o], paid[o])

LEMMA EarnedStep == EarnedInv /\ [Next]_vars => EarnedInv'
<1> SUFFICES ASSUME EarnedInv, [Next]_vars, NEW o \in Obligations
             PROVE  Earned(commitment'[o], paid'[o])
  BY NextInv DEF EarnedInv
<1> USE DEF EarnedInv
<1>0. /\ Earned(commitment[o], paid[o])
      /\ commitment[o] \in Commitments /\ paid[o] \in Nat
  BY DEF OrderInv, TypeOK
<1>1. CASE UNCHANGED <<commitment, paid>>
  BY <1>0, <1>1
<1>2. ASSUME NEW w \in Workers, NEW p \in Obligations, CommitApply(w, p)
      PROVE  Earned(commitment'[o], paid'[o])
  <2>1. CASE p = o
    <3>1. commitment'[o].qual = "UNQUALIFIED" /\ commitment'[o].fullyPaid = FALSE
      BY <1>2, <2>1 DEF CommitApply, OrderInv, TypeOK
    <3> QED
      BY <3>1 DEF Earned
  <2>2. CASE p # o
    BY <1>0, <1>2, <2>2 DEF CommitApply, OrderInv, TypeOK
  <2> QED
    BY <2>1, <2>2
<1>3. ASSUME NEW w \in Workers, PayApply(w) PROVE Earned(commitment'[o], paid'[o])
  <2>1. CASE calls[w].obl = o
    <3>1. commitment'[o] = QualifiedBy(calls[w])
      BY <1>3, <2>1 DEF PayApply, OrderInv, TypeOK
    <3> QED
      BY <1>0, <1>3, <2>1, <3>1, PaymentEarns
  <2>2. CASE calls[w].obl # o
    BY <1>0, <1>3, <2>2 DEF PayApply, OrderInv, TypeOK
  <2> QED
    BY <2>1, <2>2
<1>4. ASSUME NEW w \in Workers, DeadlineApply(w) PROVE Earned(commitment'[o], paid'[o])
  <2>0. /\ commitment' = [commitment EXCEPT ![calls[w].obl] = DisposedBy(calls[w])]
        /\ paid' = paid
    BY <1>4 DEF DeadlineApply
  <2>1. CASE calls[w].obl = o
    <3>1. commitment'[o] = DisposedBy(calls[w])
      BY <2>0, <2>1 DEF OrderInv, TypeOK
    <3> QED
      BY <1>0, <1>4, <2>0, <2>1, <3>1, DeadlineEarns
  <2>2. CASE calls[w].obl # o
    BY <1>0, <2>0, <2>2 DEF OrderInv, TypeOK
  <2> QED
    BY <2>1, <2>2
<1>5. ASSUME NEW p \in Obligations, NEW id, CompleteRefund(p, id)
      PROVE  Earned(commitment'[o], paid'[o])
  <2>1. /\ commitment' = [commitment EXCEPT ![p].state = "FULFILLED"]
        /\ paid' = paid
    BY <1>5 DEF CompleteRefund
  <2>2. /\ commitment'[o].qual = commitment[o].qual
        /\ commitment'[o].fullyPaid = commitment[o].fullyPaid
        /\ commitment'[o].price = commitment[o].price
    BY <1>0, <2>1 DEF OrderInv, TypeOK, Commitments
  <2> QED
    BY <1>0, <2>1, <2>2 DEF Earned
<1>6. CASE OfferStep
  BY <1>1, <1>6 DEF OfferStep, EditOffer, DeadlinePasses
<1>7. ASSUME NEW w \in Workers, CommitStep(w) \/ PayStep(w) \/ DeadlineStep(w)
      PROVE  Earned(commitment'[o], paid'[o])
  <2>1. ASSUME NEW id, NEW p, NEW a, NEW s,
               BeginCommit(w, id) \/ BeginPay(w, id, p, a, s) \/ BeginDeadline(w, p)
        PROVE  UNCHANGED <<commitment, paid>>
    BY <2>1 DEF BeginCommit, BeginPay, BeginDeadline
  <2> QED
    BY <1>1, <1>2, <1>3, <1>4, <1>7, <2>1 DEF CommitStep, PayStep, DeadlineStep
<1>8. ASSUME NEW w \in Workers,
             ReadyStep(w) \/ AuthorizeStep(w) \/ RefuseCall(w) \/ AbandonCall(w)
      PROVE  UNCHANGED <<commitment, paid>>
  BY <1>8 DEF ReadyStep, BeginReady, ReadyApply, AuthorizeStep, BeginAuthorize,
              AuthorizeApply, RefuseCall, AbandonCall
<1>9. ASSUME NEW p \in Obligations, AtomicStep(p) PROVE Earned(commitment'[o], paid'[o])
  <2>1. ASSUME NEW id, NEW a, AcceptFulfillment(p, id, a) \/ SchedulePlan(p)
        PROVE  UNCHANGED <<commitment, paid>>
    BY <2>1 DEF AcceptFulfillment, SchedulePlan
  <2> QED
    BY <1>1, <1>5, <1>9, <2>1 DEF AtomicStep
<1>10. CASE UNCHANGED vars
  BY <1>1, <1>10 DEF vars
<1> QED
  BY <1>1, <1>6, <1>7, <1>8, <1>9, <1>10 DEF Next

(* A qualification is never granted for more than was really paid, however *)
(* payments of one obligation overlap each other and the deadline.         *)
THEOREM QualificationAlwaysEarned == Spec => []QualificationEarned
<1>1. Init => EarnedInv
  BY InitInv DEF EarnedInv, Init, NoCommitment, Earned
<1>2. EarnedInv => QualificationEarned
  BY DEF EarnedInv, Earned, QualificationEarned
<1> QED
  BY <1>1, <1>2, EarnedStep, PTL DEF Spec

-----------------------------------------------------------------------------
(* The refund.                                                             *)

(* What backs an authorized refund is never taken away. *)
BackingKept(o) ==
  /\ remedy'[o].quantity = remedy[o].quantity
  /\ commitment'[o].price = commitment[o].price
  /\ commitment'[o].quantity = commitment[o].quantity
  /\ \A i \in ConfirmedRows(o) : i \in ConfirmedRows(o)' /\ payments'[i] = payments[i]

LEMMA SameRowsKeepBacking ==
  ASSUME NEW o, UNCHANGED <<remedy, commitment, payments>>
  PROVE  BackingKept(o)
BY DEF BackingKept, ConfirmedRows

LEMMA BackingStep ==
  ASSUME OrderInv, [Next]_vars, NEW o \in Obligations, remedy[o].status # "NONE"
  PROVE  BackingKept(o)
<1>0. commitment[o].state # "NONE" /\ commitment[o] \in Commitments /\ remedy[o] \in Remedies
  BY HasCommitment DEF OrderInv, TypeOK
<1>1. CASE UNCHANGED <<remedy, commitment, payments>>
  BY <1>1, SameRowsKeepBacking
<1>2. ASSUME NEW w \in Workers, NEW p \in Obligations, CommitApply(w, p)
      PROVE  BackingKept(o)
  <2>1. commitment'[o] = commitment[o] /\ UNCHANGED <<payments, remedy>>
    BY <1>0, <1>2 DEF CommitApply, OrderInv, TypeOK
  <2> QED
    BY <2>1 DEF BackingKept, ConfirmedRows
<1>3. ASSUME NEW w \in Workers, PayApply(w) PROVE BackingKept(o)
  <2>1. calls[w] \in PayCalls /\ calls[w].id \in PayIds /\ calls[w].obl \in Obligations
    BY <1>3, CallTypes DEF PayApply, PayCalls, OrderInv, TypeOK
  <2>2. /\ commitment'[o].price = commitment[o].price
        /\ commitment'[o].quantity = commitment[o].quantity
    <3>1. commitment' = [commitment EXCEPT ![calls[w].obl] = QualifiedBy(calls[w])]
      BY <1>3 DEF PayApply
    <3> QED
      BY <1>0, <2>1, <3>1, QualifiedByRow DEF OrderInv, TypeOK
  <2>3. ASSUME NEW i \in ConfirmedRows(o)
        PROVE  i \in ConfirmedRows(o)' /\ payments'[i] = payments[i]
    BY <1>3, <2>1, <2>3 DEF ConfirmedRows, PayApply, OrderInv, TypeOK
  <2>4. remedy' = remedy
    BY <1>3 DEF PayApply
  <2> QED
    BY <2>2, <2>3, <2>4 DEF BackingKept
<1>4. ASSUME NEW w \in Workers, DeadlineApply(w) PROVE BackingKept(o)
  <2>1. calls[w] \in DeadlineCalls /\ calls[w].obl \in Obligations
    BY <1>4, CallTypes DEF DeadlineApply, DeadlineCalls, OrderInv, TypeOK
  <2>2. /\ commitment' = [commitment EXCEPT ![calls[w].obl] = DisposedBy(calls[w])]
        /\ UNCHANGED <<payments, remedy>>
    BY <1>4 DEF DeadlineApply
  <2>3. /\ commitment'[o].price = commitment[o].price
        /\ commitment'[o].quantity = commitment[o].quantity
    <3>1. CASE calls[w].obl = o
      BY <1>0, <2>1, <2>2, <3>1, HasCommitment, DisposedByRow DEF OrderInv, TypeOK
    <3>2. CASE calls[w].obl # o
      BY <2>2, <3>2 DEF OrderInv, TypeOK
    <3> QED
      BY <3>1, <3>2
  <2> QED
    BY <2>2, <2>3 DEF BackingKept, ConfirmedRows
<1>5. ASSUME NEW w \in Workers, AuthorizeApply(w) PROVE BackingKept(o)
  <2>1. calls[w].obl # o
    BY <1>5 DEF AuthorizeApply
  <2>2. remedy'[o] = remedy[o] /\ UNCHANGED <<payments, commitment>>
    BY <1>5, <2>1 DEF AuthorizeApply, OrderInv, TypeOK
  <2> QED
    BY <2>2 DEF BackingKept, ConfirmedRows
<1>6. ASSUME NEW p \in Obligations, NEW id, CompleteRefund(p, id) PROVE BackingKept(o)
  <2>1. /\ commitment' = [commitment EXCEPT ![p].state = "FULFILLED"]
        /\ remedy' = [remedy EXCEPT ![p].status = "COMPLETED"]
        /\ UNCHANGED payments
    BY <1>6 DEF CompleteRefund
  <2>2. /\ commitment'[o].price = commitment[o].price
        /\ commitment'[o].quantity = commitment[o].quantity
    BY <1>0, <2>1 DEF OrderInv, TypeOK, Commitments
  <2>3. remedy'[o].quantity = remedy[o].quantity
    BY <1>0, <2>1 DEF OrderInv, TypeOK, Remedies
  <2> QED
    BY <2>1, <2>2, <2>3 DEF BackingKept, ConfirmedRows
<1>7. CASE OfferStep
  BY <1>1, <1>7 DEF OfferStep, EditOffer, DeadlinePasses
<1>8. ASSUME NEW w \in Workers, CommitStep(w) \/ PayStep(w) \/ DeadlineStep(w)
      PROVE  BackingKept(o)
  <2>1. ASSUME NEW id, NEW p, NEW a, NEW s,
               BeginCommit(w, id) \/ BeginPay(w, id, p, a, s) \/ BeginDeadline(w, p)
        PROVE  UNCHANGED <<remedy, commitment, payments>>
    BY <2>1 DEF BeginCommit, BeginPay, BeginDeadline
  <2> QED
    BY <1>1, <1>2, <1>3, <1>4, <1>8, <2>1 DEF CommitStep, PayStep, DeadlineStep
<1>9. ASSUME NEW w \in Workers, ReadyStep(w) \/ RefuseCall(w) \/ AbandonCall(w)
      PROVE  UNCHANGED <<remedy, commitment, payments>>
  BY <1>9 DEF ReadyStep, BeginReady, ReadyApply, RefuseCall, AbandonCall
<1>10. ASSUME NEW w \in Workers, AuthorizeStep(w) PROVE BackingKept(o)
  <2>1. ASSUME NEW id, NEW p, BeginAuthorize(w, id, p)
        PROVE  UNCHANGED <<remedy, commitment, payments>>
    BY <2>1 DEF BeginAuthorize
  <2> QED
    BY <1>1, <1>5, <1>10, <2>1 DEF AuthorizeStep
<1>11. ASSUME NEW p \in Obligations, AtomicStep(p) PROVE BackingKept(o)
  <2>1. ASSUME NEW id, NEW a, AcceptFulfillment(p, id, a) \/ SchedulePlan(p)
        PROVE  UNCHANGED <<remedy, commitment, payments>>
    BY <2>1 DEF AcceptFulfillment, SchedulePlan
  <2> QED
    BY <1>1, <1>6, <1>11, <2>1 DEF AtomicStep
<1>12. CASE UNCHANGED vars
  BY <1>1, <1>12 DEF vars
<1> QED
  BY <1>1, <1>7, <1>8, <1>9, <1>10, <1>11, <1>12 DEF Next

(* Only an authorization creates a remedy. *)
LEMMA RemedyCreated ==
  ASSUME OrderInv, [Next]_vars, NEW o \in Obligations,
         remedy[o].status = "NONE", remedy'[o].status # "NONE"
  PROVE  \E w \in Workers : AuthorizeApply(w) /\ calls[w].obl = o
<1>1. ASSUME NEW w \in Workers, AuthorizeApply(w) PROVE calls[w].obl = o
  BY <1>1 DEF AuthorizeApply, OrderInv, TypeOK
<1>2. ASSUME NEW w \in Workers,
             \/ CommitStep(w) \/ PayStep(w) \/ DeadlineStep(w)
             \/ ReadyStep(w) \/ RefuseCall(w) \/ AbandonCall(w)
      PROVE  UNCHANGED remedy
  BY <1>2 DEF CommitStep, BeginCommit, CommitApply, PayStep, BeginPay, PayApply, DeadlineStep,
              BeginDeadline, DeadlineApply, ReadyStep, BeginReady, ReadyApply, RefuseCall,
              AbandonCall
<1>3. ASSUME NEW w \in Workers, NEW id, NEW p, BeginAuthorize(w, id, p) PROVE UNCHANGED remedy
  BY <1>3 DEF BeginAuthorize
<1>4. ASSUME NEW p \in Obligations, AtomicStep(p) PROVE remedy'[o].status = "NONE"
  <2>1. ASSUME NEW id, NEW a, AcceptFulfillment(p, id, a) \/ SchedulePlan(p)
        PROVE  UNCHANGED remedy
    BY <2>1 DEF AcceptFulfillment, SchedulePlan
  <2>2. ASSUME NEW id, CompleteRefund(p, id) PROVE remedy'[o] = remedy[o]
    BY <2>2 DEF CompleteRefund, OrderInv, TypeOK
  <2> QED
    BY <1>4, <2>1, <2>2 DEF AtomicStep
<1>5. CASE OfferStep \/ UNCHANGED vars
  BY <1>5 DEF OfferStep, EditOffer, DeadlinePasses, vars
<1> QED
  BY <1>1, <1>2, <1>3, <1>4, <1>5 DEF Next, AuthorizeStep

Backed(o) ==
  remedy[o].status # "NONE" =>
    /\ exception[o].kind # "NONE"
    /\ remedy[o].quantity = fulfillment[o].shortfall
    /\ \E i \in ConfirmedRows(o) : remedy[o].amount <= payments[i].amount
    /\ remedy[o].amount * 2 * commitment[o].quantity
         <= 2 * commitment[o].price * fulfillment[o].shortfall + commitment[o].quantity

LEMMA AuthorizationBacked ==
  ASSUME OrderInv, NEW w \in Workers, AuthorizeApply(w), NEW o, o = calls[w].obl
  PROVE  Backed(o)'
<1> DEFINE c == commitment[o]
           short == exception[o].affected
<1>1. calls[w] \in AuthorizeCalls /\ o \in Obligations
  BY CallTypes DEF AuthorizeApply, AuthorizeCalls, OrderInv, TypeOK
<1>2. calls[w].rows \subseteq ConfirmedRows(o) /\ exception[o].kind # "NONE"
  BY <1>1 DEF AuthorizeCalls, OrderInv, CallsGrounded, CallGrounded
<1>3. PICK i \in PayIds :
        /\ calls[w].rows = {i}
        /\ remedy' = [remedy EXCEPT ![o] =
             [status |-> "AUTHORIZED", quantity |-> short, amount |-> RefundOwed(o, i)]]
  BY DEF AuthorizeApply
<1>4. UNCHANGED <<commitment, payments, exception, fulfillment>>
  BY DEF AuthorizeApply
<1>5. remedy'[o].quantity = short /\ remedy'[o].amount = RefundOwed(o, i)
  BY <1>1, <1>3 DEF OrderInv, TypeOK
<1>6. i \in ConfirmedRows(o)' /\ short = fulfillment[o].shortfall
  BY <1>1, <1>2, <1>3, <1>4 DEF ConfirmedRows, OrderInv, DeliveryCoherent
<1>7. /\ c.price \in Nat /\ c.quantity \in Nat \ {0} /\ short \in Nat
      /\ payments[i].amount \in Nat
  BY <1>1, <1>2, HasCommitment DEF OrderInv, TypeOK, Commitments, Exceptions, Payments
<1>8. /\ RefundOwed(o, i) \in Nat
      /\ RefundOwed(o, i) <= payments[i].amount
      /\ RefundOwed(o, i) * (2 * c.quantity) <= 2 * c.price * short + c.quantity
  BY <1>7, RefundMinorBound DEF RefundOwed
<1>9. RefundOwed(o, i) * 2 * c.quantity = RefundOwed(o, i) * (2 * c.quantity)
  BY <1>7, <1>8
<1> QED
  BY <1>2, <1>4, <1>5, <1>6, <1>8, <1>9 DEF Backed

BackedInv == OrderInv /\ \A o \in Obligations : Backed(o)

LEMMA BackedStep == BackedInv /\ [Next]_vars => BackedInv'
<1> SUFFICES ASSUME BackedInv, [Next]_vars, NEW o \in Obligations PROVE Backed(o)'
  BY NextInv DEF BackedInv
<1> USE DEF BackedInv
<1>1. CASE remedy[o].status = "NONE"
  <2>1. CASE remedy'[o].status = "NONE"
    BY <2>1 DEF Backed
  <2>2. CASE remedy'[o].status # "NONE"
    BY <1>1, <2>2, RemedyCreated, AuthorizationBacked
  <2> QED
    BY <2>1, <2>2
<1>2. CASE remedy[o].status # "NONE"
  <2>1. fulfillment[o].state \notin {"NONE", "READY"}
    BY <1>2 DEF OrderInv, DeliveryCoherent
  <2>2. /\ fulfillment'[o] = fulfillment[o] /\ exception'[o] = exception[o]
        /\ remedy'[o].amount = remedy[o].amount
    BY <1>2, <2>1, AnswerStep DEF AnswerStands
  <2>3. BackingKept(o)
    BY <1>2, BackingStep
  <2>4. PICK i \in ConfirmedRows(o) : remedy[o].amount <= payments[i].amount
    BY <1>2 DEF Backed
  <2>5. i \in ConfirmedRows(o)' /\ payments'[i] = payments[i]
    BY <2>3, <2>4 DEF BackingKept
  <2>6. \E j \in ConfirmedRows(o)' : remedy'[o].amount <= payments'[j].amount
    BY <2>2, <2>4, <2>5
  <2>7. /\ exception'[o].kind # "NONE"
        /\ remedy'[o].quantity = fulfillment'[o].shortfall
        /\ remedy'[o].amount * 2 * commitment'[o].quantity
             <= 2 * commitment'[o].price * fulfillment'[o].shortfall + commitment'[o].quantity
    BY <1>2, <2>2, <2>3 DEF Backed, BackingKept
  <2> QED
    BY <2>6, <2>7 DEF Backed
<1> QED
  BY <1>1, <1>2

(* What a refund pays back was paid in, and was short: at most one         *)
(* confirmed payment of the obligation and the price share of its goods.   *)
THEOREM RefundAlwaysBacked == Spec => []RefundBacked
<1>1. Init => BackedInv
  BY InitInv DEF BackedInv, Init, NoRemedy, Backed
<1>2. BackedInv => RefundBacked
  BY DEF BackedInv, Backed, RefundBacked
<1> QED
  BY <1>1, <1>2, BackedStep, PTL DEF Spec

-----------------------------------------------------------------------------
(* The order statements implement the life cycle of an obligation: every   *)
(* step of Orders is, read off the rows, a step of ObligationLifecycle or  *)
(* leaves it alone.                                                        *)

(* What the life cycle reads of an obligation. *)
Same(o) == /\ PhaseOf(o)' = PhaseOf(o)
           /\ commitment'[o].processed = commitment[o].processed
           /\ remedy'[o].amount = remedy[o].amount

LEMMA AllSame ==
  ASSUME \A o \in Obligations : Same(o)
  PROVE  UNCHANGED Lifecycle!vars
BY DEF Same, Lifecycle!vars, Phases, Disposed, Owed

LEMMA SameRows ==
  ASSUME NEW o, commitment'[o] = commitment[o], fulfillment'[o] = fulfillment[o],
         exception'[o] = exception[o], remedy'[o] = remedy[o]
  PROVE  Same(o)
BY DEF Same, PhaseOf

LEMMA RowsUnchanged ==
  ASSUME UNCHANGED <<commitment, deliveryRows>>
  PROVE  UNCHANGED Lifecycle!vars
BY SameRows, AllSame

(* One obligation moves to another phase, and nothing else happens.        *)
LEMMA PhaseMoves ==
  ASSUME NEW o \in Obligations, NEW from, NEW to,
         \A p \in Obligations : p # o => Same(p),
         PhaseOf(o) = from, PhaseOf(o)' = to,
         commitment'[o].processed = commitment[o].processed
  PROVE  /\ Lifecycle!Move(o, from, to)
         /\ UNCHANGED Disposed
         /\ remedy'[o].amount = remedy[o].amount => UNCHANGED Owed
<1>1. Phases' = [Phases EXCEPT ![o] = to]
  <2>1. \A p \in Obligations : Phases'[p] = [Phases EXCEPT ![o] = to][p]
    BY DEF Same, Phases
  <2> QED
    BY <2>1 DEF Phases
<1>2. Phases[o] = from
  BY DEF Phases
<1>3. UNCHANGED Disposed
  BY DEF Same, Disposed
<1>4. remedy'[o].amount = remedy[o].amount => UNCHANGED Owed
  BY DEF Same, Owed
<1> QED
  BY <1>1, <1>2, <1>3, <1>4 DEF Lifecycle!Move

LEMMA CommitRefines ==
  ASSUME OrderInv, NEW w \in Workers, NEW o \in Obligations, CommitApply(w, o)
  PROVE  Lifecycle!Next
<1>1. Uncommitted(o)
  BY DEF CommitApply, OrderInv, RowsGrounded
<1>2. /\ commitment'[o].state = "OPEN"
      /\ commitment'[o].processed = FALSE
      /\ \A p \in Obligations : p # o => commitment'[p] = commitment[p]
      /\ UNCHANGED deliveryRows
  BY DEF CommitApply, OrderInv, TypeOK
<1>3. PhaseOf(o) = "NONE" /\ PhaseOf(o)' = "COMMITTED"
  BY <1>1, <1>2 DEF PhaseOf, Uncommitted, NoCommitment, NoFulfillment, NoException, NoRemedy
<1>4. commitment[o].processed = FALSE
  BY <1>1 DEF Uncommitted, NoCommitment
<1>5. \A p \in Obligations : p # o => Same(p)
  BY <1>2, SameRows
<1>6. Lifecycle!Commit(o)
  BY <1>2, <1>3, <1>4, <1>5, PhaseMoves DEF Lifecycle!Commit
<1> QED
  BY <1>6 DEF Lifecycle!Next

LEMMA PayRefines ==
  ASSUME OrderInv, NEW w \in Workers, PayApply(w)
  PROVE  UNCHANGED Lifecycle!vars
<1>1. calls[w] \in PayCalls /\ calls[w].obl \in Obligations
  BY CallTypes DEF PayApply, PayCalls, OrderInv, TypeOK
<1>2. /\ commitment' = [commitment EXCEPT ![calls[w].obl] = QualifiedBy(calls[w])]
      /\ UNCHANGED deliveryRows
  BY DEF PayApply
<1>3. /\ QualifiedBy(calls[w]).state = commitment[calls[w].obl].state
      /\ QualifiedBy(calls[w]).processed = commitment[calls[w].obl].processed
  BY <1>1 DEF QualifiedBy, OrderInv, TypeOK, Commitments
<1>4. \A p \in Obligations : /\ commitment'[p].state = commitment[p].state
                             /\ commitment'[p].processed = commitment[p].processed
  BY <1>1, <1>2, <1>3 DEF OrderInv, TypeOK
<1>5. \A p \in Obligations : Same(p)
  BY <1>2, <1>4 DEF Same, PhaseOf
<1> QED
  BY <1>5, AllSame

LEMMA DeadlineRefines ==
  ASSUME OrderInv, NEW w \in Workers, DeadlineApply(w)
  PROVE  Lifecycle!Next
<1> DEFINE o == calls[w].obl
<1>1. calls[w] \in DeadlineCalls /\ o \in Obligations
  BY CallTypes DEF DeadlineApply, DeadlineCalls, OrderInv, TypeOK
<1>2. /\ commitment' = [commitment EXCEPT ![o] = DisposedBy(calls[w])]
      /\ commitment[o].state = "OPEN" /\ ~commitment[o].processed
      /\ UNCHANGED deliveryRows
  BY DEF DeadlineApply, Unprocessed, Open
<1>3. commitment[o].processed = FALSE /\ commitment[o].quantity \in Nat \ {0}
  BY <1>1, <1>2, HasCommitment DEF OrderInv, TypeOK, Commitments
<1>4. DisposedBy(calls[w]).state = "OPEN" /\ DisposedBy(calls[w]).processed = TRUE
  BY <1>1, <1>2, <1>3 DEF DisposedBy, OrderInv, TypeOK, Commitments
<1> HIDE DEF o
<1>5. /\ commitment'[o].state = commitment[o].state
      /\ commitment'[o].processed = TRUE
      /\ \A p \in Obligations : p # o => commitment'[p] = commitment[p]
  BY <1>1, <1>2, <1>4 DEF OrderInv, TypeOK
<1>6. \A p \in Obligations : PhaseOf(p)' = PhaseOf(p)
  BY <1>2, <1>5 DEF PhaseOf
<1>7. PhaseOf(o) \notin {"NONE", "REFUNDED"}
  BY <1>2 DEF PhaseOf
<1>8. /\ UNCHANGED <<Phases, Owed>>
      /\ Phases[o] \notin {"NONE", "REFUNDED"}
      /\ ~Disposed[o]
  BY <1>1, <1>2, <1>6, <1>7 DEF Phases, Owed, Disposed
<1>9. Disposed' = [Disposed EXCEPT ![o] = TRUE]
  <2>1. \A p \in Obligations : Disposed'[p] = [Disposed EXCEPT ![o] = TRUE][p]
    BY <1>5 DEF Disposed
  <2> QED
    BY <2>1 DEF Disposed
<1>10. Lifecycle!Dispose(o)
  BY <1>8, <1>9 DEF Lifecycle!Dispose
<1> QED
  BY <1>1, <1>10 DEF Lifecycle!Next

LEMMA ReadyRefines ==
  ASSUME OrderInv, NEW w \in Workers, ReadyApply(w), NEW o, o = calls[w].obl
  PROVE  Lifecycle!Next
<1>1. calls[w] \in ReadyCalls /\ o \in Obligations
  BY CallTypes DEF ReadyApply, ReadyCalls, OrderInv, TypeOK
<1>2. commitment[o].state # "NONE"
  BY <1>1 DEF ReadyCalls, OrderInv, CallsGrounded, CallGrounded
<1>3. /\ fulfillment[o].state = "NONE"
      /\ fulfillment'[o].state = "READY"
      /\ \A p \in Obligations : p # o => fulfillment'[p] = fulfillment[p]
      /\ UNCHANGED <<commitment, exception, remedy>>
  BY <1>1 DEF ReadyApply, OrderInv, TypeOK
<1>4. /\ exception[o].kind = "NONE" /\ remedy[o].status = "NONE"
      /\ commitment[o].state # "FULFILLED"
  BY <1>1, <1>3 DEF OrderInv, DeliveryCoherent
<1>5. PhaseOf(o) = "COMMITTED" /\ PhaseOf(o)' = "READY"
  BY <1>2, <1>3, <1>4 DEF PhaseOf
<1>6. \A p \in Obligations : p # o => Same(p)
  BY <1>3, SameRows
<1>7. Lifecycle!Ready(o)
  BY <1>1, <1>3, <1>5, <1>6, PhaseMoves DEF Lifecycle!Ready
<1> QED
  BY <1>1, <1>7 DEF Lifecycle!Next

LEMMA AcceptRefines ==
  ASSUME OrderInv, NEW o \in Obligations, NEW id, NEW a \in 0..fulfillment[o].ready,
         AcceptFulfillment(o, id, a)
  PROVE  Lifecycle!Next
<1> DEFINE shortfall == fulfillment[o].ready - a
<1>1. fulfillment[o].ready \in Nat /\ shortfall \in Nat
  BY DEF OrderInv, TypeOK, Fulfillments
<1>2. /\ fulfillment[o].state = "READY"
      /\ fulfillment'[o].state = IF a = fulfillment[o].ready THEN "ACCEPTED"
                                 ELSE IF a = 0 THEN "REJECTED" ELSE "PARTIALLY_ACCEPTED"
      /\ \A p \in Obligations : p # o => fulfillment'[p] = fulfillment[p]
      /\ UNCHANGED <<commitment, remedy>>
  BY DEF AcceptFulfillment, Acceptable, OrderInv, TypeOK
<1>3. \/ shortfall = 0 /\ UNCHANGED exception
      \/ /\ shortfall > 0
         /\ exception'[o].kind # "NONE"
         /\ \A p \in Obligations : p # o => exception'[p] = exception[p]
  BY DEF AcceptFulfillment, OrderInv, TypeOK
<1>4. /\ commitment[o].state # "NONE" /\ commitment[o].state # "FULFILLED"
      /\ exception[o].kind = "NONE" /\ remedy[o].status = "NONE"
  BY <1>2, HasCommitment DEF OrderInv, DeliveryCoherent
<1>5. PhaseOf(o) = "READY" /\ \A p \in Obligations : p # o => Same(p)
  BY <1>2, <1>3, <1>4, SameRows DEF PhaseOf
<1>6. CASE shortfall = 0
  <2>1. PhaseOf(o)' = "ACCEPTED"
    BY <1>1, <1>2, <1>3, <1>4, <1>6 DEF PhaseOf
  <2>2. Lifecycle!AcceptAll(o)
    BY <1>2, <1>5, <2>1, PhaseMoves DEF Lifecycle!AcceptAll
  <2> QED
    BY <2>2 DEF Lifecycle!Next
<1>7. CASE shortfall > 0
  <2>1. PhaseOf(o)' = "SHORT"
    BY <1>1, <1>2, <1>3, <1>4, <1>7 DEF PhaseOf
  <2>2. Lifecycle!AcceptShort(o)
    BY <1>2, <1>5, <2>1, PhaseMoves DEF Lifecycle!AcceptShort
  <2> QED
    BY <2>2 DEF Lifecycle!Next
<1> QED
  BY <1>3, <1>6, <1>7

LEMMA AuthorizeRefines ==
  ASSUME OrderInv, NEW w \in Workers, AuthorizeApply(w), NEW o, o = calls[w].obl
  PROVE  Lifecycle!Next
<1>1. calls[w] \in AuthorizeCalls /\ o \in Obligations
  BY CallTypes DEF AuthorizeApply, AuthorizeCalls, OrderInv, TypeOK
<1>2. commitment[o].state # "NONE" /\ exception[o].kind # "NONE"
  BY <1>1 DEF AuthorizeCalls, OrderInv, CallsGrounded, CallGrounded
<1>3. /\ remedy[o].status = "NONE"
      /\ UNCHANGED <<commitment, fulfillment, exception>>
  BY DEF AuthorizeApply
<1>4. PICK i \in PayIds :
        /\ RefundOwed(o, i) > 0
        /\ remedy' = [remedy EXCEPT ![o] =
             [status |-> "AUTHORIZED", quantity |-> exception[o].affected,
              amount |-> RefundOwed(o, i)]]
  BY DEF AuthorizeApply
<1>5. /\ remedy'[o].status = "AUTHORIZED"
      /\ \A p \in Obligations : p # o => remedy'[p] = remedy[p]
  BY <1>1, <1>4 DEF OrderInv, TypeOK
<1>6. remedy'[o].amount \in Nat \ {0}
  <2>1. OrderInv'
    BY AuthorizeApplyInv
  <2> QED
    BY <1>1, <1>5, <2>1 DEF OrderInv, TypeOK, DeliveryCoherent, Remedies
<1>7. commitment[o].state # "FULFILLED"
  BY <1>1, <1>3 DEF OrderInv, DeliveryCoherent
<1>8. PhaseOf(o) = "SHORT" /\ PhaseOf(o)' = "REFUND_AUTHORIZED"
  BY <1>2, <1>3, <1>5, <1>7 DEF PhaseOf
<1>9. \A p \in Obligations : p # o => Same(p)
  BY <1>3, <1>5, SameRows
<1>10. Lifecycle!Move(o, "SHORT", "REFUND_AUTHORIZED") /\ UNCHANGED Disposed
  BY <1>1, <1>3, <1>8, <1>9, PhaseMoves
<1>11. Owed'[o] \in Nat \ {0}
  BY <1>1, <1>6 DEF Owed
<1>12. Owed' = [Owed EXCEPT ![o] = Owed'[o]]
  <2>1. \A p \in Obligations : Owed'[p] = [Owed EXCEPT ![o] = Owed'[o]][p]
    BY <1>5 DEF Owed
  <2> QED
    BY <2>1 DEF Owed
<1>13. Lifecycle!Authorize(o)
  BY <1>10, <1>11, <1>12 DEF Lifecycle!Authorize
<1> QED
  BY <1>1, <1>13 DEF Lifecycle!Next

LEMMA CompleteRefines ==
  ASSUME OrderInv, NEW o \in Obligations, NEW id, CompleteRefund(o, id)
  PROVE  Lifecycle!Next
<1>1. /\ remedy[o].status = "AUTHORIZED"
      /\ remedy' = [remedy EXCEPT ![o].status = "COMPLETED"]
      /\ commitment' = [commitment EXCEPT ![o].state = "FULFILLED"]
      /\ UNCHANGED <<fulfillment, exception>>
  BY DEF CompleteRefund
<1>2. commitment[o].state # "NONE" /\ commitment[o].state # "FULFILLED"
  BY <1>1, HasCommitment DEF OrderInv, DeliveryCoherent
<1>3. /\ commitment'[o].state = "FULFILLED"
      /\ commitment'[o].processed = commitment[o].processed
      /\ \A p \in Obligations : p # o => commitment'[p] = commitment[p]
  BY <1>1 DEF OrderInv, TypeOK, Commitments
<1>4. /\ remedy'[o].amount = remedy[o].amount
      /\ \A p \in Obligations : p # o => remedy'[p] = remedy[p]
  BY <1>1 DEF OrderInv, TypeOK, Remedies
<1>5. PhaseOf(o) = "REFUND_AUTHORIZED" /\ PhaseOf(o)' = "REFUNDED"
  BY <1>1, <1>2, <1>3 DEF PhaseOf
<1>6. \A p \in Obligations : p # o => Same(p)
  BY <1>1, <1>3, <1>4, SameRows
<1>7. Lifecycle!Refund(o)
  BY <1>3, <1>4, <1>5, <1>6, PhaseMoves DEF Lifecycle!Refund
<1> QED
  BY <1>7 DEF Lifecycle!Next

LEMMA StepRefines ==
  ASSUME OrderInv, [Next]_vars
  PROVE  [Lifecycle!Next]_(Lifecycle!vars)
<1>1. CASE OfferStep
  BY <1>1, RowsUnchanged DEF OfferStep, EditOffer, DeadlinePasses
<1>2. ASSUME NEW w \in Workers, CommitStep(w) \/ PayStep(w) \/ DeadlineStep(w)
      PROVE  [Lifecycle!Next]_(Lifecycle!vars)
  <2>1. ASSUME NEW id, NEW p, NEW a, NEW s,
               BeginCommit(w, id) \/ BeginPay(w, id, p, a, s) \/ BeginDeadline(w, p)
        PROVE  UNCHANGED <<commitment, deliveryRows>>
    BY <2>1 DEF BeginCommit, BeginPay, BeginDeadline
  <2> QED
    BY <1>2, <2>1, RowsUnchanged, CommitRefines, PayRefines, DeadlineRefines
    DEF CommitStep, PayStep, DeadlineStep
<1>3. ASSUME NEW w \in Workers, ReadyStep(w) \/ AuthorizeStep(w)
      PROVE  [Lifecycle!Next]_(Lifecycle!vars)
  <2>1. ASSUME NEW id, NEW p, BeginReady(w, id, p) \/ BeginAuthorize(w, id, p)
        PROVE  UNCHANGED <<commitment, deliveryRows>>
    BY <2>1 DEF BeginReady, BeginAuthorize
  <2> QED
    BY <1>3, <2>1, RowsUnchanged, ReadyRefines, AuthorizeRefines DEF ReadyStep, AuthorizeStep
<1>4. ASSUME NEW w \in Workers, RefuseCall(w) \/ AbandonCall(w)
      PROVE  UNCHANGED <<commitment, deliveryRows>>
  BY <1>4 DEF RefuseCall, AbandonCall
<1>5. ASSUME NEW o \in Obligations, AtomicStep(o)
      PROVE  [Lifecycle!Next]_(Lifecycle!vars)
  <2>1. ASSUME SchedulePlan(o) PROVE UNCHANGED <<commitment, deliveryRows>>
    BY <2>1 DEF SchedulePlan
  <2> QED
    BY <1>5, <2>1, RowsUnchanged, AcceptRefines, CompleteRefines DEF AtomicStep
<1>6. CASE UNCHANGED vars
  BY <1>6, RowsUnchanged DEF vars
<1> QED
  BY <1>1, <1>2, <1>3, <1>4, <1>5, <1>6, RowsUnchanged DEF Next

(* Commit, ready, accept, authorize, complete and deadline processing are  *)
(* steps of the promised life cycle; everything else leaves it alone.      *)
THEOREM OrdersImplementLifecycle == Spec => ImplementsLifecycle
<1>1. Init => Lifecycle!Init
  BY DEF Init, Lifecycle!Init, Phases, Disposed, Owed, PhaseOf, NoCommitment, NoRemedy
<1>2. OrderInv /\ [Next]_vars => [Lifecycle!Next]_(Lifecycle!vars)
  BY StepRefines
<1> QED
  BY <1>1, <1>2, OrderInvAlways, PTL DEF Spec, ImplementsLifecycle, Lifecycle!Spec
=============================================================================
