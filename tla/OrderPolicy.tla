---------------------------- MODULE OrderPolicy ----------------------------
(***************************************************************************)
(* The payment policy of an order, as pure operators.  The code holds it   *)
(* three times: as JavaScript in lib/qualified-demand-policy.js, as a SQL  *)
(* CASE in api/pay-sandbox.js and as a chain of common table expressions   *)
(* in api/process-payment-deadlines.js.  The SQL form is what the          *)
(* state-changing statements execute, so the module Orders uses it; the    *)
(* JavaScript form is what the tests and the projections use.              *)
(* Money is in minor units, thresholds are in basis points.                *)
(***************************************************************************)
EXTENDS Integers

CURRENT_BATCH_BPS == 5000
PRORATED_FULFILLMENT_BPS == 7000
FULL_PAYMENT_BPS == 10000

BasisPoints == 1..10000

Tiers == {"UNQUALIFIED", "DEMAND_QUALIFIED", "CURRENT_BATCH_RESCHEDULE",
          "PRORATED_FULFILLMENT", "FULLY_PAID"}

-----------------------------------------------------------------------------
(* SQL: api/pay-sandbox.js and api/process-payment-deadlines.js            *)

(* paid/price >= bps/10000, multiplied out as the SQL does. *)
Reaches(paid, price, bps) == paid * 10000 >= price * bps

(* Mutation: the offer's own threshold is tested before the fixed ones. *)
TierDemandFirst(paid, price, bps) ==
  IF Reaches(paid, price, bps) THEN "DEMAND_QUALIFIED"
  ELSE IF Reaches(paid, price, FULL_PAYMENT_BPS) THEN "FULLY_PAID"
  ELSE IF Reaches(paid, price, PRORATED_FULFILLMENT_BPS) THEN "PRORATED_FULFILLMENT"
  ELSE IF Reaches(paid, price, CURRENT_BATCH_BPS) THEN "CURRENT_BATCH_RESCHEDULE"
  ELSE "UNQUALIFIED"

Tier(paid, price, bps) ==
  IF Reaches(paid, price, FULL_PAYMENT_BPS) THEN "FULLY_PAID"
  ELSE IF Reaches(paid, price, PRORATED_FULFILLMENT_BPS) THEN "PRORATED_FULFILLMENT"
  ELSE IF Reaches(paid, price, CURRENT_BATCH_BPS) THEN "CURRENT_BATCH_RESCHEDULE"
  ELSE IF Reaches(paid, price, bps) THEN "DEMAND_QUALIFIED"
  ELSE "UNQUALIFIED"

(* Mutation: the prorated quantity is rounded up. *)
FulfillQtyCeiling(paid, price, quantity) ==
  IF paid >= price THEN quantity
  ELSE IF Reaches(paid, price, PRORATED_FULFILLMENT_BPS)
       THEN (quantity * paid + price - 1) \div price
       ELSE 0

(* calc.fulfill_qty *)
FulfillQty(paid, price, quantity) ==
  IF paid >= price THEN quantity
  ELSE IF Reaches(paid, price, PRORATED_FULFILLMENT_BPS)
       THEN (quantity * paid) \div price
       ELSE 0

(* econ.applied_minor *)
Applied(paid, price, quantity, tier) ==
  LET worth == (price * FulfillQty(paid, price, quantity)) \div quantity
  IN  IF tier = "FULLY_PAID" THEN paid
      ELSE IF tier # "PRORATED_FULFILLMENT" THEN 0
      ELSE IF paid < worth THEN paid ELSE worth

(* Mutation: the operands of the difference are swapped. *)
ReleaseQtySwapped(paid, price, quantity, tier) ==
  IF tier \in {"UNQUALIFIED", "DEMAND_QUALIFIED"} THEN quantity
  ELSE IF tier = "PRORATED_FULFILLMENT" THEN FulfillQty(paid, price, quantity) - quantity
  ELSE 0

(* Mutation: a prorated order releases nothing. *)
ReleaseQtyUnlessProrated(paid, price, quantity, tier) ==
  IF tier \in {"UNQUALIFIED", "DEMAND_QUALIFIED"} THEN quantity ELSE 0

(* econ.release_qty *)
ReleaseQty(paid, price, quantity, tier) ==
  IF tier \in {"UNQUALIFIED", "DEMAND_QUALIFIED"} THEN quantity
  ELSE IF tier = "PRORATED_FULFILLMENT" THEN quantity - FulfillQty(paid, price, quantity)
  ELSE 0

(* Mutation: the value kept for prorated goods is credited as well. *)
PrepaidBalanceWhole(paid, price, quantity, tier) ==
  IF tier \in {"UNQUALIFIED", "DEMAND_QUALIFIED", "PRORATED_FULFILLMENT"} THEN paid ELSE 0

(* The amount the deadline statement credits to the prepaid ledger; a row  *)
(* is inserted only when it is positive.                                   *)
PrepaidBalance(paid, price, quantity, tier) ==
  IF tier \in {"UNQUALIFIED", "DEMAND_QUALIFIED", "PRORATED_FULFILLMENT"}
  THEN paid - Applied(paid, price, quantity, tier)
  ELSE 0

(* Mutation: the refund is not capped by the settled amount. *)
RefundMinorUncapped(price, quantity, affected, settled) ==
  (2 * price * affected + quantity) \div (2 * quantity)

(* api/authorize-refund.js: round(price*affected/quantity), half away from  *)
(* zero, capped by what is settled.                                        *)
RefundMinor(price, quantity, affected, settled) ==
  LET share == (2 * price * affected + quantity) \div (2 * quantity)
  IN  IF share < settled THEN share ELSE settled

-----------------------------------------------------------------------------
(* JavaScript: lib/qualified-demand-policy.js                              *)

(* Mutation: rounded down. *)
requiredMinorFloor(total, bps) == (total * bps) \div 10000

(* Math.ceil(totalMinor*bps/10000) *)
requiredMinor(total, bps) == (total * bps + 9999) \div 10000

qualificationState(total, paid, bps) ==
  IF paid >= requiredMinor(total, FULL_PAYMENT_BPS) THEN "FULLY_PAID"
  ELSE IF paid >= requiredMinor(total, PRORATED_FULFILLMENT_BPS) THEN "PRORATED_FULFILLMENT"
  ELSE IF paid >= requiredMinor(total, CURRENT_BATCH_BPS) THEN "CURRENT_BATCH_RESCHEDULE"
  ELSE IF paid >= requiredMinor(total, bps) THEN "DEMAND_QUALIFIED"
  ELSE "UNQUALIFIED"

(* The destinations a due deadlineDisposition names for the paid value,    *)
(* given the value the caller says was applied to merchandise.             *)
deadlineDisposition(total, paid, bps, appliedToFulfillment) ==
  LET applied == IF appliedToFulfillment < paid THEN appliedToFulfillment ELSE paid
      state   == qualificationState(total, paid, bps)
  IN  CASE state = "FULLY_PAID" -> [applied |-> paid, prepaid |-> 0, carried |-> 0]
        [] state = "PRORATED_FULFILLMENT" ->
             [applied |-> applied, prepaid |-> paid - applied, carried |-> 0]
        [] state = "CURRENT_BATCH_RESCHEDULE" ->
             [applied |-> 0, prepaid |-> 0, carried |-> paid]
        [] OTHER -> [applied |-> 0, prepaid |-> paid, carried |-> 0]
=============================================================================
