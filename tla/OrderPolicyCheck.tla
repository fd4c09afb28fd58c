-------------------------- MODULE OrderPolicyCheck --------------------------
(***************************************************************************)
(* OrderPolicy exercised: one order with fixed terms receives payments of  *)
(* one minor unit until it is overpaid.  Every reachable state is one      *)
(* input of the policy, every step is "the member paid a little more".     *)
(***************************************************************************)
EXTENDS OrderPolicy

CONSTANTS Prices,      \* committed prices tried
          Quantities,  \* committed quantities tried
          Bps,         \* demand_qualification_bps values tried
          Overpay      \* bound: payments stop at price + Overpay

ASSUME PolicyAssumption ==
  /\ Prices \subseteq Nat
  /\ Quantities \subseteq Nat \ {0}
  /\ Bps \subseteq BasisPoints
  /\ Overpay \in Nat

VARIABLE order  \* the terms of an order and what has been paid for it

PolicyInit == order \in [price : Prices, quantity : Quantities, bps : Bps, paid : {0}]

PayOneMinor == /\ order.paid < order.price + Overpay
               /\ order' = [order EXCEPT !.paid = @ + 1]

PolicySpec == PolicyInit /\ [][PayOneMinor]_order

-----------------------------------------------------------------------------
TierNow    == Tier(order.paid, order.price, order.bps)
FulfilNow  == FulfillQty(order.paid, order.price, order.quantity)
ReleaseNow == ReleaseQty(order.paid, order.price, order.quantity, TierNow)
AppliedNow == Applied(order.paid, order.price, order.quantity, TierNow)
PrepaidNow == PrepaidBalance(order.paid, order.price, order.quantity, TierNow)

Rank(t) == CASE t = "UNQUALIFIED" -> 0
             [] t = "DEMAND_QUALIFIED" -> 1
             [] t = "CURRENT_BATCH_RESCHEDULE" -> 2
             [] t = "PRORATED_FULFILLMENT" -> 3
             [] t = "FULLY_PAID" -> 4

(* The JavaScript policy (ceiling of the required amount) and the SQL CASE *)
(* (cross-multiplied) put every payment total in the same tier, at every   *)
(* rounding boundary.                                                      *)
TierFormsAgree == TierNow = qualificationState(order.price, order.paid, order.bps)

(* The ledger amount, applied value and carry-forward the deadline         *)
(* statement computes are those deadlineDisposition names, and they add up *)
(* to the paid value: the three-way split loses no rounding remainder.     *)
DispositionFormsAgree ==
  LET js == deadlineDisposition(order.price, order.paid, order.bps, AppliedNow)
  IN  /\ js.prepaid = PrepaidNow
      /\ js.applied + js.prepaid + js.carried = order.paid

(* Goods promised and goods released always add up to the committed        *)
(* quantity; promised goods are paid for up to one unit's rounding, that   *)
(* is, value kept as applied never exceeds what those goods cost.          *)
GoodsMatchMoney ==
  /\ TierNow # "CURRENT_BATCH_RESCHEDULE" => FulfilNow + ReleaseNow = order.quantity
  /\ TierNow = "PRORATED_FULFILLMENT" =>
       /\ AppliedNow * order.quantity <= order.price * FulfilNow
       /\ FulfilNow < order.quantity

(* The two forms of the policy are one policy, and it deals fairly.        *)
FormsAgree == TierFormsAgree /\ DispositionFormsAgree /\ GoodsMatchMoney

(* Paying more never lowers the tier, never reduces the goods to fulfil    *)
(* and never reduces the value that ends up applied to goods.              *)
PayingMoreNeverHurts ==
  [][/\ Rank(TierNow') >= Rank(TierNow)
     /\ FulfilNow' >= FulfilNow
     /\ AppliedNow' >= AppliedNow]_order
=============================================================================
