------------------------------ MODULE MCOutbox ------------------------------
(***************************************************************************)
(* OutboxProperties on a small instance.                                   *)
(***************************************************************************)
EXTENDS OutboxProperties, TLC

CONSTANTS email, sms

PaymentAndDeal == {[id |-> "payment", type |-> "PAYMENT_CONFIRMED"],
                   [id |-> "deal", type |-> "DEAL_AVAILABLE"]}

(* Payments in the app and deals by e-mail; and no deals, with the app     *)
(* suppressed, so that a payment is left to a channel nothing delivers.    *)
TwoProfiles ==
  {[optIn |-> TRUE, transactional |-> {InApp}, promotional |-> {email}, suppressed |-> {}],
   [optIn |-> FALSE, transactional |-> {InApp, sms}, promotional |-> {email},
    suppressed |-> {InApp}]}

SymmetricWorkers == Permutations(Workers)
=============================================================================
