--------------------- MODULE PilotFulfillmentProperties ---------------------
(***************************************************************************)
(* What must hold of goods and orders over any sequence of the services'   *)
(* calls.                                                                  *)
(***************************************************************************)
EXTENDS PilotFulfillment

(* Goods are conserved across two ledgers that do not know each other: of  *)
(* every lot, what transforms consumed and what is allocated never exceed  *)
(* what there was ("a lot already allocated ... must not also be           *)
(* consumable", docs/sw1/SW1-08B-inventory-transform-conservation.md); and *)
(* all that remains or was lost is all that came in.                       *)
GoodsConserved ==
  /\ \A l \in Lots : lots[l].consumed + allocatedForLot(l) <= lots[l].capacity
  /\ SumOver({l \in Lots : lots[l].source}, [l \in Lots |-> lots[l].capacity])
       = SumOver(Lots, [l \in Lots |-> remaining(l)]) + lost

(* An order is resolved once: what was performed and remedied never exceed *)
(* what was ordered, in whichever order acceptances and completions come;  *)
(* the shared ledger, the acceptances and the completions tell the same    *)
(* amounts, and so does the order history that is rebuilt from the stream; *)
(* and the remedies of an exception together stay within it.               *)
completedFor(o) ==
  SumOver({r \in Remedies : \E e \in Exceptions : remedies[r].exception = e
                                                  /\ exceptions[e].order = o},
          [r \in Remedies |-> remedies[r].completed])
ResolvedOnce ==
  /\ FulfillmentTypeOK
  /\ \A e \in Exceptions : promisedFor(e) <= exceptions[e].affected
  /\ \A o \in Orders :
       /\ resolution[o].performed + resolution[o].remedied <= Ordered[o]
       /\ resolution[o].performed = acceptedFor(o)
       /\ resolution[o].remedied = completedFor(o)
       /\ rows[o] = [performed |-> resolution[o].performed, remedied |-> resolution[o].remedied,
                     unresolved |-> unresolved(o)]

(* Title follows acceptance ("TITLE transfers only on canonical ACCEPTANCE *)
(* of the relevant quantity", docs/policies/GH-PILOT-TITLE-RISK-v1.md):    *)
(* what is transferred is what the member accepted, never more than was    *)
(* handed over, and the handovers never exceed the order, so that an       *)
(* evaluation under either trigger succeeds.                               *)
TitleFollowsAcceptance ==
  \A o \in Orders :
    /\ Transferred(o, "ACCEPTANCE") = resolution[o].performed
    /\ Transferred(o, "ACCEPTANCE") <= Transferred(o, "HANDOVER")
    /\ Transferred(o, "HANDOVER") <= Ordered[o]

(* An order is resolved once, and title follows what was performed of it.  *)
ResolutionSound == ResolvedOnce /\ TitleFollowsAcceptance

(* Violated.  "Remedy quantity cannot exceed the unresolved/exception      *)
(* quantity" (docs/sw1/SW1-07-remedies-obligation-resolution.md): what is  *)
(* promised and not yet completed can still be completed.                  *)
PromisesCanBeKept ==
  \A o \in Orders :
    SumOver({r \in Remedies : \E e \in Exceptions : remedies[r].exception = e
                                                    /\ exceptions[e].order = o},
            [r \in Remedies |-> remedies[r].quantity - remedies[r].completed]) <= unresolved(o)
=============================================================================
