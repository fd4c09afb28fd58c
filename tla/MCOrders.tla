------------------------------ MODULE MCOrders ------------------------------
(***************************************************************************)
(* OrderProperties on small instances.                                     *)
(***************************************************************************)
EXTENDS OrderProperties, TLC

CONSTANTS w1, w2, k1, k2, k3, k4, k5

Symmetric == Permutations(Workers) \cup Permutations(PayIds)

(* Request ids shared between commands, and two for most of them, so that  *)
(* retries under a new id and reused ids both occur.                       *)
MCIdsOf == [commit |-> {k1}, ready |-> {k2}, accept |-> {k3, k4},
            authorize |-> {k2, k4}, complete |-> {k3, k5}]

(* Two members' commits race; nothing else is sent. *)
CommitIdsOnly == [c \in Commands |-> IF c = "commit" THEN {k1, k2} ELSE {}]
ScarceOffer == {[open |-> TRUE, price |-> 9, quantity |-> 2, bps |-> 3000, capacity |-> 3]}

(* One commit, then readiness requests. *)
ReadyIdsOnly == [c \in Commands |-> CASE c = "commit" -> {k1} [] c = "ready" -> {k2}
                                      [] OTHER -> {}]

(* A price of 9 for 2 units: payments of 2 and 5 add up to totals in every *)
(* tier (2, 4, 5, 7 and 10, an overpayment); 7 of 9 fulfils one unit,      *)
(* worth 4; the refund of one unit rounds 4.5 up to 5.                     *)
OneOffer == {[open |-> TRUE, price |-> 9, quantity |-> 2, bps |-> 3000,
              capacity |-> NoCapacity]}

(* The operator edits the offer under the order: its price, quantity,      *)
(* threshold and capacity change, and it closes and opens again.           *)
EditedOffer == OneOffer \cup
  {[open |-> FALSE, price |-> 6, quantity |-> 1, bps |-> 8000, capacity |-> 1]}
=============================================================================
