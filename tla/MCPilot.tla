------------------------------ MODULE MCPilot ------------------------------
(***************************************************************************)
(* The two services of the pilot process, on a small instance: operator    *)
(* recovery (PilotOperations) and checkout (PilotCheckout).  They share no *)
(* state, so a behaviour is one of theirs.                                 *)
(***************************************************************************)
EXTENDS PilotOperations, TLC

CONSTANTS
  Commands, KeyOf, Executions, Carts, Obligations, Checkouts, MaxHandled,
  k1, k2, m1, m2, m3

VARIABLES
  service,                                                 \* which of them runs
  handled, results, entries, executions, carts, consumed, commitments,
  checkouts, made                                          \* of the checkout

checkoutVars == <<handled, results, entries, executions, carts, consumed, commitments,
                  checkouts, made>>

Checkout == INSTANCE PilotCheckout

ASSUME CheckoutAssumption ==
  /\ KeyOf \in [Commands -> Checkout!Keys]
  /\ MaxHandled \in Nat
  /\ Nothing \notin Checkout!Keys \cup Checkout!Results \cup Checkout!Authorizations

(* Two commands retry one another under one key, the third is another.     *)
TwoKeys == m1 :> k1 @@ m2 :> k1 @@ m3 :> k2

PilotInit == service \in {"operations", "checkout"} /\ Init /\ Checkout!Init
PilotNext ==
  \/ service = "operations" /\ Next /\ UNCHANGED <<service, checkoutVars>>
  \/ service = "checkout" /\ Checkout!Next /\ UNCHANGED <<service, vars>>
PilotSpec == PilotInit /\ [][PilotNext]_<<service, vars, checkoutVars>>

(* The services never meet, so an execution may take the name of a request *)
(* and a cart that of a body: one permutation then exchanges both.         *)
Interchangeable == Permutations(Executions) \cup Permutations(Carts)
                   \cup Permutations(Obligations) \cup Permutations(Checkouts)

(* Every key has one proof: see PilotCheckout.                             *)
ProofsAgree == Checkout!ProofsAgree

(* No authorisation and no cart is bought with twice: see there.           *)
BoughtOnce == Checkout!BoughtOnce

(* Violated: two carts may be bought under one obligation id.              *)
CommitmentStands == Checkout!CommitmentStands
=============================================================================
