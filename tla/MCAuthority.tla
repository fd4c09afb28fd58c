----------------------------- MODULE MCAuthority -----------------------------
(***************************************************************************)
(* AuthorityProperties on small instances.                                 *)
(***************************************************************************)
EXTENDS AuthorityProperties, TLC

CONSTANTS b1, b2, m1, m2, i1, r1, f1, e1, v1, v2

(* An Owner is bootstrapped, opens a session and invites.  Two redemptions *)
(* race, or a second bootstrap races and its Owner redeems or opens a      *)
(* session; two more requests interfere: revocations of the same grant, a  *)
(* cancellation, a lock.                                                   *)
MCKindsOf ==
  [c \in Calls |-> CASE c \in {b1, b2} -> {"bootstrap"}
                     [] c \in {m1, m2} -> {"mint"}
                     [] c = i1 -> {"invite", "mint"}
                     [] c \in {v1, v2} -> {"revoke"}
                     [] c = r1 -> {"redeem", "bootstrap"}
                     [] c = f1 -> {"redeem", "mint", "revoke"}
                     [] c = e1 -> {"revoke", "cancel", "lock"}]

Symmetric == Permutations(Subjects)
SymmetricOwners == Symmetric \cup Permutations({b1, b2}) \cup Permutations({m1, m2})
                     \cup Permutations({v1, v2})
=============================================================================
