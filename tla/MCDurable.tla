------------------------------ MODULE MCDurable ------------------------------
(***************************************************************************)
(* DurableProperties on small instances.                                   *)
(***************************************************************************)
EXTENDS DurableProperties, TLC

CONSTANTS e1, e2, e3, s1, s2, s3, shared, own, a1, c1, c2, k1, k2

(* Two attempts share an instance, and with it the memory of fences; the   *)
(* third has an instance and an owner token of its own.                    *)
MixedStoreOf == (e1 :> s1) @@ (e2 :> s1) @@ (e3 :> s2)
MixedOwnerOf == (s1 :> shared) @@ (s2 :> own)

(* Three process instances with one owner token. *)
SharedStoreOf == (e1 :> s1) @@ (e2 :> s2) @@ (e3 :> s3)
SharedOwnerOf == [s \in Stores |-> shared]

(* The key is sent again, with another command, and the command under      *)
(* another key.                                                            *)
MCRequests == {<<k1, c1>>, <<k1, c2>>, <<k2, c1>>}

OneTarget == [c \in Commands |-> a1]
TwoAndOne == (c1 :> 2) @@ (c2 :> 1)
=============================================================================
