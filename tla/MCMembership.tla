---------------------------- MODULE MCMembership ----------------------------
(***************************************************************************)
(* MembershipProperties on small instances.                                *)
(***************************************************************************)
EXTENDS MembershipProperties, TLC

SymmetricJobs == Permutations(Jobs)
=============================================================================
