---------------------------- MODULE MCEnrolment -----------------------------
(***************************************************************************)
(* EnrolmentProperties on small instances.                                 *)
(***************************************************************************)
EXTENDS EnrolmentProperties, TLC

SymmetricIds == Permutations(Challenges) \cup Permutations(Calls) \cup Permutations(Contacts)
=============================================================================
