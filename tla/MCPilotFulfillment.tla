------------------------- MODULE MCPilotFulfillment -------------------------
(***************************************************************************)
(* PilotFulfillmentProperties on a small instance.                         *)
(***************************************************************************)
EXTENDS PilotFulfillmentProperties, FiniteSetsExt, TLC

(* Counting units is adding quantities.                                    *)
ASSUME SumsAreSums ==
  \A f \in [Lots -> Quantities], S \in SUBSET Lots :
    SumOver(S, f) = MapThenSumSet(LAMBDA l : f[l], S)

TwoOfEach == [o \in Orders |-> 2]

Interchangeable == Permutations(Lots) \cup Permutations(Allocations)
                   \cup Permutations(Exceptions) \cup Permutations(Remedies)
=============================================================================
