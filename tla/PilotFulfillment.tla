-------------------------- MODULE PilotFulfillment --------------------------
(***************************************************************************)
(* From the lot to the member in the pilot packages: lots are received,    *)
(* assessed and transformed under physical lineage; quantities of them are *)
(* allocated to purchase obligations, picked, packed, made ready, handed   *)
(* over and accepted; what is not accepted becomes an exception, a remedy  *)
(* and its completion, against one resolution ledger for performance and   *)
(* remedy; and the order stream records every position an order reaches.   *)
(*                                                                         *)
(* The services are synchronous: a call is an action, a refused call       *)
(* changes nothing.  Left out: authority and evidence (the calls are those *)
(* that have them), times (a record carries the time of its call), units,  *)
(* specifications and places (all match), substitutions and settlement     *)
(* amounts.  An id names one record of its kind.  An assessment that is    *)
(* not ACCEPTED is QUARANTINED: nothing tells the others apart.            *)
(***************************************************************************)
EXTENDS Integers, FiniteSets

CONSTANTS
  Lots, Orders, Allocations, Exceptions, Remedies, \* ids
  Ordered,  \* the quantity of each purchase obligation
  MaxLot,   \* bound: the quantity of a lot
  Undefined \* no record of the kind

ASSUME PilotFulfillmentAssumption ==
  /\ IsFiniteSet(Lots) /\ IsFiniteSet(Allocations) /\ IsFiniteSet(Remedies)
  /\ MaxLot \in Nat /\ Ordered \in [Orders -> 1..MaxLot]
  /\ Undefined \notin Lots \cup Orders \cup Allocations \cup Exceptions

VARIABLES
  lots,        \* receipts, current quality and lineage: capacity and consumed
  lost,        \* the losses of the transforms
  allocations, \* AllocationRecords and the work, handover and acceptance of each
  exceptions,  \* ExceptionRecords
  remedies,    \* RemedyObligations and how much of each is completed
  resolution,  \* the shared ledger: performed and remedied of each order
  rows         \* the order projection, rebuilt from the stream

fulfillmentVars == <<lots, lost, allocations, exceptions, remedies, resolution, rows>>

Quantities == 0..MaxLot
NoLot == [received |-> FALSE, source |-> FALSE, quality |-> "NONE", capacity |-> 0, consumed |-> 0]
NoAllocation == [lot |-> Undefined, order |-> Undefined, quantity |-> 0, state |-> "NONE",
                 work |-> 0, accepted |-> 0]
NoException == [order |-> Undefined, acceptance |-> Undefined, affected |-> 0]
NoRemedy == [exception |-> Undefined, quantity |-> 0, completed |-> 0]

(* The states after READY_FOR_PICKUP are the handover's and the acceptance.*)
Stages == {"NONE", "ALLOCATED", "PICKED", "PACKED", "READY_FOR_PICKUP", "HANDED_OVER",
           "ACCEPTED", "PARTIALLY_ACCEPTED", "REJECTED"}
Answered == {"ACCEPTED", "PARTIALLY_ACCEPTED", "REJECTED"}

FulfillmentTypeOK ==
  /\ lots \in [Lots -> [received : BOOLEAN, source : BOOLEAN, capacity : Quantities,
                        quality : {"NONE", "ACCEPTED", "QUARANTINED"}, consumed : Quantities]]
  /\ lost \in 0..(MaxLot * Cardinality(Lots))
  /\ allocations \in [Allocations -> [lot : Lots \cup {Undefined}, order : Orders \cup {Undefined},
                        quantity : Quantities, state : Stages, work : Quantities,
                        accepted : Quantities]]
  /\ exceptions \in [Exceptions -> [order : Orders \cup {Undefined}, affected : Quantities,
                        acceptance : Allocations \cup {Undefined}]]
  /\ remedies \in [Remedies -> [exception : Exceptions \cup {Undefined}, quantity : Quantities,
                        completed : Quantities]]
  /\ resolution \in [Orders -> [performed : Quantities, remedied : Quantities]]
  /\ rows \in [Orders -> [performed : Quantities, remedied : Quantities, unresolved : Quantities]]
  /\ \A a \in Allocations :
       /\ allocations[a].work <= allocations[a].quantity
       /\ allocations[a].state = "ACCEPTED" => allocations[a].accepted = allocations[a].work
       /\ allocations[a].state = "REJECTED" => allocations[a].accepted = 0

FulfillmentInit ==
  /\ lots = [l \in Lots |-> NoLot]
  /\ lost = 0
  /\ allocations = [a \in Allocations |-> NoAllocation]
  /\ exceptions = [e \in Exceptions |-> NoException]
  /\ remedies = [r \in Remedies |-> NoRemedy]
  /\ resolution = [o \in Orders |-> [performed |-> 0, remedied |-> 0]]
  /\ rows = [o \in Orders |-> [performed |-> 0, remedied |-> 0, unresolved |-> Ordered[o]]]

inventoryVars == <<lots, lost>>
remedyVars == <<exceptions, remedies>>
positionVars == <<resolution, rows>>

-----------------------------------------------------------------------------
(* Inventory and physical lineage.                                         *)

(* Goods come in whole units, so a sum of quantities counts their units.   *)
Units(S, f) == UNION {{x} \X (1..f[x]) : x \in S}
SumOver(S, f) == Cardinality(Units(S, f))

allocatedForLot(l) ==
  SumOver({a \in Allocations : allocations[a].lot = l},
          [a \in Allocations |-> allocations[a].quantity])
allocatedForObligation(o) ==
  SumOver({a \in Allocations : allocations[a].order = o},
          [a \in Allocations |-> allocations[a].quantity])

remaining(l) == lots[l].capacity - lots[l].consumed

(* Mutation: what is allocated may be consumed. *)
availabilityPhysical(l) == IF lots[l].quality = "ACCEPTED" THEN remaining(l) ELSE 0
availability(l) ==
  IF lots[l].quality = "ACCEPTED" /\ allocatedForLot(l) <= remaining(l)
  THEN remaining(l) - allocatedForLot(l) ELSE 0

receiveLot(l, q) ==
  /\ ~lots[l].received /\ lots[l].capacity = 0 /\ q > 0
  /\ lots' = [lots EXCEPT ![l] = [NoLot EXCEPT !.received = TRUE, !.source = TRUE, !.capacity = q]]
  /\ UNCHANGED <<lost, allocations, remedyVars, positionVars>>

(* Any assessment may follow any other, naming the one it supersedes.      *)
assessQuality(l, quality) ==
  /\ lots[l].received
  /\ lots' = [lots EXCEPT ![l].quality = quality]
  /\ UNCHANGED <<lost, allocations, remedyVars, positionVars>>

(* "ins" and "outs" map the lots of a transform to quantities, 0 for none. *)
(* Mutation: the loss is not counted. *)
ConservedRoughly(ins, outs, loss) ==
  SumOver(Lots, ins) >= SumOver(Lots, outs)
Conserved(ins, outs, loss) ==
  SumOver(Lots, ins) = SumOver(Lots, outs) + loss

Inputs == {ins \in [Lots -> Quantities] :
             /\ \E l \in Lots : ins[l] > 0
             /\ \A l \in Lots : ins[l] > 0 => lots[l].received /\ ins[l] <= availability(l)}
Outputs == {outs \in [Lots -> Quantities] :
              /\ \E l \in Lots : outs[l] > 0
              /\ \A l \in Lots : outs[l] > 0 => lots[l].capacity = 0}

transform(ins, outs, loss) ==
  /\ Conserved(ins, outs, loss)
  /\ lots' = [l \in Lots |-> [lots[l] EXCEPT !.consumed = @ + ins[l], !.capacity = @ + outs[l]]]
  /\ lost' = lost + loss
  /\ UNCHANGED <<allocations, remedyVars, positionVars>>

receiveDerivedLot(l) ==
  /\ ~lots[l].received /\ remaining(l) > 0
  /\ lots' = [lots EXCEPT ![l].received = TRUE]
  /\ UNCHANGED <<lost, allocations, remedyVars, positionVars>>

allocate(a, l, o, q) ==
  /\ allocations[a] = NoAllocation
  /\ lots[l].received /\ q > 0 /\ q <= availability(l)
  /\ allocatedForObligation(o) + q <= Ordered[o]
  /\ allocations' = [allocations EXCEPT ![a] =
       [NoAllocation EXCEPT !.lot = l, !.order = o, !.quantity = q, !.state = "ALLOCATED"]]
  /\ UNCHANGED <<inventoryVars, remedyVars, positionVars>>

-----------------------------------------------------------------------------
(* Pick, pack, ready, handover and acceptance.                             *)

AcceptedLot(a) == allocations[a].lot # Undefined /\ lots[allocations[a].lot].quality = "ACCEPTED"

Following == [ALLOCATED |-> "PICKED", PICKED |-> "PACKED", PACKED |-> "READY_FOR_PICKUP"]

(* The quantity is chosen when it is picked and kept from then on.         *)
recordWork(a, q) ==
  LET allocation == allocations[a]
  IN /\ AcceptedLot(a) /\ allocation.state \in DOMAIN Following
     /\ IF allocation.state = "ALLOCATED" THEN q \in 1..allocation.quantity
                                          ELSE q = allocation.work
     /\ allocations' = [allocations EXCEPT ![a].state = Following[@], ![a].work = q]
     /\ UNCHANGED <<inventoryVars, remedyVars, positionVars>>

handover(a) ==
  /\ AcceptedLot(a) /\ allocations[a].state = "READY_FOR_PICKUP"
  /\ allocations' = [allocations EXCEPT ![a].state = "HANDED_OVER"]
  /\ UNCHANGED <<inventoryVars, remedyVars, positionVars>>

unresolved(o) == Ordered[o] - (resolution[o].performed + resolution[o].remedied)

(* Mutation: performance is bounded apart from remedy. *)
CapacityApart(o, q) ==
  resolution[o].performed + q <= Ordered[o] /\ resolution[o].remedied + q <= Ordered[o]
Capacity(o, q) == resolution[o].performed + resolution[o].remedied + q <= Ordered[o]

(* appendResolution: the position after the write goes on the stream, and  *)
(* the projection's row is what its last record says.                      *)
(* Mutation: the position is read before the write. *)
appendResolutionBefore(o) ==
  rows' = [rows EXCEPT ![o] = [performed |-> resolution[o].performed,
                               remedied |-> resolution[o].remedied,
                               unresolved |-> unresolved(o)]]
appendResolution(o) ==
  rows' = [rows EXCEPT ![o] = [performed |-> resolution'[o].performed,
                               remedied |-> resolution'[o].remedied,
                               unresolved |-> Ordered[o] - resolution'[o].performed
                                                        - resolution'[o].remedied]]

acceptedFor(o) ==
  SumOver({a \in Allocations : allocations[a].order = o},
          [a \in Allocations |-> allocations[a].accepted])

(* All of it, some of it or nothing: the state follows from the quantity.  *)
accept(a, o, q) ==
  LET work == allocations[a].work
  IN /\ allocations[a].state = "HANDED_OVER" /\ allocations[a].order = o
     /\ q <= work /\ acceptedFor(o) + q <= Ordered[o]
     /\ q > 0 => Capacity(o, q)
     /\ resolution' = [resolution EXCEPT ![o].performed = @ + q]
     /\ allocations' = [allocations EXCEPT
          ![a].state = IF q = 0 THEN "REJECTED" ELSE IF q = work THEN "ACCEPTED"
                       ELSE "PARTIALLY_ACCEPTED",
          ![a].accepted = q]
     /\ appendResolution(o)
     /\ UNCHANGED <<inventoryVars, remedyVars>>

-----------------------------------------------------------------------------
(* Exceptions and remedies.                                                *)

exceptedFor(o) ==
  SumOver({e \in Exceptions : exceptions[e].order = o},
          [e \in Exceptions |-> exceptions[e].affected])

(* A shortfall or a rejection names an acceptance and its deficit bounds   *)
(* it; a dispute or a needed substitution names none.                      *)
recordException(e, o, a, q) ==
  /\ exceptions[e] = NoException /\ q > 0
  /\ a # Undefined => /\ allocations[a].order = o /\ allocations[a].state \in Answered
                    /\ q + allocations[a].accepted <= allocations[a].work
  /\ exceptedFor(o) + q <= unresolved(o)
  /\ exceptions' = [exceptions EXCEPT ![e] = [order |-> o, acceptance |-> a, affected |-> q]]
  /\ UNCHANGED <<inventoryVars, allocations, remedies, positionVars>>

promisedFor(e) ==
  SumOver({r \in Remedies : remedies[r].exception = e},
          [r \in Remedies |-> remedies[r].quantity])

(* Mutation: each remedy is bounded on its own. *)
RemediableEach(e, q) == q <= exceptions[e].affected
Remediable(e, q) == promisedFor(e) + q <= exceptions[e].affected

createRemedy(r, e, q) ==
  /\ remedies[r] = NoRemedy /\ q > 0
  /\ exceptions[e].order # Undefined /\ Remediable(e, q)
  /\ remedies' = [remedies EXCEPT ![r] = [NoRemedy EXCEPT !.exception = e, !.quantity = q]]
  /\ UNCHANGED <<inventoryVars, allocations, exceptions, positionVars>>

completeRemedy(r, o, q) ==
  /\ remedies[r].exception # Undefined /\ exceptions[remedies[r].exception].order = o
  /\ q > 0 /\ remedies[r].completed + q <= remedies[r].quantity
  /\ Capacity(o, q)
  /\ resolution' = [resolution EXCEPT ![o].remedied = @ + q]
  /\ remedies' = [remedies EXCEPT ![r].completed = @ + q]
  /\ appendResolution(o)
  /\ UNCHANGED <<inventoryVars, allocations, exceptions>>

-----------------------------------------------------------------------------
(* GovernedTransferEvaluator.evaluateQuantities under a policy's trigger:  *)
(* the quantities of the order's events of that type.                      *)
(* Mutation: a rejected handover transfers too. *)
TransferredHanded(o, trigger) ==
  SumOver({a \in Allocations : allocations[a].order = o
             /\ allocations[a].state \in Answered \cup {"HANDED_OVER"}},
          [a \in Allocations |-> allocations[a].work])
Transferred(o, trigger) ==
  SumOver({a \in Allocations : allocations[a].order = o
             /\ allocations[a].state \in Answered \cup {"HANDED_OVER"}},
          [a \in Allocations |-> IF trigger = "HANDOVER" THEN allocations[a].work
                                                        ELSE allocations[a].accepted])

FulfillmentNext ==
  \/ \E l \in Lots, q \in Quantities : receiveLot(l, q)
  \/ \E l \in Lots, quality \in {"ACCEPTED", "QUARANTINED"} : assessQuality(l, quality)
  \/ \E ins \in Inputs, outs \in Outputs, loss \in Quantities : transform(ins, outs, loss)
  \/ \E l \in Lots : receiveDerivedLot(l)
  \/ \E a \in Allocations :
       \/ \E l \in Lots, o \in Orders, q \in Quantities : allocate(a, l, o, q)
       \/ handover(a)
       \/ \E q \in Quantities : recordWork(a, q)
       \/ \E o \in Orders, q \in Quantities : accept(a, o, q)
  \/ \E e \in Exceptions, o \in Orders, a \in Allocations \cup {Undefined}, q \in Quantities :
       recordException(e, o, a, q)
  \/ \E r \in Remedies, q \in Quantities :
       \/ \E e \in Exceptions : createRemedy(r, e, q)
       \/ \E o \in Orders : completeRemedy(r, o, q)

FulfillmentSpec == FulfillmentInit /\ [][FulfillmentNext]_fulfillmentVars
=============================================================================
