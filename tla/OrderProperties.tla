-------------------------- MODULE OrderProperties --------------------------
(***************************************************************************)
(* What the order operations of Orders keep true, whatever requests run    *)
(* between the snapshot and the writes of another.                         *)
(***************************************************************************)
EXTENDS Orders

(* The canonical log of an obligation is gapless and unforked: versions    *)
(* 1..aggregate_version, each exactly once, although seven statements of   *)
(* five handlers append to it and two of them append twice.                *)
EventLogGapless ==
  \A o \in Obligations :
    LET log == {e \in events : e.obl = o}
    IN  /\ {e.version : e \in log} = 1..version[o]
        /\ \A e, f \in log : e.version = f.version => e = f

Logged(o, type) == \E e \in events : e.obl = o /\ e.type = type

Before(o, first, second) ==
  \A e, f \in events :
    (e.obl = o /\ f.obl = o /\ e.type = first /\ f.type = second) => e.version < f.version

(* Replaying the log gives the rows: each row of the delivery tables has   *)
(* its event, each such event its row, in the order of the life cycle.     *)
LogTellsTheRows ==
  \A o \in Obligations :
    /\ Logged(o, "PURCHASE_COMMITTED") <=> commitment[o].state # "NONE"
    /\ Logged(o, "PAYMENT_OBSERVED") <=> \E i \in PayIds : payments[i].obl = o
    /\ Logged(o, "FULFILLMENT_READY") <=> fulfillment[o].state # "NONE"
    /\ Logged(o, "FULFILLMENT_ACCEPTED") <=> fulfillment[o].state \notin {"NONE", "READY"}
    /\ Logged(o, "FULFILLMENT_EXCEPTION") <=> fulfillment[o].shortfall > 0
    /\ Logged(o, "FULFILLMENT_EXCEPTION") <=> exception[o].kind # "NONE"
    /\ Logged(o, "REMEDY_AUTHORIZED") <=> remedy[o].status # "NONE"
    /\ Logged(o, "REMEDY_COMPLETED") <=> remedy[o].status = "COMPLETED"
    /\ Logged(o, "REMEDY_COMPLETED") <=> commitment[o].state = "FULFILLED"
    /\ Before(o, "PURCHASE_COMMITTED", "FULFILLMENT_READY")
    /\ Before(o, "PAYMENT_OBSERVED", "REMEDY_COMPLETED")
    /\ Before(o, "FULFILLMENT_READY", "FULFILLMENT_ACCEPTED")
    /\ Before(o, "FULFILLMENT_ACCEPTED", "FULFILLMENT_EXCEPTION")
    /\ Before(o, "FULFILLMENT_EXCEPTION", "REMEDY_AUTHORIZED")
    /\ Before(o, "REMEDY_AUTHORIZED", "REMEDY_COMPLETED")

Count(P(_)) == Cardinality({o \in Obligations : P(o)})

(* Exactly one effect per request id: the commands recorded in             *)
(* durable_command_execution are as many as the effects in the tables,     *)
(* under every duplication and every crossing of request ids between       *)
(* commands.                                                               *)
OneEffectPerRequest ==
  Cardinality(commandKeys) =
      Count(LAMBDA o : commitment[o].state # "NONE")
    + Count(LAMBDA o : fulfillment[o].state # "NONE")
    + Count(LAMBDA o : fulfillment[o].state \notin {"NONE", "READY"})
    + Count(LAMBDA o : remedy[o].status # "NONE")
    + Count(LAMBDA o : remedy[o].status = "COMPLETED")

(* A qualification is never granted for more than was really paid: stale   *)
(* totals can understate a member's tier, they cannot overstate it.        *)
QualificationEarned ==
  \A o \in Obligations :
    LET c == commitment[o]
        earned(bps) == Reaches(paid[o], c.price, bps)
    IN  /\ c.qual = "FULLY_PAID" \/ c.fullyPaid => earned(FULL_PAYMENT_BPS)
        /\ c.qual = "PRORATED_FULFILLMENT" => earned(PRORATED_FULFILLMENT_BPS)
        /\ c.qual = "CURRENT_BATCH_RESCHEDULE" => earned(CURRENT_BATCH_BPS)

(* The ledger entry, the plan and the released quantity a deadline leaves  *)
(* were all computed from ONE paid total, no greater than what was paid;   *)
(* goods planned and goods released add up to the commitment.              *)
DispositionCoherent ==
  \A o \in Obligations :
    LET c == commitment[o]
        total == ledger[o].source
    IN  /\ ledger[o].state # "NONE" =>
             /\ c.processed
             /\ ledger[o].amount + ledger[o].applied = total
             /\ total <= paid[o]
             /\ plan[o].planned = FulfillQty(total, c.price, c.quantity)
             /\ plan[o].disposition # "RESCHEDULE_REQUIRED"
        /\ c.processed => plan[o].planned + c.released = c.quantity
        /\ plan[o].state # "NONE" => c.processed /\ plan[o].released = c.released

(* What a refund pays back was paid in: it is at most one CONFIRMED        *)
(* payment of the same obligation, at most the price share of the goods    *)
(* that were short, and for no more goods than were short.                 *)
RefundBacked ==
  \A o \in Obligations : remedy[o].status # "NONE" =>
    /\ exception[o].kind # "NONE"
    /\ remedy[o].quantity = fulfillment[o].shortfall
    /\ \E i \in ConfirmedRows(o) : remedy[o].amount <= payments[i].amount
    /\ remedy[o].amount * 2 * commitment[o].quantity
         <= 2 * commitment[o].price * fulfillment[o].shortfall + commitment[o].quantity

(* The deadline decides once: whatever two processors, late payments and   *)
(* offer edits do, what the first one wrote stays (only the schedule of a  *)
(* plan moves on).                                                         *)
DeadlineDecidesOnce ==
  [][\A o \in Obligations : commitment[o].processed =>
       /\ commitment'[o].processed
       /\ commitment'[o].released = commitment[o].released
       /\ ledger'[o] = ledger[o]
       /\ [plan'[o] EXCEPT !.state = plan[o].state] = plan[o]
       /\ plan[o].state = "NONE" => plan'[o].state = "NONE"]_vars

(* A member who has accepted or rejected is never asked again: two racing  *)
(* acceptances, or one racing the refund, leave the first answer standing. *)
AcceptanceFinal ==
  [][\A o \in Obligations : fulfillment[o].state \notin {"NONE", "READY"} =>
       /\ fulfillment'[o] = fulfillment[o]
       /\ exception'[o] = exception[o]
       /\ remedy[o].status # "NONE" => /\ remedy'[o].amount = remedy[o].amount
                                       /\ remedy'[o].status # "NONE"]_vars

(* The detailed statements implement the life cycle an obligation is       *)
(* promised.  The phase is read off the rows of five tables.               *)
PhaseOf(o) ==
  IF commitment[o].state = "NONE" THEN "NONE"
  ELSE IF commitment[o].state = "FULFILLED" THEN "REFUNDED"
  ELSE IF remedy[o].status # "NONE" THEN "REFUND_AUTHORIZED"
  ELSE IF exception[o].kind # "NONE" THEN "SHORT"
  ELSE IF fulfillment[o].state = "NONE" THEN "COMMITTED"
  ELSE IF fulfillment[o].state = "READY" THEN "READY"
  ELSE "ACCEPTED"

Phases == [o \in Obligations |-> PhaseOf(o)]
Disposed == [o \in Obligations |-> commitment[o].processed]
Owed == [o \in Obligations |-> remedy[o].amount]

Lifecycle == INSTANCE ObligationLifecycle WITH
  phase <- Phases, disposed <- Disposed, owed <- Owed

(* Commit, ready, accept, authorize, complete and deadline processing are  *)
(* steps of the promised life cycle; everything else leaves it alone.      *)
ImplementsLifecycle == Lifecycle!Spec

-----------------------------------------------------------------------------
(* The strengthening that makes the safety properties inductive.           *)

(* The foreign keys, and the version row: nothing exists for an obligation *)
(* before its commitment.                                                  *)
Uncommitted(o) ==
  /\ commitment[o] = NoCommitment
  /\ version[o] = 0
  /\ fulfillment[o] = NoFulfillment
  /\ exception[o] = NoException
  /\ remedy[o] = NoRemedy
  /\ ledger[o] = NoLedger
  /\ plan[o] = NoPlan

RowsGrounded ==
  \A o \in Obligations :
    \/ Uncommitted(o)
    \/ commitment[o].state # "NONE" /\ commitment[o].quantity > 0

PaymentsGrounded ==
  \A i \in PayIds : payments[i].status # "NONE" =>
    /\ payments[i].obl \in Obligations
    /\ commitment[payments[i].obl].state # "NONE"

(* What a request read before its writes is still true of the rows that    *)
(* never go away.                                                          *)
CallGrounded(call) ==
  /\ call.op \in {"pay", "deadline", "ready", "authorize"} =>
       commitment[call.obl].state # "NONE"
  /\ call.op \in {"ready", "authorize"} => call.rows \subseteq ConfirmedRows(call.obl)
  /\ call.op = "authorize" => exception[call.obl].kind # "NONE"
  /\ call.op \in {"pay", "deadline"} => call.paid <= paid[call.obl]

CallsGrounded == \A w \in Workers : CallGrounded(calls[w])

(* The delivery tables agree on how far the obligation has come.           *)
DeliveryCoherent ==
  \A o \in Obligations :
    /\ exception[o].kind # "NONE" <=>
         fulfillment[o].state \in {"PARTIALLY_ACCEPTED", "REJECTED"}
    /\ exception[o].affected = fulfillment[o].shortfall
    /\ exception[o].kind # "NONE" <=> fulfillment[o].shortfall > 0
    /\ remedy[o].status # "NONE" => exception[o].kind # "NONE"
    /\ remedy[o].status = "NONE" <=> remedy[o].amount = 0
    /\ commitment[o].state = "FULFILLED" <=> remedy[o].status = "COMPLETED"

OrderInv ==
  TypeOK /\ RowsGrounded /\ PaymentsGrounded /\ CallsGrounded /\ DeliveryCoherent

-----------------------------------------------------------------------------
(* What the repository says and the statements do not keep: TLC finds each *)
(* of these violated, on the instances the README names.                   *)

(* canon/invariants.json, INV-028: stale concurrent commands cannot        *)
(* silently violate quantity limits.  A commit that takes effect leaves    *)
(* the offer within its campaign capacity.                                 *)
CommitWithinCapacity ==
  [][allocated' # allocated =>
       offer.capacity = NoCapacity \/ allocated' <= offer.capacity]_vars

(* api/pay-sandbox.js, above readExistingPayment: the payment insert and    *)
(* the qualification-tier recompute happen in one serializable statement.  *)
(* The tier a confirmed payment leaves is the one all recorded payments,   *)
(* this one included, have earned.                                         *)
PaymentQualifies ==
  [][\A o \in Obligations : paid'[o] > paid[o] =>
       commitment'[o].qual = Tier(paid'[o], commitment[o].price, offer.bps)]_vars

(* lib/qualified-demand-policy.js, above deadlineDisposition: every cedi   *)
(* already paid has exactly one destination.  When the deadline statement  *)
(* commits, what it disposes of is all that is paid at that moment.        *)
DeadlineCountsEveryPayment ==
  [][\A o \in Obligations : ~commitment[o].processed /\ commitment'[o].processed =>
       /\ ledger'[o].state # "NONE" => ledger'[o].source = paid[o]
       /\ ledger'[o].state = "NONE" /\ plan'[o].state = "NONE" => paid[o] = 0]_vars

(* The same comment: no double compensation.  What the prepaid ledger      *)
(* keeps for the member and what a completed refund paid back together     *)
(* never exceed what the member paid.                                      *)
NoDoubleCompensation ==
  \A o \in Obligations :
    ledger[o].amount + (IF remedy[o].status = "COMPLETED" THEN remedy[o].amount ELSE 0)
      <= paid[o]

(* The operator keeps sending readiness requests for every obligation and  *)
(* the database keeps executing their statements.                          *)
ReadinessFairness ==
  \A w \in Workers :
    /\ WF_vars(RefuseCall(w))
    /\ SF_vars(ReadyApply(w))
    /\ \A o \in Obligations : SF_vars(\E id \in IdsOf["ready"] : BeginReady(w, id, o))

FairSpec == Spec /\ ReadinessFairness

(* 025_deadline_fulfillment_planning_v1.sql: a READY_TO_FULFILL plan       *)
(* awaits normal fulfillment readiness processing, which therefore must be *)
(* able to make it ready.                                                  *)
PlannedGoodsBecomeReady ==
  \A o \in Obligations :
    plan[o].disposition = "READY_TO_FULFILL" ~> fulfillment[o].state # "NONE"
=============================================================================
