------------------------------- MODULE Orders -------------------------------
(***************************************************************************)
(* The life of a member's order: commit, pay, T-24h deadline, plan,        *)
(* readiness, acceptance, refund.  Every operation is one serverless       *)
(* request under api/ that authenticates, reads, and then executes ONE     *)
(* large SQL statement over Neon HTTP in READ COMMITTED.                   *)
(*                                                                         *)
(* What such a statement does, and what this module keeps of it:           *)
(*   - it reads the snapshot taken when it starts;                         *)
(*   - it waits on the row it locks or updates, and then re-reads that row *)
(*     (only that row) in its newest committed version;                    *)
(*   - its writes appear at once, or not at all (a unique violation).      *)
(* A statement whose outcome depends on its snapshot through rows it does  *)
(* NOT lock is two actions: Begin... takes the snapshot, ...Apply commits  *)
(* the writes.  Other requests run in between.  A statement that depends   *)
(* only on the rows it locks is one action.  The reads that a handler does *)
(* before its statement only choose an answer without effect, so the       *)
(* Begin... action takes them together with the snapshot.                  *)
(*                                                                         *)
(* A request may be repeated at any time (a client retry after a lost      *)
(* answer), and an in-flight one may end without effect (AbandonCall: the  *)
(* 5 s abort signal, a function crash).                                    *)
(***************************************************************************)
EXTENDS OrderPolicy, FiniteSets

CONSTANTS
  Obligations,    \* obligation ids a commit may draw (durableId is fresh)
  Workers,        \* concurrent serverless invocations
  PayIds,         \* request ids of payments (unique in preview_sandbox_payment)
  Requests,       \* request ids of the commands (key of durable_command_execution)
  IdsOf,          \* which of them clients send with which command
  Amounts,        \* payment amounts clients send
  OfferTerms,     \* the versions of the offer an operator may publish
  NoCapacity      \* campaign_capacity IS NULL

Commands == {"commit", "ready", "accept", "authorize", "complete"}

ASSUME OrdersAssumption ==
  /\ Amounts \subseteq Nat \ {0}
  /\ IdsOf \in [Commands -> SUBSET Requests]
  /\ "NONE" \notin Obligations
  /\ NoCapacity \notin Nat
  /\ OfferTerms # {}
  /\ OfferTerms \subseteq [open : BOOLEAN, price : Nat, quantity : Nat \ {0},
                           bps : BasisPoints, capacity : Nat \cup {NoCapacity}]

VARIABLES
  offer,        \* preview_member_offer: the current terms
  due,          \* now() >= delivery_at - 24h, with delivery_at not null
  allocated,    \* sum(quantity) over the offer's commitments
  commitment,   \* preview_member_commitment
  payments,     \* preview_sandbox_payment, by request id
  paid,         \* sum(amount_minor) of the CONFIRMED payments of an obligation
  ledger,       \* member_prepaid_balance_ledger
  plan,         \* preview_deadline_fulfillment_plan
  fulfillment,  \* preview_fulfillment
  exception,    \* preview_fulfillment_exception
  remedy,       \* preview_refund_remedy
  version,      \* aggregate_version
  events,       \* canonical_event
  commandKeys,  \* idempotency keys in durable_command_execution
  calls         \* what each worker has in flight

orderRows == <<commitment, payments, paid, allocated>>
deadlineRows == <<ledger, plan>>
deliveryRows == <<fulfillment, exception, remedy>>
logRows == <<version, events, commandKeys>>
vars == <<offer, due, orderRows, deadlineRows, deliveryRows, logRows, calls>>

-----------------------------------------------------------------------------
(* Rows.  An absent row is a record whose state is "NONE".                 *)

EventTypes == {"PURCHASE_COMMITTED", "PAYMENT_OBSERVED", "FULFILLMENT_READY",
               "FULFILLMENT_ACCEPTED", "FULFILLMENT_EXCEPTION",
               "REMEDY_AUTHORIZED", "REMEDY_COMPLETED"}

Commitments == [state : {"NONE", "OPEN", "FULFILLED"},
                request : Requests \cup {"NONE"},
                price : Nat, quantity : Nat, released : Nat,
                qual : Tiers \cup {"DEADLINE_PROCESSED"},
                qualified : BOOLEAN, fullyPaid : BOOLEAN, processed : BOOLEAN]
Payments == [status : {"NONE", "CONFIRMED", "FAILED"},
             obl : Obligations \cup {"NONE"}, amount : Nat]
Ledgers == [state : {"NONE", "AVAILABLE"}, amount : Nat, source : Nat, applied : Nat]
Plans == [state : {"NONE", "PENDING", "SCHEDULED"},
          disposition : {"NONE", "RESCHEDULE_REQUIRED", "READY_TO_FULFILL"},
          planned : Nat, released : Nat]
Fulfillments == [state : {"NONE", "READY", "ACCEPTED", "PARTIALLY_ACCEPTED", "REJECTED"},
                 ready : Nat, accepted : Nat, shortfall : Nat]
Exceptions == [kind : {"NONE", "SHORTFALL", "REJECTION"}, affected : Nat]
Remedies == [status : {"NONE", "AUTHORIZED", "COMPLETED"}, quantity : Nat, amount : Nat]

NoCommitment == [state |-> "NONE", request |-> "NONE",
                 price |-> 0, quantity |-> 0, released |-> 0,
                 qual |-> "UNQUALIFIED", qualified |-> FALSE, fullyPaid |-> FALSE,
                 processed |-> FALSE]
NoPayment == [status |-> "NONE", obl |-> "NONE", amount |-> 0]
NoLedger == [state |-> "NONE", amount |-> 0, source |-> 0, applied |-> 0]
NoPlan == [state |-> "NONE", disposition |-> "NONE", planned |-> 0, released |-> 0]
NoFulfillment == [state |-> "NONE", ready |-> 0, accepted |-> 0, shortfall |-> 0]
NoException == [kind |-> "NONE", affected |-> 0]
NoRemedy == [status |-> "NONE", quantity |-> 0, amount |-> 0]

(* What a worker holds between its snapshot and its writes.                *)
Idle == [op |-> "idle"]
CommitCalls == [op : {"commit"}, id : Requests, allocated : Nat]
PayCalls == [op : {"pay"}, id : PayIds, obl : Obligations, amount : Amounts,
             status : {"CONFIRMED", "FAILED"}, paid : Nat, bps : BasisPoints]
DeadlineCalls == [op : {"deadline"}, obl : Obligations, paid : Nat, bps : BasisPoints]
ReadyCalls == [op : {"ready"}, id : Requests, obl : Obligations, rows : SUBSET PayIds]
AuthorizeCalls == [op : {"authorize"}, id : Requests, obl : Obligations,
                   rows : SUBSET PayIds]
Calls == {Idle} \cup CommitCalls \cup PayCalls \cup DeadlineCalls
           \cup ReadyCalls \cup AuthorizeCalls

TypeOK ==
  /\ offer \in OfferTerms
  /\ due \in BOOLEAN
  /\ allocated \in Nat
  /\ commitment \in [Obligations -> Commitments]
  /\ payments \in [PayIds -> Payments]
  /\ paid \in [Obligations -> Nat]
  /\ ledger \in [Obligations -> Ledgers]
  /\ plan \in [Obligations -> Plans]
  /\ fulfillment \in [Obligations -> Fulfillments]
  /\ exception \in [Obligations -> Exceptions]
  /\ remedy \in [Obligations -> Remedies]
  /\ version \in [Obligations -> Nat]
  /\ events \subseteq [obl : Obligations, version : Nat, type : EventTypes]
  /\ commandKeys \subseteq Requests
  /\ calls \in [Workers -> Calls]

Init ==
  /\ offer \in OfferTerms
  /\ due = FALSE
  /\ allocated = 0
  /\ commitment = [o \in Obligations |-> NoCommitment]
  /\ payments = [i \in PayIds |-> NoPayment]
  /\ paid = [o \in Obligations |-> 0]
  /\ ledger = [o \in Obligations |-> NoLedger]
  /\ plan = [o \in Obligations |-> NoPlan]
  /\ fulfillment = [o \in Obligations |-> NoFulfillment]
  /\ exception = [o \in Obligations |-> NoException]
  /\ remedy = [o \in Obligations |-> NoRemedy]
  /\ version = [o \in Obligations |-> 0]
  /\ events = {}
  /\ commandKeys = {}
  /\ calls = [w \in Workers |-> Idle]

-----------------------------------------------------------------------------
(* The bookkeeping every statement does with its writes.                   *)

(* The CONFIRMED payment rows of o, as a join in the current snapshot sees them. *)
ConfirmedRows(o) == {i \in PayIds : payments[i].status = "CONFIRMED" /\ payments[i].obl = o}

Begin(w, call) == calls[w] = Idle /\ calls' = [calls EXCEPT ![w] = call]
Finish(w) == calls' = [calls EXCEPT ![w] = Idle]

(* Mutation: the event takes the version read before the update. *)
AppendAtOldVersion(o, type) ==
  /\ version' = [version EXCEPT ![o] = @ + 1]
  /\ events' = events \cup {[obl |-> o, version |-> version[o], type |-> type]}

(* UPDATE aggregate_version ... RETURNING version, and the canonical event *)
(* at that version, in the same statement.                                 *)
Append(o, type) ==
  /\ version' = [version EXCEPT ![o] = @ + 1]
  /\ events' = events \cup {[obl |-> o, version |-> version[o] + 1, type |-> type]}

(* Mutation: ON CONFLICT DO NOTHING. *)
ClaimUnchecked(id) == commandKeys' = commandKeys \cup {id}

(* The insert into durable_command_execution: its primary key refuses a    *)
(* request id any command has used before.                                 *)
Claim(id) == id \notin commandKeys /\ commandKeys' = commandKeys \cup {id}

-----------------------------------------------------------------------------
(* The offer (api/catalog-offers.js) and the clock.                        *)

(* PATCH replaces the offer's terms and its delivery time. *)
EditOffer(terms, nowDue) ==
  /\ offer' = terms
  /\ due' = nowDue
  /\ UNCHANGED <<orderRows, deadlineRows, deliveryRows, logRows, calls>>

(* Time passes T-24h. *)
DeadlinePasses ==
  /\ ~due
  /\ due' = TRUE
  /\ UNCHANGED <<offer, orderRows, deadlineRows, deliveryRows, logRows, calls>>

-----------------------------------------------------------------------------
(* api/commit-sandbox.js                                                   *)

BeginCommit(w, id) ==
  /\ \A o \in Obligations : commitment[o].request # id
  /\ Begin(w, [op |-> "commit", id |-> id, allocated |-> allocated])
  /\ UNCHANGED <<offer, due, orderRows, deadlineRows, deliveryRows, logRows>>

(* selected_offer: the offer row is locked and read in its newest version, *)
(* the quantity already committed comes from the snapshot.                 *)
Committable(call) ==
  /\ offer.open
  /\ offer.capacity # NoCapacity => call.allocated + offer.quantity <= offer.capacity

CommitApply(w, o) ==
  LET call == calls[w] IN
  /\ call.op = "commit"
  /\ Committable(call)
  /\ commitment[o].state = "NONE"
  /\ Claim(call.id)
  /\ commitment' = [commitment EXCEPT ![o] =
       [state |-> "OPEN", request |-> call.id,
        price |-> offer.price, quantity |-> offer.quantity, released |-> 0,
        qual |-> "UNQUALIFIED", qualified |-> FALSE, fullyPaid |-> FALSE,
        processed |-> FALSE]]
  /\ allocated' = allocated + offer.quantity
  /\ version' = [version EXCEPT ![o] = 1]
  /\ events' = events \cup {[obl |-> o, version |-> 1, type |-> "PURCHASE_COMMITTED"]}
  /\ Finish(w)
  /\ UNCHANGED <<offer, due, payments, paid, deadlineRows, deliveryRows>>

-----------------------------------------------------------------------------
(* Mutation: any commitment row will do. *)
OpenOrFulfilled(o) == commitment[o].state # "NONE"

(* c.state = 'OPEN', tested on the locked row by payment and deadline. *)
Open(o) == commitment[o].state = "OPEN"

(* api/pay-sandbox.js                                                      *)

BeginPay(w, id, o, amount, status) ==
  /\ payments[id].status = "NONE"
  /\ Open(o)
  /\ Begin(w, [op |-> "pay", id |-> id, obl |-> o, amount |-> amount,
               status |-> status, paid |-> paid[o], bps |-> offer.bps])
  /\ UNCHANGED <<offer, due, orderRows, deadlineRows, deliveryRows, logRows>>

(* Mutation: a failed payment qualifies like a confirmed one. *)
TierAfterAnyStatus(call) ==
  Tier(call.paid + call.amount, commitment[call.obl].price, call.bps)

(* tier: NULL (COALESCE keeps the old state) for a failed payment. *)
TierAfter(call) ==
  LET c == commitment[call.obl]
  IN  IF call.status = "FAILED" THEN c.qual
      ELSE Tier(call.paid + call.amount, c.price, call.bps)

(* updated_commitment: the two timestamps are set once and never cleared.  *)
QualifiedBy(call) ==
  LET tier == TierAfter(call)
      confirmed == call.status = "CONFIRMED"
  IN  [commitment[call.obl] EXCEPT
         !.qual = tier,
         !.qualified = @ \/ (confirmed /\ tier # "UNQUALIFIED"),
         !.fullyPaid = @ \/ (confirmed /\ tier = "FULLY_PAID")]

PayApply(w) ==
  LET call == calls[w]
      o    == call.obl
      added == IF call.status = "CONFIRMED" THEN call.amount ELSE 0
  IN
  /\ call.op = "pay"
  /\ Open(o)
  /\ payments[call.id].status = "NONE"
  /\ payments' = [payments EXCEPT ![call.id] =
       [status |-> call.status, obl |-> o, amount |-> call.amount]]
  /\ paid' = [paid EXCEPT ![o] = @ + added]
  /\ commitment' = [commitment EXCEPT ![o] = QualifiedBy(call)]
  /\ Append(o, "PAYMENT_OBSERVED")
  /\ Finish(w)
  /\ UNCHANGED <<offer, due, allocated, deadlineRows, deliveryRows, commandKeys>>

-----------------------------------------------------------------------------
(* api/process-payment-deadlines.js: processOne                            *)

(* Mutation: deadline_processed_at is not looked at again. *)
UnprocessedUnchecked(o) == Open(o)

Unprocessed(o) == Open(o) /\ ~commitment[o].processed

BeginDeadline(w, o) ==
  /\ due
  /\ Unprocessed(o)
  /\ Begin(w, [op |-> "deadline", obl |-> o, paid |-> paid[o], bps |-> offer.bps])
  /\ UNCHANGED <<offer, due, orderRows, deadlineRows, deliveryRows, logRows>>

(* balance: only a positive balance is credited, ON CONFLICT DO NOTHING. *)
LedgerAfter(o, sum, tier) ==
  LET c == commitment[o]
      balance == PrepaidBalance(sum, c.price, c.quantity, tier)
  IN  IF balance > 0 /\ ledger[o].state = "NONE"
      THEN [state |-> "AVAILABLE", amount |-> balance, source |-> sum,
            applied |-> Applied(sum, c.price, c.quantity, tier)]
      ELSE ledger[o]

(* plan: a rescheduled batch keeps the whole quantity, otherwise the       *)
(* fulfillable quantity if there is any; ON CONFLICT DO NOTHING.           *)
PlanAfter(o, sum, tier) ==
  LET c == commitment[o]
      reschedule == tier = "CURRENT_BATCH_RESCHEDULE"
      quantity == IF reschedule THEN c.quantity
                  ELSE FulfillQty(sum, c.price, c.quantity)
  IN  IF /\ tier \in {"CURRENT_BATCH_RESCHEDULE", "PRORATED_FULFILLMENT", "FULLY_PAID"}
         /\ quantity > 0
         /\ plan[o].state = "NONE"
      THEN [state |-> "PENDING",
            disposition |-> IF reschedule THEN "RESCHEDULE_REQUIRED" ELSE "READY_TO_FULFILL",
            planned |-> quantity,
            released |-> ReleaseQty(sum, c.price, c.quantity, tier)]
      ELSE plan[o]

(* upd: the qualification the deadline leaves, and what it releases. *)
DisposedBy(call) ==
  LET c == commitment[call.obl]
      tier == Tier(call.paid, c.price, call.bps)
  IN  [c EXCEPT !.qual = IF tier \in {"FULLY_PAID", "CURRENT_BATCH_RESCHEDULE"}
                         THEN tier ELSE "DEADLINE_PROCESSED",
                !.processed = TRUE,
                !.released = ReleaseQty(call.paid, c.price, c.quantity, tier)]

DeadlineApply(w) ==
  LET call == calls[w]
      o    == call.obl
      tier == Tier(call.paid, commitment[o].price, call.bps)
  IN
  /\ call.op = "deadline"
  /\ Unprocessed(o)
  /\ ledger' = [ledger EXCEPT ![o] = LedgerAfter(o, call.paid, tier)]
  /\ plan' = [plan EXCEPT ![o] = PlanAfter(o, call.paid, tier)]
  /\ commitment' = [commitment EXCEPT ![o] = DisposedBy(call)]
  /\ Finish(w)
  /\ UNCHANGED <<offer, due, allocated, payments, paid, deliveryRows, logRows>>

(* api/fulfillment-plan-schedule.js *)
SchedulePlan(o) ==
  /\ plan[o].disposition = "RESCHEDULE_REQUIRED"
  /\ plan[o].state = "PENDING"
  /\ plan' = [plan EXCEPT ![o].state = "SCHEDULED"]
  /\ UNCHANGED <<offer, due, orderRows, ledger, deliveryRows, logRows, calls>>

-----------------------------------------------------------------------------
(* api/fulfillment-ready.js                                                *)

(* payable joins the commitment with each of its CONFIRMED payments; it    *)
(* looks at neither the tier nor the deadline plan.                        *)
BeginReady(w, id, o) ==
  /\ fulfillment[o].state = "NONE"
  /\ ConfirmedRows(o) # {}
  /\ Begin(w, [op |-> "ready", id |-> id, obl |-> o, rows |-> ConfirmedRows(o)])
  /\ UNCHANGED <<offer, due, orderRows, deadlineRows, deliveryRows, logRows>>

(* One fulfillment is inserted per row of payable: a second one violates   *)
(* the unique obligation_id, and the statement fails as a whole.           *)
ReadyApply(w) ==
  LET call == calls[w]
      o    == call.obl
  IN
  /\ call.op = "ready"
  /\ \E i \in PayIds : call.rows = {i}
  /\ fulfillment[o].state = "NONE"
  /\ Claim(call.id)
  /\ fulfillment' = [fulfillment EXCEPT ![o] =
       [state |-> "READY", ready |-> commitment[o].quantity, accepted |-> 0, shortfall |-> 0]]
  /\ Append(o, "FULFILLMENT_READY")
  /\ Finish(w)
  /\ UNCHANGED <<offer, due, orderRows, deadlineRows, exception, remedy>>

(* Mutation: the lock does not test the state. *)
AcceptableUnchecked(o) == fulfillment[o].state # "NONE"

(* target: f.state = 'READY' on the locked row. *)
Acceptable(o) == fulfillment[o].state = "READY"

(* api/accept-fulfillment.js *)
AcceptFulfillment(o, id, accepted) ==
  LET ready == fulfillment[o].ready
      shortfall == ready - accepted
      state == IF accepted = ready THEN "ACCEPTED"
               ELSE IF accepted = 0 THEN "REJECTED" ELSE "PARTIALLY_ACCEPTED"
      event(n, type) == [obl |-> o, version |-> version[o] + n, type |-> type]
  IN
  /\ Acceptable(o)
  /\ accepted <= ready
  /\ Claim(id)
  /\ fulfillment' = [fulfillment EXCEPT ![o] =
       [state |-> state, ready |-> ready, accepted |-> accepted, shortfall |-> shortfall]]
  /\ \/ /\ shortfall = 0
        /\ Append(o, "FULFILLMENT_ACCEPTED")
        /\ UNCHANGED exception
     \/ /\ shortfall > 0
        /\ version' = [version EXCEPT ![o] = @ + 2]
        /\ events' = events \cup {event(1, "FULFILLMENT_ACCEPTED"),
                                  event(2, "FULFILLMENT_EXCEPTION")}
        /\ exception' = [exception EXCEPT ![o] =
             [kind |-> IF state = "REJECTED" THEN "REJECTION" ELSE "SHORTFALL",
              affected |-> shortfall]]
  /\ UNCHANGED <<offer, due, orderRows, deadlineRows, remedy, calls>>

-----------------------------------------------------------------------------
(* api/authorize-refund.js and api/complete-refund.js                      *)

BeginAuthorize(w, id, o) ==
  /\ remedy[o].status = "NONE"
  /\ exception[o].kind # "NONE"
  /\ ConfirmedRows(o) # {}
  /\ Begin(w, [op |-> "authorize", id |-> id, obl |-> o, rows |-> ConfirmedRows(o)])
  /\ UNCHANGED <<offer, due, orderRows, deadlineRows, deliveryRows, logRows>>

(* One remedy is inserted per exception joined with a CONFIRMED payment;   *)
(* the unique source_exception_id admits one.                              *)
RefundOwed(o, i) ==
  LET c == commitment[o]
  IN  RefundMinor(c.price, c.quantity, exception[o].affected, payments[i].amount)

AuthorizeApply(w) ==
  LET call == calls[w]
      o    == call.obl
  IN
  /\ call.op = "authorize"
  /\ remedy[o].status = "NONE"
  /\ Claim(call.id)
  /\ \E i \in PayIds :
       /\ call.rows = {i}
       /\ RefundOwed(o, i) > 0
       /\ remedy' = [remedy EXCEPT ![o] =
            [status |-> "AUTHORIZED", quantity |-> exception[o].affected,
             amount |-> RefundOwed(o, i)]]
  /\ Append(o, "REMEDY_AUTHORIZED")
  /\ Finish(w)
  /\ UNCHANGED <<offer, due, orderRows, deadlineRows, fulfillment, exception>>

CompleteRefund(o, id) ==
  /\ remedy[o].status = "AUTHORIZED"
  /\ Claim(id)
  /\ remedy' = [remedy EXCEPT ![o].status = "COMPLETED"]
  /\ commitment' = [commitment EXCEPT ![o].state = "FULFILLED"]
  /\ Append(o, "REMEDY_COMPLETED")
  /\ UNCHANGED <<offer, due, allocated, payments, paid, deadlineRows, fulfillment,
                 exception, calls>>

-----------------------------------------------------------------------------
(* The statement of a call found no row to act on, or a unique index       *)
(* refused it: answered without effect.                                    *)
Refused(call) ==
  \/ /\ call.op = "commit"
     /\ ~Committable(call) \/ call.id \in commandKeys
  \/ /\ call.op = "pay"
     /\ ~Open(call.obl) \/ payments[call.id].status # "NONE"
  \/ /\ call.op = "deadline"
     /\ ~Unprocessed(call.obl)
  \/ /\ call.op = "ready"
     /\ \/ \A i \in PayIds : call.rows # {i}
        \/ fulfillment[call.obl].state # "NONE"
        \/ call.id \in commandKeys
  \/ /\ call.op = "authorize"
     /\ \/ \A i \in PayIds : call.rows = {i} => RefundOwed(call.obl, i) = 0
        \/ remedy[call.obl].status # "NONE"
        \/ call.id \in commandKeys

RefuseCall(w) ==
  /\ Refused(calls[w])
  /\ Finish(w)
  /\ UNCHANGED <<offer, due, orderRows, deadlineRows, deliveryRows, logRows>>

(* The request is cut off before its statement reaches the database. *)
AbandonCall(w) ==
  /\ calls[w] # Idle
  /\ Finish(w)
  /\ UNCHANGED <<offer, due, orderRows, deadlineRows, deliveryRows, logRows>>

-----------------------------------------------------------------------------
OfferStep == DeadlinePasses \/ \E terms \in OfferTerms, d \in BOOLEAN : EditOffer(terms, d)

CommitStep(w) == \/ \E id \in IdsOf["commit"] : BeginCommit(w, id)
                 \/ \E o \in Obligations : CommitApply(w, o)

PayStep(w) == \/ \E id \in PayIds, o \in Obligations, a \in Amounts,
                    s \in {"CONFIRMED", "FAILED"} : BeginPay(w, id, o, a, s)
              \/ PayApply(w)

DeadlineStep(w) == DeadlineApply(w) \/ \E o \in Obligations : BeginDeadline(w, o)

ReadyStep(w) == \/ \E id \in IdsOf["ready"], o \in Obligations : BeginReady(w, id, o)
                \/ ReadyApply(w)

AuthorizeStep(w) == \/ \E id \in IdsOf["authorize"], o \in Obligations : BeginAuthorize(w, id, o)
                    \/ AuthorizeApply(w)

AtomicStep(o) ==
  \/ SchedulePlan(o)
  \/ \E id \in IdsOf["accept"], a \in 0..fulfillment[o].ready : AcceptFulfillment(o, id, a)
  \/ \E id \in IdsOf["complete"] : CompleteRefund(o, id)

Next ==
  \/ OfferStep
  \/ \E w \in Workers : \/ CommitStep(w) \/ PayStep(w) \/ DeadlineStep(w)
                        \/ ReadyStep(w) \/ AuthorizeStep(w)
                        \/ RefuseCall(w) \/ AbandonCall(w)
  \/ \E o \in Obligations : AtomicStep(o)

Spec == Init /\ [][Next]_vars
=============================================================================
