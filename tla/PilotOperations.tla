--------------------------- MODULE PilotOperations ---------------------------
(***************************************************************************)
(* GovernedPilotOperationsService: administrative mutations run once under *)
(* a request id, every attempt is audited, and a failed one is recovered   *)
(* under a request id of its own, by probing for its effect first.         *)
(*                                                                         *)
(* The service is one synchronous object, so a call is one action; what    *)
(* makes it hard is the sequence of calls: ids reused for other requests,  *)
(* mutations that fail after their effect, recoveries of recoveries.       *)
(* A fingerprint is what the call says: its action, its body (the actor,   *)
(* target, reason and payload) and the request it recovers.  The authority *)
(* evaluator may answer either way, for grants come and go; the age of the *)
(* original may exceed any limit; the probe tells the truth.  Left out:    *)
(* the shape of payloads, and the views, which change nothing.             *)
(***************************************************************************)
EXTENDS Naturals, Sequences

CONSTANTS
  Requests, \* request ids
  Bodies,   \* actor, target, reason and payload
  MaxAudit, \* bound: attempts
  Nothing   \* absent

ASSUME PilotOperationsAssumption == MaxAudit \in Nat /\ Nothing \notin Requests \cup Bodies

VARIABLES
  requests,     \* the StoredRequest of each id
  auditRecords, \* AdminAuditRecords, oldest first
  effects       \* how often the mutation a request first asked for took effect

vars == <<requests, auditRecords, effects>>

Mutate == "mutate"
Reconcile == "admin.recovery.reconcile"

Fingerprints == [action : {Mutate, Reconcile}, body : Bodies, of : Requests \cup {Nothing}]
NoPrint == [action |-> Mutate, body |-> Nothing, of |-> Nothing]

StoredRequests ==
  [outcome : {"NONE", "ACCEPTED", "REJECTED"}, print : Fingerprints \cup {NoPrint},
   failure : {"", "UNAUTHORIZED", "MUTATION_FAILED"}, retry : BOOLEAN, audit : 0..MaxAudit]
NotStored == [outcome |-> "NONE", print |-> NoPrint, failure |-> "", retry |-> FALSE, audit |-> 0]

AuditRecords ==
  [request : Requests, print : Fingerprints, outcome : {"ACCEPTED", "REJECTED", "REPLAYED"},
   reason : {"ALLOWED", "DENIED", "MUTATION_FAILED", "PREVIOUS", "REQUEST_ID_CONFLICT",
             "RECOVERY_ENTRYPOINT_REQUIRED"},
   sources : SUBSET (1..MaxAudit)]

TypeOK ==
  /\ requests \in [Requests -> StoredRequests]
  /\ auditRecords \in Seq(AuditRecords) /\ Len(auditRecords) <= MaxAudit
  /\ effects \in [Requests -> 0..MaxAudit]
  /\ \A q \in Requests : requests[q].retry =>
       /\ requests[q].outcome = "REJECTED" /\ requests[q].failure = "MUTATION_FAILED"
       /\ requests[q].print.action = Mutate

Init ==
  /\ requests = [q \in Requests |-> NotStored]
  /\ auditRecords = <<>>
  /\ effects = [q \in Requests |-> 0]

-----------------------------------------------------------------------------
(* Stored(q) is the request's "prior".                                     *)
Stored(q) == requests[q].outcome # "NONE"

appendAudit(q, print, outcome, reason, sources) ==
  /\ Len(auditRecords) < MaxAudit
  /\ auditRecords' = Append(auditRecords,
       [request |-> q, print |-> print, outcome |-> outcome, reason |-> reason,
        sources |-> sources])

(* The answer to an id that was used before.                               *)
(* Mutation: an id used for another request is answered as its replay. *)
AnswerAnything(q, print) ==
  /\ Stored(q)
  /\ appendAudit(q, print, "REPLAYED", "PREVIOUS", {requests[q].audit})
  /\ UNCHANGED <<requests, effects>>
Answer(q, print) ==
  /\ Stored(q)
  /\ IF requests[q].print = print
     THEN appendAudit(q, print, "REPLAYED", "PREVIOUS", {requests[q].audit})
     ELSE appendAudit(q, print, "REJECTED", "REQUEST_ID_CONFLICT", {requests[q].audit})
  /\ UNCHANGED <<requests, effects>>

Store(q, print, outcome, failure, retry) ==
  requests' = [requests EXCEPT ![q] =
    [outcome |-> outcome, print |-> print, failure |-> failure, retry |-> retry,
     audit |-> Len(auditRecords) + 1]]

Unauthorized(q, print) ==
  /\ ~Stored(q)
  /\ appendAudit(q, print, "REJECTED", "DENIED", {})
  /\ Store(q, print, "REJECTED", "UNAUTHORIZED", FALSE)
  /\ UNCHANGED effects

Succeed(q, print, sources) ==
  /\ ~Stored(q)
  /\ appendAudit(q, print, "ACCEPTED", "ALLOWED", sources)
  /\ Store(q, print, "ACCEPTED", "", FALSE)

(* Only a mutation is kept for a retry.                                    *)
(* Mutation: a recovery that failed can be retried too. *)
FailRetryable(q, print) ==
  /\ ~Stored(q)
  /\ appendAudit(q, print, "REJECTED", "MUTATION_FAILED", {})
  /\ Store(q, print, "REJECTED", "MUTATION_FAILED", TRUE)
Fail(q, print) ==
  /\ ~Stored(q)
  /\ appendAudit(q, print, "REJECTED", "MUTATION_FAILED", {})
  /\ Store(q, print, "REJECTED", "MUTATION_FAILED", print.action = Mutate)

(* One run of the caller's mutation: it may fail, with or without effect.  *)
Applies(q, applied) == effects' = [effects EXCEPT ![q] = @ + IF applied THEN 1 ELSE 0]

-----------------------------------------------------------------------------
executeMutation(q, body) ==
  LET print == [action |-> Mutate, body |-> body, of |-> Nothing]
  IN \/ Answer(q, print)
     \/ Unauthorized(q, print)
     \/ Succeed(q, print, {}) /\ Applies(q, TRUE)
     \/ \E applied \in BOOLEAN : Fail(q, print) /\ Applies(q, applied)

(* The recovery action is refused anywhere but at its own entry point, and *)
(* the id it came under is spent.                                          *)
executeRecoveryDirectly(q, body, of) ==
  LET print == [action |-> Reconcile, body |-> body, of |-> of]
  IN /\ appendAudit(q, print, "REJECTED", "RECOVERY_ENTRYPOINT_REQUIRED",
                    IF Stored(q) THEN {requests[q].audit} ELSE {})
     /\ IF Stored(q) THEN UNCHANGED requests
                     ELSE Store(q, print, "REJECTED", "UNAUTHORIZED", FALSE)
     /\ UNCHANGED effects

(* Mutation: a request that was refused can be retried. *)
RetryableRefused(of) == requests[of].outcome = "REJECTED"
Retryable(of) == requests[of].outcome = "REJECTED" /\ requests[of].retry

(* Mutation: the effect is not looked for. *)
ProbeBlindly(of) == FALSE
Probe(of) == effects[of] > 0

(* Under the recovery's own authority: an accepted original, or one whose  *)
(* effect is observed, is left alone; else its mutation runs once more.    *)
(* A stale original, one that cannot be retried, a probe without lineage   *)
(* and a mutation that fails again all fail the recovery.                  *)
recover(q, body, of) ==
  LET print == [action |-> Reconcile, body |-> body, of |-> of]
      cited == {requests[of].audit}
  IN /\ Stored(of)
     /\ \/ Answer(q, print)
        \/ Unauthorized(q, print)
        \/ /\ requests[of].outcome = "ACCEPTED" \/ (Retryable(of) /\ Probe(of))
           /\ Succeed(q, print, cited) /\ UNCHANGED effects
        \/ /\ Retryable(of) /\ ~Probe(of)
           /\ \/ Succeed(q, print, cited) /\ Applies(of, TRUE)
              \/ \E applied \in BOOLEAN : Fail(q, print) /\ Applies(of, applied)
        \/ Fail(q, print) /\ UNCHANGED effects

Next ==
  \E q \in Requests, body \in Bodies :
    \/ executeMutation(q, body)
    \/ \E of \in Requests : executeRecoveryDirectly(q, body, of) \/ recover(q, body, of)

Spec == Init /\ [][Next]_vars

-----------------------------------------------------------------------------
(* What must hold of administrative requests whatever is called, reused,   *)
(* failed and recovered in whatever order.                                 *)

(* A request's mutation takes effect at most once, however many recoveries *)
(* are asked for it under however many ids, and although a mutation may    *)
(* fail after its effect ("may not fabricate a new ... effect",            *)
(* docs/sw1/SW1-09-pilot-operations-admin-audit-recovery.md).  Effects and *)
(* answers agree: what took effect was asked for by a request that was     *)
(* authorised, never one made up by a recovery; an accepted request has    *)
(* taken effect; and an accepted recovery means that what it recovered     *)
(* has, or was itself an accepted recovery.                                *)
EffectsAccounted ==
  \A q \in Requests :
    /\ effects[q] <= 1
    /\ effects[q] > 0 => /\ requests[q].print.action = Mutate
                         /\ \/ requests[q].outcome = "ACCEPTED"
                            \/ requests[q].failure = "MUTATION_FAILED"
    /\ requests[q].outcome = "ACCEPTED" =>
         IF requests[q].print.action = Mutate THEN effects[q] = 1
         ELSE LET of == requests[q].print.of
              IN effects[of] = 1 \/ requests[of].outcome = "ACCEPTED"

(* The audit tells the requests: the first record of an id is the one its  *)
(* stored request points to and says what it says; the later ones of the   *)
(* id cite it, are replays only of the same request, and refusals of any   *)
(* other; and every record cites records made before it.                   *)
RecordsOf(q) == {i \in 1..Len(auditRecords) : auditRecords[i].request = q}
Told(q) ==
  LET first == requests[q].audit
  IN /\ first \in RecordsOf(q)
     /\ auditRecords[first].outcome = requests[q].outcome
     /\ auditRecords[first].print = requests[q].print
     /\ \A i \in RecordsOf(q) \ {first} :
          /\ i > first /\ first \in auditRecords[i].sources
          /\ auditRecords[i].outcome \in {"REPLAYED", "REJECTED"}
          /\ auditRecords[i].outcome = "REPLAYED" => auditRecords[i].print = requests[q].print
AuditTellsRequests ==
  /\ \A i \in 1..Len(auditRecords) : \A s \in auditRecords[i].sources : s < i
  /\ \A q \in Requests : IF Stored(q) THEN Told(q) ELSE RecordsOf(q) = {}
=============================================================================
