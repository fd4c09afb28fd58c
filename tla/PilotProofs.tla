---------------------------- MODULE PilotProofs ----------------------------
(***************************************************************************)
(* Theorems of the pilot packages.  First those of the two services of the *)
(* pilot process: of the administrative operations, for any requests,      *)
(* bodies and number of attempts, where every call is reduced to one of    *)
(* two shapes, an answer to a used id or a request stored under a new one; *)
(* and of the command bus and of checkout, for any commands, keys, carts,  *)
(* obligations and numbers of executions and checkouts under way.  Then    *)
(* those of goods and orders (PilotFulfillment), for any lots, allocations,*)
(* orders, exceptions and remedies, and any quantities.                    *)
(***************************************************************************)
EXTENDS MCPilot, PilotFulfillmentProperties, FiniteSetTheorems, TLAPS

(* What the types of the stored requests do not say.                       *)
RequestsCoherent ==
  \A q \in Requests :
    /\ ~Stored(q) => effects[q] = 0
    /\ Stored(q) => requests[q].print \in Fingerprints
    /\ requests[q].failure # "" => requests[q].outcome = "REJECTED"
    /\ (Stored(q) /\ requests[q].print.action = Reconcile /\ requests[q].outcome = "ACCEPTED") =>
         /\ requests[q].print.of \in Requests
         /\ Stored(requests[q].print.of)

OperationsInv == TypeOK /\ RequestsCoherent /\ EffectsAccounted /\ AuditTellsRequests

(* A used id is answered; a new one is stored and judged.                  *)
AnsweredAgain(q, print, outcome, reason, sources) ==
  /\ Stored(q)
  /\ outcome = "REPLAYED" => requests[q].print = print
  /\ outcome \in {"REPLAYED", "REJECTED"}
  /\ requests[q].audit \in sources
  /\ appendAudit(q, print, outcome, reason, sources)
  /\ UNCHANGED requests

Judged(q, print, outcome, reason, sources, failure, retry) ==
  /\ ~Stored(q)
  /\ outcome \in {"ACCEPTED", "REJECTED"}
  /\ appendAudit(q, print, outcome, reason, sources)
  /\ Store(q, print, outcome, failure, retry)

Reasons == {"ALLOWED", "DENIED", "MUTATION_FAILED", "PREVIOUS", "REQUEST_ID_CONFLICT",
            "RECOVERY_ENTRYPOINT_REQUIRED"}

(* The audit records that sources may name.                                *)
Cites(sources) == \A s \in sources : \E q \in Requests : Stored(q) /\ s = requests[q].audit

AuditShape ==
  \E q \in Requests, print \in Fingerprints, outcome \in {"ACCEPTED", "REJECTED", "REPLAYED"},
     reason \in Reasons, sources \in SUBSET (1..MaxAudit) :
    /\ Cites(sources)
    /\ \/ AnsweredAgain(q, print, outcome, reason, sources)
       \/ \E failure \in {"", "UNAUTHORIZED", "MUTATION_FAILED"}, retry \in BOOLEAN :
            /\ retry => outcome = "REJECTED" /\ failure = "MUTATION_FAILED"
                        /\ print.action = Mutate
            /\ Judged(q, print, outcome, reason, sources, failure, retry)

-----------------------------------------------------------------------------
LEMMA AuditOfStored ==
  ASSUME TypeOK, AuditTellsRequests, NEW q \in Requests, Stored(q)
  PROVE  /\ requests[q].audit \in 1..Len(auditRecords)
         /\ requests[q].audit \in 1..MaxAudit
<1>1. requests[q].audit \in 1..Len(auditRecords)
  BY DEF AuditTellsRequests, Told, RecordsOf
<1>2. Len(auditRecords) \in Nat /\ Len(auditRecords) <= MaxAudit /\ MaxAudit \in Nat
  BY PilotOperationsAssumption DEF TypeOK
<1> QED BY <1>1, <1>2

(* Every call has one of the two shapes.                                   *)
LEMMA CallsHaveShape ==
  ASSUME TypeOK, AuditTellsRequests, Next
  PROVE  AuditShape
<1>1. PICK q \in Requests, body \in Bodies :
        \/ executeMutation(q, body)
        \/ \E of \in Requests : executeRecoveryDirectly(q, body, of) \/ recover(q, body, of)
  BY DEF Next
<1> DEFINE own == {requests[q].audit}
<1>2. Stored(q) => own \in SUBSET (1..MaxAudit) /\ Cites(own)
  BY AuditOfStored DEF Cites
<1>3. {} \in SUBSET (1..MaxAudit) /\ Cites({})
  BY DEF Cites
<1>4. ASSUME NEW print \in Fingerprints, Answer(q, print) PROVE AuditShape
  <2>1. CASE requests[q].print = print
    <3>1. AnsweredAgain(q, print, "REPLAYED", "PREVIOUS", own)
      BY <1>4, <2>1 DEF Answer, AnsweredAgain
    <3> QED BY <1>2, <1>4, <3>1 DEF AuditShape, Reasons, Answer
  <2>2. CASE requests[q].print # print
    <3>1. AnsweredAgain(q, print, "REJECTED", "REQUEST_ID_CONFLICT", own)
      BY <1>4, <2>2 DEF Answer, AnsweredAgain
    <3> QED BY <1>2, <1>4, <3>1 DEF AuditShape, Reasons, Answer
  <2> QED BY <2>1, <2>2
<1>5. ASSUME NEW print \in Fingerprints, Unauthorized(q, print) PROVE AuditShape
  <2>1. Judged(q, print, "REJECTED", "DENIED", {}, "UNAUTHORIZED", FALSE)
    BY <1>5 DEF Unauthorized, Judged
  <2> QED BY <1>3, <2>1 DEF AuditShape, Reasons
<1>6. ASSUME NEW print \in Fingerprints, Fail(q, print) PROVE AuditShape
  <2>1. Judged(q, print, "REJECTED", "MUTATION_FAILED", {}, "MUTATION_FAILED",
               print.action = Mutate)
    BY <1>6 DEF Fail, Judged
  <2>2. (print.action = Mutate) \in BOOLEAN
    OBVIOUS
  <2> QED BY <1>3, <2>1, <2>2 DEF AuditShape, Reasons
<1>7. ASSUME NEW print \in Fingerprints, NEW sources \in SUBSET (1..MaxAudit), Cites(sources),
             Succeed(q, print, sources)
      PROVE  AuditShape
  <2>1. Judged(q, print, "ACCEPTED", "ALLOWED", sources, "", FALSE)
    BY <1>7 DEF Succeed, Judged
  <2> QED BY <1>7, <2>1 DEF AuditShape, Reasons
<1>8. CASE executeMutation(q, body)
  <2> DEFINE print == [action |-> Mutate, body |-> body, of |-> Nothing]
  <2>1. print \in Fingerprints
    BY DEF Fingerprints
  <2>2. \/ Answer(q, print) \/ Unauthorized(q, print) \/ Succeed(q, print, {})
        \/ Fail(q, print)
    BY <1>8 DEF executeMutation
  <2> HIDE DEF print
  <2> QED BY <1>3, <1>4, <1>5, <1>6, <1>7, <2>1, <2>2
<1>9. ASSUME NEW of \in Requests, executeRecoveryDirectly(q, body, of) PROVE AuditShape
  <2> DEFINE print == [action |-> Reconcile, body |-> body, of |-> of]
             sources == IF Stored(q) THEN own ELSE {}
  <2>1. print \in Fingerprints
    BY DEF Fingerprints
  <2>2. sources \in SUBSET (1..MaxAudit) /\ Cites(sources)
    BY <1>2, <1>3
  <2>3. CASE Stored(q)
    <3>1. AnsweredAgain(q, print, "REJECTED", "RECOVERY_ENTRYPOINT_REQUIRED", sources)
      BY <1>9, <2>3 DEF executeRecoveryDirectly, AnsweredAgain
    <3> QED BY <2>1, <2>2, <3>1 DEF AuditShape, Reasons
  <2>4. CASE ~Stored(q)
    <3>1. Judged(q, print, "REJECTED", "RECOVERY_ENTRYPOINT_REQUIRED", sources,
                 "UNAUTHORIZED", FALSE)
      BY <1>9, <2>4 DEF executeRecoveryDirectly, Judged
    <3> QED BY <2>1, <2>2, <3>1 DEF AuditShape, Reasons
  <2> QED BY <2>3, <2>4
<1>10. ASSUME NEW of \in Requests, recover(q, body, of) PROVE AuditShape
  <2> DEFINE print == [action |-> Reconcile, body |-> body, of |-> of]
             cited == {requests[of].audit}
  <2>1. print \in Fingerprints
    BY DEF Fingerprints
  <2>2. cited \in SUBSET (1..MaxAudit) /\ Cites(cited)
    BY <1>10, AuditOfStored DEF recover, Cites
  <2>3. \/ Answer(q, print) \/ Unauthorized(q, print) \/ Succeed(q, print, cited)
        \/ Fail(q, print)
    BY <1>10 DEF recover
  <2> HIDE DEF print, cited
  <2> QED BY <1>4, <1>5, <1>6, <1>7, <2>1, <2>2, <2>3
<1> QED BY <1>1, <1>8, <1>9, <1>10

-----------------------------------------------------------------------------
(* The two shapes keep the tables typed and the audit telling.             *)
LEMMA AuditGrows ==
  ASSUME TypeOK, AuditTellsRequests, AuditShape
  PROVE  /\ requests' \in [Requests -> StoredRequests]
         /\ auditRecords' \in Seq(AuditRecords) /\ Len(auditRecords') <= MaxAudit
         /\ \A q \in Requests : requests'[q].retry =>
              /\ requests'[q].outcome = "REJECTED" /\ requests'[q].failure = "MUTATION_FAILED"
              /\ requests'[q].print.action = Mutate
         /\ AuditTellsRequests'
         /\ Len(auditRecords) < MaxAudit
<1>1. PICK q \in Requests, print \in Fingerprints,
           outcome \in {"ACCEPTED", "REJECTED", "REPLAYED"}, reason \in Reasons,
           sources \in SUBSET (1..MaxAudit) :
        /\ Cites(sources)
        /\ \/ AnsweredAgain(q, print, outcome, reason, sources)
           \/ \E failure \in {"", "UNAUTHORIZED", "MUTATION_FAILED"}, retry \in BOOLEAN :
                /\ retry => outcome = "REJECTED" /\ failure = "MUTATION_FAILED"
                            /\ print.action = Mutate
                /\ Judged(q, print, outcome, reason, sources, failure, retry)
  BY DEF AuditShape
<1>2. PICK record \in AuditRecords : record = [request |-> q, print |-> print,
        outcome |-> outcome, reason |-> reason, sources |-> sources]
  BY DEF AuditRecords, Reasons
<1>3. PICK n \in Nat : n = Len(auditRecords)
  BY DEF TypeOK
<1>4. auditRecords' = Append(auditRecords, record) /\ n < MaxAudit /\ MaxAudit \in Nat
  <2>1. auditRecords' = Append(auditRecords, record) /\ Len(auditRecords) < MaxAudit
    BY <1>1, <1>2 DEF AnsweredAgain, Judged, appendAudit
  <2> QED BY <1>3, <2>1, PilotOperationsAssumption
<1>5. /\ record.request = q /\ record.print = print /\ record.outcome = outcome
      /\ record.sources = sources
  BY <1>2
<1>6. /\ auditRecords' \in Seq(AuditRecords) /\ Len(auditRecords') = n + 1
      /\ auditRecords'[n + 1] = record
      /\ \A i \in 1..n : auditRecords'[i] = auditRecords[i]
  BY <1>3, <1>4 DEF TypeOK
<1>7. n = Len(auditRecords) /\ n \in Nat /\ n + 1 \in 1..MaxAudit /\ n + 1 \in 0..MaxAudit
      /\ n + 1 <= MaxAudit
  BY <1>3, <1>4
<1>8. \A s \in sources : s \in 1..n
  BY <1>1, <1>7, AuditOfStored DEF Cites
<1>9. \A i \in 1..Len(auditRecords') : \A s \in auditRecords'[i].sources : s < i
  <2>1. ASSUME NEW i \in 1..(n + 1), NEW s \in auditRecords'[i].sources PROVE s < i
    <3>1. CASE i = n + 1
      <4>1. s \in sources
        BY <1>5, <1>6, <3>1
      <4>2. s \in 1..n
        BY <1>8, <4>1
      <4> QED BY <1>7, <3>1, <4>2
    <3>2. CASE i \in 1..n
      BY <1>6, <1>7, <2>1, <3>2 DEF AuditTellsRequests
    <3> QED BY <1>4, <1>7, <3>1, <3>2
  <2> QED BY <1>6, <2>1
<1>10. \A p \in Requests :
         RecordsOf(p)' = IF p = q THEN RecordsOf(p) \cup {n + 1} ELSE RecordsOf(p)
  BY <1>4, <1>5, <1>6, <1>7 DEF RecordsOf
<1>11. \A p \in Requests : n + 1 \notin RecordsOf(p)
  BY <1>4, <1>7 DEF RecordsOf
(* What was told of an id by records that stay, its row unchanged.         *)
<1>12. ASSUME NEW p \in Requests, p # q, requests'[p] = requests[p]
       PROVE  (IF Stored(p) THEN Told(p) ELSE RecordsOf(p) = {})'
  <2>1. RecordsOf(p)' = RecordsOf(p)
    BY <1>10, <1>12
  <2>2. \A i \in RecordsOf(p) : auditRecords'[i] = auditRecords[i]
    BY <1>6, <1>7 DEF RecordsOf
  <2>3. Stored(p)' <=> Stored(p)
    BY <1>12 DEF Stored
  <2>4. IF Stored(p) THEN Told(p) ELSE RecordsOf(p) = {}
    BY DEF AuditTellsRequests
  <2>5. CASE Stored(p)
    <3>1. Told(p)'
      BY <1>12, <2>1, <2>2, <2>4, <2>5 DEF Told
    <3> QED BY <2>3, <2>5, <3>1
  <2> QED BY <2>1, <2>3, <2>4, <2>5
<1>13. Len(auditRecords) < MaxAudit
  BY <1>3, <1>4
<1>14. CASE AnsweredAgain(q, print, outcome, reason, sources)
  <2>1. /\ requests' = requests /\ Stored(q) /\ requests[q].audit \in sources
        /\ outcome = "REPLAYED" => requests[q].print = print
        /\ outcome \in {"REPLAYED", "REJECTED"}
    BY <1>14 DEF AnsweredAgain
  <2>2. Told(q)
    BY <2>1 DEF AuditTellsRequests
  <2> DEFINE first == requests[q].audit
  <2>3. first \in RecordsOf(q) /\ first \in 1..n
    BY <1>7, <2>2 DEF Told, RecordsOf
  <2>4. \A i \in RecordsOf(q) : auditRecords'[i] = auditRecords[i]
    BY <1>6, <1>7 DEF RecordsOf
  <2>5. ASSUME NEW i \in RecordsOf(q)' \ {first}
        PROVE  /\ i > first /\ first \in auditRecords'[i].sources
               /\ auditRecords'[i].outcome \in {"REPLAYED", "REJECTED"}
               /\ auditRecords'[i].outcome = "REPLAYED" =>
                    auditRecords'[i].print = requests[q].print
    <3>1. CASE i = n + 1
      BY <1>4, <1>5, <1>6, <1>7, <2>1, <2>3, <3>1
    <3>2. CASE i \in RecordsOf(q) \ {first}
      BY <2>2, <2>4, <3>2 DEF Told
    <3> QED BY <1>10, <2>5, <3>1, <3>2
  <2>6. Told(q)'
    BY <1>10, <2>1, <2>2, <2>3, <2>4, <2>5 DEF Told
  <2>7. Stored(q)'
    BY <2>1 DEF Stored
  <2>8. AuditTellsRequests'
    BY <1>9, <1>12, <2>1, <2>6, <2>7 DEF AuditTellsRequests
  <2> QED BY <1>13, <1>3, <1>4, <1>6, <1>7, <2>1, <2>8 DEF TypeOK
<1>15. CASE ~AnsweredAgain(q, print, outcome, reason, sources)
  <2>1. PICK failure \in {"", "UNAUTHORIZED", "MUTATION_FAILED"}, retry \in BOOLEAN :
          /\ retry => outcome = "REJECTED" /\ failure = "MUTATION_FAILED"
                      /\ print.action = Mutate
          /\ Judged(q, print, outcome, reason, sources, failure, retry)
    BY <1>1, <1>15
  <2> DEFINE row == [outcome |-> outcome, print |-> print, failure |-> failure,
                     retry |-> retry, audit |-> n + 1]
  <2>2. ~Stored(q) /\ outcome \in {"ACCEPTED", "REJECTED"}
        /\ requests' = [requests EXCEPT ![q] = row]
    BY <1>7, <2>1 DEF Judged, Store
  <2>3. row \in StoredRequests
    <3>1. n + 1 \in 0..MaxAudit /\ print \in Fingerprints \cup {NoPrint}
          /\ outcome \in {"NONE", "ACCEPTED", "REJECTED"}
      <4>1. n + 1 \in 0..MaxAudit
        BY <1>7
      <4> QED BY <2>2, <4>1
    <3> QED BY <3>1, Zenon DEF StoredRequests
  <2>4. /\ row.outcome = outcome /\ row.print = print /\ row.audit = n + 1
        /\ row.failure = failure /\ row.retry = retry
    OBVIOUS
  <2> HIDE DEF row
  <2>5. requests \in [Requests -> StoredRequests]
    BY DEF TypeOK
  <2>6. /\ requests' \in [Requests -> StoredRequests] /\ requests'[q] = row
        /\ \A p \in Requests : p # q => requests'[p] = requests[p]
    BY <2>2, <2>3, <2>5
  <2>7. Stored(q)' /\ Told(q)'
    <3>1. RecordsOf(q)' = {n + 1}
      BY <1>10, <2>2 DEF AuditTellsRequests
    <3> QED BY <1>5, <1>6, <2>2, <2>4, <2>6, <3>1 DEF Told, Stored
  <2>8. AuditTellsRequests'
    BY <1>9, <1>12, <2>6, <2>7 DEF AuditTellsRequests
  <2>9. ASSUME NEW p \in Requests, requests'[p].retry
        PROVE  /\ requests'[p].outcome = "REJECTED"
               /\ requests'[p].failure = "MUTATION_FAILED"
               /\ requests'[p].print.action = Mutate
    <3>1. CASE p = q
      BY <2>1, <2>4, <2>6, <2>9, <3>1
    <3>2. CASE p # q
      BY <2>6, <2>9, <3>2 DEF TypeOK
    <3> QED BY <3>1, <3>2
  <2>10. Len(auditRecords') <= MaxAudit
    BY <1>6, <1>7
  <2> QED BY <1>13, <1>6, <2>6, <2>8, <2>9, <2>10
<1> QED BY <1>14, <1>15
-----------------------------------------------------------------------------
(* What a call does to the effects: a new row for q, and k more effects of *)
(* the request t, q itself or the one q recovers.                          *)
Effected(q, row, t, k) ==
  /\ ~Stored(q)
  /\ requests' = [requests EXCEPT ![q] = row]
  /\ effects' = [effects EXCEPT ![t] = @ + k]
  /\ row.outcome \in {"ACCEPTED", "REJECTED"} /\ row.print \in Fingerprints
  /\ row.failure # "" => row.outcome = "REJECTED"
  /\ row.print.action = Mutate =>
       /\ t = q
       /\ row.outcome = "ACCEPTED" => k = 1
       /\ k = 1 => row.outcome = "ACCEPTED" \/ row.failure = "MUTATION_FAILED"
  /\ row.print.action = Reconcile =>
       /\ k = 1 => Stored(t) /\ Retryable(t) /\ effects[t] = 0
       /\ row.outcome = "ACCEPTED" =>
            /\ row.print.of = t /\ Stored(t)
            /\ requests[t].outcome = "ACCEPTED" \/ effects[t] = 1 \/ k = 1

Rows ==
  [outcome : {"ACCEPTED", "REJECTED"}, print : Fingerprints,
   failure : {"", "UNAUTHORIZED", "MUTATION_FAILED"}, retry : BOOLEAN, audit : Nat]

EffectShape ==
  \/ UNCHANGED <<requests, effects>>
  \/ \E q \in Requests, row \in Rows, t \in Requests, k \in {0, 1} : Effected(q, row, t, k)

LEMMA CallsHaveEffectShape ==
  ASSUME TypeOK, EffectsAccounted, Next
  PROVE  EffectShape
<1>1. PICK q \in Requests, body \in Bodies :
        \/ executeMutation(q, body)
        \/ \E of \in Requests : executeRecoveryDirectly(q, body, of) \/ recover(q, body, of)
  BY DEF Next
<1> DEFINE at == Len(auditRecords) + 1
           Row(print, outcome, failure, retry) ==
             [outcome |-> outcome, print |-> print, failure |-> failure, retry |-> retry,
              audit |-> at]
<1>2. at \in Nat
  BY DEF TypeOK
<1>3. /\ effects \in [Requests -> Nat]
      /\ \A p \in Requests : effects[p] = 0 \/ effects[p] = 1
  BY PilotOperationsAssumption DEF TypeOK, EffectsAccounted
<1>4. ASSUME NEW t \in Requests PROVE [effects EXCEPT ![t] = @ + 0] = effects
  BY <1>3
<1> HIDE DEF at
<1>5. ASSUME NEW print \in Fingerprints, NEW outcome \in {"ACCEPTED", "REJECTED"},
             NEW failure \in {"", "UNAUTHORIZED", "MUTATION_FAILED"}, NEW retry \in BOOLEAN
      PROVE  /\ Row(print, outcome, failure, retry) \in Rows
             /\ Row(print, outcome, failure, retry).outcome = outcome
             /\ Row(print, outcome, failure, retry).print = print
             /\ Row(print, outcome, failure, retry).failure = failure
  BY <1>2 DEF Rows
<1>6. ASSUME NEW print, Answer(q, print) PROVE EffectShape
  BY <1>6 DEF Answer, EffectShape
<1>7. ASSUME NEW print \in Fingerprints, Unauthorized(q, print) PROVE EffectShape
  <2> DEFINE row == Row(print, "REJECTED", "UNAUTHORIZED", FALSE)
  <2>1. requests' = [requests EXCEPT ![q] = row] /\ ~Stored(q) /\ effects' = effects
    BY <1>7 DEF Unauthorized, Store, at
  <2>2. row \in Rows /\ row.outcome = "REJECTED" /\ row.print = print
        /\ row.failure = "UNAUTHORIZED"
    BY <1>5
  <2> HIDE DEF row
  <2>3. PICK k \in {0, 1} : k = 0 /\ k # 1
    OBVIOUS
  <2>4. effects' = [effects EXCEPT ![q] = @ + k]
    BY <1>4, <2>1, <2>3
  <2>5. Effected(q, row, q, k)
    BY <1>7, <2>1, <2>2, <2>3, <2>4 DEF Effected
  <2> QED BY <2>2, <2>5 DEF EffectShape
<1>8. ASSUME NEW print \in Fingerprints, NEW t \in Requests, NEW applied \in BOOLEAN,
             Fail(q, print), effects' = [effects EXCEPT ![t] = @ + IF applied THEN 1 ELSE 0],
             print.action = Mutate => t = q,
             (print.action = Reconcile /\ applied) => /\ Stored(t) /\ Retryable(t)
                                                      /\ effects[t] = 0
      PROVE  EffectShape
  <2> DEFINE row == Row(print, "REJECTED", "MUTATION_FAILED", print.action = Mutate)
             k == IF applied THEN 1 ELSE 0
  <2>1. requests' = [requests EXCEPT ![q] = row] /\ ~Stored(q)
        /\ effects' = [effects EXCEPT ![t] = @ + k]
    BY <1>8 DEF Fail, Store, at
  <2>2. row \in Rows /\ row.outcome = "REJECTED" /\ row.print = print
        /\ row.failure = "MUTATION_FAILED"
    BY <1>5
  <2>3. k \in {0, 1} /\ (k = 1 => applied)
    OBVIOUS
  <2> HIDE DEF row, k
  <2>4. Effected(q, row, t, k)
    BY <1>8, <2>1, <2>2, <2>3 DEF Effected
  <2> QED BY <2>2, <2>3, <2>4 DEF EffectShape
<1>9. ASSUME NEW print \in Fingerprints, NEW sources, NEW t \in Requests, NEW k \in {0, 1},
             Succeed(q, print, sources),
             \/ k = 0 /\ effects' = effects
             \/ k = 1 /\ effects' = [effects EXCEPT ![t] = @ + 1],
             print.action = Mutate => t = q /\ k = 1,
             print.action = Reconcile =>
               /\ print.of = t /\ Stored(t)
               /\ k = 1 => Retryable(t) /\ effects[t] = 0
               /\ requests[t].outcome = "ACCEPTED" \/ effects[t] = 1 \/ k = 1
      PROVE  EffectShape
  <2> DEFINE row == Row(print, "ACCEPTED", "", FALSE)
  <2>1. requests' = [requests EXCEPT ![q] = row] /\ ~Stored(q)
    BY <1>9 DEF Succeed, Store, at
  <2>2. row \in Rows /\ row.outcome = "ACCEPTED" /\ row.print = print /\ row.failure = ""
    BY <1>5
  <2> HIDE DEF row
  <2>3. effects' = [effects EXCEPT ![t] = @ + k]
    <3>1. CASE k = 0 /\ effects' = effects
      <4>1. effects' = [effects EXCEPT ![t] = @ + 0]
        BY <1>4, <3>1, Zenon
      <4> QED BY <3>1, <4>1
    <3> QED BY <1>9, <3>1
  <2>4. Effected(q, row, t, k)
    BY <1>9, <2>1, <2>2, <2>3 DEF Effected
  <2> QED BY <2>2, <2>4 DEF EffectShape
<1>10. CASE executeMutation(q, body)
  <2> DEFINE print == [action |-> Mutate, body |-> body, of |-> Nothing]
  <2>1. print \in Fingerprints /\ print.action = Mutate /\ print.action # Reconcile
    BY DEF Fingerprints, Mutate, Reconcile
  <2>2. \/ Answer(q, print) \/ Unauthorized(q, print)
        \/ Succeed(q, print, {}) /\ effects' = [effects EXCEPT ![q] = @ + 1]
        \/ \E applied \in BOOLEAN :
             Fail(q, print) /\ effects' = [effects EXCEPT ![q] = @ + IF applied THEN 1 ELSE 0]
    BY <1>10 DEF executeMutation, Applies
  <2> HIDE DEF print
  <2> QED BY <1>6, <1>7, <1>8, <1>9, <2>1, <2>2
<1>11. ASSUME NEW of \in Requests, executeRecoveryDirectly(q, body, of) PROVE EffectShape
  <2> DEFINE print == [action |-> Reconcile, body |-> body, of |-> of]
             row == Row(print, "REJECTED", "UNAUTHORIZED", FALSE)
  <2>1. print \in Fingerprints /\ print.action = Reconcile
    BY DEF Fingerprints
  <2>2. effects' = effects
        /\ (requests' = requests
            \/ (~Stored(q) /\ requests' = [requests EXCEPT ![q] = row]))
    BY <1>11 DEF executeRecoveryDirectly, Store, at
  <2>3. row \in Rows /\ row.outcome = "REJECTED" /\ row.print = print
        /\ row.failure = "UNAUTHORIZED"
    BY <1>5, <2>1
  <2> HIDE DEF print, row
  <2>4. CASE requests' = requests
    BY <2>2, <2>4 DEF EffectShape
  <2>5. CASE ~Stored(q) /\ requests' = [requests EXCEPT ![q] = row]
    <3>1. PICK k \in {0, 1} : k = 0 /\ k # 1
      OBVIOUS
    <3>2. effects' = [effects EXCEPT ![q] = @ + k]
      BY <1>4, <2>2, <3>1
    <3>3. Effected(q, row, q, k)
      BY <2>1, <2>3, <2>5, <3>1, <3>2 DEF Effected
    <3> QED BY <2>3, <3>3 DEF EffectShape
  <2> QED BY <2>2, <2>4, <2>5
<1>12. ASSUME NEW of \in Requests, recover(q, body, of) PROVE EffectShape
  <2> DEFINE print == [action |-> Reconcile, body |-> body, of |-> of]
             cited == {requests[of].audit}
  <2>1. print \in Fingerprints /\ print.action = Reconcile /\ print.action # Mutate
        /\ print.of = of
    BY DEF Fingerprints, Mutate, Reconcile
  <2>2. /\ Stored(of)
        /\ \/ Answer(q, print) \/ Unauthorized(q, print)
           \/ /\ requests[of].outcome = "ACCEPTED" \/ (Retryable(of) /\ Probe(of))
              /\ Succeed(q, print, cited) /\ UNCHANGED effects
           \/ /\ Retryable(of) /\ ~Probe(of)
              /\ \/ Succeed(q, print, cited) /\ effects' = [effects EXCEPT ![of] = @ + 1]
                 \/ \E applied \in BOOLEAN : /\ Fail(q, print)
                      /\ effects' = [effects EXCEPT ![of] = @ + IF applied THEN 1 ELSE 0]
           \/ Fail(q, print) /\ UNCHANGED effects
    BY <1>12 DEF recover, Applies
  <2>3. (Probe(of) => effects[of] = 1) /\ (~Probe(of) => effects[of] = 0)
    BY <1>3 DEF Probe
  <2> HIDE DEF print, cited
  <2>4. CASE Answer(q, print) \/ Unauthorized(q, print)
    BY <1>6, <1>7, <2>1, <2>4
  <2>5. CASE /\ requests[of].outcome = "ACCEPTED" \/ (Retryable(of) /\ Probe(of))
             /\ Succeed(q, print, cited) /\ UNCHANGED effects
    <3>1. requests[of].outcome = "ACCEPTED" \/ effects[of] = 1
      BY <2>3, <2>5
    <3> QED BY <1>9, <2>1, <2>2, <2>5, <3>1
  <2>6. CASE Retryable(of) /\ ~Probe(of) /\ Succeed(q, print, cited)
             /\ effects' = [effects EXCEPT ![of] = @ + 1]
    BY <1>9, <2>1, <2>2, <2>3, <2>6
  <2>7. CASE /\ Retryable(of) /\ ~Probe(of)
             /\ \E applied \in BOOLEAN : /\ Fail(q, print)
                  /\ effects' = [effects EXCEPT ![of] = @ + IF applied THEN 1 ELSE 0]
    BY <1>8, <2>1, <2>2, <2>3, <2>7
  <2>8. CASE Fail(q, print) /\ UNCHANGED effects
    <3>1. effects' = [effects EXCEPT ![of] = @ + IF FALSE THEN 1 ELSE 0]
      BY <1>4, <2>8
    <3> QED BY <1>8, <2>1, <2>8, <3>1
  <2> QED BY <2>2, <2>4, <2>5, <2>6, <2>7, <2>8
<1> QED BY <1>1, <1>10, <1>11, <1>12

(* Either way the effects stay accounted for.                              *)
LEMMA EffectsHold ==
  ASSUME OperationsInv, EffectShape, MaxAudit \in Nat, 0 < MaxAudit
  PROVE  /\ effects' \in [Requests -> 0..MaxAudit]
         /\ RequestsCoherent' /\ EffectsAccounted'
<1>1. CASE UNCHANGED <<requests, effects>>
  BY <1>1 DEF OperationsInv, TypeOK, RequestsCoherent, EffectsAccounted, Stored
<1>2. ASSUME NEW q \in Requests,
             NEW row \in Rows,
             NEW t \in Requests, NEW k \in {0, 1}, Effected(q, row, t, k)
      PROVE  /\ effects' \in [Requests -> 0..MaxAudit]
             /\ RequestsCoherent' /\ EffectsAccounted'
  <2>1. /\ ~Stored(q) /\ row.outcome \in {"ACCEPTED", "REJECTED"} /\ row.print \in Fingerprints
        /\ row.failure # "" => row.outcome = "REJECTED"
        /\ row.print.action = Mutate =>
             /\ t = q
             /\ row.outcome = "ACCEPTED" => k = 1
             /\ k = 1 => row.outcome = "ACCEPTED" \/ row.failure = "MUTATION_FAILED"
        /\ row.print.action = Reconcile =>
             /\ k = 1 => Stored(t) /\ Retryable(t) /\ effects[t] = 0
             /\ row.outcome = "ACCEPTED" =>
                  /\ row.print.of = t /\ Stored(t)
                  /\ requests[t].outcome = "ACCEPTED" \/ effects[t] = 1 \/ k = 1
    BY <1>2 DEF Effected
  <2>2. /\ requests'[q] = row
        /\ \A p \in Requests : p # q => requests'[p] = requests[p]
    BY <1>2 DEF Effected, OperationsInv, TypeOK
  <2>3. MaxAudit \in Nat /\ 1 \in 0..MaxAudit
    OBVIOUS
  <2>4. /\ effects \in [Requests -> 0..MaxAudit]
        /\ \A p \in Requests : effects[p] \in Nat /\ (effects[p] = 0 \/ effects[p] = 1)
    <3>1. effects \in [Requests -> 0..MaxAudit]
      BY DEF OperationsInv, TypeOK
    <3>2. \A p \in Requests : effects[p] <= 1
      BY DEF OperationsInv, EffectsAccounted
    <3>3. \A p \in Requests : effects[p] \in 0..MaxAudit
      BY <3>1
    <3> QED BY <2>3, <3>1, <3>2, <3>3
  <2>5. effects[q] = 0
    BY <2>1 DEF OperationsInv, RequestsCoherent
  <2>6. row.print.action \in {Mutate, Reconcile}
    BY <2>1 DEF Fingerprints
  <2>7. k = 1 => effects[t] = 0
    BY <2>1, <2>5, <2>6
  <2>8. effects'[t] = effects[t] + k /\ \A p \in Requests : p # t => effects'[p] = effects[p]
    BY <1>2, <2>4 DEF Effected
  <2>9. /\ (k = 0 \/ k = 1) /\ (k = 0 => k # 1)
        /\ k = 1 => effects'[t] = 1
        /\ k # 1 => effects'[t] = effects[t]
    <3>1. k \in Nat /\ (k = 0 \/ k = 1) /\ effects[t] \in Nat
      BY <2>4
    <3> QED BY <2>7, <2>8, <3>1
  <2>10. effects' \in [Requests -> 0..MaxAudit]
    <3>1. effects'[t] \in 0..MaxAudit
      BY <2>3, <2>4, <2>9
    <3> QED BY <1>2, <2>4, <2>8, <3>1 DEF Effected
  <2>11. ASSUME NEW p \in Requests
         PROVE /\ Stored(p) => Stored(p)' /\ p # q /\ requests'[p] = requests[p]
               /\ effects'[p] \in Nat /\ (effects'[p] = 0 \/ effects'[p] = 1)
               /\ effects[p] = 1 => effects'[p] = 1
    <3>1. Stored(p) => p # q
      BY <2>1
    <3>2. p # q => requests'[p] = requests[p] /\ (Stored(p)' <=> Stored(p))
      BY <2>2, <2>11 DEF Stored
    <3>3. 0 \in Nat /\ 1 \in Nat
      OBVIOUS
    <3>4. effects'[p] = effects[p] \/ effects'[p] = 1
      BY <2>8, <2>9, <2>11
    <3>5. effects[p] = 0 \/ effects[p] = 1
      BY <2>4, <2>11
    <3> QED BY <3>1, <3>2, <3>3, <3>4, <3>5
  <2>12. RequestsCoherent'
    <3> SUFFICES ASSUME NEW p \in Requests
                 PROVE  (/\ ~Stored(p) => effects[p] = 0
                         /\ Stored(p) => requests[p].print \in Fingerprints
                         /\ requests[p].failure # "" => requests[p].outcome = "REJECTED"
                         /\ (Stored(p) /\ requests[p].print.action = Reconcile /\ requests[p].outcome = "ACCEPTED") =>
                              /\ requests[p].print.of \in Requests
                              /\ Stored(requests[p].print.of))'
      BY DEF RequestsCoherent
    <3>1. CASE p = q
      <4>1. Stored(q)'
        BY <2>1, <2>2 DEF Stored
      <4>2. Stored(t) => Stored(t)'
        BY <2>11
      <4> QED BY <2>1, <2>2, <3>1, <4>1, <4>2
    <3>2. CASE p # q
      <4>1. /\ ~Stored(p) => effects[p] = 0
            /\ Stored(p) => requests[p].print \in Fingerprints
            /\ requests[p].failure # "" => requests[p].outcome = "REJECTED"
            /\ (Stored(p) /\ requests[p].print.action = Reconcile /\ requests[p].outcome = "ACCEPTED") =>
                 /\ requests[p].print.of \in Requests
                 /\ Stored(requests[p].print.of)
        BY DEF OperationsInv, RequestsCoherent
      <4>2. requests'[p] = requests[p] /\ (Stored(p)' <=> Stored(p))
        BY <2>2, <3>2 DEF Stored
      <4>3. ~Stored(p) => effects'[p] = 0
        <5>1. (~Stored(p) /\ p = t) => k = 0
          BY <2>1, <2>6, <2>9, <3>2
        <5> QED BY <2>8, <2>9, <4>1, <5>1
      <4> QED BY <2>11, <4>1, <4>2, <4>3
    <3> QED BY <3>1, <3>2
  <2>13. EffectsAccounted'
    <3> SUFFICES ASSUME NEW p \in Requests
                 PROVE  (/\ effects[p] <= 1
                         /\ effects[p] > 0 => /\ requests[p].print.action = Mutate
                                              /\ \/ requests[p].outcome = "ACCEPTED"
                                                 \/ requests[p].failure = "MUTATION_FAILED"
                         /\ requests[p].outcome = "ACCEPTED" =>
                              IF requests[p].print.action = Mutate THEN effects[p] = 1
                              ELSE \/ effects[requests[p].print.of] = 1
                                   \/ requests[requests[p].print.of].outcome = "ACCEPTED")'
      BY DEF EffectsAccounted
    <3>1. effects'[p] <= 1 /\ (effects'[p] > 0 <=> effects'[p] = 1)
      BY <2>11
    <3>2. CASE p = q
      <4>1. effects'[q] = 1 => /\ row.print.action = Mutate
                               /\ row.outcome = "ACCEPTED" \/ row.failure = "MUTATION_FAILED"
        <5>1. effects'[q] = 1 => t = q /\ k = 1
          <6>1. 0 # 1
            OBVIOUS
          <6>2. t # q => effects'[q] = 0
            BY <2>5, <2>8
          <6>3. (t = q /\ k # 1) => effects'[q] = 0
            BY <2>5, <2>9
          <6> QED BY <6>1, <6>2, <6>3
        <5> QED BY <2>1, <2>6, <5>1
      <4>2. (row.outcome = "ACCEPTED" /\ row.print.action = Mutate) => effects'[q] = 1
        BY <1>2, <2>1, <2>9
      <4>3. (row.outcome = "ACCEPTED" /\ row.print.action # Mutate) =>
              effects'[row.print.of] = 1 \/ requests'[row.print.of].outcome = "ACCEPTED"
        BY <2>1, <2>6, <2>9, <2>11
      <4> QED BY <2>2, <3>1, <3>2, <4>1, <4>2, <4>3
    <3>3. CASE p # q
      <4>1. requests'[p] = requests[p]
        BY <2>2, <3>3
      <4>2. effects'[p] = 1 => /\ requests[p].print.action = Mutate
                               /\ \/ requests[p].outcome = "ACCEPTED"
                                  \/ requests[p].failure = "MUTATION_FAILED"
        <5>1. CASE effects[p] = 1
          <6>1. effects[p] \in Nat /\ effects[p] > 0
            BY <2>4, <5>1
          <6> QED BY <6>1 DEF OperationsInv, EffectsAccounted
        <5>2. CASE effects[p] # 1
          <6>1. effects'[p] = 1 => p = t /\ k = 1
            BY <2>8, <2>9, <5>2
          <6>2. (p = t /\ k = 1) => requests[p].retry
            BY <2>1, <2>6, <3>3 DEF Retryable
          <6> QED BY <6>1, <6>2 DEF OperationsInv, TypeOK
        <5> QED BY <5>1, <5>2
      <4>3. requests[p].outcome = "ACCEPTED" =>
              IF requests[p].print.action = Mutate THEN effects'[p] = 1
              ELSE \/ effects'[requests[p].print.of] = 1
                   \/ requests'[requests[p].print.of].outcome = "ACCEPTED"
        <5>1. requests[p].outcome = "ACCEPTED" =>
                IF requests[p].print.action = Mutate THEN effects[p] = 1
                ELSE \/ effects[requests[p].print.of] = 1
                     \/ requests[requests[p].print.of].outcome = "ACCEPTED"
          BY DEF OperationsInv, EffectsAccounted
        <5>2. (requests[p].outcome = "ACCEPTED" /\ requests[p].print.action # Mutate) =>
                requests[p].print.of \in Requests /\ Stored(requests[p].print.of)
          BY DEF OperationsInv, RequestsCoherent, Stored, Fingerprints
        <5> QED BY <2>11, <5>1, <5>2
      <4> QED BY <3>1, <4>1, <4>2, <4>3
    <3> QED BY <3>2, <3>3
  <2> QED BY <2>10, <2>12, <2>13
<1> QED BY <1>1, <1>2 DEF EffectShape

LEMMA OperationsInitially == ASSUME Init PROVE OperationsInv
<1>1. NoPrint \in Fingerprints \cup {NoPrint} /\ MaxAudit \in Nat /\ 0 \in 0..MaxAudit
  BY PilotOperationsAssumption
<1>2. NotStored \in StoredRequests
  BY <1>1 DEF NotStored, StoredRequests
<1>3. /\ \A q \in Requests : requests[q] = NotStored /\ effects[q] = 0
      /\ NotStored.outcome = "NONE" /\ NotStored.failure = "" /\ ~NotStored.retry
  BY DEF Init, NotStored
<1>4. TypeOK
  <2>1. requests \in [Requests -> StoredRequests] /\ effects \in [Requests -> 0..MaxAudit]
    BY <1>1, <1>2 DEF Init
  <2>2. auditRecords \in Seq(AuditRecords) /\ Len(auditRecords) <= MaxAudit
    BY <1>1 DEF Init
  <2> QED BY <1>3, <2>1, <2>2 DEF TypeOK
<1>5. RequestsCoherent /\ EffectsAccounted
  <2>1. 0 <= 1 /\ ~(0 > 0)
    OBVIOUS
  <2>2. ASSUME NEW q \in Requests
        PROVE  /\ ~Stored(q) /\ effects[q] = 0 /\ requests[q].failure = ""
               /\ requests[q].outcome # "ACCEPTED"
    BY <1>3 DEF Stored
  <2> QED BY <2>1, <2>2 DEF RequestsCoherent, EffectsAccounted
<1>6. AuditTellsRequests
  <2>1. auditRecords = <<>> /\ 1..Len(auditRecords) = {}
    BY DEF Init
  <2>2. \A q \in Requests : ~Stored(q) /\ RecordsOf(q) = {}
    BY <1>3, <2>1 DEF Stored, RecordsOf
  <2> QED BY <2>1, <2>2 DEF AuditTellsRequests
<1> QED BY <1>4, <1>5, <1>6 DEF OperationsInv

LEMMA OperationsStep == ASSUME OperationsInv, [Next]_vars PROVE OperationsInv'
<1>1. CASE Next
  <2>1. AuditShape /\ EffectShape
    BY <1>1, CallsHaveShape, CallsHaveEffectShape DEF OperationsInv
  <2>2. MaxAudit \in Nat /\ 0 < MaxAudit
    <3>1. Len(auditRecords) < MaxAudit
      BY <2>1, AuditGrows DEF OperationsInv
    <3>2. Len(auditRecords) \in Nat /\ MaxAudit \in Nat
      BY PilotOperationsAssumption DEF OperationsInv, TypeOK
    <3> QED BY <3>1, <3>2
  <2>3. /\ effects' \in [Requests -> 0..MaxAudit]
        /\ RequestsCoherent' /\ EffectsAccounted'
    BY <2>1, <2>2, EffectsHold
  <2>4. TypeOK' /\ AuditTellsRequests'
    BY <2>1, <2>3, AuditGrows DEF OperationsInv, TypeOK
  <2> QED BY <2>3, <2>4 DEF OperationsInv
<1>2. CASE UNCHANGED vars
  <2>1. requests' = requests /\ auditRecords' = auditRecords /\ effects' = effects
    BY <1>2 DEF vars
  <2>2. TypeOK'
    BY <2>1 DEF OperationsInv, TypeOK
  <2>3. RequestsCoherent' /\ EffectsAccounted'
    BY <2>1 DEF OperationsInv, RequestsCoherent, EffectsAccounted, Stored
  <2>4. AuditTellsRequests'
    BY <2>1 DEF OperationsInv, AuditTellsRequests, Told, RecordsOf, Stored
  <2> QED BY <2>2, <2>3, <2>4 DEF OperationsInv
<1> QED BY <1>1, <1>2

-----------------------------------------------------------------------------
(* The inductive invariant always holds: packages/pilot-operations keeps   *)
(* its stored requests, audit and effects in step.                         *)
THEOREM OperationsInvAlways == Spec => []OperationsInv
BY OperationsInitially, OperationsStep, PTL DEF Spec

(* Whatever is called, failed, reused and recovered, a mutation takes      *)
(* effect at most once, and answers and effects agree (executeMutation and *)
(* recover of packages/pilot-operations).                                  *)
THEOREM EffectsAlwaysAccounted == Spec => []EffectsAccounted
<1>1. OperationsInv => EffectsAccounted
  BY DEF OperationsInv
<1> QED BY <1>1, OperationsInvAlways, PTL

(* The audit always tells the first answer of every id, and only then its  *)
(* replays and refusals (appendAudit of packages/pilot-operations).        *)
THEOREM AuditAlwaysTells == Spec => []AuditTellsRequests
<1>1. OperationsInv => AuditTellsRequests
  BY DEF OperationsInv
<1> QED BY <1>1, OperationsInvAlways, PTL

-----------------------------------------------------------------------------
(***************************************************************************)
(* The command bus.                                                        *)
(***************************************************************************)

(* What an execution holds between two awaits: the command it runs, and    *)
(* once its handler has returned a rejection or an event of this key.      *)
ExecutionSound(x) ==
  executions[x].at # "idle" =>
    /\ executions[x].command \in Commands
    /\ executions[x].at = "settling" =>
         /\ executions[x].result \in Checkout!Results
         /\ executions[x].result # 0 =>
              handled[executions[x].result] = KeyOf[executions[x].command]

ResultSound(k) == results[k] \notin {Nothing, 0} => handled[results[k]] = k

BusInv ==
  /\ handled \in [Checkout!Events -> Checkout!Keys \cup {Nothing}]
  /\ results \in [Checkout!Keys -> Checkout!Results \cup {Nothing}]
  /\ entries \in [Commands -> Checkout!Results \cup {Nothing}]
  /\ executions \in [Executions -> Checkout!ExecutionRows]
  /\ \A c \in Commands : entries[c] \in {Nothing, results[KeyOf[c]]}
  /\ \A k \in Checkout!Keys : ResultSound(k)
  /\ \A x \in Executions : ExecutionSound(x)

BusStep(x) ==
  \/ \E command \in Commands : Checkout!BeginExecution(x, command)
  \/ Checkout!Reject(x) \/ Checkout!Handle(x) \/ Checkout!HandlerReturns(x)
  \/ Checkout!HandlerThrows(x) \/ Checkout!Settle(x)

LEMMA KeysAndEvents ==
  /\ \A c \in Commands : KeyOf[c] \in Checkout!Keys
  /\ Nothing \notin Checkout!Keys /\ Nothing \notin Checkout!Results
  /\ Nothing \notin Checkout!Authorizations
  /\ \A r \in Checkout!Results : r # 0 => r \in Checkout!Events
  /\ \A e \in Checkout!Events : e \in Checkout!Results /\ e # 0
BY CheckoutAssumption DEF Checkout!Results, Checkout!Events

LEMMA ExecutionValues ==
  /\ Checkout!IdleExecution \in Checkout!ExecutionRows /\ Checkout!IdleExecution.at = "idle"
  /\ \A command \in Commands :
       LET row == [Checkout!IdleExecution EXCEPT !.at = "checked", !.command = command]
       IN row \in Checkout!ExecutionRows /\ row.at = "checked" /\ row.command = command
  /\ \A row \in Checkout!ExecutionRows :
       LET handling == [row EXCEPT !.at = "handling"]
       IN /\ handling \in Checkout!ExecutionRows /\ handling.at = "handling"
          /\ handling.command = row.command
BY DEF Checkout!IdleExecution, Checkout!ExecutionRows

(* An execution alone moves: the other rows, and what is known, stay.      *)
LEMMA OneExecutionMoves ==
  ASSUME BusInv, NEW x \in Executions, NEW row \in Checkout!ExecutionRows,
         executions' = [executions EXCEPT ![x] = row],
         \A e \in Checkout!Events : handled[e] # Nothing => handled'[e] = handled[e],
         executions'[x] = row => ExecutionSound(x)'
  PROVE  /\ executions' \in [Executions -> Checkout!ExecutionRows]
         /\ \A y \in Executions : ExecutionSound(y)'
<1>1. /\ executions' \in [Executions -> Checkout!ExecutionRows] /\ executions'[x] = row
      /\ \A y \in Executions : y # x => executions'[y] = executions[y]
  BY DEF BusInv
<1>2. ASSUME NEW y \in Executions, y # x
      PROVE  ExecutionSound(y)'
  <2>1. executions'[y] = executions[y] /\ ExecutionSound(y)
    BY <1>1, <1>2 DEF BusInv
  <2>2. executions[y].at # "idle" => KeyOf[executions[y].command] # Nothing
    BY <2>1, KeysAndEvents DEF ExecutionSound
  <2> QED BY <2>1, <2>2, KeysAndEvents DEF ExecutionSound
<1> QED BY <1>1, <1>2

LEMMA Recorded ==
  ASSUME BusInv, NEW command \in Commands, NEW r \in Checkout!Results, Checkout!record(command, r)
  PROVE  /\ entries' \in [Commands -> Checkout!Results \cup {Nothing}]
         /\ \A c \in Commands : c # command => entries'[c] = entries[c]
         /\ entries'[command] = IF entries[command] = Nothing THEN r ELSE entries[command]
BY DEF Checkout!record, BusInv

LEMMA BusKept ==
  ASSUME BusInv, NEW x \in Executions, BusStep(x)
  PROVE  /\ BusInv'
         /\ \A c \in Commands : entries[c] # Nothing => entries'[c] = entries[c]
<1> DEFINE Goal == /\ BusInv'
                   /\ \A c \in Commands : entries[c] # Nothing => entries'[c] = entries[c]
<1>1. executions[x] \in Checkout!ExecutionRows /\ ExecutionSound(x)
  BY DEF BusInv
<1>2. ASSUME NEW command \in Commands, Checkout!BeginExecution(x, command)
      PROVE  Goal
  <2>1. UNCHANGED <<handled, results>>
    BY <1>2 DEF Checkout!BeginExecution
  <2>2. CASE results[KeyOf[command]] # Nothing
    <3>1. /\ results[KeyOf[command]] \in Checkout!Results
          /\ Checkout!record(command, results[KeyOf[command]]) /\ UNCHANGED executions
      BY <1>2, <2>2, KeysAndEvents DEF Checkout!BeginExecution, BusInv
    <3> QED BY <2>1, <3>1, Recorded DEF BusInv, ResultSound, ExecutionSound
  <2>3. CASE results[KeyOf[command]] = Nothing
    <3> DEFINE row == [Checkout!IdleExecution EXCEPT !.at = "checked", !.command = command]
    <3>1. executions' = [executions EXCEPT ![x] = row] /\ UNCHANGED entries
      BY <1>2, <2>3 DEF Checkout!BeginExecution
    <3>2. row \in Checkout!ExecutionRows /\ row.at = "checked" /\ row.command = command
      BY ExecutionValues
    <3> HIDE DEF row
    <3>3. executions'[x] = row => ExecutionSound(x)'
      BY <3>2 DEF ExecutionSound
    <3>4. /\ executions' \in [Executions -> Checkout!ExecutionRows]
          /\ \A y \in Executions : ExecutionSound(y)'
      BY <2>1, <3>1, <3>2, <3>3, OneExecutionMoves
    <3> QED BY <2>1, <3>1, <3>4 DEF BusInv, ResultSound
  <2> QED BY <2>2, <2>3
<1>3. CASE Checkout!Reject(x)
  <2> DEFINE row == [executions[x] EXCEPT !.at = "settling", !.result = 0]
  <2>1. /\ executions' = [executions EXCEPT ![x] = row] /\ UNCHANGED <<handled, results, entries>>
        /\ executions[x].command \in Commands
    BY <1>1, <1>3 DEF Checkout!Reject, ExecutionSound
  <2>2. 0 \in Checkout!Results
    BY CheckoutAssumption DEF Checkout!Results
  <2>3. /\ row \in Checkout!ExecutionRows /\ row.at = "settling"
        /\ row.command = executions[x].command /\ row.result = 0
    BY <1>1, <2>2 DEF Checkout!ExecutionRows
  <2> HIDE DEF row
  <2>4. executions'[x] = row => ExecutionSound(x)'
    BY <2>1, <2>2, <2>3 DEF ExecutionSound
  <2>5. /\ executions' \in [Executions -> Checkout!ExecutionRows]
        /\ \A y \in Executions : ExecutionSound(y)'
    BY <2>1, <2>3, <2>4, OneExecutionMoves
  <2> QED BY <2>1, <2>5 DEF BusInv, ResultSound
<1>4. CASE Checkout!Handle(x)
  <2> DEFINE row == [executions[x] EXCEPT !.at = "handling"]
  <2>1. /\ executions' = [executions EXCEPT ![x] = row] /\ UNCHANGED <<handled, results, entries>>
        /\ executions[x].command \in Commands
    BY <1>1, <1>4 DEF Checkout!Handle, ExecutionSound
  <2>2. /\ row \in Checkout!ExecutionRows /\ row.at = "handling"
        /\ row.command = executions[x].command
    BY <1>1, ExecutionValues
  <2> HIDE DEF row
  <2>3. executions'[x] = row => ExecutionSound(x)'
    BY <2>1, <2>2 DEF ExecutionSound
  <2>4. /\ executions' \in [Executions -> Checkout!ExecutionRows]
        /\ \A y \in Executions : ExecutionSound(y)'
    BY <2>1, <2>2, <2>3, OneExecutionMoves
  <2> QED BY <2>1, <2>4 DEF BusInv, ResultSound
<1>5. CASE Checkout!HandlerReturns(x)
  <2>1. PICK e \in Checkout!Events :
          /\ executions[x].at = "handling" /\ handled[e] = Nothing
          /\ handled' = [handled EXCEPT ![e] = KeyOf[executions[x].command]]
          /\ executions' = [executions EXCEPT ![x] =
               [executions[x] EXCEPT !.at = "settling", !.result = e]]
          /\ UNCHANGED <<results, entries>>
    BY <1>5 DEF Checkout!HandlerReturns
  <2> DEFINE row == [executions[x] EXCEPT !.at = "settling", !.result = e]
             command == executions[x].command
  <2>2. command \in Commands /\ KeyOf[command] \in Checkout!Keys /\ KeyOf[command] # Nothing
    BY <1>1, <2>1, KeysAndEvents DEF ExecutionSound
  <2>3. /\ row \in Checkout!ExecutionRows /\ row.at = "settling"
        /\ row.command = command /\ row.result = e /\ e \in Checkout!Results
    <3>1. e \in Checkout!Results
      BY KeysAndEvents
    <3> QED BY <1>1, <3>1 DEF Checkout!ExecutionRows
  <2>4. executions' = [executions EXCEPT ![x] = row]
    BY <2>1
  <2> HIDE DEF row, command
  <2>5. /\ handled' \in [Checkout!Events -> Checkout!Keys \cup {Nothing}]
        /\ handled'[e] = KeyOf[command]
        /\ \A f \in Checkout!Events : handled[f] # Nothing => handled'[f] = handled[f]
    BY <2>1, <2>2 DEF BusInv, command
  <2>6. executions'[x] = row => ExecutionSound(x)'
    BY <2>2, <2>3, <2>5 DEF ExecutionSound
  <2>7. /\ executions' \in [Executions -> Checkout!ExecutionRows]
        /\ \A y \in Executions : ExecutionSound(y)'
    BY <2>3, <2>4, <2>5, <2>6, OneExecutionMoves
  <2>8. \A k \in Checkout!Keys : ResultSound(k)'
    BY <2>1, <2>5, KeysAndEvents DEF BusInv, ResultSound
  <2> QED BY <2>1, <2>5, <2>7, <2>8 DEF BusInv
<1>6. CASE Checkout!HandlerThrows(x)
  <2>1. /\ executions' = [executions EXCEPT ![x] = Checkout!IdleExecution]
        /\ UNCHANGED <<handled, results, entries>>
    BY <1>6 DEF Checkout!HandlerThrows
  <2>2. executions'[x] = Checkout!IdleExecution => ExecutionSound(x)'
    BY ExecutionValues DEF ExecutionSound
  <2>3. /\ executions' \in [Executions -> Checkout!ExecutionRows]
        /\ \A y \in Executions : ExecutionSound(y)'
    BY <2>1, <2>2, ExecutionValues, OneExecutionMoves
  <2> QED BY <2>1, <2>3 DEF BusInv, ResultSound
<1>7. CASE Checkout!Settle(x)
  <2> DEFINE command == executions[x].command
             key == KeyOf[command]
             stored == IF results[key] = Nothing THEN executions[x].result ELSE results[key]
  <2>1. /\ executions[x].at = "settling"
        /\ results' = [results EXCEPT ![key] = stored]
        /\ Checkout!record(command, stored)
        /\ executions' = [executions EXCEPT ![x] = Checkout!IdleExecution]
        /\ UNCHANGED handled
    BY <1>7 DEF Checkout!Settle, Checkout!putIfAbsent
  <2>2. /\ command \in Commands /\ key \in Checkout!Keys
        /\ executions[x].result \in Checkout!Results
        /\ executions[x].result # 0 => handled[executions[x].result] = key
    BY <1>1, <2>1, KeysAndEvents DEF ExecutionSound
  <2>3. /\ stored \in Checkout!Results
        /\ stored # 0 => handled[stored] = key
        /\ results[key] # Nothing => stored = results[key]
    BY <2>2, KeysAndEvents DEF BusInv, ResultSound
  <2> HIDE DEF command, key, stored
  <2>4. executions'[x] = Checkout!IdleExecution => ExecutionSound(x)'
    BY ExecutionValues DEF ExecutionSound
  <2>5. /\ executions' \in [Executions -> Checkout!ExecutionRows]
        /\ \A y \in Executions : ExecutionSound(y)'
    BY <2>1, <2>4, ExecutionValues, OneExecutionMoves
  <2>6. /\ results' \in [Checkout!Keys -> Checkout!Results \cup {Nothing}]
        /\ results'[key] = stored
        /\ \A k \in Checkout!Keys : k # key => results'[k] = results[k]
    BY <2>1, <2>2, <2>3 DEF BusInv
  <2>7. /\ entries' \in [Commands -> Checkout!Results \cup {Nothing}]
        /\ \A c \in Commands : c # command => entries'[c] = entries[c]
        /\ entries'[command] = IF entries[command] = Nothing THEN stored ELSE entries[command]
    BY <2>1, <2>2, <2>3, Recorded
  <2>8. \A c \in Commands : entries'[c] \in {Nothing, results'[KeyOf[c]]}
    <3>1. ASSUME NEW c \in Commands, entries[c] # Nothing
          PROVE  results'[KeyOf[c]] = entries[c]
      <4>1. entries[c] = results[KeyOf[c]] /\ KeyOf[c] \in Checkout!Keys
        BY <3>1, KeysAndEvents DEF BusInv
      <4> QED BY <2>3, <2>6, <3>1, <4>1
    <3> QED BY <2>6, <2>7, <3>1 DEF key
  <2>9. \A k \in Checkout!Keys : ResultSound(k)'
    BY <2>1, <2>3, <2>6 DEF BusInv, ResultSound
  <2> QED BY <2>1, <2>5, <2>6, <2>7, <2>8, <2>9 DEF BusInv
<1> QED BY <1>2, <1>3, <1>4, <1>5, <1>6, <1>7 DEF BusStep

-----------------------------------------------------------------------------
(***************************************************************************)
(* Checkout.                                                               *)
(***************************************************************************)

Under(x) == checkouts[x].at # "idle"
Reserves(x) ==
  LET c == checkouts[x].cart
  IN /\ c \in Carts /\ checkouts[x].obligation \in Obligations
     /\ checkouts[x].authorization \in Checkout!Authorizations
     /\ carts[c].state = "CHECKING_OUT"
     /\ carts[c].obligation = checkouts[x].obligation
     /\ carts[c].reservation = checkouts[x].authorization

(* A checkout under way holds its cart, has bought nothing from it before  *)
(* its commitment is made, and holds its authorisation while it waits.     *)
CheckoutSound(x) ==
  Under(x) =>
    /\ Reserves(x)
    /\ checkouts[x].at \in {"verifying", "failing"} => \A m \in made : m[1] # checkouts[x].cart
    /\ checkouts[x].at = "verifying" =>
         /\ checkouts[x].authorization \in consumed
         /\ \A m \in made : m[3] # checkouts[x].authorization
    /\ checkouts[x].at = "marking" =>
         <<checkouts[x].cart, checkouts[x].obligation, checkouts[x].authorization>> \in made

(* No two of them hold the same cart, or wait with the same authorisation. *)
Apart(x, y) ==
  (Under(x) /\ Under(y) /\ x # y) =>
    /\ checkouts[x].cart # checkouts[y].cart
    /\ (checkouts[x].at = "verifying" /\ checkouts[y].at = "verifying") =>
         checkouts[x].authorization # checkouts[y].authorization

CartTypes ==
  /\ carts \in [Carts -> Checkout!CartRows]
  /\ consumed \subseteq Checkout!Authorizations
  /\ commitments \in [Obligations -> Checkout!Authorizations \cup {Nothing}]
  /\ checkouts \in [Checkouts -> Checkout!CheckoutRows]
  /\ made \subseteq (Carts \X Obligations \X Checkout!Authorizations)
  /\ \A c \in Carts :
       (carts[c].reservation = Nothing) <=> (carts[c].state \in {"OPEN", "ABANDONED"})

CheckoutsSound ==
  /\ \A x \in Checkouts : CheckoutSound(x)
  /\ \A x, y \in Checkouts : Apart(x, y)

CartInv == CartTypes /\ BoughtOnce /\ CheckoutsSound

LEMMA CartRow ==
  ASSUME NEW r \in Checkout!CartRows
  PROVE  /\ LET q == [r EXCEPT !.state = "OPEN", !.obligation = Nothing, !.reservation = Nothing]
            IN q \in Checkout!CartRows /\ q.state = "OPEN" /\ q.reservation = Nothing
         /\ LET q == [r EXCEPT !.state = "CHECKED_OUT"]
            IN /\ q \in Checkout!CartRows /\ q.state = "CHECKED_OUT"
               /\ q.obligation = r.obligation /\ q.reservation = r.reservation
         /\ LET q == [r EXCEPT !.state = "ABANDONED"]
            IN q \in Checkout!CartRows /\ q.state = "ABANDONED" /\ q.reservation = r.reservation
         /\ LET q == [r EXCEPT !.line = TRUE]
            IN /\ q \in Checkout!CartRows /\ q.state = r.state
               /\ q.obligation = r.obligation /\ q.reservation = r.reservation
BY DEF Checkout!CartRows

LEMMA CheckoutRow ==
  /\ Checkout!IdleCheckout \in Checkout!CheckoutRows /\ Checkout!IdleCheckout.at = "idle"
  /\ \A r \in Checkout!CheckoutRows :
       /\ LET q == [r EXCEPT !.at = "marking"]
          IN /\ q \in Checkout!CheckoutRows /\ q.at = "marking" /\ q.cart = r.cart
             /\ q.obligation = r.obligation /\ q.authorization = r.authorization
       /\ LET q == [r EXCEPT !.at = "failing"]
          IN /\ q \in Checkout!CheckoutRows /\ q.at = "failing" /\ q.cart = r.cart
             /\ q.obligation = r.obligation /\ q.authorization = r.authorization
BY DEF Checkout!IdleCheckout, Checkout!CheckoutRows

(* The bus only adds proofs: what was bought stays on record.              *)
LEMMA BusKeepsCarts ==
  ASSUME CartInv, UNCHANGED <<carts, consumed, commitments, checkouts, made>>,
         \A c \in Commands : entries[c] # Nothing => entries'[c] = entries[c]
  PROVE  CartInv'
<1>1. \A m \in made : m[3] \in consumed /\ entries'[m[3][1]] = m[3][2]
  <2> SUFFICES ASSUME NEW m \in made PROVE entries'[m[3][1]] = m[3][2]
    BY DEF CartInv, BoughtOnce, Checkout!BoughtOnce
  <2>1. m[3] \in Commands \X Checkout!Events
    BY DEF CartInv, CartTypes, Checkout!Authorizations
  <2>2. entries[m[3][1]] = m[3][2] /\ m[3][2] # Nothing
    BY <2>1, KeysAndEvents DEF CartInv, BoughtOnce, Checkout!BoughtOnce
  <2> QED BY <2>1, <2>2
<1>2. BoughtOnce'
  BY <1>1 DEF CartInv, BoughtOnce, Checkout!BoughtOnce
<1> QED BY <1>2 DEF CartInv, CartTypes, CheckoutsSound, CheckoutSound, Under, Reserves, Apart

(* A cart that nobody checks out and that is not checked out afterwards.   *)
LEMMA OpenCartMoves ==
  ASSUME CartInv, NEW c \in Carts, NEW q \in Checkout!CartRows, carts[c].state = "OPEN",
         q.state \in {"OPEN", "ABANDONED"}, q.reservation = carts[c].reservation,
         carts' = [carts EXCEPT ![c] = q],
         UNCHANGED <<entries, consumed, commitments, checkouts, made>>
  PROVE  CartInv'
<1>1. /\ carts' \in [Carts -> Checkout!CartRows] /\ carts'[c] = q
      /\ \A d \in Carts : d # c => carts'[d] = carts[d]
  BY DEF CartInv, CartTypes
<1>2. CartTypes'
  BY <1>1 DEF CartInv, CartTypes
<1>3. \A m \in made : m[1] # c /\ m[1] \in Carts
  BY DEF CartInv, CartTypes, BoughtOnce, Checkout!BoughtOnce
<1>4. BoughtOnce'
  BY <1>1, <1>3 DEF CartInv, BoughtOnce, Checkout!BoughtOnce
<1>5. CheckoutsSound'
  BY <1>1 DEF CartInv, CheckoutsSound, CheckoutSound, Under, Reserves, Apart
<1> QED BY <1>2, <1>4, <1>5 DEF CartInv

LEMMA StartKeepsCarts ==
  ASSUME CartInv, NEW x \in Checkouts, NEW c \in Carts, NEW o \in Obligations,
         NEW a \in Checkout!Authorizations, NEW eligible \in BOOLEAN,
         Checkout!StartCheckout(x, c, o, a, eligible)
  PROVE  CartInv'
<1> DEFINE commits == commitments[o] = Nothing /\ eligible /\ Checkout!Consumable(a)
           q == [carts[c] EXCEPT !.state = "CHECKING_OUT", !.obligation = o, !.reservation = a]
           r == [at |-> IF commits THEN "verifying" ELSE "failing",
                 cart |-> c, obligation |-> o, authorization |-> a]
<1>1. /\ checkouts[x].at = "idle" /\ carts[c].state = "OPEN"
      /\ carts' = [carts EXCEPT ![c] = q]
      /\ consumed' = IF commits THEN consumed \cup {a} ELSE consumed
      /\ checkouts' = [checkouts EXCEPT ![x] = r]
      /\ UNCHANGED <<entries, commitments, made>>
  BY DEF Checkout!StartCheckout, Checkout!Available, Checkout!requireOpen, Checkout!busVars
<1>2. commits => a \notin consumed
  BY DEF Checkout!Consumable
<1>3. /\ q \in Checkout!CartRows /\ q.state = "CHECKING_OUT"
      /\ q.obligation = o /\ q.reservation = a
  <2>1. carts[c] \in Checkout!CartRows
    BY DEF CartInv, CartTypes
  <2> QED BY <2>1 DEF Checkout!CartRows
<1>4. /\ r \in Checkout!CheckoutRows /\ r.cart = c /\ r.obligation = o /\ r.authorization = a
      /\ r.at = IF commits THEN "verifying" ELSE "failing"
  BY DEF Checkout!CheckoutRows
<1> HIDE DEF q, r, commits
<1>5. /\ carts' \in [Carts -> Checkout!CartRows] /\ carts'[c] = q
      /\ \A d \in Carts : d # c => carts'[d] = carts[d]
  BY <1>1, <1>3 DEF CartInv, CartTypes
<1>6. /\ checkouts' \in [Checkouts -> Checkout!CheckoutRows] /\ checkouts'[x] = r
      /\ \A y \in Checkouts : y # x => checkouts'[y] = checkouts[y]
  BY <1>1, <1>4 DEF CartInv, CartTypes
<1>7. CartTypes'
  BY <1>1, <1>3, <1>5, <1>6, KeysAndEvents DEF CartInv, CartTypes
<1>8. \A m \in made : m[1] # c /\ m[1] \in Carts /\ m[3] \in consumed
  BY <1>1 DEF CartInv, CartTypes, BoughtOnce, Checkout!BoughtOnce
<1>9. \A y \in Checkouts : Under(y) => y # x /\ checkouts[y].cart # c
  BY <1>1 DEF CartInv, CheckoutsSound, CheckoutSound, Under, Reserves
<1>10. BoughtOnce'
  <2>1. \A b \in consumed' : \/ \E m \in made : m[3] = b
                             \/ \E y \in Checkouts : /\ checkouts'[y].at = "verifying"
                                                      /\ checkouts'[y].authorization = b
    <3>1. commits => checkouts'[x].at = "verifying" /\ checkouts'[x].authorization = a
      BY <1>4, <1>6
    <3>2. \A y \in Checkouts : checkouts[y].at = "verifying" => checkouts'[y] = checkouts[y]
      BY <1>1, <1>6
    <3> QED BY <1>1, <3>1, <3>2 DEF CartInv, BoughtOnce, Checkout!BoughtOnce
  <2>2. \A m \in made : m[3] \in consumed' /\ carts'[m[1]].state \in {"CHECKING_OUT", "CHECKED_OUT"}
    BY <1>1, <1>5, <1>8 DEF CartInv, BoughtOnce, Checkout!BoughtOnce
  <2>3. \A d \in Carts : carts'[d].state = "CHECKED_OUT" =>
          \E m \in made : m[1] = d /\ m[2] = carts'[d].obligation
    BY <1>3, <1>5 DEF CartInv, BoughtOnce, Checkout!BoughtOnce
  <2> QED BY <1>1, <2>1, <2>2, <2>3 DEF CartInv, BoughtOnce, Checkout!BoughtOnce
<1>11. CheckoutSound(x)'
  BY <1>1, <1>2, <1>3, <1>4, <1>5, <1>6, <1>8 DEF CheckoutSound, Under, Reserves
<1>12. ASSUME NEW y \in Checkouts, y # x
       PROVE  CheckoutSound(y)' /\ Apart(x, y)' /\ Apart(y, x)'
  <2>1. checkouts'[y] = checkouts[y] /\ CheckoutSound(y)
    BY <1>6, <1>12 DEF CartInv, CheckoutsSound
  <2>2. CheckoutSound(y)'
    BY <1>1, <1>5, <1>9, <2>1 DEF CheckoutSound, Under, Reserves
  <2>3. Under(y) => checkouts[y].cart # c
    BY <1>9
  <2>4. (Under(y) /\ checkouts[y].at = "verifying" /\ commits) => checkouts[y].authorization # a
    BY <1>2, <2>1 DEF CheckoutSound
  <2> QED BY <1>4, <1>6, <2>1, <2>2, <2>3, <2>4 DEF Apart, Under
<1>13. \A y, z \in Checkouts : Apart(y, z)'
  <2>1. \A y, z \in Checkouts : (y # x /\ z # x) => Apart(y, z)'
    BY <1>6 DEF CartInv, CheckoutsSound, Apart, Under
  <2>2. Apart(x, x)'
    BY DEF Apart
  <2> QED BY <1>12, <2>1, <2>2
<1> QED BY <1>7, <1>10, <1>11, <1>12, <1>13 DEF CartInv, CheckoutsSound

(* Other checkouts see nothing of one that moves without taking a cart or  *)
(* an authorisation they hold.                                             *)
LEMMA OneCheckoutMoves ==
  ASSUME CartInv, NEW x \in Checkouts, NEW r \in Checkout!CheckoutRows,
         checkouts' = [checkouts EXCEPT ![x] = r], r.at # "verifying",
         r.at # "idle" => Under(x) /\ r.cart = checkouts[x].cart,
         checkouts'[x] = r => CheckoutSound(x)',
         \A d \in Carts : d # checkouts[x].cart => carts'[d] = carts[d],
         \A a \in consumed : a \in consumed' \/ (checkouts[x].at = "verifying"
                                               /\ a = checkouts[x].authorization),
         made \subseteq made',
         \A m \in made' : m \in made \/ (/\ checkouts[x].at = "verifying"
                                       /\ m[1] = checkouts[x].cart
                                       /\ m[3] = checkouts[x].authorization),
         Under(x)
  PROVE  /\ checkouts' \in [Checkouts -> Checkout!CheckoutRows] /\ checkouts'[x] = r
         /\ \A y \in Checkouts : y # x => checkouts'[y] = checkouts[y]
         /\ CheckoutsSound'
<1>1. /\ checkouts' \in [Checkouts -> Checkout!CheckoutRows] /\ checkouts'[x] = r
      /\ \A y \in Checkouts : y # x => checkouts'[y] = checkouts[y]
  BY DEF CartInv, CartTypes
<1>2. ASSUME NEW y \in Checkouts, y # x
      PROVE  CheckoutSound(y)' /\ Apart(x, y)' /\ Apart(y, x)'
  <2>1. checkouts'[y] = checkouts[y] /\ CheckoutSound(y) /\ Apart(x, y)
    BY <1>1, <1>2 DEF CartInv, CheckoutsSound
  <2>2. Under(y) => checkouts[y].cart # checkouts[x].cart
    BY <1>2, <2>1 DEF Apart
  <2>3. Under(y)' => Under(y)
    BY <2>1 DEF Under
  <2>4. Reserves(y) /\ Under(y) => Reserves(y)'
    BY <2>1, <2>2 DEF Reserves
  <2>5. (Under(y) /\ checkouts[y].at \in {"verifying", "failing"}) =>
          \A m \in made' : m[1] # checkouts[y].cart
    BY <2>1, <2>2 DEF CheckoutSound
  <2>6. (Under(y) /\ checkouts[y].at = "verifying") =>
          /\ checkouts[y].authorization \in consumed'
          /\ \A m \in made' : m[3] # checkouts[y].authorization
    BY <1>2, <2>1 DEF CheckoutSound, Apart, Under
  <2>7. CheckoutSound(y)'
    BY <2>1, <2>3, <2>4, <2>5, <2>6 DEF CheckoutSound
  <2>8. Apart(x, y)' /\ Apart(y, x)'
    BY <1>1, <2>1, <2>2 DEF Apart, Under
  <2> QED BY <2>7, <2>8
<1>3. \A y, z \in Checkouts : Apart(y, z)'
  <2>1. \A y, z \in Checkouts : (y # x /\ z # x) => Apart(y, z)'
    BY <1>1 DEF CartInv, CheckoutsSound, Apart, Under
  <2>2. Apart(x, x)'
    BY DEF Apart
  <2> QED BY <1>2, <2>1, <2>2
<1> QED BY <1>1, <1>2, <1>3 DEF CheckoutsSound

LEMMA VerifyKeepsCarts ==
  ASSUME CartInv, NEW x \in Checkouts, Checkout!Verify(x)
  PROVE  CartInv'
<1> DEFINE c == checkouts[x].cart
           o == checkouts[x].obligation
           a == checkouts[x].authorization
           m == <<c, o, a>>
<1>1. checkouts[x].at = "verifying" /\ UNCHANGED <<entries, carts>>
  BY DEF Checkout!Verify, Checkout!busVars
<1>2. /\ Under(x) /\ CheckoutSound(x) /\ checkouts[x] \in Checkout!CheckoutRows
      /\ c \in Carts /\ o \in Obligations /\ a \in Checkout!Authorizations
      /\ carts[c].state = "CHECKING_OUT" /\ a \in consumed
      /\ \A n \in made : n[1] # c /\ n[3] # a
  BY <1>1 DEF CartInv, CartTypes, CheckoutsSound, CheckoutSound, Under, Reserves
<1>3. CASE Checkout!isAccepted(a)
  <2> DEFINE r == [checkouts[x] EXCEPT !.at = "marking"]
  <2>1. /\ entries[a[1]] = a[2]
        /\ commitments' = [commitments EXCEPT ![o] = a] /\ made' = made \cup {m}
        /\ checkouts' = [checkouts EXCEPT ![x] = r] /\ UNCHANGED consumed
    BY <1>3 DEF Checkout!Verify, Checkout!isAccepted
  <2>2. /\ r \in Checkout!CheckoutRows /\ r.at = "marking" /\ r.cart = c
        /\ r.obligation = o /\ r.authorization = a
    BY <1>2, CheckoutRow
  <2>3. m \in Carts \X Obligations \X Checkout!Authorizations
        /\ m[1] = c /\ m[2] = o /\ m[3] = a
    BY <1>2
  <2> HIDE DEF r, m
  <2>4. checkouts'[x] = r => CheckoutSound(x)'
    BY <1>1, <1>2, <2>1, <2>2 DEF CheckoutSound, Under, Reserves, m
  <2>5. /\ checkouts' \in [Checkouts -> Checkout!CheckoutRows] /\ checkouts'[x] = r
        /\ \A y \in Checkouts : y # x => checkouts'[y] = checkouts[y]
        /\ CheckoutsSound'
    <3>1. \A n \in made' : n \in made \/ (checkouts[x].at = "verifying" /\ n[1] = c /\ n[3] = a)
      BY <1>1, <2>1, <2>3
    <3> QED BY <1>1, <1>2, <2>1, <2>2, <2>4, <3>1, OneCheckoutMoves
  <2>6. CartTypes'
    BY <1>1, <1>2, <2>1, <2>3, <2>5 DEF CartInv, CartTypes
  <2>7. BoughtOnce'
    <3>1. \A n \in made' : n[3] \in consumed' /\ entries'[n[3][1]] = n[3][2]
      BY <1>1, <1>2, <2>1, <2>3 DEF CartInv, BoughtOnce, Checkout!BoughtOnce
    <3>2. \A n, p \in made' : n[3] = p[3] \/ n[1] = p[1] => n = p
      BY <1>2, <2>1, <2>3 DEF CartInv, BoughtOnce, Checkout!BoughtOnce
    <3>3. \A b \in consumed' :
            \/ \E n \in made' : n[3] = b
            \/ \E y \in Checkouts : checkouts'[y].at = "verifying" /\ checkouts'[y].authorization = b
      <4> SUFFICES ASSUME NEW b \in consumed, b # a
                   PROVE  \/ \E n \in made : n[3] = b
                          \/ \E y \in Checkouts : /\ checkouts'[y].at = "verifying"
                                                  /\ checkouts'[y].authorization = b
        BY <2>1, <2>3
      <4>1. \/ \E n \in made : n[3] = b
            \/ \E y \in Checkouts : checkouts[y].at = "verifying" /\ checkouts[y].authorization = b
        BY DEF CartInv, BoughtOnce, Checkout!BoughtOnce
      <4> QED BY <2>5, <4>1
    <3>4. \A n \in made' : carts'[n[1]].state \in {"CHECKING_OUT", "CHECKED_OUT"}
      BY <1>1, <1>2, <2>1, <2>3 DEF CartInv, BoughtOnce, Checkout!BoughtOnce
    <3>5. \A d \in Carts : carts'[d].state = "CHECKED_OUT" =>
            \E n \in made' : n[1] = d /\ n[2] = carts'[d].obligation
      BY <1>1, <2>1 DEF CartInv, BoughtOnce, Checkout!BoughtOnce
    <3> QED BY <3>1, <3>2, <3>3, <3>4, <3>5 DEF BoughtOnce, Checkout!BoughtOnce
  <2> QED BY <2>5, <2>6, <2>7 DEF CartInv
<1>4. CASE ~Checkout!isAccepted(a)
  <2> DEFINE r == [checkouts[x] EXCEPT !.at = "failing"]
  <2>1. /\ consumed' = consumed \ {a} /\ checkouts' = [checkouts EXCEPT ![x] = r]
        /\ UNCHANGED <<commitments, made>>
    BY <1>4 DEF Checkout!Verify
  <2>2. /\ r \in Checkout!CheckoutRows /\ r.at = "failing" /\ r.cart = c
        /\ r.obligation = o /\ r.authorization = a
    BY <1>2, CheckoutRow
  <2> HIDE DEF r
  <2>3. checkouts'[x] = r => CheckoutSound(x)'
    BY <1>1, <1>2, <2>1, <2>2 DEF CheckoutSound, Under, Reserves
  <2>4. /\ checkouts' \in [Checkouts -> Checkout!CheckoutRows] /\ checkouts'[x] = r
        /\ \A y \in Checkouts : y # x => checkouts'[y] = checkouts[y]
        /\ CheckoutsSound'
    BY <1>1, <1>2, <2>1, <2>2, <2>3, OneCheckoutMoves
  <2>5. CartTypes'
    BY <1>1, <2>1, <2>4 DEF CartInv, CartTypes
  <2>6. BoughtOnce'
    <3>1. \A n \in made : n[3] \in consumed'
      BY <1>2, <2>1 DEF CartInv, BoughtOnce, Checkout!BoughtOnce
    <3>2. \A b \in consumed' :
            \/ \E n \in made : n[3] = b
            \/ \E y \in Checkouts : checkouts'[y].at = "verifying" /\ checkouts'[y].authorization = b
      <4> SUFFICES ASSUME NEW b \in consumed, b # a
                   PROVE  \/ \E n \in made : n[3] = b
                          \/ \E y \in Checkouts : /\ checkouts'[y].at = "verifying"
                                                  /\ checkouts'[y].authorization = b
        BY <2>1
      <4>1. \/ \E n \in made : n[3] = b
            \/ \E y \in Checkouts : checkouts[y].at = "verifying" /\ checkouts[y].authorization = b
        BY DEF CartInv, BoughtOnce, Checkout!BoughtOnce
      <4> QED BY <2>4, <4>1
    <3> QED BY <1>1, <2>1, <3>1, <3>2 DEF CartInv, BoughtOnce, Checkout!BoughtOnce
  <2> QED BY <2>4, <2>5, <2>6 DEF CartInv
<1> QED BY <1>3, <1>4

LEMMA EndKeepsCarts ==
  ASSUME CartInv, NEW x \in Checkouts, Checkout!markCheckedOut(x) \/ Checkout!FailCheckout(x)
  PROVE  CartInv'
<1> DEFINE c == checkouts[x].cart
<1>1. /\ checkouts' = [checkouts EXCEPT ![x] = Checkout!IdleCheckout]
      /\ UNCHANGED <<entries, consumed, commitments, made>>
      /\ checkouts[x].at \in {"marking", "failing"}
  BY DEF Checkout!markCheckedOut, Checkout!FailCheckout, Checkout!busVars
<1>2. /\ Under(x) /\ CheckoutSound(x) /\ c \in Carts /\ carts[c] \in Checkout!CartRows
      /\ carts[c].state = "CHECKING_OUT" /\ carts[c].obligation = checkouts[x].obligation
      /\ carts[c].reservation = checkouts[x].authorization
      /\ checkouts[x].authorization # Nothing
  BY <1>1, KeysAndEvents DEF CartInv, CartTypes, CheckoutsSound, CheckoutSound, Under, Reserves
<1>3. PICK q \in Checkout!CartRows :
        /\ carts' = [carts EXCEPT ![c] = q]
        /\ \/ q = carts[c]
           \/ /\ checkouts[x].at = "marking" /\ q.state = "CHECKED_OUT"
              /\ q.obligation = carts[c].obligation /\ q.reservation = carts[c].reservation
           \/ checkouts[x].at = "failing" /\ q.state = "OPEN" /\ q.reservation = Nothing
  <2>1. CASE UNCHANGED carts
    <3>1. carts' = [carts EXCEPT ![c] = carts[c]]
      BY <1>2, <2>1 DEF CartInv, CartTypes
    <3> QED BY <1>2, <3>1
  <2>2. CASE /\ checkouts[x].at = "marking"
             /\ carts' = [carts EXCEPT ![c] = [carts[c] EXCEPT !.state = "CHECKED_OUT"]]
    <3> DEFINE q == [carts[c] EXCEPT !.state = "CHECKED_OUT"]
    <3>1. /\ q \in Checkout!CartRows /\ q.state = "CHECKED_OUT"
          /\ q.obligation = carts[c].obligation /\ q.reservation = carts[c].reservation
      BY <1>2, CartRow
    <3>2. carts' = [carts EXCEPT ![c] = q]
      BY <2>2
    <3> HIDE DEF q
    <3> QED BY <2>2, <3>1, <3>2
  <2>3. CASE /\ checkouts[x].at = "failing"
             /\ carts' = [carts EXCEPT ![c] = [carts[c] EXCEPT !.state = "OPEN",
                                              !.obligation = Nothing, !.reservation = Nothing]]
    <3> DEFINE q == [carts[c] EXCEPT !.state = "OPEN", !.obligation = Nothing,
                                     !.reservation = Nothing]
    <3>1. q \in Checkout!CartRows /\ q.state = "OPEN" /\ q.reservation = Nothing
      BY <1>2, CartRow
    <3>2. carts' = [carts EXCEPT ![c] = q]
      BY <2>3
    <3> HIDE DEF q
    <3> QED BY <2>3, <3>1, <3>2
  <2> QED BY <2>1, <2>2, <2>3
         DEF Checkout!markCheckedOut, Checkout!FailCheckout, Checkout!Released
<1>4. /\ carts' \in [Carts -> Checkout!CartRows] /\ carts'[c] = q
      /\ \A d \in Carts : d # c => carts'[d] = carts[d]
  BY <1>2, <1>3 DEF CartInv, CartTypes
<1>5. checkouts'[x] = Checkout!IdleCheckout => CheckoutSound(x)'
  BY CheckoutRow DEF CheckoutSound, Under
<1>6. /\ checkouts' \in [Checkouts -> Checkout!CheckoutRows]
      /\ checkouts'[x] = Checkout!IdleCheckout
      /\ \A y \in Checkouts : y # x => checkouts'[y] = checkouts[y]
      /\ CheckoutsSound'
  BY <1>1, <1>2, <1>4, <1>5, CheckoutRow, OneCheckoutMoves
<1>7. CartTypes'
  BY <1>1, <1>2, <1>3, <1>4, <1>6 DEF CartInv, CartTypes
<1>8. BoughtOnce'
  <2>1. \A m \in made : carts'[m[1]].state \in {"CHECKING_OUT", "CHECKED_OUT"}
    <3>1. checkouts[x].at = "failing" => \A m \in made : m[1] # c
      BY <1>2 DEF CheckoutSound
    <3>2. \A m \in made : m[1] \in Carts /\ carts[m[1]].state \in {"CHECKING_OUT", "CHECKED_OUT"}
      BY DEF CartInv, CartTypes, BoughtOnce, Checkout!BoughtOnce
    <3> QED BY <1>3, <1>4, <3>1, <3>2
  <2>2. \A d \in Carts : carts'[d].state = "CHECKED_OUT" =>
          \E m \in made : m[1] = d /\ m[2] = carts'[d].obligation
    <3>1. checkouts[x].at = "marking" => \E m \in made : m[1] = c /\ m[2] = carts[c].obligation
      BY <1>2 DEF CheckoutSound
    <3> QED BY <1>2, <1>3, <1>4, <3>1 DEF CartInv, BoughtOnce, Checkout!BoughtOnce
  <2>3. \A b \in consumed : \/ \E m \in made : m[3] = b
                            \/ \E y \in Checkouts : /\ checkouts'[y].at = "verifying"
                                                    /\ checkouts'[y].authorization = b
    BY <1>1, <1>6 DEF CartInv, BoughtOnce, Checkout!BoughtOnce
  <2> QED BY <1>1, <2>1, <2>2, <2>3 DEF CartInv, BoughtOnce, Checkout!BoughtOnce
<1> QED BY <1>6, <1>7, <1>8 DEF CartInv

-----------------------------------------------------------------------------
LEMMA CheckoutInitially == Checkout!Init => BusInv /\ CartInv
<1> SUFFICES ASSUME Checkout!Init PROVE BusInv /\ CartInv
  OBVIOUS
<1> DEFINE Empty == [state |-> "OPEN", line |-> FALSE, obligation |-> Nothing, reservation |-> Nothing]
<1>1. /\ handled = [e \in Checkout!Events |-> Nothing]
      /\ results = [k \in Checkout!Keys |-> Nothing]
      /\ entries = [c \in Commands |-> Nothing]
      /\ executions = [x \in Executions |-> Checkout!IdleExecution]
      /\ carts = [c \in Carts |-> Empty]
      /\ consumed = {} /\ made = {}
      /\ commitments = [o \in Obligations |-> Nothing]
      /\ checkouts = [x \in Checkouts |-> Checkout!IdleCheckout]
  BY DEF Checkout!Init
<1>2. Empty \in Checkout!CartRows /\ Empty.state = "OPEN" /\ Empty.reservation = Nothing
  BY DEF Checkout!CartRows
<1> HIDE DEF Empty
<1>3. BusInv
  BY <1>1, ExecutionValues DEF BusInv, ResultSound, ExecutionSound
<1>4. CartTypes
  BY <1>1, <1>2, CheckoutRow DEF CartTypes
<1>5. BoughtOnce
  BY <1>1, <1>2 DEF BoughtOnce, Checkout!BoughtOnce
<1>6. CheckoutsSound
  BY <1>1, CheckoutRow DEF CheckoutsSound, CheckoutSound, Apart, Under
<1> QED BY <1>3, <1>4, <1>5, <1>6 DEF CartInv

LEMMA CheckoutKept == BusInv /\ CartInv /\ Checkout!Next => BusInv' /\ CartInv'
<1> SUFFICES ASSUME BusInv, CartInv, Checkout!Next PROVE BusInv' /\ CartInv'
  OBVIOUS
<1>1. ASSUME NEW x \in Executions, BusStep(x)
      PROVE  BusInv' /\ CartInv'
  <2>1. UNCHANGED <<carts, consumed, commitments, checkouts, made>>
    BY <1>1 DEF BusStep, Checkout!BeginExecution, Checkout!Reject, Checkout!Handle,
                Checkout!HandlerReturns, Checkout!HandlerThrows, Checkout!Settle, Checkout!cartVars
  <2> QED BY <1>1, <2>1, BusKept, BusKeepsCarts
<1>2. ASSUME UNCHANGED <<handled, results, entries, executions>>
      PROVE  BusInv'
  BY <1>2 DEF BusInv, ResultSound, ExecutionSound
<1>3. ASSUME NEW c \in Carts, Checkout!setSingleLine(c) \/ Checkout!abandon(c)
      PROVE  BusInv' /\ CartInv'
  <2>1. carts[c] \in Checkout!CartRows /\ carts[c].state = "OPEN"
    BY <1>3 DEF CartInv, CartTypes, Checkout!setSingleLine, Checkout!abandon, Checkout!requireOpen
  <2>2. /\ UNCHANGED <<consumed, commitments, checkouts, made>>
        /\ UNCHANGED <<handled, results, entries, executions>>
    BY <1>3 DEF Checkout!setSingleLine, Checkout!abandon, Checkout!busVars
  <2>3. CASE carts' = [carts EXCEPT ![c] = [carts[c] EXCEPT !.line = TRUE]]
    <3>1. /\ [carts[c] EXCEPT !.line = TRUE] \in Checkout!CartRows
          /\ [carts[c] EXCEPT !.line = TRUE].state = "OPEN"
          /\ [carts[c] EXCEPT !.line = TRUE].reservation = carts[c].reservation
      BY <2>1, CartRow
    <3> QED BY <1>2, <2>1, <2>2, <2>3, <3>1, OpenCartMoves
  <2>4. CASE carts' = [carts EXCEPT ![c] = [carts[c] EXCEPT !.state = "ABANDONED"]]
    <3>1. /\ [carts[c] EXCEPT !.state = "ABANDONED"] \in Checkout!CartRows
          /\ [carts[c] EXCEPT !.state = "ABANDONED"].state = "ABANDONED"
          /\ [carts[c] EXCEPT !.state = "ABANDONED"].reservation = carts[c].reservation
      BY <2>1, CartRow
    <3> QED BY <1>2, <2>1, <2>2, <2>4, <3>1, OpenCartMoves
  <2> QED BY <1>3, <2>3, <2>4 DEF Checkout!setSingleLine, Checkout!abandon
<1>4. ASSUME NEW x \in Checkouts, NEW c \in Carts, NEW o \in Obligations,
             NEW a \in Checkout!Authorizations, NEW eligible \in BOOLEAN,
             Checkout!StartCheckout(x, c, o, a, eligible)
      PROVE  BusInv' /\ CartInv'
  BY <1>2, <1>4, StartKeepsCarts DEF Checkout!StartCheckout, Checkout!busVars
<1>5. ASSUME NEW x \in Checkouts, Checkout!Verify(x)
      PROVE  BusInv' /\ CartInv'
  BY <1>2, <1>5, VerifyKeepsCarts DEF Checkout!Verify, Checkout!busVars
<1>6. ASSUME NEW x \in Checkouts, Checkout!markCheckedOut(x) \/ Checkout!FailCheckout(x)
      PROVE  BusInv' /\ CartInv'
  BY <1>2, <1>6, EndKeepsCarts DEF Checkout!markCheckedOut, Checkout!FailCheckout, Checkout!busVars
<1> QED BY <1>1, <1>3, <1>4, <1>5, <1>6 DEF Checkout!Next, BusStep

LEMMA CheckoutAlways == PilotSpec => [](BusInv /\ CartInv)
<1>1. PilotInit => BusInv /\ CartInv
  BY CheckoutInitially DEF PilotInit
<1>2. BusInv /\ CartInv /\ [PilotNext]_<<service, vars, checkoutVars>> => BusInv' /\ CartInv'
  <2> SUFFICES ASSUME BusInv, CartInv, [PilotNext]_<<service, vars, checkoutVars>>
               PROVE  BusInv' /\ CartInv'
    OBVIOUS
  <2>1. CASE UNCHANGED checkoutVars
    <3>1. BusInv'
      BY <2>1 DEF checkoutVars, BusInv, ResultSound, ExecutionSound
    <3>2. CartInv'
      BY <2>1, BusKeepsCarts DEF checkoutVars
    <3> QED BY <3>1, <3>2
  <2>2. CASE Checkout!Next
    BY <2>2, CheckoutKept
  <2> QED BY <2>1, <2>2 DEF PilotNext
<1> QED BY <1>1, <1>2, PTL DEF PilotSpec

(* Every key has one proof, though handlers of one key run side by side    *)
(* and commands are retried under it: putIfAbsent of packages/application  *)
(* keeps the first, and every execution answers and records what was kept. *)
THEOREM ProofsAlwaysAgree == PilotSpec => []ProofsAgree
<1>1. BusInv /\ CartInv => ProofsAgree
  <2> SUFFICES ASSUME BusInv, CartInv PROVE ProofsAgree
    OBVIOUS
  <2>1. Checkout!TypeOK
    BY DEF BusInv, CartInv, CartTypes, Checkout!TypeOK
  <2>2. \A c \in Commands : results[KeyOf[c]] \notin {Nothing, 0} => handled[results[KeyOf[c]]] = KeyOf[c]
    BY KeysAndEvents DEF BusInv, ResultSound
  <2> QED BY <2>1, <2>2 DEF BusInv, ProofsAgree, Checkout!ProofsAgree
<1> QED BY <1>1, CheckoutAlways, PTL

(* No authorisation and no cart is bought with twice, whatever checkouts   *)
(* and executions overlap at their awaits (packages/pilot-checkout and the *)
(* demand ledger): a checkout under way keeps its cart to itself, and its  *)
(* authorisation while it waits for the proof.                             *)
THEOREM AlwaysBoughtOnce == PilotSpec => []BoughtOnce
<1>1. CartInv => BoughtOnce
  BY DEF CartInv
<1> QED BY <1>1, CheckoutAlways, PTL

-----------------------------------------------------------------------------

(* A sum counts units, and a unit is an item and a number up to what the   *)
(* item weighs: its quantity if it is summed over, nothing if it is not.   *)
Weight(S, f, x) == IF x \in S THEN f[x] ELSE 0

(* Quantities of finitely many items. *)
Summable(S, f) == IsFiniteSet(S) /\ \A x \in S : f[x] \in Nat

LEMMA UnitOf ==
  ASSUME NEW S, NEW f, Summable(S, f), NEW u
  PROVE  u \in Units(S, f) <=> \E x \in S, n \in Nat \ {0} : n <= f[x] /\ u = <<x, n>>
BY DEF Units, Summable

LEMMA UnitPair ==
  ASSUME NEW S, NEW f, Summable(S, f), NEW x, NEW n
  PROVE  <<x, n>> \in Units(S, f) <=> x \in S /\ n \in Nat \ {0} /\ n <= f[x]
BY UnitOf

LEMMA UnitsFinite ==
  ASSUME NEW S, NEW f, Summable(S, f)
  PROVE  IsFiniteSet(Units(S, f)) /\ SumOver(S, f) \in Nat
<1> DEFINE g == [x \in S |-> {x} \X (1..f[x])]
           T == {{x} \X (1..f[x]) : x \in S}
<1>1. g \in Surjection(S, T)
  BY DEF Surjection
<1>2. IsFiniteSet(T)
  BY <1>1, FS_Surjection DEF Summable
<1>3. ASSUME NEW x \in S PROVE IsFiniteSet({x} \X (1..f[x]))
  <2>1. f[x] \in Int /\ 1 \in Int
    BY DEF Summable
  <2>2. IsFiniteSet(1..f[x])
    BY <2>1, FS_Interval
  <2>3. IsFiniteSet({x})
    BY FS_Singleton
  <2> QED BY <2>2, <2>3, FS_Product
<1>4. \A t \in T : IsFiniteSet(t)
  BY <1>3
<1>5. IsFiniteSet(UNION T)
  BY <1>2, <1>4, FS_UNION
<1> QED BY <1>5, FS_CardinalityType DEF Units, SumOver

(* What weighs no more counts no more. *)
LEMMA SumLeq ==
  ASSUME NEW S, NEW f, Summable(S, f), NEW T, NEW g, Summable(T, g),
         \A x \in S : Weight(S, f, x) <= Weight(T, g, x)
  PROVE  SumOver(S, f) <= SumOver(T, g)
<1>1. ASSUME NEW u \in Units(S, f) PROVE u \in Units(T, g)
  <2>1. PICK x \in S, n \in Nat \ {0} : n <= f[x] /\ u = <<x, n>>
    BY UnitOf
  <2>2. f[x] \in Nat /\ f[x] <= Weight(T, g, x)
    BY DEF Summable, Weight
  <2>3. x \in T /\ g[x] \in Nat /\ n <= g[x]
    BY <2>1, <2>2 DEF Summable, Weight
  <2> QED BY <2>1, <2>2, <2>3, UnitPair
<1> QED BY <1>1, UnitsFinite, FS_Subset DEF SumOver

(* What weighs the same counts the same. *)
LEMMA SumSame ==
  ASSUME NEW S, NEW f, Summable(S, f), NEW T, NEW g, Summable(T, g),
         \A x \in S \cup T : Weight(S, f, x) = Weight(T, g, x)
  PROVE  SumOver(S, f) = SumOver(T, g)
<1>1. \A x \in S : Weight(S, f, x) \in Nat /\ Weight(S, f, x) = Weight(T, g, x)
  BY DEF Weight, Summable
<1>2. \A x \in T : Weight(T, g, x) \in Nat /\ Weight(S, f, x) = Weight(T, g, x)
  BY DEF Weight, Summable
<1>3. SumOver(S, f) <= SumOver(T, g)
  BY <1>1, SumLeq
<1>4. SumOver(T, g) <= SumOver(S, f)
  BY <1>2, SumLeq
<1> QED BY <1>3, <1>4, UnitsFinite

(* One item that weighs d more adds d. *)
LEMMA SumAdd ==
  ASSUME NEW S, NEW f, Summable(S, f), NEW T, NEW g, Summable(T, g),
         NEW x, NEW d \in Nat, Weight(T, g, x) = Weight(S, f, x) + d,
         \A y \in S \cup T : y # x => Weight(T, g, y) = Weight(S, f, y)
  PROVE  SumOver(T, g) = SumOver(S, f) + d
<1> DEFINE w == Weight(S, f, x)
           New == {x} \X ((w + 1)..(w + d))
<1>1. w \in Nat
  BY DEF Weight, Summable
<1>2. IsFiniteSet(New) /\ Cardinality(New) = d
  <2> DEFINE a == w + 1
             b == w + d
  <2>1. a \in Int /\ b \in Int /\ a <= b + 1 /\ b - a + 1 = d
    BY <1>1
  <2> HIDE DEF a, b
  <2>2. IsFiniteSet(a..b) /\ Cardinality(a..b) = IF a > b THEN 0 ELSE b - a + 1
    BY <2>1, FS_Interval
  <2>3. Cardinality(a..b) = d
    BY <2>1, <2>2
  <2>4. IsFiniteSet({x}) /\ Cardinality({x}) = 1
    BY FS_Singleton
  <2>5. IsFiniteSet({x} \X (a..b)) /\ Cardinality({x} \X (a..b)) = 1 * d
    BY <2>2, <2>3, <2>4, FS_Product
  <2> QED BY <2>5 DEF a, b
<1>3. Units(S, f) \cap New = {}
  <2> SUFFICES ASSUME NEW u \in Units(S, f), u \in New PROVE FALSE
    OBVIOUS
  <2>1. PICK y \in S, n \in Nat \ {0} : n <= f[y] /\ u = <<y, n>>
    BY UnitOf
  <2>2. y = x /\ n \in (w + 1)..(w + d)
    BY <2>1
  <2> QED BY <1>1, <2>1, <2>2 DEF Weight, Summable
<1>4. Units(T, g) = Units(S, f) \cup New
  <2>1. ASSUME NEW u \in Units(T, g) PROVE u \in Units(S, f) \cup New
    <3>1. PICK y \in T, n \in Nat \ {0} : n <= g[y] /\ u = <<y, n>>
      BY UnitOf
    <3>2. CASE y = x
      <4>1. g[y] = w + d /\ n \in Int /\ 1 <= n /\ n <= w + d
        BY <1>1, <3>1, <3>2 DEF Weight
      <4>2. CASE n <= w
        <5>1. x \in S /\ f[x] = w
          BY <4>1, <4>2, <1>1 DEF Weight
        <5> QED BY <3>1, <3>2, <4>1, <4>2, <5>1, UnitPair
      <4>3. CASE n > w
        <5>1. n \in (w + 1)..(w + d)
          BY <4>1, <4>3, <1>1
        <5> QED BY <3>1, <3>2, <5>1
      <4> QED BY <1>1, <4>1, <4>2, <4>3
    <3>3. CASE y # x
      <4>1. g[y] = Weight(S, f, y) /\ g[y] >= 1
        BY <3>1, <3>3 DEF Weight, Summable
      <4>2. y \in S /\ n <= f[y]
        BY <3>1, <4>1 DEF Weight
      <4> QED BY <3>1, <4>2, UnitPair
    <3> QED BY <3>2, <3>3
  <2>2. ASSUME NEW u \in Units(S, f) PROVE u \in Units(T, g)
    <3>1. PICK y \in S, n \in Nat \ {0} : n <= f[y] /\ u = <<y, n>>
      BY UnitOf
    <3>2. f[y] \in Nat /\ f[y] <= Weight(T, g, y) /\ n \in Nat /\ 1 <= n /\ n <= f[y]
      BY <3>1 DEF Weight, Summable
    <3>3. y \in T /\ g[y] \in Nat /\ n <= g[y]
      BY <3>2 DEF Weight, Summable
    <3> QED BY <3>1, <3>2, <3>3, UnitPair
  <2>3. ASSUME NEW u \in New PROVE u \in Units(T, g)
    <3>1. PICK n \in (w + 1)..(w + d) : u = <<x, n>>
      OBVIOUS
    <3>2. x \in T /\ g[x] = w + d
      BY <1>1, <3>1 DEF Weight
    <3> QED BY <1>1, <3>1, <3>2, UnitPair
  <2> QED BY <2>1, <2>2, <2>3
<1>5. Cardinality(Units(S, f) \cup New) = Cardinality(Units(S, f)) + d - 0
  BY <1>2, <1>3, UnitsFinite, FS_Union, FS_EmptySet
<1> QED BY <1>4, <1>5, UnitsFinite DEF SumOver

(* Adding two quantities of each item adds their sums: the units of the    *)
(* second are numbered after those of the first.                           *)
LEMMA SumPlus ==
  ASSUME NEW S, NEW f, Summable(S, f), NEW g, Summable(S, g), NEW h,
         \A x \in S : h[x] = f[x] + g[x]
  PROVE  Summable(S, h) /\ SumOver(S, h) = SumOver(S, f) + SumOver(S, g)
<1> DEFINE Rest == Units(S, h) \ Units(S, f)
           shift == [u \in Units(S, g) |-> <<u[1], f[u[1]] + u[2]>>]
<1>1. Summable(S, h) /\ \A x \in S : f[x] \in Nat /\ g[x] \in Nat
  BY DEF Summable
<1>2. Units(S, f) \subseteq Units(S, h)
  <2> SUFFICES ASSUME NEW u \in Units(S, f) PROVE u \in Units(S, h)
    OBVIOUS
  <2>1. PICK x \in S, n \in Nat \ {0} : n <= f[x] /\ u = <<x, n>>
    BY UnitOf
  <2>2. n <= h[x]
    BY <1>1, <2>1
  <2> QED BY <1>1, <2>1, <2>2, UnitPair
<1>3. shift \in [Units(S, g) -> Rest]
  <2> SUFFICES ASSUME NEW u \in Units(S, g) PROVE <<u[1], f[u[1]] + u[2]>> \in Rest
    OBVIOUS
  <2>1. PICK x \in S, n \in Nat \ {0} : n <= g[x] /\ u = <<x, n>>
    BY UnitOf
  <2>2. f[x] + n \in Nat \ {0} /\ f[x] + n <= h[x] /\ ~(f[x] + n <= f[x])
    BY <1>1, <2>1
  <2>3. <<x, f[x] + n>> \in Rest
    BY <1>1, <2>2, UnitPair
  <2> QED BY <2>1, <2>3
<1>4. \A u, v \in Units(S, g) : shift[u] = shift[v] => u = v
  <2> SUFFICES ASSUME NEW u \in Units(S, g), NEW v \in Units(S, g),
                      <<u[1], f[u[1]] + u[2]>> = <<v[1], f[v[1]] + v[2]>>
               PROVE  u = v
    OBVIOUS
  <2>1. PICK x \in S, n \in Nat \ {0} : n <= g[x] /\ u = <<x, n>>
    BY UnitOf
  <2>2. PICK y \in S, m \in Nat \ {0} : m <= g[y] /\ v = <<y, m>>
    BY UnitOf
  <2>3. x = y /\ f[x] + n = f[y] + m
    BY <2>1, <2>2
  <2>4. n = m
    BY <1>1, <2>3
  <2> QED BY <2>1, <2>2, <2>3, <2>4
<1>5. \A r \in Rest : \E u \in Units(S, g) : shift[u] = r
  <2> SUFFICES ASSUME NEW r \in Rest PROVE \E u \in Units(S, g) : shift[u] = r
    OBVIOUS
  <2>1. PICK x \in S, n \in Nat \ {0} : n <= h[x] /\ r = <<x, n>>
    BY <1>1, UnitOf
  <2>2. ~(n <= f[x])
    BY <2>1, UnitPair
  <2> DEFINE m == n - f[x]
  <2>3. m \in Nat \ {0} /\ m <= g[x] /\ f[x] + m = n
    BY <1>1, <2>1, <2>2
  <2> HIDE DEF m
  <2>4. <<x, m>> \in Units(S, g)
    BY <2>3, UnitPair
  <2>5. shift[<<x, m>>] = r
    BY <2>1, <2>3, <2>4
  <2> QED BY <2>4, <2>5
<1>6. shift \in Bijection(Units(S, g), Rest)
  BY <1>3, <1>4, <1>5 DEF Bijection, Injection, Surjection, IsInjective
<1>7. Cardinality(Rest) = Cardinality(Units(S, g))
  BY <1>6, UnitsFinite, FS_Bijection DEF ExistsBijection
<1>8. Cardinality(Rest) = Cardinality(Units(S, h)) - Cardinality(Units(S, f))
  <2>1. Units(S, h) \cap Units(S, f) = Units(S, f)
    BY <1>2
  <2>2. IsFiniteSet(Units(S, h))
    BY <1>1, UnitsFinite
  <2>3. Cardinality(Units(S, h) \ Units(S, f)) =
          Cardinality(Units(S, h)) - Cardinality(Units(S, h) \cap Units(S, f))
    BY <2>2, FS_Difference
  <2> QED BY <2>1, <2>3
<1> QED BY <1>1, <1>7, <1>8, UnitsFinite DEF SumOver

(* A sum of bounded quantities is bounded, and a sum of nothing is zero.   *)
LEMMA SumBound ==
  ASSUME NEW S, NEW f, Summable(S, f), NEW m \in Nat, \A x \in S : f[x] <= m
  PROVE  SumOver(S, f) <= Cardinality(S) * m
<1>1. Units(S, f) \subseteq S \X (1..m)
  <2> SUFFICES ASSUME NEW u \in Units(S, f) PROVE u \in S \X (1..m)
    OBVIOUS
  <2>1. PICK x \in S, n \in Nat \ {0} : n <= f[x] /\ u = <<x, n>>
    BY UnitOf
  <2>2. n \in 1..m
    BY <2>1 DEF Summable
  <2> QED BY <2>1, <2>2
<1>2. IsFiniteSet(1..m) /\ Cardinality(1..m) = m
  <2>1. 1 \in Int /\ m \in Int /\ (1 > m => m = 0)
    OBVIOUS
  <2>2. IsFiniteSet(1..m) /\ Cardinality(1..m) = IF 1 > m THEN 0 ELSE m - 1 + 1
    BY <2>1, FS_Interval
  <2> QED BY <2>1, <2>2
<1>3. IsFiniteSet(S \X (1..m)) /\ Cardinality(S \X (1..m)) = Cardinality(S) * m
  BY <1>2, FS_Product DEF Summable
<1> QED BY <1>1, <1>3, FS_Subset DEF SumOver

LEMMA SumNone ==
  ASSUME NEW S, NEW f, Summable(S, f), \A x \in S : f[x] = 0
  PROVE  SumOver(S, f) = 0
<1>1. Units(S, f) = {}
  <2> SUFFICES ASSUME NEW u \in Units(S, f) PROVE FALSE
    OBVIOUS
  <2>1. PICK x \in S, n \in Nat \ {0} : n <= f[x] /\ u = <<x, n>>
    BY UnitOf
  <2> QED BY <2>1
<1> QED BY <1>1, FS_EmptySet DEF SumOver

-----------------------------------------------------------------------------
(* The invariant of goods and orders: the ledgers hold records of their    *)
(* kinds, orders are not allocated more than they ask for, goods are       *)
(* conserved, positions tell what the other ledgers add up to, remedies    *)
(* stay within their exceptions, and the history tells the positions.      *)

LotRows == [received : BOOLEAN, source : BOOLEAN, capacity : Quantities,
            quality : {"NONE", "ACCEPTED", "QUARANTINED"}, consumed : Quantities]
AllocationRows == [lot : Lots \cup {Undefined}, order : Orders \cup {Undefined},
                   quantity : Quantities, state : Stages, work : Quantities,
                   accepted : Quantities]
ExceptionRows == [order : Orders \cup {Undefined}, affected : Quantities,
                  acceptance : Allocations \cup {Undefined}]
RemedyRows == [exception : Exceptions \cup {Undefined}, quantity : Quantities,
               completed : Quantities]

(* What the types of the rows do not say: a source lot was received, work  *)
(* and acceptance stay within what was allocated, an allocation that was   *)
(* not answered accepted nothing, and a remedy is of a declared exception. *)
LotSound(row) == row.source => row.received /\ row.capacity > 0
AllocationSound(row) ==
  /\ row.state = "NONE" => row = NoAllocation
  /\ row.work <= row.quantity /\ row.accepted <= row.work
  /\ row.state \notin Answered => row.accepted = 0
  /\ row.state = "ACCEPTED" => row.accepted = row.work
  /\ row.state = "REJECTED" => row.accepted = 0

LedgersTyped ==
  /\ lots \in [Lots -> LotRows] /\ \A l \in Lots : LotSound(lots[l])
  /\ lost \in Nat
  /\ allocations \in [Allocations -> AllocationRows]
  /\ \A a \in Allocations : AllocationSound(allocations[a])
  /\ exceptions \in [Exceptions -> ExceptionRows]
  /\ remedies \in [Remedies -> RemedyRows]
  /\ \A r \in Remedies : IF remedies[r].exception = Undefined THEN remedies[r] = NoRemedy
                         ELSE exceptions[remedies[r].exception].order # Undefined
  /\ resolution \in [Orders -> [performed : Quantities, remedied : Quantities]]

AllocatedWithin == \A o \in Orders : allocatedForObligation(o) <= Ordered[o]

PositionsAgree ==
  \A o \in Orders :
    /\ resolution[o].performed + resolution[o].remedied <= Ordered[o]
    /\ resolution[o].performed = acceptedFor(o)
    /\ resolution[o].remedied = completedFor(o)
PromisesWithin == \A e \in Exceptions : promisedFor(e) <= exceptions[e].affected
RowsAgree ==
  rows = [o \in Orders |-> [performed |-> resolution[o].performed,
                            remedied |-> resolution[o].remedied,
                            unresolved |-> unresolved(o)]]

FulfillmentInv ==
  LedgersTyped /\ AllocatedWithin /\ GoodsConserved /\ PositionsAgree /\ PromisesWithin /\ RowsAgree

-----------------------------------------------------------------------------
(* How the sums over the ledgers move when one record does.                *)

LEMMA Amounts ==
  /\ MaxLot \in Nat
  /\ \A q \in Quantities : q \in Nat /\ q <= MaxLot
  /\ \A q \in Nat : q <= MaxLot => q \in Quantities
  /\ \A o \in Orders : Ordered[o] \in Nat /\ Ordered[o] <= MaxLot
BY PilotFulfillmentAssumption DEF Quantities

(* What one record adds to the sum of a lot, an order or an exception.     *)
LotShare(a, l) == IF allocations[a].lot = l THEN allocations[a].quantity ELSE 0
OrderShare(a, o) == IF allocations[a].order = o THEN allocations[a].quantity ELSE 0
AcceptedShare(a, o) == IF allocations[a].order = o THEN allocations[a].accepted ELSE 0
PromisedShare(r, e) == IF remedies[r].exception = e THEN remedies[r].quantity ELSE 0
CompletedShare(r, o) ==
  IF \E e \in Exceptions : remedies[r].exception = e /\ exceptions[e].order = o
  THEN remedies[r].completed ELSE 0

LEMMA FiniteLedgers ==
  /\ \A S : S \subseteq Lots => IsFiniteSet(S)
  /\ \A S : S \subseteq Allocations => IsFiniteSet(S)
  /\ \A S : S \subseteq Remedies => IsFiniteSet(S)
<1>1. ASSUME NEW L, IsFiniteSet(L), NEW S, S \subseteq L PROVE IsFiniteSet(S)
  BY <1>1, FS_Subset
<1> QED BY <1>1, PilotFulfillmentAssumption

LEMMA LotSumMoves ==
  ASSUME LedgersTyped, LedgersTyped', NEW a \in Allocations, NEW l, NEW d \in Nat,
         \A b \in Allocations : b # a => allocations'[b] = allocations[b],
         LotShare(a, l)' = LotShare(a, l) + d
  PROVE  allocatedForLot(l) \in Nat /\ allocatedForLot(l)' = allocatedForLot(l) + d
<1> DEFINE S == {b \in Allocations : allocations[b].lot = l}
           T == {b \in Allocations : allocations'[b].lot = l}
           f == [b \in Allocations |-> allocations[b].quantity]
           g == [b \in Allocations |-> allocations'[b].quantity]
<1>1. Summable(S, f) /\ Summable(T, g)
  BY FiniteLedgers, Amounts DEF Summable, LedgersTyped, AllocationRows
<1>2. \A b \in S \cup T : b # a => Weight(T, g, b) = Weight(S, f, b)
  BY DEF Weight
<1>3. Weight(T, g, a) = Weight(S, f, a) + d
  BY DEF Weight, LotShare
<1>4. SumOver(T, g) = SumOver(S, f) + d /\ SumOver(S, f) \in Nat
  BY <1>1, <1>2, <1>3, SumAdd, UnitsFinite
<1> QED BY <1>4 DEF allocatedForLot

LEMMA OrderSumMoves ==
  ASSUME LedgersTyped, LedgersTyped', NEW a \in Allocations, NEW o, NEW d \in Nat,
         \A b \in Allocations : b # a => allocations'[b] = allocations[b],
         OrderShare(a, o)' = OrderShare(a, o) + d
  PROVE  /\ allocatedForObligation(o) \in Nat
         /\ allocatedForObligation(o)' = allocatedForObligation(o) + d
<1> DEFINE S == {b \in Allocations : allocations[b].order = o}
           T == {b \in Allocations : allocations'[b].order = o}
           f == [b \in Allocations |-> allocations[b].quantity]
           g == [b \in Allocations |-> allocations'[b].quantity]
<1>1. Summable(S, f) /\ Summable(T, g)
  BY FiniteLedgers, Amounts DEF Summable, LedgersTyped, AllocationRows
<1>2. \A b \in S \cup T : b # a => Weight(T, g, b) = Weight(S, f, b)
  BY DEF Weight
<1>3. Weight(T, g, a) = Weight(S, f, a) + d
  BY DEF Weight, OrderShare
<1>4. SumOver(T, g) = SumOver(S, f) + d /\ SumOver(S, f) \in Nat
  BY <1>1, <1>2, <1>3, SumAdd, UnitsFinite
<1> QED BY <1>4 DEF allocatedForObligation

LEMMA AcceptedSumMoves ==
  ASSUME LedgersTyped, LedgersTyped', NEW a \in Allocations, NEW o, NEW d \in Nat,
         \A b \in Allocations : b # a => allocations'[b] = allocations[b],
         AcceptedShare(a, o)' = AcceptedShare(a, o) + d
  PROVE  acceptedFor(o) \in Nat /\ acceptedFor(o)' = acceptedFor(o) + d
<1> DEFINE S == {b \in Allocations : allocations[b].order = o}
           T == {b \in Allocations : allocations'[b].order = o}
           f == [b \in Allocations |-> allocations[b].accepted]
           g == [b \in Allocations |-> allocations'[b].accepted]
<1>1. Summable(S, f) /\ Summable(T, g)
  BY FiniteLedgers, Amounts DEF Summable, LedgersTyped, AllocationRows
<1>2. \A b \in S \cup T : b # a => Weight(T, g, b) = Weight(S, f, b)
  BY DEF Weight
<1>3. Weight(T, g, a) = Weight(S, f, a) + d
  BY DEF Weight, AcceptedShare
<1>4. SumOver(T, g) = SumOver(S, f) + d /\ SumOver(S, f) \in Nat
  BY <1>1, <1>2, <1>3, SumAdd, UnitsFinite
<1> QED BY <1>4 DEF acceptedFor

LEMMA PromisedSumMoves ==
  ASSUME LedgersTyped, LedgersTyped', NEW r \in Remedies, NEW e, NEW d \in Nat,
         \A x \in Remedies : x # r => remedies'[x] = remedies[x],
         PromisedShare(r, e)' = PromisedShare(r, e) + d
  PROVE  promisedFor(e) \in Nat /\ promisedFor(e)' = promisedFor(e) + d
<1> DEFINE S == {x \in Remedies : remedies[x].exception = e}
           T == {x \in Remedies : remedies'[x].exception = e}
           f == [x \in Remedies |-> remedies[x].quantity]
           g == [x \in Remedies |-> remedies'[x].quantity]
<1>1. Summable(S, f) /\ Summable(T, g)
  BY FiniteLedgers, Amounts DEF Summable, LedgersTyped, RemedyRows
<1>2. \A x \in S \cup T : x # r => Weight(T, g, x) = Weight(S, f, x)
  BY DEF Weight
<1>3. Weight(T, g, r) = Weight(S, f, r) + d
  BY DEF Weight, PromisedShare
<1>4. SumOver(T, g) = SumOver(S, f) + d /\ SumOver(S, f) \in Nat
  BY <1>1, <1>2, <1>3, SumAdd, UnitsFinite
<1> QED BY <1>4 DEF promisedFor

LEMMA CompletedSumMoves ==
  ASSUME LedgersTyped, LedgersTyped', NEW r \in Remedies, NEW o, NEW d \in Nat,
         \A x \in Remedies : x # r => CompletedShare(x, o)' = CompletedShare(x, o),
         CompletedShare(r, o)' = CompletedShare(r, o) + d
  PROVE  completedFor(o) \in Nat /\ completedFor(o)' = completedFor(o) + d
<1> DEFINE S == {x \in Remedies : \E e \in Exceptions : remedies[x].exception = e
                                                        /\ exceptions[e].order = o}
           T == {x \in Remedies : \E e \in Exceptions : remedies'[x].exception = e
                                                        /\ exceptions'[e].order = o}
           f == [x \in Remedies |-> remedies[x].completed]
           g == [x \in Remedies |-> remedies'[x].completed]
<1>1. Summable(S, f) /\ Summable(T, g)
  BY FiniteLedgers, Amounts DEF Summable, LedgersTyped, RemedyRows
<1>2. \A x \in Remedies : /\ Weight(S, f, x) = CompletedShare(x, o)
                          /\ Weight(T, g, x) = CompletedShare(x, o)'
  BY DEF Weight, CompletedShare
<1>3. /\ Weight(T, g, r) = Weight(S, f, r) + d
      /\ \A x \in S \cup T : x # r => Weight(T, g, x) = Weight(S, f, x)
  BY <1>2
<1> HIDE DEF S, T, f, g
<1>4. SumOver(T, g) = SumOver(S, f) + d /\ SumOver(S, f) \in Nat
  BY <1>1, <1>3, SumAdd, UnitsFinite
<1> QED BY <1>4 DEF completedFor, S, T, f, g

-----------------------------------------------------------------------------
(* The lots: what came in, and what remains.                               *)

CameIn == SumOver({l \in Lots : lots[l].source}, [l \in Lots |-> lots[l].capacity])
Remains == SumOver(Lots, [l \in Lots |-> remaining(l)])
LotsCovered == \A l \in Lots : lots[l].consumed + allocatedForLot(l) <= lots[l].capacity
NothingLost == CameIn = Remains + lost

LEMMA GoodsParts == GoodsConserved <=> LotsCovered /\ NothingLost
BY DEF GoodsConserved, LotsCovered, NothingLost, CameIn, Remains

LEMMA AllocatedNat ==
  ASSUME LedgersTyped, NEW l
  PROVE  allocatedForLot(l) \in Nat
<1> DEFINE S == {b \in Allocations : allocations[b].lot = l}
           f == [b \in Allocations |-> allocations[b].quantity]
<1>1. Summable(S, f)
  BY FiniteLedgers, Amounts DEF Summable, LedgersTyped, AllocationRows
<1> QED BY <1>1, UnitsFinite DEF allocatedForLot

LotsAmount ==
  /\ \A l \in Lots : /\ lots[l].capacity \in Nat /\ lots[l].consumed \in Nat
                     /\ lots[l].capacity <= MaxLot
                     /\ remaining(l) \in Nat /\ allocatedForLot(l) <= remaining(l)
  /\ Summable({l \in Lots : lots[l].source}, [l \in Lots |-> lots[l].capacity])
  /\ Summable(Lots, [l \in Lots |-> remaining(l)])
  /\ CameIn \in Nat /\ Remains \in Nat

LEMMA LotAmounts ==
  LedgersTyped /\ LotsCovered => LotsAmount
<1> SUFFICES ASSUME LedgersTyped, LotsCovered PROVE LotsAmount
  OBVIOUS
<1>1. \A l \in Lots : /\ lots[l].capacity \in Nat /\ lots[l].consumed \in Nat
                      /\ lots[l].capacity <= MaxLot /\ allocatedForLot(l) \in Nat
  BY Amounts, AllocatedNat DEF LedgersTyped, LotRows
<1>2. \A l \in Lots : remaining(l) \in Nat /\ allocatedForLot(l) <= remaining(l)
  BY <1>1 DEF remaining, LotsCovered
<1>3. /\ Summable({l \in Lots : lots[l].source}, [l \in Lots |-> lots[l].capacity])
      /\ Summable(Lots, [l \in Lots |-> remaining(l)])
  BY <1>1, <1>2, FiniteLedgers DEF Summable
<1> QED BY <1>1, <1>2, <1>3, UnitsFinite DEF CameIn, Remains, LotsAmount

(* One lot brings d more in, all of which remains. *)
LEMMA LotArrives ==
  ASSUME LedgersTyped, LedgersTyped', LotsCovered, LotsCovered', NEW x \in Lots, NEW d \in Nat,
         \A l \in Lots : l # x => lots'[l] = lots[l],
         remaining(x)' = remaining(x) + d,
         \/ lots'[x].source = lots[x].source /\ d = 0 /\ lots'[x].capacity = lots[x].capacity
         \/ lots'[x].source /\ ~lots[x].source /\ lots'[x].capacity = d
  PROVE  CameIn' = CameIn + d /\ Remains' = Remains + d
<1> DEFINE S == {l \in Lots : lots[l].source}
           T == {l \in Lots : lots'[l].source}
           f == [l \in Lots |-> lots[l].capacity]
           g == [l \in Lots |-> lots'[l].capacity]
           r == [l \in Lots |-> remaining(l)]
           q == [l \in Lots |-> remaining(l)']
<1>1. Summable(S, f) /\ Summable(T, g) /\ Summable(Lots, r) /\ Summable(Lots, q)
  <2>1. LotsAmount /\ LotsAmount'
    BY LotAmounts, PTL
  <2> QED BY <2>1 DEF LotsAmount
<1>2. \A l \in Lots : lots[l].capacity \in Nat
  BY LotAmounts DEF LotsAmount
<1>3. \A l \in S \cup T : l # x => Weight(T, g, l) = Weight(S, f, l)
  BY DEF Weight
<1>4. Weight(T, g, x) = Weight(S, f, x) + d
  BY <1>2 DEF Weight
<1>5. \A l \in Lots : l # x => Weight(Lots, q, l) = Weight(Lots, r, l)
  BY DEF Weight, remaining
<1>6. Weight(Lots, q, x) = Weight(Lots, r, x) + d
  BY DEF Weight
<1>7. SumOver(T, g) = SumOver(S, f) + d
  BY <1>1, <1>3, <1>4, SumAdd
<1>8. SumOver(Lots, q) = SumOver(Lots, r) + d
  <2> HIDE DEF q, r
  <2> QED BY <1>1, <1>5, <1>6, SumAdd
<1> QED BY <1>7, <1>8 DEF CameIn, Remains

(* What the other ledgers say when they do not move. *)
LEMMA OrdersUnmoved ==
  ASSUME FulfillmentInv, UNCHANGED <<allocations, exceptions, remedies, resolution, rows>>
  PROVE  AllocatedWithin' /\ PositionsAgree' /\ PromisesWithin' /\ RowsAgree'
<1>1. /\ \A o : /\ allocatedForObligation(o)' = allocatedForObligation(o)
                /\ acceptedFor(o)' = acceptedFor(o)
                /\ completedFor(o)' = completedFor(o) /\ unresolved(o)' = unresolved(o)
      /\ \A e : promisedFor(e)' = promisedFor(e)
  BY DEF allocatedForObligation, acceptedFor, completedFor, unresolved, promisedFor
<1> QED BY <1>1 DEF FulfillmentInv, AllocatedWithin, PositionsAgree, PromisesWithin, RowsAgree

LEMMA NoRows ==
  /\ NoLot \in LotRows /\ NoLot.consumed = 0 /\ ~NoLot.source
  /\ NoAllocation \in AllocationRows /\ NoAllocation.state = "NONE"
  /\ NoAllocation.lot = Undefined /\ NoAllocation.order = Undefined
  /\ NoAllocation.quantity = 0 /\ NoAllocation.work = 0 /\ NoAllocation.accepted = 0
  /\ NoException \in ExceptionRows /\ NoException.order = Undefined /\ NoException.affected = 0
  /\ NoRemedy \in RemedyRows /\ NoRemedy.exception = Undefined
  /\ NoRemedy.quantity = 0 /\ NoRemedy.completed = 0
BY Amounts DEF NoLot, NoAllocation, NoException, NoRemedy, LotRows, AllocationRows, ExceptionRows,
               RemedyRows, Quantities, Stages, Answered

(* A lot that is written keeps the ledgers sound if it is covered.         *)
LEMMA LotWritten ==
  ASSUME FulfillmentInv, NEW x \in Lots, NEW row \in LotRows, NEW d \in Nat, LotSound(row),
         lots' = [lots EXCEPT ![x] = row],
         UNCHANGED <<lost, allocations, exceptions, remedies, resolution, rows>>,
         row.capacity - row.consumed = remaining(x) + d,
         IF row.source = lots[x].source THEN d = 0 /\ row.capacity = lots[x].capacity
                                        ELSE row.source /\ row.capacity = d
  PROVE  FulfillmentInv'
<1>1. LedgersTyped /\ LotsCovered /\ NothingLost /\ LotsAmount
  BY GoodsParts, LotAmounts DEF FulfillmentInv
<1>2. lots'[x] = row /\ \A l \in Lots : l # x => lots'[l] = lots[l]
  BY <1>1 DEF LedgersTyped
<1>3. LedgersTyped'
  BY <1>1, <1>2 DEF LedgersTyped
<1>4. \A l : allocatedForLot(l)' = allocatedForLot(l)
  BY DEF allocatedForLot
<1>5. remaining(x)' = remaining(x) + d
  BY <1>2 DEF remaining
<1>6. LotsCovered'
  <2> SUFFICES ASSUME NEW l \in Lots
               PROVE  lots'[l].consumed + allocatedForLot(l)' <= lots'[l].capacity
    BY DEF LotsCovered
  <2>1. CASE l = x
    <3>1. row.capacity \in Nat /\ row.consumed \in Nat
      BY Amounts DEF LotRows
    <3>2. remaining(x) \in Nat /\ allocatedForLot(x) <= remaining(x) /\ allocatedForLot(x) \in Nat
      BY <1>1, AllocatedNat DEF LotsAmount
    <3> QED BY <1>2, <1>4, <2>1, <3>1, <3>2
  <2>2. CASE l # x
    BY <1>1, <1>2, <1>4, <2>2 DEF LotsCovered
  <2> QED BY <2>1, <2>2
<1>7. CameIn' = CameIn + d /\ Remains' = Remains + d
  <2>1. row.source \in BOOLEAN /\ lots[x].source \in BOOLEAN
    BY <1>1 DEF LedgersTyped, LotRows
  <2>2. \/ lots'[x].source = lots[x].source /\ d = 0 /\ lots'[x].capacity = lots[x].capacity
        \/ lots'[x].source /\ ~lots[x].source /\ lots'[x].capacity = d
    BY <1>2, <2>1
  <2> QED BY <1>1, <1>2, <1>3, <1>5, <1>6, <2>2, LotArrives
<1>8. NothingLost'
  BY <1>1, <1>7 DEF NothingLost, LotsAmount, LedgersTyped
<1>9. GoodsConserved'
  BY <1>6, <1>8, GoodsParts, PTL
<1> QED BY <1>3, <1>9, OrdersUnmoved DEF FulfillmentInv

LEMMA LotSteps ==
  ASSUME FulfillmentInv, NEW l \in Lots,
         \/ \E q \in Quantities : receiveLot(l, q)
         \/ \E quality \in {"ACCEPTED", "QUARANTINED"} : assessQuality(l, quality)
         \/ receiveDerivedLot(l)
  PROVE  FulfillmentInv'
<1>1. /\ lots[l] \in LotRows /\ LotSound(lots[l])
      /\ remaining(l) = lots[l].capacity - lots[l].consumed
      /\ remaining(l) \in Nat /\ lots[l].capacity \in Nat /\ lots[l].consumed \in Nat
  BY GoodsParts, LotAmounts DEF FulfillmentInv, LedgersTyped, LotsAmount, remaining
<1>2. ASSUME NEW q \in Quantities, receiveLot(l, q) PROVE FulfillmentInv'
  <2> DEFINE row == [NoLot EXCEPT !.received = TRUE, !.source = TRUE, !.capacity = q]
  <2>0. /\ q > 0 /\ ~lots[l].received /\ lots[l].capacity = 0
        /\ lots' = [lots EXCEPT ![l] = row]
    BY <1>2, Zenon DEF receiveLot
  <2>1. q \in Nat \ {0} /\ q \in Quantities
    BY <2>0, Amounts
  <2>2. row \in LotRows /\ LotSound(row) /\ row.source /\ row.capacity = q /\ row.consumed = 0
    <3>1. row \in LotRows
      BY <2>1, NoRows DEF LotRows
    <3>2. row.source /\ row.received
      BY NoRows DEF LotRows
    <3>3. row.capacity = q /\ row.consumed = 0
      BY NoRows DEF LotRows
    <3> QED BY <2>1, <3>1, <3>2, <3>3, Amounts DEF LotSound
  <2>4. ~lots[l].source /\ remaining(l) = 0
    BY <1>1, <2>0 DEF LotSound
  <2>5. UNCHANGED <<lost, allocations, exceptions, remedies, resolution, rows>>
    BY <1>2 DEF receiveLot, remedyVars, positionVars
  <2> HIDE DEF row
  <2>6. row.capacity - row.consumed = remaining(l) + q
    BY <2>1, <2>2, <2>4
  <2> QED BY <2>0, <2>1, <2>2, <2>4, <2>5, <2>6, LotWritten
<1>3. ASSUME NEW quality \in {"ACCEPTED", "QUARANTINED"}, assessQuality(l, quality)
      PROVE  FulfillmentInv'
  <2> DEFINE row == [lots[l] EXCEPT !.quality = quality]
  <2>1. /\ row \in LotRows /\ LotSound(row) /\ row.source = lots[l].source
        /\ row.capacity = lots[l].capacity /\ row.consumed = lots[l].consumed
    BY <1>1 DEF LotRows, LotSound
  <2>2. lots' = [lots EXCEPT ![l] = row]
    BY <1>3 DEF assessQuality
  <2>3. UNCHANGED <<lost, allocations, exceptions, remedies, resolution, rows>>
    BY <1>3 DEF assessQuality, remedyVars, positionVars
  <2> HIDE DEF row
  <2>4. row.capacity - row.consumed = remaining(l) + 0
    BY <1>1, <2>1
  <2> QED BY <2>1, <2>2, <2>3, <2>4, LotWritten
<1>4. CASE receiveDerivedLot(l)
  <2> DEFINE row == [lots[l] EXCEPT !.received = TRUE]
  <2>1. /\ row \in LotRows /\ LotSound(row) /\ row.source = lots[l].source
        /\ row.capacity = lots[l].capacity /\ row.consumed = lots[l].consumed
    BY <1>1 DEF LotRows, LotSound
  <2>2. lots' = [lots EXCEPT ![l] = row]
    BY <1>4 DEF receiveDerivedLot
  <2>3. UNCHANGED <<lost, allocations, exceptions, remedies, resolution, rows>>
    BY <1>4 DEF receiveDerivedLot, remedyVars, positionVars
  <2> HIDE DEF row
  <2>4. row.capacity - row.consumed = remaining(l) + 0
    BY <1>1, <2>1
  <2> QED BY <2>1, <2>2, <2>3, <2>4, LotWritten
<1> QED BY <1>2, <1>3, <1>4

(* A transform takes from each lot no more than is neither consumed nor    *)
(* allocated, and gives only to lots that never held anything.             *)
LEMMA TransformStep ==
  ASSUME FulfillmentInv, NEW ins \in Inputs, NEW outs \in Outputs, NEW loss \in Quantities,
         transform(ins, outs, loss)
  PROVE  FulfillmentInv'
<1> DEFINE low == [l \in Lots |-> remaining(l) - ins[l]]
           was == [l \in Lots |-> remaining(l)]
           is == [l \in Lots |-> remaining(l)']
<1>1. LedgersTyped /\ LotsCovered /\ NothingLost /\ LotsAmount
  BY GoodsParts, LotAmounts DEF FulfillmentInv
<1>2. /\ UNCHANGED <<allocations, exceptions, remedies, resolution, rows>>
      /\ lost' = lost + loss
      /\ SumOver(Lots, ins) = SumOver(Lots, outs) + loss
      /\ lots' = [l \in Lots |-> [lots[l] EXCEPT !.consumed = @ + ins[l],
                                                !.capacity = @ + outs[l]]]
  BY DEF transform, remedyVars, positionVars, Conserved
<1>3. loss \in Nat /\ \A l \in Lots : ins[l] \in Nat /\ outs[l] \in Nat /\ outs[l] <= MaxLot
  BY Amounts DEF Inputs, Outputs
<1>4. \A l \in Lots : ins[l] + allocatedForLot(l) <= remaining(l)
  <2> SUFFICES ASSUME NEW l \in Lots PROVE ins[l] + allocatedForLot(l) <= remaining(l)
    OBVIOUS
  <2>1. remaining(l) \in Nat /\ allocatedForLot(l) <= remaining(l) /\ allocatedForLot(l) \in Nat
    BY <1>1, AllocatedNat DEF LotsAmount
  <2>2. ins[l] > 0 => ins[l] <= availability(l)
    BY DEF Inputs
  <2> QED BY <1>3, <2>1, <2>2 DEF availability
<1>5. \A l \in Lots : outs[l] > 0 => lots[l].capacity = 0 /\ ins[l] = 0
  <2> SUFFICES ASSUME NEW l \in Lots, outs[l] > 0 PROVE lots[l].capacity = 0 /\ ins[l] = 0
    OBVIOUS
  <2>1. lots[l].capacity = 0
    BY DEF Outputs
  <2>2. /\ ins[l] + allocatedForLot(l) <= remaining(l) /\ allocatedForLot(l) \in Nat
        /\ lots[l].consumed \in Nat /\ remaining(l) = lots[l].capacity - lots[l].consumed
    BY <1>1, <1>4, AllocatedNat DEF LotsAmount, remaining
  <2> QED BY <1>3, <2>1, <2>2
<1>6. ASSUME NEW l \in Lots
      PROVE  /\ lots'[l] \in LotRows /\ LotSound(lots'[l])
             /\ lots'[l].source = lots[l].source
             /\ lots'[l].capacity = lots[l].capacity + outs[l]
             /\ lots'[l].consumed = lots[l].consumed + ins[l]
  <2>1. /\ lots[l] \in LotRows /\ LotSound(lots[l])
        /\ lots[l].capacity \in Nat /\ lots[l].consumed \in Nat /\ lots[l].capacity <= MaxLot
        /\ remaining(l) = lots[l].capacity - lots[l].consumed
        /\ ins[l] + allocatedForLot(l) <= remaining(l) /\ allocatedForLot(l) \in Nat
    BY <1>1, <1>4, AllocatedNat DEF LedgersTyped, LotsAmount, remaining
  <2>2. /\ lots[l].capacity + outs[l] \in Quantities
        /\ lots[l].consumed + ins[l] \in Quantities
    BY <1>3, <1>5, <2>1, Amounts
  <2>3. lots'[l] = [lots[l] EXCEPT !.consumed = lots[l].consumed + ins[l],
                                   !.capacity = lots[l].capacity + outs[l]]
    BY <1>2
  <2>4. /\ lots'[l] \in LotRows
        /\ lots'[l].source = lots[l].source /\ lots'[l].received = lots[l].received
        /\ lots'[l].capacity = lots[l].capacity + outs[l]
        /\ lots'[l].consumed = lots[l].consumed + ins[l]
    BY <2>1, <2>2, <2>3 DEF LotRows
  <2>5. LotSound(lots'[l])
    BY <1>3, <2>1, <2>4 DEF LotSound
  <2> QED BY <2>4, <2>5
<1>7. LedgersTyped'
  <2>1. lots' \in [Lots -> LotRows]
    BY <1>2, <1>6
  <2>2. lost' \in Nat
    <3>1. lost \in Nat
      BY <1>1 DEF LedgersTyped
    <3>2. lost' = lost + loss /\ loss \in Nat
      BY <1>2, <1>3
    <3> QED BY <3>1, <3>2
  <2>3. \A l \in Lots : LotSound(lots'[l])
    BY <1>6
  <2> QED BY <1>1, <1>2, <2>1, <2>2, <2>3 DEF LedgersTyped
<1>8. \A l : allocatedForLot(l)' = allocatedForLot(l)
  BY <1>2 DEF allocatedForLot
<1>9. LotsCovered'
  <2> SUFFICES ASSUME NEW l \in Lots
               PROVE  lots'[l].consumed + allocatedForLot(l)' <= lots'[l].capacity
    BY DEF LotsCovered
  <2>1. /\ lots[l].capacity \in Nat /\ lots[l].consumed \in Nat
        /\ remaining(l) = lots[l].capacity - lots[l].consumed
        /\ ins[l] + allocatedForLot(l) <= remaining(l) /\ allocatedForLot(l) \in Nat
    BY <1>1, <1>4, AllocatedNat DEF LotsAmount, remaining
  <2> QED BY <1>3, <1>6, <1>8, <2>1
<1>10. LotsAmount'
  BY <1>7, <1>9, LotAmounts, PTL
<1>11. CameIn' = CameIn
  <2> DEFINE S == {l \in Lots : lots[l].source}
             T == {l \in Lots : lots'[l].source}
             f == [l \in Lots |-> lots[l].capacity]
             g == [l \in Lots |-> lots'[l].capacity]
  <2>1. Summable(S, f) /\ Summable(T, g)
    BY <1>1, <1>10 DEF LotsAmount
  <2>2. \A l \in S \cup T : Weight(S, f, l) = Weight(T, g, l)
    <3> SUFFICES ASSUME NEW l \in Lots PROVE Weight(S, f, l) = Weight(T, g, l)
      OBVIOUS
    <3>1. lots[l].source => lots[l].capacity > 0
      BY <1>1 DEF LedgersTyped, LotSound
    <3>2. lots[l].source => outs[l] = 0
      BY <1>3, <1>5, <3>1
    <3>3. lots[l].capacity \in Nat
      BY <1>1 DEF LotsAmount
    <3> QED BY <1>6, <3>2, <3>3 DEF Weight
  <2> HIDE DEF S, T, f, g
  <2>3. SumOver(S, f) = SumOver(T, g)
    BY <2>1, <2>2, SumSame
  <2> QED BY <2>3 DEF CameIn, S, T, f, g
<1>12. Remains = Remains' + loss
  <2>1. \A l \in Lots : /\ low[l] \in Nat /\ remaining(l)' \in Nat
                        /\ was[l] = low[l] + ins[l] /\ is[l] = low[l] + outs[l]
    <3> SUFFICES ASSUME NEW l \in Lots
                 PROVE  /\ remaining(l) - ins[l] \in Nat /\ remaining(l)' \in Nat
                        /\ remaining(l) = (remaining(l) - ins[l]) + ins[l]
                        /\ remaining(l)' = (remaining(l) - ins[l]) + outs[l]
      OBVIOUS
    <3>1. /\ remaining(l) \in Nat /\ allocatedForLot(l) \in Nat /\ lots[l].capacity \in Nat
          /\ lots[l].consumed \in Nat /\ remaining(l) = lots[l].capacity - lots[l].consumed
          /\ remaining(l)' = lots'[l].capacity - lots'[l].consumed
      BY <1>1, AllocatedNat DEF LotsAmount, remaining
    <3> QED BY <1>3, <1>4, <1>6, <3>1
  <2>2. Summable(Lots, low) /\ Summable(Lots, ins) /\ Summable(Lots, outs)
    BY <1>3, <2>1, FiniteLedgers DEF Summable
  <2> HIDE DEF low, was, is
  <2>3. SumOver(Lots, was) = SumOver(Lots, low) + SumOver(Lots, ins)
    BY <2>1, <2>2, SumPlus
  <2>4. SumOver(Lots, is) = SumOver(Lots, low) + SumOver(Lots, outs)
    BY <2>1, <2>2, SumPlus
  <2>5. /\ SumOver(Lots, low) \in Nat /\ SumOver(Lots, ins) \in Nat
        /\ SumOver(Lots, outs) \in Nat
    BY <2>2, UnitsFinite
  <2>6. Remains = SumOver(Lots, was) /\ Remains' = SumOver(Lots, is)
    BY DEF Remains, was, is
  <2>7. SumOver(Lots, ins) = SumOver(Lots, outs) + loss /\ loss \in Nat
    BY <1>2, <1>3
  <2> HIDE DEF Remains
  <2> QED BY <2>3, <2>4, <2>5, <2>6, <2>7
<1>13. NothingLost'
  <2>1. lost \in Nat /\ loss \in Nat /\ Remains' \in Nat /\ lost' = lost + loss
    BY <1>1, <1>2, <1>3, <1>10 DEF LotsAmount, LedgersTyped
  <2>2. CameIn = Remains + lost
    BY <1>1 DEF NothingLost
  <2> QED BY <1>11, <1>12, <2>1, <2>2 DEF NothingLost
<1>14. GoodsConserved'
  BY <1>9, <1>13, GoodsParts, PTL
<1> QED BY <1>2, <1>7, <1>14, OrdersUnmoved DEF FulfillmentInv

-----------------------------------------------------------------------------
(* The allocations.                                                        *)

LEMMA AllocationTyped ==
  ASSUME LedgersTyped, NEW a \in Allocations, NEW row \in AllocationRows, AllocationSound(row),
         allocations' = [allocations EXCEPT ![a] = row],
         UNCHANGED <<lots, lost, exceptions, remedies>>,
         resolution' \in [Orders -> [performed : Quantities, remedied : Quantities]]
  PROVE  /\ LedgersTyped'
         /\ allocations'[a] = row
         /\ \A b \in Allocations : b # a => allocations'[b] = allocations[b]
<1>1. /\ allocations' \in [Allocations -> AllocationRows] /\ allocations'[a] = row
      /\ \A b \in Allocations : b # a => allocations'[b] = allocations[b]
  BY DEF LedgersTyped
<1>2. \A b \in Allocations : AllocationSound(allocations'[b])
  BY <1>1 DEF LedgersTyped
<1> QED BY <1>1, <1>2 DEF LedgersTyped

(* Goods stay conserved while the lots stay and no more is allocated.      *)
LEMMA LotsUnmoved ==
  ASSUME GoodsConserved, UNCHANGED <<lots, lost>>,
         \A l \in Lots : allocatedForLot(l)' = allocatedForLot(l)
  PROVE  GoodsConserved'
BY DEF GoodsConserved, remaining

LEMMA WorkSteps ==
  ASSUME FulfillmentInv, NEW a \in Allocations,
         handover(a) \/ \E q \in Quantities : recordWork(a, q)
  PROVE  FulfillmentInv'
<1>1. LedgersTyped /\ allocations[a] \in AllocationRows /\ AllocationSound(allocations[a])
  BY DEF FulfillmentInv, LedgersTyped
<1>2. UNCHANGED <<lots, lost, exceptions, remedies, resolution, rows>>
  BY DEF handover, recordWork, inventoryVars, remedyVars, positionVars
<1>3. PICK row \in AllocationRows :
        /\ allocations' = [allocations EXCEPT ![a] = row] /\ AllocationSound(row)
        /\ row.lot = allocations[a].lot /\ row.order = allocations[a].order
        /\ row.quantity = allocations[a].quantity /\ row.accepted = allocations[a].accepted
  <2>1. CASE handover(a)
    <3> DEFINE row == [allocations[a] EXCEPT !.state = "HANDED_OVER"]
    <3>1. allocations[a].state = "READY_FOR_PICKUP" /\ allocations' = [allocations EXCEPT ![a] = row]
      BY <2>1 DEF handover
    <3>2. /\ row \in AllocationRows /\ row.state = "HANDED_OVER"
          /\ row.lot = allocations[a].lot /\ row.order = allocations[a].order
          /\ row.quantity = allocations[a].quantity /\ row.accepted = allocations[a].accepted
          /\ row.work = allocations[a].work
      BY <1>1 DEF AllocationRows, Stages
    <3> HIDE DEF row
    <3>3. AllocationSound(row)
      BY <1>1, <3>1, <3>2 DEF AllocationSound, Answered
    <3> QED BY <3>1, <3>2, <3>3
  <2>2. ASSUME NEW q \in Quantities, recordWork(a, q)
        PROVE  \E row \in AllocationRows :
                 /\ allocations' = [allocations EXCEPT ![a] = row] /\ AllocationSound(row)
                 /\ row.lot = allocations[a].lot /\ row.order = allocations[a].order
                 /\ row.quantity = allocations[a].quantity
                 /\ row.accepted = allocations[a].accepted
    <3> DEFINE next == Following[allocations[a].state]
               row == [allocations[a] EXCEPT !.state = next, !.work = q]
    <3>1. /\ allocations[a].state \in {"ALLOCATED", "PICKED", "PACKED"}
          /\ IF allocations[a].state = "ALLOCATED" THEN q \in 1..allocations[a].quantity
                                                  ELSE q = allocations[a].work
          /\ allocations' = [allocations EXCEPT ![a] = row]
      BY <2>2 DEF recordWork, Following
    <3>2. next \in {"PICKED", "PACKED", "READY_FOR_PICKUP"}
      BY <3>1 DEF Following
    <3> HIDE DEF next
    <3>3. /\ row \in AllocationRows /\ row.state = next /\ row.work = q
          /\ row.lot = allocations[a].lot /\ row.order = allocations[a].order
          /\ row.quantity = allocations[a].quantity /\ row.accepted = allocations[a].accepted
      BY <1>1, <3>2 DEF AllocationRows, Stages
    <3> HIDE DEF row
    <3>4. /\ allocations[a].accepted = 0 /\ q \in Nat /\ q <= allocations[a].quantity
      BY <1>1, <3>1, Amounts DEF AllocationSound, Answered, AllocationRows
    <3>5. AllocationSound(row)
      BY <3>2, <3>3, <3>4 DEF AllocationSound, Answered
    <3> QED BY <3>1, <3>3, <3>5
  <2> QED BY <2>1, <2>2
<1>4. /\ LedgersTyped' /\ allocations'[a] = row
      /\ \A b \in Allocations : b # a => allocations'[b] = allocations[b]
  <2>1. resolution' \in [Orders -> [performed : Quantities, remedied : Quantities]]
    BY <1>1, <1>2 DEF LedgersTyped
  <2> QED BY <1>1, <1>2, <1>3, <2>1, AllocationTyped
<1>5. \A l : allocatedForLot(l)' = allocatedForLot(l)
  <2> TAKE l
  <2>1. LotShare(a, l)' = LotShare(a, l) + 0
    BY <1>1, <1>3, <1>4, Amounts DEF LotShare, AllocationRows
  <2> QED BY <1>1, <1>4, <2>1, LotSumMoves
<1>6. \A o : /\ allocatedForObligation(o)' = allocatedForObligation(o)
             /\ acceptedFor(o)' = acceptedFor(o)
  <2> TAKE o
  <2>1. /\ OrderShare(a, o)' = OrderShare(a, o) + 0
        /\ AcceptedShare(a, o)' = AcceptedShare(a, o) + 0
    BY <1>1, <1>3, <1>4, Amounts DEF OrderShare, AcceptedShare, AllocationRows
  <2> QED BY <1>1, <1>4, <2>1, OrderSumMoves, AcceptedSumMoves
<1>7. GoodsConserved'
  BY <1>2, <1>5, LotsUnmoved DEF FulfillmentInv
<1>8. /\ \A o : completedFor(o)' = completedFor(o) /\ unresolved(o)' = unresolved(o)
      /\ \A e : promisedFor(e)' = promisedFor(e)
  BY <1>2 DEF completedFor, unresolved, promisedFor
<1> QED BY <1>2, <1>4, <1>6, <1>7, <1>8
        DEF FulfillmentInv, AllocatedWithin, PositionsAgree, PromisesWithin, RowsAgree

LEMMA AllocateStep ==
  ASSUME FulfillmentInv, NEW a \in Allocations, NEW x \in Lots, NEW p \in Orders,
         NEW q \in Quantities, allocate(a, x, p, q)
  PROVE  FulfillmentInv'
<1> DEFINE row == [NoAllocation EXCEPT !.lot = x, !.order = p, !.quantity = q,
                                       !.state = "ALLOCATED"]
<1>1. /\ LedgersTyped /\ LotsCovered /\ LotsAmount
      /\ allocations[a] = NoAllocation
      /\ q > 0 /\ q <= availability(x) /\ allocatedForObligation(p) + q <= Ordered[p]
      /\ allocations' = [allocations EXCEPT ![a] = row]
      /\ UNCHANGED <<lots, lost, exceptions, remedies, resolution, rows>>
  <2>1. LedgersTyped /\ LotsCovered /\ LotsAmount
    BY GoodsParts, LotAmounts DEF FulfillmentInv
  <2>2. /\ allocations[a] = NoAllocation
        /\ q > 0 /\ q <= availability(x) /\ allocatedForObligation(p) + q <= Ordered[p]
        /\ allocations' = [allocations EXCEPT ![a] = row]
    BY Zenon DEF allocate
  <2>3. UNCHANGED <<lots, lost, exceptions, remedies, resolution, rows>>
    BY DEF allocate, inventoryVars, remedyVars, positionVars
  <2> QED BY <2>1, <2>2, <2>3
<1>2. /\ row \in AllocationRows /\ row.lot = x /\ row.order = p /\ row.quantity = q
      /\ row.state = "ALLOCATED" /\ row.work = 0 /\ row.accepted = 0
  BY NoRows DEF AllocationRows, Stages, Answered
<1> HIDE DEF row
<1>3. AllocationSound(row) /\ q \in Nat
  BY <1>2, Amounts DEF AllocationSound, Answered
<1>4. /\ LedgersTyped' /\ allocations'[a] = row
      /\ \A b \in Allocations : b # a => allocations'[b] = allocations[b]
  <2>1. resolution' \in [Orders -> [performed : Quantities, remedied : Quantities]]
    BY <1>1 DEF LedgersTyped
  <2> QED BY <1>1, <1>2, <1>3, <2>1, AllocationTyped
<1>5. /\ allocatedForLot(x)' = allocatedForLot(x) + q
      /\ \A l \in Lots : l # x => allocatedForLot(l)' = allocatedForLot(l)
  <2>1. LotShare(a, x)' = LotShare(a, x) + q
    BY <1>1, <1>2, <1>3, <1>4, NoRows, PilotFulfillmentAssumption DEF LotShare
  <2>2. ASSUME NEW l \in Lots, l # x PROVE allocatedForLot(l)' = allocatedForLot(l)
    <3>1. LotShare(a, l)' = LotShare(a, l) + 0
      BY <1>1, <1>2, <1>4, <2>2, NoRows, PilotFulfillmentAssumption DEF LotShare
    <3> QED BY <1>1, <1>4, <3>1, LotSumMoves
  <2> QED BY <1>1, <1>3, <1>4, <2>1, <2>2, LotSumMoves
<1>6. /\ allocatedForObligation(p)' = allocatedForObligation(p) + q
      /\ \A o \in Orders : o # p => allocatedForObligation(o)' = allocatedForObligation(o)
  <2>1. OrderShare(a, p)' = OrderShare(a, p) + q
    BY <1>1, <1>2, <1>3, <1>4, NoRows, PilotFulfillmentAssumption DEF OrderShare
  <2>2. ASSUME NEW o \in Orders, o # p
        PROVE  allocatedForObligation(o)' = allocatedForObligation(o)
    <3>1. OrderShare(a, o)' = OrderShare(a, o) + 0
      BY <1>1, <1>2, <1>4, <2>2, NoRows, PilotFulfillmentAssumption DEF OrderShare
    <3> QED BY <1>1, <1>4, <3>1, OrderSumMoves
  <2> QED BY <1>1, <1>3, <1>4, <2>1, <2>2, OrderSumMoves
<1>7. \A o \in Orders : acceptedFor(o)' = acceptedFor(o)
  <2> TAKE o \in Orders
  <2>1. AcceptedShare(a, o)' = AcceptedShare(a, o) + 0
    BY <1>1, <1>2, <1>4, NoRows DEF AcceptedShare
  <2> QED BY <1>1, <1>4, <2>1, AcceptedSumMoves
<1>8. LotsCovered'
  <2> SUFFICES ASSUME NEW l \in Lots
               PROVE  lots[l].consumed + allocatedForLot(l)' <= lots[l].capacity
    BY <1>1 DEF LotsCovered
  <2>1. CASE l # x
    BY <1>1, <1>5, <2>1 DEF LotsCovered
  <2>2. CASE l = x
    <3>1. /\ lots[x].capacity \in Nat /\ lots[x].consumed \in Nat
          /\ remaining(x) = lots[x].capacity - lots[x].consumed
          /\ allocatedForLot(x) \in Nat
      BY <1>1, AllocatedNat DEF LotsAmount, remaining
    <3>2. q <= remaining(x) - allocatedForLot(x)
      BY <1>1, <1>3 DEF availability
    <3> QED BY <1>3, <1>5, <2>2, <3>1, <3>2
  <2> QED BY <2>1, <2>2
<1>9. GoodsConserved'
  <2>1. NothingLost'
    BY <1>1, GoodsParts DEF FulfillmentInv, NothingLost, CameIn, Remains, remaining
  <2> QED BY <1>8, <2>1, GoodsParts, PTL
<1>10. AllocatedWithin'
  BY <1>1, <1>6 DEF FulfillmentInv, AllocatedWithin
<1>11. /\ \A o : completedFor(o)' = completedFor(o) /\ unresolved(o)' = unresolved(o)
       /\ \A e : promisedFor(e)' = promisedFor(e)
  BY <1>1 DEF completedFor, unresolved, promisedFor
<1> QED BY <1>1, <1>4, <1>7, <1>9, <1>10, <1>11
        DEF FulfillmentInv, PositionsAgree, PromisesWithin, RowsAgree

(* What is written of one order, and what of the others.                   *)
LEMMA PositionWritten ==
  ASSUME LedgersTyped, LedgersTyped', PositionsAgree, RowsAgree, NEW p \in Orders,
         NEW q \in Nat, Capacity(p, q), appendResolution(p),
         \/ /\ resolution' = [resolution EXCEPT ![p].performed = @ + q]
            /\ acceptedFor(p)' = acceptedFor(p) + q
            /\ \A o \in Orders : completedFor(o)' = completedFor(o)
         \/ /\ resolution' = [resolution EXCEPT ![p].remedied = @ + q]
            /\ completedFor(p)' = completedFor(p) + q
            /\ \A o \in Orders : acceptedFor(o)' = acceptedFor(o),
         \A o \in Orders : o # p => /\ acceptedFor(o)' = acceptedFor(o)
                                    /\ completedFor(o)' = completedFor(o)
  PROVE  PositionsAgree' /\ RowsAgree'
<1>1. \A o \in Orders :
        /\ resolution[o] \in [performed : Quantities, remedied : Quantities]
        /\ resolution[o].performed \in Nat /\ resolution[o].remedied \in Nat
        /\ resolution'[o].performed \in Nat /\ resolution'[o].remedied \in Nat
        /\ Ordered[o] \in Nat
  BY Amounts DEF LedgersTyped
<1>2. \A o \in Orders : o # p => resolution'[o] = resolution[o]
  BY DEF LedgersTyped
<1>3. \/ /\ resolution'[p].performed = resolution[p].performed + q
         /\ resolution'[p].remedied = resolution[p].remedied
         /\ acceptedFor(p)' = acceptedFor(p) + q /\ completedFor(p)' = completedFor(p)
      \/ /\ resolution'[p].performed = resolution[p].performed
         /\ resolution'[p].remedied = resolution[p].remedied + q
         /\ acceptedFor(p)' = acceptedFor(p) /\ completedFor(p)' = completedFor(p) + q
  BY <1>1 DEF LedgersTyped
<1>4. PositionsAgree'
  <2> SUFFICES ASSUME NEW o \in Orders
               PROVE  /\ resolution'[o].performed + resolution'[o].remedied <= Ordered[o]
                      /\ resolution'[o].performed = acceptedFor(o)'
                      /\ resolution'[o].remedied = completedFor(o)'
    BY DEF PositionsAgree
  <2>1. CASE o = p
    BY <1>1, <1>3, <2>1 DEF PositionsAgree, Capacity
  <2>2. CASE o # p
    BY <1>2, <2>2 DEF PositionsAgree
  <2> QED BY <2>1, <2>2
<1>5. RowsAgree'
  <2> DEFINE told(o) == [performed |-> resolution'[o].performed,
                         remedied |-> resolution'[o].remedied,
                         unresolved |-> unresolved(o)']
  <2>1. rows' = [rows EXCEPT ![p] = told(p)]
    <3>1. unresolved(p)' = Ordered[p] - resolution'[p].performed - resolution'[p].remedied
      BY <1>1 DEF unresolved
    <3> QED BY <3>1 DEF appendResolution
  <2>2. \A o \in Orders : o # p => rows[o] = told(o)
    BY <1>2 DEF RowsAgree, unresolved
  <2>3. rows = [o \in Orders |-> rows[o]]
    BY DEF RowsAgree
  <2>4. rows' = [o \in Orders |-> told(o)]
    BY <2>1, <2>2, <2>3
  <2> QED BY <2>4 DEF RowsAgree
<1> QED BY <1>4, <1>5

LEMMA CapacityTyped ==
  ASSUME LedgersTyped, NEW p \in Orders, NEW q \in Nat, Capacity(p, q)
  PROVE  /\ [resolution EXCEPT ![p].performed = @ + q]
              \in [Orders -> [performed : Quantities, remedied : Quantities]]
         /\ [resolution EXCEPT ![p].remedied = @ + q]
              \in [Orders -> [performed : Quantities, remedied : Quantities]]
<1>1. /\ resolution[p].performed \in Nat /\ resolution[p].remedied \in Nat
      /\ Ordered[p] \in Nat /\ Ordered[p] <= MaxLot /\ MaxLot \in Nat
  BY Amounts DEF LedgersTyped
<1>2. resolution[p].performed + q \in Quantities /\ resolution[p].remedied + q \in Quantities
  BY <1>1, Amounts DEF Capacity
<1> QED BY <1>2 DEF LedgersTyped

LEMMA AcceptStep ==
  ASSUME FulfillmentInv, NEW a \in Allocations, NEW p \in Orders, NEW q \in Quantities,
         accept(a, p, q)
  PROVE  FulfillmentInv'
<1> DEFINE state == IF q = 0 THEN "REJECTED" ELSE IF q = allocations[a].work THEN "ACCEPTED"
                    ELSE "PARTIALLY_ACCEPTED"
           row == [allocations[a] EXCEPT !.state = state, !.accepted = q]
<1>1. /\ LedgersTyped /\ PositionsAgree /\ RowsAgree /\ q \in Nat
      /\ allocations[a] \in AllocationRows /\ AllocationSound(allocations[a])
      /\ allocations[a].quantity \in Nat
  BY Amounts DEF FulfillmentInv, LedgersTyped, AllocationRows
<1>2. /\ allocations[a].state = "HANDED_OVER" /\ allocations[a].order = p
      /\ q <= allocations[a].work /\ (q > 0 => Capacity(p, q))
      /\ resolution' = [resolution EXCEPT ![p].performed = @ + q]
      /\ allocations' = [allocations EXCEPT ![a] = row]
      /\ appendResolution(p)
      /\ UNCHANGED <<lots, lost, exceptions, remedies>>
  BY DEF accept, inventoryVars, remedyVars
<1>3. Capacity(p, q)
  BY <1>1, <1>2, Amounts DEF Capacity, PositionsAgree, LedgersTyped
<1> HIDE DEF state
<1>4. /\ row \in AllocationRows /\ row.state = state /\ row.accepted = q
      /\ row.lot = allocations[a].lot /\ row.order = allocations[a].order
      /\ row.quantity = allocations[a].quantity /\ row.work = allocations[a].work
  <2>1. state \in Stages
    BY DEF state, Stages
  <2> QED BY <1>1, <2>1 DEF AllocationRows
<1> HIDE DEF row
<1>5. AllocationSound(row)
  <2>1. allocations[a].work \in Nat /\ state \in Answered
    BY <1>1, Amounts DEF AllocationRows, state, Answered
  <2> QED BY <1>1, <1>2, <1>4, <2>1 DEF AllocationSound, state, Answered
<1>6. /\ LedgersTyped' /\ allocations'[a] = row
      /\ \A b \in Allocations : b # a => allocations'[b] = allocations[b]
  <2>1. resolution' \in [Orders -> [performed : Quantities, remedied : Quantities]]
    BY <1>1, <1>2, <1>3, CapacityTyped
  <2> QED BY <1>1, <1>2, <1>4, <1>5, <2>1, AllocationTyped
<1>7. \A l : allocatedForLot(l)' = allocatedForLot(l)
  <2> TAKE l
  <2>1. LotShare(a, l)' = LotShare(a, l) + 0
    BY <1>1, <1>4, <1>6 DEF LotShare
  <2> QED BY <1>1, <1>6, <2>1, LotSumMoves
<1>8. \A o : allocatedForObligation(o)' = allocatedForObligation(o)
  <2> TAKE o
  <2>1. OrderShare(a, o)' = OrderShare(a, o) + 0
    BY <1>1, <1>4, <1>6 DEF OrderShare
  <2> QED BY <1>1, <1>6, <2>1, OrderSumMoves
<1>9. /\ acceptedFor(p)' = acceptedFor(p) + q
      /\ \A o \in Orders : o # p => acceptedFor(o)' = acceptedFor(o)
  <2>1. allocations[a].accepted = 0
    BY <1>1, <1>2 DEF AllocationSound, Answered
  <2>2. AcceptedShare(a, p)' = AcceptedShare(a, p) + q
    BY <1>1, <1>2, <1>4, <1>6, <2>1 DEF AcceptedShare
  <2>3. ASSUME NEW o \in Orders, o # p PROVE acceptedFor(o)' = acceptedFor(o)
    <3>1. AcceptedShare(a, o)' = AcceptedShare(a, o) + 0
      BY <1>2, <1>4, <1>6, <2>3 DEF AcceptedShare
    <3> QED BY <1>1, <1>6, <3>1, AcceptedSumMoves
  <2> QED BY <1>1, <1>6, <2>2, <2>3, AcceptedSumMoves
<1>10. /\ \A o : completedFor(o)' = completedFor(o)
       /\ \A e : promisedFor(e)' = promisedFor(e)
  BY <1>2 DEF completedFor, promisedFor
<1>11. PositionsAgree' /\ RowsAgree'
  BY <1>1, <1>2, <1>3, <1>6, <1>9, <1>10, PositionWritten
<1>12. GoodsConserved'
  BY <1>2, <1>7, LotsUnmoved DEF FulfillmentInv
<1> QED BY <1>2, <1>6, <1>8, <1>10, <1>11, <1>12
        DEF FulfillmentInv, AllocatedWithin, PromisesWithin

-----------------------------------------------------------------------------
(* Exceptions and remedies.                                                *)

LEMMA GoodsUnmoved ==
  ASSUME FulfillmentInv, UNCHANGED <<lots, lost, allocations>>
  PROVE  /\ AllocatedWithin' /\ GoodsConserved'
         /\ \A o : acceptedFor(o)' = acceptedFor(o)
<1>1. /\ \A l : allocatedForLot(l)' = allocatedForLot(l)
      /\ \A o : /\ allocatedForObligation(o)' = allocatedForObligation(o)
                /\ acceptedFor(o)' = acceptedFor(o)
  BY DEF allocatedForLot, allocatedForObligation, acceptedFor
<1> QED BY <1>1, LotsUnmoved DEF FulfillmentInv, AllocatedWithin

LEMMA ExceptionStep ==
  ASSUME FulfillmentInv, NEW e \in Exceptions, NEW p \in Orders,
         NEW a \in Allocations \cup {Undefined}, NEW q \in Quantities,
         recordException(e, p, a, q)
  PROVE  FulfillmentInv'
<1> DEFINE row == [order |-> p, acceptance |-> a, affected |-> q]
<1>1. /\ LedgersTyped /\ exceptions[e] = NoException /\ q \in Nat
      /\ exceptions' = [exceptions EXCEPT ![e] = row]
      /\ UNCHANGED <<lots, lost, allocations, remedies, resolution, rows>>
  BY Amounts DEF FulfillmentInv, recordException, inventoryVars, positionVars
<1>2. /\ exceptions' \in [Exceptions -> ExceptionRows]
      /\ exceptions'[e].order = p /\ exceptions'[e].affected = q
      /\ \A x \in Exceptions : x # e => exceptions'[x] = exceptions[x]
  BY <1>1 DEF LedgersTyped, ExceptionRows
<1>3. \A r \in Remedies : remedies[r].exception # e
  BY <1>1, NoRows, PilotFulfillmentAssumption DEF LedgersTyped
<1>4. \A r \in Remedies : remedies[r].exception # Undefined =>
        /\ remedies[r].exception \in Exceptions
        /\ exceptions'[remedies[r].exception] = exceptions[remedies[r].exception]
  BY <1>1, <1>2, <1>3 DEF LedgersTyped, RemedyRows
<1>5. LedgersTyped'
  BY <1>1, <1>2, <1>4 DEF LedgersTyped
<1>6. \A o : completedFor(o)' = completedFor(o)
  <2> TAKE o
  <2>1. {r \in Remedies : \E x \in Exceptions : remedies[r].exception = x
                                                /\ exceptions'[x].order = o}
          = {r \in Remedies : \E x \in Exceptions : remedies[r].exception = x
                                                    /\ exceptions[x].order = o}
    BY <1>2, <1>3
  <2> QED BY <1>1, <2>1 DEF completedFor
<1>7. \A o : unresolved(o)' = unresolved(o)
  BY <1>1 DEF unresolved
<1>8. PromisesWithin'
  <2> SUFFICES ASSUME NEW x \in Exceptions PROVE promisedFor(x)' <= exceptions'[x].affected
    BY DEF PromisesWithin
  <2>1. promisedFor(x)' = promisedFor(x) /\ promisedFor(x) <= exceptions[x].affected
    BY <1>1 DEF promisedFor, FulfillmentInv, PromisesWithin
  <2>2. CASE x # e
    BY <1>2, <2>1, <2>2
  <2>3. CASE x = e
    <3>1. promisedFor(e) <= 0 /\ promisedFor(e) \in Nat
      <4> DEFINE S == {r \in Remedies : remedies[r].exception = e}
                 f == [r \in Remedies |-> remedies[r].quantity]
      <4>1. Summable(S, f)
        BY <1>1, FiniteLedgers, Amounts DEF Summable, LedgersTyped, RemedyRows
      <4>2. promisedFor(e) \in Nat
        BY <4>1, UnitsFinite DEF promisedFor
      <4> QED BY <1>1, <2>1, <2>3, <4>2, NoRows
    <3> QED BY <1>1, <1>2, <2>1, <2>3, <3>1
  <2> QED BY <2>2, <2>3
<1>9. AllocatedWithin' /\ GoodsConserved' /\ \A o : acceptedFor(o)' = acceptedFor(o)
  BY <1>1, GoodsUnmoved
<1> QED BY <1>1, <1>5, <1>6, <1>7, <1>8, <1>9 DEF FulfillmentInv, PositionsAgree, RowsAgree

LEMMA CreateRemedyStep ==
  ASSUME FulfillmentInv, NEW r \in Remedies, NEW e \in Exceptions, NEW q \in Quantities,
         createRemedy(r, e, q)
  PROVE  FulfillmentInv'
<1> DEFINE row == [NoRemedy EXCEPT !.exception = e, !.quantity = q]
<1>1. /\ LedgersTyped /\ remedies[r] = NoRemedy /\ q \in Nat
      /\ exceptions[e].order # Undefined /\ promisedFor(e) + q <= exceptions[e].affected
      /\ remedies' = [remedies EXCEPT ![r] = row]
      /\ UNCHANGED <<lots, lost, allocations, exceptions, resolution, rows>>
  <2>1. LedgersTyped /\ q \in Nat
    BY Amounts DEF FulfillmentInv
  <2>2. /\ remedies[r] = NoRemedy /\ exceptions[e].order # Undefined
        /\ promisedFor(e) + q <= exceptions[e].affected
        /\ remedies' = [remedies EXCEPT ![r] = row]
    BY Zenon DEF createRemedy, Remediable
  <2>3. UNCHANGED <<lots, lost, allocations, exceptions, resolution, rows>>
    BY DEF createRemedy, inventoryVars, positionVars
  <2> QED BY <2>1, <2>2, <2>3
<1>2. /\ row \in RemedyRows /\ row.exception = e /\ row.quantity = q /\ row.completed = 0
  BY NoRows DEF RemedyRows
<1> HIDE DEF row
<1>3. /\ remedies' \in [Remedies -> RemedyRows] /\ remedies'[r] = row
      /\ \A x \in Remedies : x # r => remedies'[x] = remedies[x]
  BY <1>1, <1>2 DEF LedgersTyped
<1>4. e # Undefined
  BY PilotFulfillmentAssumption
<1>5. LedgersTyped'
  <2>1. \A x \in Remedies : IF remedies'[x].exception = Undefined THEN remedies'[x] = NoRemedy
                            ELSE exceptions[remedies'[x].exception].order # Undefined
    BY <1>1, <1>2, <1>3, <1>4 DEF LedgersTyped
  <2> QED BY <1>1, <1>3, <2>1 DEF LedgersTyped
<1>6. /\ promisedFor(e)' = promisedFor(e) + q
      /\ \A x \in Exceptions : x # e => promisedFor(x)' = promisedFor(x)
  <2>1. PromisedShare(r, e)' = PromisedShare(r, e) + q
    BY <1>1, <1>2, <1>3, <1>4, NoRows DEF PromisedShare
  <2>2. ASSUME NEW x \in Exceptions, x # e PROVE promisedFor(x)' = promisedFor(x)
    <3>1. PromisedShare(r, x)' = PromisedShare(r, x) + 0
      BY <1>1, <1>2, <1>3, <2>2, NoRows, PilotFulfillmentAssumption DEF PromisedShare
    <3> QED BY <1>1, <1>3, <1>5, <3>1, PromisedSumMoves
  <2> QED BY <1>1, <1>3, <1>5, <2>1, <2>2, PromisedSumMoves
<1>7. \A o : completedFor(o)' = completedFor(o)
  <2> TAKE o
  <2>1. CompletedShare(r, o)' = CompletedShare(r, o) + 0
    BY <1>1, <1>2, <1>3, NoRows DEF CompletedShare
  <2>2. \A x \in Remedies : x # r => CompletedShare(x, o)' = CompletedShare(x, o)
    BY <1>1, <1>3 DEF CompletedShare
  <2> QED BY <1>1, <1>5, <2>1, <2>2, CompletedSumMoves
<1>8. PromisesWithin'
  BY <1>1, <1>6 DEF FulfillmentInv, PromisesWithin
<1>9. AllocatedWithin' /\ GoodsConserved' /\ \A o : acceptedFor(o)' = acceptedFor(o)
  BY <1>1, GoodsUnmoved
<1>10. \A o : unresolved(o)' = unresolved(o)
  BY <1>1 DEF unresolved
<1> QED BY <1>1, <1>5, <1>7, <1>8, <1>9, <1>10 DEF FulfillmentInv, PositionsAgree, RowsAgree

LEMMA CompleteRemedyStep ==
  ASSUME FulfillmentInv, NEW r \in Remedies, NEW p \in Orders, NEW q \in Quantities,
         completeRemedy(r, p, q)
  PROVE  FulfillmentInv'
<1> DEFINE row == [remedies[r] EXCEPT !.completed = @ + q]
           e == remedies[r].exception
<1>1. /\ LedgersTyped /\ PositionsAgree /\ RowsAgree /\ q \in Nat
      /\ e # Undefined /\ exceptions[e].order = p
      /\ remedies[r].completed + q <= remedies[r].quantity /\ Capacity(p, q)
      /\ resolution' = [resolution EXCEPT ![p].remedied = @ + q]
      /\ remedies' = [remedies EXCEPT ![r].completed = @ + q]
      /\ appendResolution(p)
      /\ UNCHANGED <<lots, lost, allocations, exceptions>>
  BY Amounts DEF FulfillmentInv, completeRemedy, inventoryVars
<1>2. /\ remedies[r] \in RemedyRows /\ e \in Exceptions
      /\ remedies[r].completed \in Nat /\ remedies[r].quantity \in Nat
      /\ remedies[r].quantity <= MaxLot
  BY <1>1, Amounts DEF LedgersTyped, RemedyRows
<1>3. remedies' = [remedies EXCEPT ![r] = row]
  BY <1>1
<1>4. /\ row \in RemedyRows /\ row.exception = e /\ row.quantity = remedies[r].quantity
      /\ row.completed = remedies[r].completed + q
  <2>1. remedies[r].completed + q \in Quantities
    BY <1>1, <1>2, Amounts
  <2> QED BY <1>2, <2>1 DEF RemedyRows
<1> HIDE DEF row
<1>5. /\ remedies' \in [Remedies -> RemedyRows] /\ remedies'[r] = row
      /\ \A x \in Remedies : x # r => remedies'[x] = remedies[x]
  BY <1>1, <1>3, <1>4 DEF LedgersTyped
<1>6. LedgersTyped'
  <2>1. \A x \in Remedies : IF remedies'[x].exception = Undefined THEN remedies'[x] = NoRemedy
                            ELSE exceptions[remedies'[x].exception].order # Undefined
    BY <1>1, <1>4, <1>5 DEF LedgersTyped
  <2>2. resolution' \in [Orders -> [performed : Quantities, remedied : Quantities]]
    BY <1>1, CapacityTyped
  <2> QED BY <1>1, <1>5, <2>1, <2>2 DEF LedgersTyped
<1>7. \A x : promisedFor(x)' = promisedFor(x)
  <2> TAKE x
  <2>1. PromisedShare(r, x)' = PromisedShare(r, x) + 0
    BY <1>2, <1>4, <1>5 DEF PromisedShare
  <2> QED BY <1>1, <1>5, <1>6, <2>1, PromisedSumMoves
<1>8. \A o, x : x \in Remedies /\ x # r => CompletedShare(x, o)' = CompletedShare(x, o)
  BY <1>1, <1>5 DEF CompletedShare
<1>9. /\ completedFor(p)' = completedFor(p) + q
      /\ \A o \in Orders : o # p => completedFor(o)' = completedFor(o)
  <2>1. CompletedShare(r, p)' = CompletedShare(r, p) + q
    BY <1>1, <1>2, <1>4, <1>5 DEF CompletedShare
  <2>2. ASSUME NEW o \in Orders, o # p PROVE completedFor(o)' = completedFor(o)
    <3>1. CompletedShare(r, o)' = CompletedShare(r, o) + 0
      BY <1>1, <1>2, <1>4, <1>5, <2>2 DEF CompletedShare
    <3> QED BY <1>1, <1>6, <1>8, <3>1, CompletedSumMoves
  <2> QED BY <1>1, <1>6, <1>8, <2>1, <2>2, CompletedSumMoves
<1>10. AllocatedWithin' /\ GoodsConserved' /\ \A o : acceptedFor(o)' = acceptedFor(o)
  BY <1>1, GoodsUnmoved
<1>11. PositionsAgree' /\ RowsAgree'
  BY <1>1, <1>6, <1>9, <1>10, PositionWritten
<1>12. PromisesWithin'
  BY <1>1, <1>7 DEF FulfillmentInv, PromisesWithin
<1> QED BY <1>6, <1>10, <1>11, <1>12 DEF FulfillmentInv

-----------------------------------------------------------------------------
(* From the beginning, and in every step.                                  *)

LEMMA FulfillmentStarts == FulfillmentInit => FulfillmentInv
<1> SUFFICES ASSUME FulfillmentInit PROVE FulfillmentInv
  OBVIOUS
<1>1. /\ lots = [l \in Lots |-> NoLot] /\ lost = 0
      /\ allocations = [a \in Allocations |-> NoAllocation]
      /\ exceptions = [e \in Exceptions |-> NoException]
      /\ remedies = [r \in Remedies |-> NoRemedy]
      /\ resolution = [o \in Orders |-> [performed |-> 0, remedied |-> 0]]
      /\ rows = [o \in Orders |-> [performed |-> 0, remedied |-> 0, unresolved |-> Ordered[o]]]
  BY DEF FulfillmentInit
<1>2. LedgersTyped
  <2>1. LotSound(NoLot) /\ AllocationSound(NoAllocation) /\ 0 \in Quantities
    BY NoRows, Amounts DEF LotSound, AllocationSound, Answered
  <2> QED BY <1>1, <2>1, NoRows DEF LedgersTyped
<1>3. \A l : allocatedForLot(l) = 0
  <2> TAKE l
  <2> DEFINE S == {a \in Allocations : allocations[a].lot = l}
             f == [a \in Allocations |-> allocations[a].quantity]
  <2>1. Summable(S, f) /\ \A a \in S : f[a] = 0
    BY <1>1, NoRows, FiniteLedgers DEF Summable
  <2> QED BY <2>1, SumNone DEF allocatedForLot
<1>4. \A o : allocatedForObligation(o) = 0
  <2> TAKE o
  <2> DEFINE S == {a \in Allocations : allocations[a].order = o}
             f == [a \in Allocations |-> allocations[a].quantity]
  <2>1. Summable(S, f) /\ \A a \in S : f[a] = 0
    BY <1>1, NoRows, FiniteLedgers DEF Summable
  <2> QED BY <2>1, SumNone DEF allocatedForObligation
<1>5. \A o : acceptedFor(o) = 0
  <2> TAKE o
  <2> DEFINE S == {a \in Allocations : allocations[a].order = o}
             f == [a \in Allocations |-> allocations[a].accepted]
  <2>1. Summable(S, f) /\ \A a \in S : f[a] = 0
    BY <1>1, NoRows, FiniteLedgers DEF Summable
  <2> QED BY <2>1, SumNone DEF acceptedFor
<1>6. \A e : promisedFor(e) = 0
  <2> TAKE e
  <2> DEFINE S == {r \in Remedies : remedies[r].exception = e}
             f == [r \in Remedies |-> remedies[r].quantity]
  <2>1. Summable(S, f) /\ \A r \in S : f[r] = 0
    BY <1>1, NoRows, FiniteLedgers DEF Summable
  <2> QED BY <2>1, SumNone DEF promisedFor
<1>7. \A o : completedFor(o) = 0
  <2> TAKE o
  <2> DEFINE S == {r \in Remedies : \E e \in Exceptions : remedies[r].exception = e
                                                          /\ exceptions[e].order = o}
             f == [r \in Remedies |-> remedies[r].completed]
  <2>1. Summable(S, f) /\ \A r \in S : f[r] = 0
    BY <1>1, NoRows, FiniteLedgers DEF Summable
  <2> QED BY <2>1, SumNone DEF completedFor
<1>8. GoodsConserved
  <2>1. \A l \in Lots : lots[l].capacity = 0 /\ lots[l].consumed = 0
    BY <1>1 DEF NoLot
  <2>2. LotsCovered
    BY <1>3, <2>1 DEF LotsCovered
  <2>3. CameIn = 0 /\ Remains = 0
    <3> DEFINE S == {l \in Lots : lots[l].source}
               f == [l \in Lots |-> lots[l].capacity]
               g == [l \in Lots |-> remaining(l)]
    <3>1. /\ Summable(S, f) /\ \A l \in S : f[l] = 0
          /\ Summable(Lots, g) /\ \A l \in Lots : g[l] = 0
      BY <2>1, FiniteLedgers DEF Summable, remaining
    <3> HIDE DEF S, f, g
    <3>2. SumOver(S, f) = 0 /\ SumOver(Lots, g) = 0
      BY <3>1, SumNone
    <3> QED BY <3>2 DEF CameIn, Remains, S, f, g
  <2> QED BY <1>1, <2>2, <2>3, GoodsParts DEF NothingLost
<1>9. AllocatedWithin /\ PromisesWithin
  BY <1>1, <1>4, <1>6, Amounts, NoRows DEF AllocatedWithin, PromisesWithin
<1>10. PositionsAgree /\ RowsAgree
  BY <1>1, <1>5, <1>7, Amounts DEF PositionsAgree, RowsAgree, unresolved
<1> QED BY <1>2, <1>8, <1>9, <1>10 DEF FulfillmentInv

LEMMA FulfillmentStays == FulfillmentInv /\ UNCHANGED fulfillmentVars => FulfillmentInv'
<1> SUFFICES ASSUME FulfillmentInv, UNCHANGED fulfillmentVars PROVE FulfillmentInv'
  OBVIOUS
<1>1. UNCHANGED <<lots, lost, allocations, exceptions, remedies, resolution, rows>>
  BY DEF fulfillmentVars
<1>2. LedgersTyped'
  BY <1>1 DEF FulfillmentInv, LedgersTyped
<1> QED BY <1>1, <1>2, OrdersUnmoved, GoodsUnmoved DEF FulfillmentInv

(* Every reachable state of the ledgers is sound, for any lots, orders,    *)
(* allocations, exceptions and remedies and any quantities.                *)
THEOREM FulfillmentInvAlways == FulfillmentSpec => []FulfillmentInv
<1>1. FulfillmentInv /\ [FulfillmentNext]_fulfillmentVars => FulfillmentInv'
  <2> SUFFICES ASSUME FulfillmentInv, FulfillmentNext PROVE FulfillmentInv'
    BY FulfillmentStays
  <2>1. ASSUME NEW l \in Lots,
               \/ \E q \in Quantities : receiveLot(l, q)
               \/ \E quality \in {"ACCEPTED", "QUARANTINED"} : assessQuality(l, quality)
               \/ receiveDerivedLot(l)
        PROVE  FulfillmentInv'
    BY <2>1, LotSteps
  <2>2. ASSUME NEW a \in Allocations,
               \/ handover(a)
               \/ \E q \in Quantities : recordWork(a, q)
        PROVE  FulfillmentInv'
    BY <2>2, WorkSteps
  <2> QED BY <2>1, <2>2, TransformStep, AllocateStep, AcceptStep, ExceptionStep,
             CreateRemedyStep, CompleteRemedyStep DEF FulfillmentNext
<1> QED BY <1>1, FulfillmentStarts, PTL DEF FulfillmentSpec

(* A lot is never consumed and allocated beyond what it held, and what     *)
(* remains of all lots, with what transforms lost, is all that came in,    *)
(* whatever was allocated, assessed or transformed in between.             *)
THEOREM GoodsAlwaysConserved == FulfillmentSpec => []GoodsConserved
<1>1. FulfillmentInv => GoodsConserved
  BY DEF FulfillmentInv
<1> QED BY <1>1, FulfillmentInvAlways, PTL

LEMMA LossBounded ==
  ASSUME FulfillmentInv
  PROVE  lost \in 0..(MaxLot * Cardinality(Lots))
<1> DEFINE S == {l \in Lots : lots[l].source}
           f == [l \in Lots |-> lots[l].capacity]
<1>1. LedgersTyped /\ NothingLost /\ LotsAmount
  BY GoodsParts, LotAmounts DEF FulfillmentInv
<1>2. /\ Summable(S, f) /\ Summable(Lots, f) /\ MaxLot \in Nat
      /\ \A l \in Lots : f[l] <= MaxLot
  BY <1>1, FiniteLedgers, Amounts DEF LotsAmount, Summable
<1>3. CameIn <= SumOver(Lots, f)
  <2>1. \A l \in S : Weight(S, f, l) <= Weight(Lots, f, l)
    BY <1>1 DEF Weight, LotsAmount
  <2> HIDE DEF S, f
  <2>2. SumOver(S, f) <= SumOver(Lots, f)
    BY <1>2, <2>1, SumLeq
  <2> QED BY <2>2 DEF CameIn, S, f
<1>4. SumOver(Lots, f) <= Cardinality(Lots) * MaxLot
  <2> HIDE DEF f
  <2> QED BY <1>2, SumBound
<1>5. SumOver(Lots, f) \in Nat /\ Cardinality(Lots) \in Nat
  <2> HIDE DEF f
  <2> QED BY <1>2, UnitsFinite, PilotFulfillmentAssumption, FS_CardinalityType
<1>6. lost \in Nat /\ lost <= CameIn /\ CameIn \in Nat
  <2>1. lost \in Nat /\ CameIn \in Nat /\ Remains \in Nat /\ CameIn = Remains + lost
    BY <1>1 DEF LedgersTyped, LotsAmount, NothingLost
  <2> QED BY <2>1
<1>7. Cardinality(Lots) * MaxLot = MaxLot * Cardinality(Lots) /\ MaxLot * Cardinality(Lots) \in Nat
  BY <1>2, <1>5
<1> HIDE DEF f
<1>8. lost <= MaxLot * Cardinality(Lots)
  BY <1>3, <1>4, <1>5, <1>6, <1>7
<1> QED BY <1>6, <1>7, <1>8

LEMMA FulfillmentTyped ==
  ASSUME FulfillmentInv
  PROVE  FulfillmentTypeOK
<1>1. rows \in [Orders -> [performed : Quantities, remedied : Quantities,
                           unresolved : Quantities]]
  <2>1. ASSUME NEW o \in Orders
        PROVE  /\ resolution[o].performed \in Quantities
               /\ resolution[o].remedied \in Quantities
               /\ unresolved(o) \in Quantities
    <3>1. resolution[o].performed \in Quantities /\ resolution[o].remedied \in Quantities
      BY DEF FulfillmentInv, LedgersTyped
    <3>2. resolution[o].performed + resolution[o].remedied <= Ordered[o]
      BY DEF FulfillmentInv, PositionsAgree
    <3>3. unresolved(o) \in Nat /\ unresolved(o) <= MaxLot
      BY <3>1, <3>2, Amounts DEF unresolved
    <3> QED BY <3>1, <3>3, Amounts
  <2> QED BY <2>1 DEF FulfillmentInv, RowsAgree
<1>2. \A a \in Allocations :
        /\ allocations[a].work <= allocations[a].quantity
        /\ allocations[a].state = "ACCEPTED" => allocations[a].accepted = allocations[a].work
        /\ allocations[a].state = "REJECTED" => allocations[a].accepted = 0
  BY DEF FulfillmentInv, LedgersTyped, AllocationSound
<1> QED BY <1>1, <1>2, LossBounded
        DEF FulfillmentInv, LedgersTyped, FulfillmentTypeOK, LotRows, AllocationRows,
            ExceptionRows, RemedyRows

LEMMA TitleFollows ==
  ASSUME FulfillmentInv
  PROVE  TitleFollowsAcceptance
<1> SUFFICES ASSUME NEW o \in Orders
             PROVE  /\ Transferred(o, "ACCEPTANCE") = resolution[o].performed
                    /\ Transferred(o, "ACCEPTANCE") <= Transferred(o, "HANDOVER")
                    /\ Transferred(o, "HANDOVER") <= Ordered[o]
  BY DEF TitleFollowsAcceptance
<1> DEFINE Handed == {a \in Allocations : allocations[a].order = o
                        /\ allocations[a].state \in Answered \cup {"HANDED_OVER"}}
           OfOrder == {a \in Allocations : allocations[a].order = o}
           accepted == [a \in Allocations |-> allocations[a].accepted]
           worked == [a \in Allocations |-> allocations[a].work]
           quantity == [a \in Allocations |-> allocations[a].quantity]
<1>1. \A a \in Allocations :
        /\ allocations[a].accepted \in Nat /\ allocations[a].work \in Nat
        /\ allocations[a].quantity \in Nat /\ AllocationSound(allocations[a])
  BY Amounts DEF FulfillmentInv, LedgersTyped, AllocationRows
<1>2. /\ Summable(Handed, accepted) /\ Summable(Handed, worked)
      /\ Summable(OfOrder, accepted) /\ Summable(OfOrder, quantity)
  BY <1>1, FiniteLedgers DEF Summable
<1>3. /\ \A a \in Handed \cup OfOrder : Weight(Handed, accepted, a) = Weight(OfOrder, accepted, a)
      /\ \A a \in Handed : Weight(Handed, accepted, a) <= Weight(Handed, worked, a)
      /\ \A a \in Handed : Weight(Handed, worked, a) <= Weight(OfOrder, quantity, a)
  BY <1>1 DEF Weight, AllocationSound
<1>4. /\ Transferred(o, "ACCEPTANCE") = SumOver(Handed, accepted)
      /\ Transferred(o, "HANDOVER") = SumOver(Handed, worked)
      /\ acceptedFor(o) = SumOver(OfOrder, accepted)
      /\ allocatedForObligation(o) = SumOver(OfOrder, quantity)
  BY DEF Transferred, acceptedFor, allocatedForObligation
<1> HIDE DEF Handed, OfOrder, accepted, worked, quantity
<1>5. /\ SumOver(Handed, accepted) = SumOver(OfOrder, accepted)
      /\ SumOver(Handed, accepted) <= SumOver(Handed, worked)
      /\ SumOver(Handed, worked) <= SumOver(OfOrder, quantity)
  BY <1>2, <1>3, SumSame, SumLeq
<1>6. /\ resolution[o].performed = acceptedFor(o)
      /\ allocatedForObligation(o) <= Ordered[o] /\ Ordered[o] \in Nat
  BY Amounts DEF FulfillmentInv, PositionsAgree, AllocatedWithin
<1>7. SumOver(Handed, worked) \in Nat /\ SumOver(OfOrder, quantity) \in Nat
  BY <1>2, UnitsFinite
<1> QED BY <1>4, <1>5, <1>6, <1>7

(* An order is resolved once, on one ledger, told alike by the acceptances,*)
(* the completions and the order history; remedies stay within their       *)
(* exceptions; and title follows what was accepted, never beyond what was  *)
(* handed over or ordered.                                                 *)
THEOREM ResolutionAlwaysSound == FulfillmentSpec => []ResolutionSound
<1>1. FulfillmentInv => ResolutionSound
  <2> SUFFICES ASSUME FulfillmentInv PROVE ResolutionSound
    OBVIOUS
  <2>1. \A o \in Orders :
          rows[o] = [performed |-> resolution[o].performed, remedied |-> resolution[o].remedied,
                     unresolved |-> unresolved(o)]
    BY DEF FulfillmentInv, RowsAgree
  <2>2. ResolvedOnce
    BY <2>1, FulfillmentTyped DEF FulfillmentInv, PositionsAgree, PromisesWithin, ResolvedOnce
  <2> QED BY <2>2, TitleFollows DEF ResolutionSound
<1> QED BY <1>1, FulfillmentInvAlways, PTL
=============================================================================
