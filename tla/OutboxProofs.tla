---------------------------- MODULE OutboxProofs ----------------------------
(***************************************************************************)
(* Theorems about the outbox, for any events, channels, adapters, profiles *)
(* of preferences, dispatchers, caps and batch limits.                     *)
(***************************************************************************)
EXTENDS OutboxProperties, FiniteSetTheorems, TLAPS

USE OutboxAssumption

(***************************************************************************)
(* What a step may do to one row of the outbox.                            *)
(***************************************************************************)

Queued == [NoRow EXCEPT !.status = "QUEUED", !.available = TRUE]
Taken(row, w) == [row EXCEPT !.owner = w, !.live = TRUE, !.claims = @ + 1]
Delivered(row) == [row EXCEPT !.status = "DELIVERED"]
Lapsed(row) == [row EXCEPT !.live = FALSE, !.lapses = @ + 1]
Reopened(row) == [row EXCEPT !.available = TRUE]

(* What a dispatcher that records a success has been answered.             *)
Answered(w, m, ref) ==
  m[2] # InApp =>
    workers[w].at = "sent" /\ workers[w].message = m /\ workers[w].ref = ref

RowMove(m) ==
  \/ outbox'[m] = outbox[m]
  \/ outbox[m].status = "NONE" /\ outbox'[m] = Queued
  \/ Claimable(m) /\ \E w \in Workers : outbox'[m] = Taken(outbox[m], w)
  \/ \E w \in Workers, ref \in Nat :
       Owns(w, m) /\ Answered(w, m, ref) /\ outbox'[m] = Settled(outbox[m], "SENT", ref)
  \/ (\E w \in Workers : Owns(w, m)) /\ outbox'[m] = Retried(outbox[m])
  \/ outbox[m].status = "SENT" /\ outbox'[m] = Delivered(outbox[m])
  \/ outbox[m].live /\ outbox'[m] = Lapsed(outbox[m])
  \/ outbox[m].status = "FAILED" /\ outbox'[m] = Reopened(outbox[m])

RowsMove ==
  /\ \E f \in [Messages -> Rows] : outbox' = f
  /\ \A m \in Messages : RowMove(m)

-----------------------------------------------------------------------------
LEMMA NewRows ==
  /\ NoRow \in Rows /\ Queued \in Rows
  /\ NoRow.status = "NONE" /\ NoRow.claims = 0
  /\ Queued.status = "QUEUED" /\ Queued.owner = Nobody
  /\ Queued.live = FALSE
  /\ Queued.claims = 0 /\ Queued.retries = 0 /\ Queued.lapses = 0
BY DEF NoRow, Queued, Rows

LEMMA TakenRow ==
  ASSUME NEW r \in Rows, NEW w \in Workers
  PROVE  /\ Taken(r, w) \in Rows
         /\ Taken(r, w).status = r.status /\ Taken(r, w).owner = w /\ Taken(r, w).live
         /\ Taken(r, w).ref = r.ref /\ Taken(r, w).claims = r.claims + 1
         /\ Taken(r, w).retries = r.retries /\ Taken(r, w).lapses = r.lapses
<1>1. r.claims + 1 \in Nat
  BY DEF Rows
<1>2. Taken(r, w) \in Rows
  BY <1>1 DEF Taken, Rows
<1>3. Taken(r, w).live
  BY DEF Taken, Rows
<1>4. /\ Taken(r, w).status = r.status /\ Taken(r, w).owner = w
      /\ Taken(r, w).ref = r.ref /\ Taken(r, w).claims = r.claims + 1
      /\ Taken(r, w).retries = r.retries /\ Taken(r, w).lapses = r.lapses
  BY DEF Taken, Rows
<1> QED BY <1>2, <1>3, <1>4

LEMMA SentRow ==
  ASSUME NEW r \in Rows, NEW ref \in Nat
  PROVE  /\ Settled(r, "SENT", ref) \in Rows
         /\ Settled(r, "SENT", ref).status = "SENT" /\ Settled(r, "SENT", ref).owner = Nobody
         /\ ~Settled(r, "SENT", ref).live
         /\ Settled(r, "SENT", ref).ref = ref /\ Settled(r, "SENT", ref).claims = r.claims
         /\ Settled(r, "SENT", ref).retries = r.retries
         /\ Settled(r, "SENT", ref).lapses = r.lapses
BY DEF Settled, Rows

LEMMA RetriedRow ==
  ASSUME NEW r \in Rows
  PROVE  /\ Retried(r) \in Rows
         /\ Retried(r).status = "FAILED" /\ Retried(r).owner = Nobody /\ ~Retried(r).live
         /\ Retried(r).ref = r.ref /\ Retried(r).claims = r.claims
         /\ Retried(r).retries = r.retries + 1 /\ Retried(r).lapses = r.lapses
<1> DEFINE Again(q) == [q EXCEPT !.retries = @ + 1, !.available = FALSE]
<1>1. ASSUME NEW q \in Rows
      PROVE  Again(q) \in Rows /\ (Again(q).live <=> q.live)
  <2>1. q.retries + 1 \in Nat
    BY DEF Rows
  <2>2. Again(q) \in Rows
    BY <2>1 DEF Rows
  <2>3. Again(q).live <=> q.live
    BY DEF Rows
  <2> QED BY <2>2, <2>3
<1>2. \A q \in Rows :
        /\ Again(q).status = q.status /\ Again(q).owner = q.owner /\ Again(q).ref = q.ref
        /\ Again(q).claims = q.claims /\ Again(q).retries = q.retries + 1
        /\ Again(q).lapses = q.lapses
  BY DEF Rows
<1> HIDE DEF Again
<1> DEFINE q == Settled(r, "FAILED", r.ref)
<1>3. q \in Rows /\ ~q.live
  BY DEF Settled, Rows
<1>4. /\ q.status = "FAILED" /\ q.owner = Nobody
      /\ q.ref = r.ref /\ q.claims = r.claims
      /\ q.retries = r.retries /\ q.lapses = r.lapses
  BY DEF Settled, Rows
<1>5. Retried(r) = Again(q)
  BY DEF Retried, Again
<1> HIDE DEF q
<1> QED BY <1>1, <1>2, <1>3, <1>4, <1>5

LEMMA OtherRows ==
  ASSUME NEW r \in Rows
  PROVE  /\ Delivered(r) \in Rows /\ Lapsed(r) \in Rows /\ Reopened(r) \in Rows
         /\ (Delivered(r).live <=> r.live) /\ ~Lapsed(r).live /\ (Reopened(r).live <=> r.live)
         /\ Delivered(r).status = "DELIVERED" /\ Delivered(r).owner = r.owner
         /\ Lapsed(r).status = r.status /\ Lapsed(r).owner = r.owner
         /\ Reopened(r).status = r.status /\ Reopened(r).owner = r.owner
         /\ \A q \in {Delivered(r), Lapsed(r), Reopened(r)} :
              q.ref = r.ref /\ q.claims = r.claims /\ q.retries = r.retries
         /\ Delivered(r).lapses = r.lapses /\ Reopened(r).lapses = r.lapses
         /\ Lapsed(r).lapses = r.lapses + 1
<1>1. r.lapses + 1 \in Nat
  BY DEF Rows
<1>2. Lapsed(r) \in Rows
  BY <1>1 DEF Lapsed, Rows
<1>3. Delivered(r) \in Rows /\ Reopened(r) \in Rows
  BY DEF Delivered, Reopened, Rows
<1>4. (Delivered(r).live <=> r.live) /\ ~Lapsed(r).live /\ (Reopened(r).live <=> r.live)
  BY DEF Delivered, Lapsed, Reopened, Rows
<1>5. /\ Delivered(r).status = "DELIVERED" /\ Delivered(r).owner = r.owner
      /\ Lapsed(r).status = r.status /\ Lapsed(r).owner = r.owner
      /\ Reopened(r).status = r.status /\ Reopened(r).owner = r.owner
  BY DEF Delivered, Lapsed, Reopened, Rows
<1>6. \A q \in {Delivered(r), Lapsed(r), Reopened(r)} :
        q.ref = r.ref /\ q.claims = r.claims /\ q.retries = r.retries
  BY DEF Delivered, Lapsed, Reopened, Rows
<1>7. /\ Delivered(r).lapses = r.lapses /\ Reopened(r).lapses = r.lapses
      /\ Lapsed(r).lapses = r.lapses + 1
  BY DEF Delivered, Lapsed, Reopened, Rows
<1> QED BY <1>2, <1>3, <1>4, <1>5, <1>6, <1>7

-----------------------------------------------------------------------------
(* What the dispatchers are doing is sound: one that rests has nothing to  *)
(* do, one that has called a provider knows for which message, and one     *)
(* that was answered holds a message id that the provider issued for it.   *)
RunSound(w) ==
  /\ workers[w].at = "idle" => workers[w].todo = {}
  /\ workers[w].at \in {"sent", "failing"} => workers[w].message \in Messages
  /\ workers[w].at = "sent" => workers[w].ref \in 1..provider[workers[w].message]
RunsSound == \A w \in Workers : RunSound(w)

LEMMA OneRowMoves ==
  ASSUME TypeOK, NEW m \in Messages, NEW r \in Rows,
         outbox' = [outbox EXCEPT ![m] = r], outbox'[m] = r => RowMove(m)
  PROVE  RowsMove
<1>1. outbox' \in [Messages -> Rows] /\ outbox'[m] = r
  BY DEF TypeOK
<1>2. \A n \in Messages : n # m => outbox'[n] = outbox[n]
  BY DEF TypeOK
<1>3. \A n \in Messages : RowMove(n)
  BY <1>1, <1>2 DEF RowMove
<1> QED BY <1>1, <1>3 DEF RowsMove

LEMMA SentRowMoves ==
  ASSUME TypeOK, NEW w \in Workers, NEW m \in Messages, NEW ref \in Nat,
         MarkSent(w, m, ref), Answered(w, m, ref)
  PROVE  RowsMove
<1>1. outbox[m] \in Rows
  BY DEF TypeOK
<1>2. Settled(outbox[m], "SENT", ref) \in Rows
  BY <1>1, SentRow
<1>3. outbox' = [outbox EXCEPT ![m] = Settled(outbox[m], "SENT", ref)] /\ Owns(w, m)
  BY DEF MarkSent
<1>4. outbox'[m] = Settled(outbox[m], "SENT", ref) => RowMove(m)
  BY <1>3 DEF RowMove
<1> QED BY <1>2, <1>3, <1>4, OneRowMoves

LEMMA FailedRowMoves ==
  ASSUME TypeOK, NEW w \in Workers, NEW m \in Messages, MarkFailed(w, m)
  PROVE  RowsMove
<1>1. outbox[m] \in Rows
  BY DEF TypeOK
<1>2. Retried(outbox[m]) \in Rows
  BY <1>1, RetriedRow
<1>3. outbox' = [outbox EXCEPT ![m] = Retried(outbox[m])] /\ Owns(w, m)
  BY DEF MarkFailed
<1>4. outbox'[m] = Retried(outbox[m]) => RowMove(m)
  BY <1>3 DEF RowMove
<1> QED BY <1>2, <1>3, <1>4, OneRowMoves

LEMMA UnchangedRowsMove ==
  ASSUME TypeOK, UNCHANGED outbox
  PROVE  RowsMove
BY DEF RowsMove, RowMove, TypeOK

LEMMA DispatchersMoveRows ==
  ASSUME TypeOK, RunsSound, NEW w \in Workers, DispatcherStep(w)
  PROVE  RowsMove
<1>1. CASE Claim(w)
  <2>1. PICK batch \in SUBSET {m \in Messages : Claimable(m)} :
          outbox' = [m \in Messages |-> IF m \notin batch THEN outbox[m] ELSE Taken(outbox[m], w)]
    BY <1>1 DEF Claim, Taken
  <2>2. \A m \in Messages : outbox[m] \in Rows /\ Taken(outbox[m], w) \in Rows
    BY TakenRow DEF TypeOK
  <2>3. outbox' \in [Messages -> Rows]
    BY <2>1, <2>2
  <2>4. \A m \in Messages : RowMove(m)
    BY <2>1 DEF RowMove
  <2> QED BY <2>3, <2>4 DEF RowsMove
<1>2. ASSUME NEW m \in Messages, SettleInApp(w, m)
      PROVE  RowsMove
  <2>1. CASE MarkSent(w, m, 0)
    BY <1>2, <2>1, SentRowMoves DEF SettleInApp, Answered
  <2> QED BY <1>2, <2>1, UnchangedRowsMove DEF SettleInApp, Abort
<1>3. ASSUME NEW m \in Messages, SettleWithoutAdapter(w, m)
      PROVE  RowsMove
  BY <1>3, FailedRowMoves, UnchangedRowsMove DEF SettleWithoutAdapter, Abort
<1>4. CASE RecordSent(w)
  <2> DEFINE m == workers[w].message
  <2>1. m \in Messages /\ workers[w].ref \in Nat
    BY <1>4 DEF RecordSent, RunsSound, RunSound, TypeOK, Runs
  <2>2. CASE MarkSent(w, m, workers[w].ref)
    BY <1>4, <2>1, <2>2, SentRowMoves DEF RecordSent, Answered
  <2> QED BY <1>4, <2>2, UnchangedRowsMove DEF RecordSent
<1>5. CASE RecordFailure(w)
  <2>1. workers[w].message \in Messages
    BY <1>5 DEF RecordFailure, RunsSound, RunSound
  <2> QED BY <1>5, <2>1, FailedRowMoves, UnchangedRowsMove DEF RecordFailure, Abort
<1>6. ASSUME Crash(w) \/ \E m \in Messages, a, b \in BOOLEAN : Send(w, m, a, b)
      PROVE  RowsMove
  BY <1>6, UnchangedRowsMove DEF Crash, Abort, Send
<1> QED BY <1>1, <1>2, <1>3, <1>4, <1>5, <1>6 DEF DispatcherStep

LEMMA StepsMoveRows ==
  ASSUME TypeOK, RunsSound, [Next]_vars
  PROVE  RowsMove
<1>1. ASSUME NEW e \in Offered, NEW commits \in BOOLEAN, Produce(e, commits)
      PROVE  RowsMove
  <2>1. PICK new : outbox' = IF ~commits THEN outbox ELSE [m \in Messages |->
          IF m \in new /\ outbox[m].status = "NONE" THEN Queued ELSE outbox[m]]
    BY <1>1 DEF Produce, Queued
  <2>2. CASE ~commits
    BY <2>1, <2>2, UnchangedRowsMove
  <2>3. CASE commits
    <3>1. outbox' = [m \in Messages |->
            IF m \in new /\ outbox[m].status = "NONE" THEN Queued ELSE outbox[m]]
      BY <2>1, <2>3
    <3>2. outbox' \in [Messages -> Rows]
      BY <3>1, NewRows DEF TypeOK
    <3>3. \A m \in Messages : RowMove(m)
      BY <3>1 DEF RowMove
    <3> QED BY <3>2, <3>3 DEF RowsMove
  <2> QED BY <2>2, <2>3
<1>2. ASSUME NEW m \in Messages, LeaseRunsOut(m)
      PROVE  RowsMove
  <2>1. outbox' = [outbox EXCEPT ![m] = Lapsed(outbox[m])]
    BY <1>2 DEF LeaseRunsOut, Lapsed
  <2>2. outbox[m] \in Rows /\ Lapsed(outbox[m]) \in Rows
    BY OtherRows DEF TypeOK
  <2>3. outbox'[m] = Lapsed(outbox[m]) => RowMove(m)
    BY <1>2 DEF LeaseRunsOut, RowMove
  <2> QED BY <2>1, <2>2, <2>3, OneRowMoves
<1>3. ASSUME NEW m \in Messages, BecomesAvailable(m)
      PROVE  RowsMove
  <2>1. outbox' = [outbox EXCEPT ![m] = Reopened(outbox[m])]
    BY <1>3 DEF BecomesAvailable, Reopened
  <2>2. outbox[m] \in Rows /\ Reopened(outbox[m]) \in Rows
    BY OtherRows DEF TypeOK
  <2>3. outbox'[m] = Reopened(outbox[m]) => RowMove(m)
    BY <1>3 DEF BecomesAvailable, RowMove
  <2> QED BY <2>1, <2>2, <2>3, OneRowMoves
<1>4. ASSUME NEW m \in Messages, NEW ref, MarkDelivered(m, ref)
      PROVE  RowsMove
  <2>1. outbox' = [outbox EXCEPT ![m] = Delivered(outbox[m])]
    BY <1>4 DEF MarkDelivered, Delivered
  <2>2. outbox[m] \in Rows /\ Delivered(outbox[m]) \in Rows
    BY OtherRows DEF TypeOK
  <2>3. outbox'[m] = Delivered(outbox[m]) => RowMove(m)
    BY <1>4 DEF MarkDelivered, RowMove
  <2> QED BY <2>1, <2>2, <2>3, OneRowMoves
<1>5. ASSUME \/ \E version \in Versions, profile \in Profiles : SavePreferences(version, profile)
             \/ ReadPreferences \/ ProducerRestarts \/ UNCHANGED vars
      PROVE  RowsMove
  BY <1>5, UnchangedRowsMove DEF SavePreferences, ReadPreferences, ProducerRestarts, vars
<1> QED BY <1>1, <1>2, <1>3, <1>4, <1>5, DispatchersMoveRows DEF Next

-----------------------------------------------------------------------------
(* A row is claimed once, and once more for every failure and every lease  *)
(* that ran out; the last claim is still live, or was the one that sent.   *)
Spent(m) == outbox[m].live \/ outbox[m].status \in {"SENT", "DELIVERED"}
ClaimsEarned ==
  \A m \in Messages :
    /\ outbox[m].status = "NONE" => outbox[m].claims = 0
    /\ outbox[m].claims <= outbox[m].retries + outbox[m].lapses + 1
    /\ ~Spent(m) => outbox[m].claims <= outbox[m].retries + outbox[m].lapses

(* What the row says was sent, a provider has accepted.                    *)
RefsIssued ==
  \A m \in Messages : (outbox[m].status \in {"SENT", "DELIVERED"} /\ m[2] # InApp) =>
    outbox[m].ref \in 1..provider[m]

LEMMA RowsStayTyped ==
  ASSUME TypeOK, RowsMove, NEW m \in Messages
  PROVE  /\ outbox' \in [Messages -> Rows]
         /\ outbox'[m].live => /\ outbox'[m].owner # Nobody
                               /\ outbox'[m].status \in {"QUEUED", "FAILED"}
<1>1. outbox' \in [Messages -> Rows] /\ RowMove(m)
  BY DEF RowsMove
<1>2. outbox[m] \in Rows
  BY DEF TypeOK
<1>3. outbox[m].live => /\ outbox[m].owner # Nobody
                        /\ outbox[m].status \in {"QUEUED", "FAILED"}
  BY DEF TypeOK
<1>4. CASE outbox'[m] = outbox[m]
  BY <1>1, <1>3, <1>4
<1>5. CASE outbox'[m] = Queued
  BY <1>1, <1>5, NewRows
<1>6. ASSUME Claimable(m), NEW w \in Workers, outbox'[m] = Taken(outbox[m], w)
      PROVE  outbox'[m].owner # Nobody /\ outbox'[m].status \in {"QUEUED", "FAILED"}
  BY <1>2, <1>6, TakenRow DEF Claimable, Unsent
<1>7. ASSUME NEW ref \in Nat, outbox'[m] = Settled(outbox[m], "SENT", ref)
      PROVE  ~outbox'[m].live
  BY <1>2, <1>7, SentRow
<1>8. CASE outbox'[m] = Retried(outbox[m])
  BY <1>1, <1>2, <1>8, RetriedRow
<1>9. CASE outbox[m].status = "SENT" /\ outbox'[m] = Delivered(outbox[m])
  BY <1>1, <1>2, <1>3, <1>9, OtherRows
<1>10. CASE outbox'[m] = Lapsed(outbox[m])
  BY <1>1, <1>2, <1>10, OtherRows
<1>11. CASE outbox'[m] = Reopened(outbox[m])
  BY <1>1, <1>2, <1>3, <1>11, OtherRows
<1> QED BY <1>1, <1>4, <1>5, <1>6, <1>7, <1>8, <1>9, <1>10, <1>11 DEF RowMove

LEMMA ClaimsStayEarned ==
  ASSUME TypeOK, ClaimsEarned, RowsMove, NEW m \in Messages
  PROVE  /\ outbox'[m].status = "NONE" => outbox'[m].claims = 0
         /\ outbox'[m].claims <= outbox'[m].retries + outbox'[m].lapses + 1
         /\ ~Spent(m)' => outbox'[m].claims <= outbox'[m].retries + outbox'[m].lapses
         /\ outbox'[m].claims >= outbox[m].claims
<1> USE DEF Spent
<1>1. RowMove(m)
  BY DEF RowsMove
<1>2. /\ outbox[m] \in Rows
      /\ outbox[m].claims \in Nat /\ outbox[m].retries \in Nat /\ outbox[m].lapses \in Nat
  BY DEF TypeOK, Rows
<1>3. /\ outbox[m].status = "NONE" => outbox[m].claims = 0
      /\ outbox[m].claims <= outbox[m].retries + outbox[m].lapses + 1
      /\ ~Spent(m) => outbox[m].claims <= outbox[m].retries + outbox[m].lapses
  BY DEF ClaimsEarned
<1>4. CASE outbox'[m] = outbox[m]
  BY <1>2, <1>3, <1>4
<1>5. CASE outbox[m].status = "NONE" /\ outbox'[m] = Queued
  BY <1>2, <1>3, <1>5, NewRows
<1>6. ASSUME Claimable(m), NEW w \in Workers, outbox'[m] = Taken(outbox[m], w)
      PROVE  /\ outbox'[m].status # "NONE" /\ outbox'[m].live
             /\ outbox'[m].claims <= outbox'[m].retries + outbox'[m].lapses + 1
             /\ outbox'[m].claims >= outbox[m].claims
  <2>1. ~Spent(m)
    BY <1>6 DEF Claimable, Unsent
  <2> QED BY <1>2, <1>3, <1>6, <2>1, TakenRow DEF Claimable, Unsent
<1>7. ASSUME NEW ref \in Nat, outbox'[m] = Settled(outbox[m], "SENT", ref)
      PROVE  /\ outbox'[m].status = "SENT" /\ outbox'[m].claims = outbox[m].claims
             /\ outbox'[m].retries = outbox[m].retries /\ outbox'[m].lapses = outbox[m].lapses
  <2>1. outbox[m] \in Rows
    BY <1>2
  <2>2. /\ Settled(outbox[m], "SENT", ref).status = "SENT"
        /\ Settled(outbox[m], "SENT", ref).claims = outbox[m].claims
        /\ Settled(outbox[m], "SENT", ref).retries = outbox[m].retries
        /\ Settled(outbox[m], "SENT", ref).lapses = outbox[m].lapses
    BY <2>1, SentRow
  <2> QED BY <1>7, <2>2
<1>8. CASE outbox'[m] = Retried(outbox[m])
  BY <1>2, <1>3, <1>8, RetriedRow
<1>9. CASE outbox[m].status = "SENT" /\ outbox'[m] = Delivered(outbox[m])
  BY <1>2, <1>3, <1>9, OtherRows
<1>10. CASE outbox'[m] = Lapsed(outbox[m])
  BY <1>2, <1>3, <1>10, OtherRows
<1>11. CASE outbox'[m] = Reopened(outbox[m])
  BY <1>2, <1>3, <1>11, OtherRows
<1> QED BY <1>1, <1>2, <1>3, <1>4, <1>5, <1>6, <1>7, <1>8, <1>9, <1>10, <1>11 DEF RowMove

LEMMA RefsStayIssued ==
  ASSUME TypeOK, RunsSound, RefsIssued, RowsMove, NEW m \in Messages,
         provider'[m] \in Nat, provider'[m] >= provider[m],
         outbox'[m].status \in {"SENT", "DELIVERED"}, m[2] # InApp
  PROVE  outbox'[m].ref \in 1..provider'[m]
<1>1. RowMove(m)
  BY DEF RowsMove
<1>2. outbox[m] \in Rows /\ provider[m] \in Nat
  BY DEF TypeOK
<1>3. outbox[m].status \in {"SENT", "DELIVERED"} => outbox[m].ref \in 1..provider[m]
  BY DEF RefsIssued
<1>4. CASE outbox'[m] = outbox[m]
  BY <1>2, <1>3, <1>4
<1>5. outbox'[m] # Queued
  BY NewRows
<1>6. ASSUME Claimable(m), NEW w \in Workers
      PROVE  outbox'[m] # Taken(outbox[m], w)
  BY <1>2, <1>6, TakenRow DEF Claimable, Unsent
<1>7. ASSUME NEW w \in Workers, NEW ref \in Nat, Answered(w, m, ref),
             outbox'[m] = Settled(outbox[m], "SENT", ref)
      PROVE  outbox'[m].ref \in 1..provider'[m]
  <2>1. ref \in 1..provider[m]
    BY <1>7 DEF Answered, RunsSound, RunSound
  <2>2. Settled(outbox[m], "SENT", ref).ref = ref
    BY <1>2, SentRow
  <2> QED BY <1>2, <1>7, <2>1, <2>2
<1>8. outbox'[m] # Retried(outbox[m])
  BY <1>2, RetriedRow
<1>9. CASE outbox[m].status = "SENT" /\ outbox'[m] = Delivered(outbox[m])
  BY <1>2, <1>3, <1>9, OtherRows
<1>10. CASE outbox'[m] = Lapsed(outbox[m])
  BY <1>2, <1>3, <1>10, OtherRows
<1>11. CASE outbox'[m] = Reopened(outbox[m])
  BY <1>2, <1>3, <1>11, OtherRows
<1> QED BY <1>1, <1>4, <1>5, <1>6, <1>7, <1>8, <1>9, <1>10, <1>11 DEF RowMove

-----------------------------------------------------------------------------
(* The dispatchers that may still call a provider for a message.           *)
Unspent(run, m) == m \in run.todo /\ ~(run.at \in {"sent", "failing"} /\ run.message = m)
Pending(m) == {w \in Workers : Unspent(workers[w], m)}
SendsClaimed == \A m \in Messages : provider[m] + Cardinality(Pending(m)) <= outbox[m].claims

(* A step that calls no provider and claims nothing.                       *)
QuietRun(r, q) ==
  /\ r \in Runs
  /\ r.at = "idle" => r.todo = {}
  /\ r.at \in {"sent", "failing"} => r.message \in Messages
  /\ r.at # "sent"
  /\ \A m \in Messages : Unspent(r, m) => Unspent(q, m)

QuietMove ==
  /\ UNCHANGED provider
  /\ \/ UNCHANGED workers
     \/ \E w \in Workers : \E r : /\ workers' = [workers EXCEPT ![w] = r]
                                 /\ QuietRun(r, workers[w])

NextRun(todo) == [Resting EXCEPT !.at = "next", !.todo = todo]

LEMMA RunRows ==
  /\ Resting \in Runs /\ Resting.at = "idle" /\ Resting.todo = {}
  /\ \A s \in SUBSET Messages :
       NextRun(s) \in Runs /\ NextRun(s).at = "next" /\ NextRun(s).todo = s
BY DEF Resting, Runs, NextRun

LEMMA RestIsQuiet == ASSUME NEW q PROVE QuietRun(Resting, q)
BY RunRows DEF QuietRun, Unspent

LEMMA ProceedIsQuiet ==
  ASSUME TypeOK, NEW w \in Workers, NEW m, Proceed(w, m), UNCHANGED provider,
         workers[w].at \in {"sent", "failing"} => workers[w].message = m
  PROVE  QuietMove
<1> DEFINE s == workers[w].todo \ {m}
           r == IF workers[w].todo = {m} THEN Resting ELSE NextRun(s)
<1>1. workers' = [workers EXCEPT ![w] = r]
  BY DEF Proceed, NextRun
<1>2. s \in SUBSET Messages
  BY DEF TypeOK, Runs
<1>3. r \in Runs /\ r.at \in {"idle", "next"} /\ r.todo = s /\ (r.at = "idle" => s = {})
  BY <1>2, RunRows
<1>4. \A n \in Messages : Unspent(r, n) => Unspent(workers[w], n)
  BY <1>3 DEF Unspent
<1> HIDE DEF r, s
<1>5. QuietRun(r, workers[w])
  BY <1>3, <1>4 DEF QuietRun
<1> QED BY <1>1, <1>5 DEF QuietMove

LEMMA AbortIsQuiet ==
  ASSUME NEW w \in Workers, Abort(w), UNCHANGED provider
  PROVE  QuietMove
BY RestIsQuiet DEF Abort, QuietMove

LEMMA DispatchersMove ==
  ASSUME TypeOK, RunsSound, NEW w \in Workers, DispatcherStep(w)
  PROVE  \/ QuietMove
         \/ Claim(w)
         \/ \E m \in Messages, accepted, answered \in BOOLEAN : Send(w, m, accepted, answered)
<1>1. ASSUME NEW m \in Messages, SettleInApp(w, m) \/ SettleWithoutAdapter(w, m)
      PROVE  QuietMove
  <2>1. workers[w].at = "next" /\ UNCHANGED provider /\ (Proceed(w, m) \/ Abort(w))
    BY <1>1 DEF SettleInApp, SettleWithoutAdapter
  <2> QED BY <2>1, ProceedIsQuiet, AbortIsQuiet
<1>2. CASE RecordSent(w)
  <2>1. UNCHANGED provider /\ workers[w].at = "sent"
    BY <1>2 DEF RecordSent
  <2>2. CASE Proceed(w, workers[w].message)
    BY <2>1, <2>2, ProceedIsQuiet
  <2>3. CASE workers' = [workers EXCEPT ![w] = [workers[w] EXCEPT !.at = "failing", !.ref = 0]]
    <3> DEFINE r == [workers[w] EXCEPT !.at = "failing", !.ref = 0]
    <3>1. workers[w] \in Runs /\ workers[w].message \in Messages
      BY <2>1 DEF TypeOK, RunsSound, RunSound
    <3>2. r \in Runs /\ r.at = "failing" /\ r.message = workers[w].message
          /\ r.todo = workers[w].todo
      BY <3>1 DEF Runs
    <3>3. \A n \in Messages : Unspent(r, n) => Unspent(workers[w], n)
      BY <2>1, <3>2 DEF Unspent
    <3> HIDE DEF r
    <3>4. QuietRun(r, workers[w])
      BY <3>1, <3>2, <3>3 DEF QuietRun
    <3> QED BY <2>1, <2>3, <3>4 DEF QuietMove, r
  <2> QED BY <1>2, <2>2, <2>3 DEF RecordSent
<1>3. CASE RecordFailure(w)
  BY <1>3, ProceedIsQuiet, AbortIsQuiet DEF RecordFailure
<1>4. CASE Crash(w)
  BY <1>4, AbortIsQuiet DEF Crash
<1> QED BY <1>1, <1>2, <1>3, <1>4 DEF DispatcherStep

LEMMA StepsMoveRuns ==
  ASSUME TypeOK, RunsSound, [Next]_vars
  PROVE  \/ QuietMove
         \/ \E w \in Workers : Claim(w)
         \/ \E w \in Workers, m \in Messages, accepted, answered \in BOOLEAN :
              Send(w, m, accepted, answered)
<1>1. ASSUME UNCHANGED <<workers, provider>>
      PROVE  QuietMove
  BY <1>1 DEF QuietMove
<1>2. CASE \/ \E version \in Versions, profile \in Profiles : SavePreferences(version, profile)
           \/ ReadPreferences \/ ProducerRestarts \/ UNCHANGED vars
           \/ \E e \in Offered, commits \in BOOLEAN : Produce(e, commits)
  BY <1>1, <1>2 DEF SavePreferences, ReadPreferences, ProducerRestarts, Produce, vars
<1>3. CASE \E m \in Messages : \/ LeaseRunsOut(m) \/ BecomesAvailable(m)
                               \/ \E ref \in 0..provider[m] : MarkDelivered(m, ref)
  BY <1>1, <1>3 DEF LeaseRunsOut, BecomesAvailable, MarkDelivered
<1> QED BY <1>2, <1>3, DispatchersMove DEF Next

-----------------------------------------------------------------------------
(* Each kind of step keeps the runs sound and the sends below the claims.  *)

RunsOK ==
  /\ workers \in [Workers -> Runs]
  /\ provider \in [Messages -> Nat]
  /\ RunsSound
  /\ SendsClaimed

LEMMA PendingIsFinite ==
  ASSUME NEW m
  PROVE  IsFiniteSet(Pending(m)) /\ Cardinality(Pending(m)) \in Nat
<1>1. Pending(m) \in SUBSET Workers
  BY DEF Pending
<1> QED BY <1>1, FS_Subset, FS_CardinalityType

LEMMA FewerPending ==
  ASSUME NEW m, Pending(m)' \subseteq Pending(m)
  PROVE  Cardinality(Pending(m)') <= Cardinality(Pending(m))
BY PendingIsFinite, FS_Subset

LEMMA QuietKeepsRuns ==
  ASSUME TypeOK, RunsOK, QuietMove,
         \A m \in Messages : outbox'[m].claims \in Nat /\ outbox'[m].claims >= outbox[m].claims
  PROVE  RunsOK'
<1>1. workers' \in [Workers -> Runs] /\ provider' = provider /\ provider' \in [Messages -> Nat]
  BY DEF QuietMove, QuietRun, TypeOK, RunsOK
<1>2. \A w \in Workers : RunSound(w)'
  BY <1>1 DEF QuietMove, QuietRun, RunsOK, RunsSound, RunSound
<1>3. ASSUME NEW m \in Messages
      PROVE  provider'[m] + Cardinality(Pending(m)') <= outbox'[m].claims
  <2>1. \A w \in Workers : Unspent(workers'[w], m) => Unspent(workers[w], m)
    BY DEF QuietMove, QuietRun, RunsOK
  <2>2. Pending(m)' \subseteq Pending(m)
    BY <2>1 DEF Pending
  <2>3. Cardinality(Pending(m)') <= Cardinality(Pending(m))
    BY <2>2, FewerPending
  <2>4. Cardinality(Pending(m)) \in Nat /\ Cardinality(Pending(m)') \in Nat
    <3>1. IsFiniteSet(Pending(m)')
      BY <2>2, PendingIsFinite, FS_Subset
    <3> QED BY <3>1, PendingIsFinite, FS_CardinalityType
  <2>5. provider[m] + Cardinality(Pending(m)) <= outbox[m].claims
    BY DEF RunsOK, SendsClaimed
  <2>6. /\ provider[m] \in Nat /\ outbox[m].claims \in Nat
        /\ outbox'[m].claims \in Nat /\ outbox'[m].claims >= outbox[m].claims
    BY DEF TypeOK, Rows
  <2> QED BY <1>1, <2>3, <2>4, <2>5, <2>6
<1> QED BY <1>1, <1>2, <1>3 DEF RunsOK, RunsSound, SendsClaimed

LEMMA ClaimKeepsRuns ==
  ASSUME TypeOK, RunsOK, NEW w \in Workers, Claim(w)
  PROVE  RunsOK'
<1>1. PICK batch \in SUBSET {m \in Messages : Claimable(m)} :
        /\ workers[w].at = "idle"
        /\ outbox' = [m \in Messages |-> IF m \notin batch THEN outbox[m] ELSE Taken(outbox[m], w)]
        /\ workers' = [workers EXCEPT ![w] = NextRun(batch)]
        /\ UNCHANGED provider
  BY DEF Claim, Taken, NextRun
<1>2. /\ NextRun(batch) \in Runs /\ NextRun(batch).at = "next" /\ NextRun(batch).todo = batch
      /\ batch \subseteq Messages
  BY RunRows
<1>3. /\ workers' \in [Workers -> Runs] /\ workers'[w] = NextRun(batch)
      /\ \A x \in Workers : x # w => workers'[x] = workers[x]
  BY <1>1, <1>2 DEF RunsOK
<1>4. \A x \in Workers : RunSound(x)'
  BY <1>1, <1>2, <1>3 DEF RunsOK, RunsSound, RunSound
<1>5. ASSUME NEW m \in Messages
      PROVE  provider'[m] + Cardinality(Pending(m)') <= outbox'[m].claims
  <2>1. Cardinality(Pending(m)) \in Nat /\ provider[m] \in Nat /\ outbox[m].claims \in Nat
    BY PendingIsFinite DEF TypeOK, Rows
  <2>2. provider[m] + Cardinality(Pending(m)) <= outbox[m].claims
    BY DEF RunsOK, SendsClaimed
  <2>3. CASE m \in batch
    <3>1. Pending(m)' = Pending(m) \cup {w}
      BY <1>2, <1>3, <2>3 DEF Pending, Unspent
    <3>2. w \notin Pending(m)
      BY <1>1 DEF Pending, Unspent, RunsOK, RunsSound, RunSound
    <3>3. Cardinality(Pending(m)') = Cardinality(Pending(m)) + 1
      BY <3>1, <3>2, PendingIsFinite, FS_AddElement
    <3>4. outbox'[m].claims = outbox[m].claims + 1
      BY <1>1, <2>3, TakenRow DEF TypeOK
    <3> QED BY <1>1, <2>1, <2>2, <3>3, <3>4
  <2>4. CASE m \notin batch
    <3>1. Pending(m)' = Pending(m)
      BY <1>1, <1>2, <1>3, <2>4 DEF Pending, Unspent, RunsOK, RunsSound, RunSound
    <3>2. outbox'[m] = outbox[m]
      BY <1>1, <2>4
    <3> QED BY <1>1, <2>2, <3>1, <3>2
  <2> QED BY <2>3, <2>4
<1> QED BY <1>1, <1>3, <1>4, <1>5 DEF RunsOK, RunsSound, SendsClaimed

LEMMA SendKeepsRuns ==
  ASSUME TypeOK, RunsOK, NEW w \in Workers, NEW m \in Messages,
         NEW accepted \in BOOLEAN, NEW answered \in BOOLEAN, Send(w, m, accepted, answered)
  PROVE  /\ RunsOK'
         /\ \A n \in Messages : provider'[n] >= provider[n]
<1> DEFINE a == IF answered THEN "sent" ELSE "failing"
           k == IF answered THEN provider[m] + 1 ELSE 0
           r == [workers[w] EXCEPT !.at = a, !.message = m, !.ref = k]
<1>1. /\ workers[w].at = "next" /\ m \in workers[w].todo /\ (answered => accepted)
      /\ provider' = IF accepted THEN [provider EXCEPT ![m] = @ + 1] ELSE provider
      /\ workers' = [workers EXCEPT ![w] = r]
      /\ UNCHANGED outbox
  BY DEF Send
<1>2. workers[w] \in Runs /\ provider \in [Messages -> Nat] /\ provider[m] \in Nat
  BY DEF TypeOK
<1>3. /\ r \in Runs /\ r.message = m /\ r.todo = workers[w].todo
      /\ r.at = IF answered THEN "sent" ELSE "failing"
      /\ r.ref = IF answered THEN provider[m] + 1 ELSE 0
  <2>1. a \in {"sent", "failing"} /\ k \in Nat
    BY <1>2
  <2> HIDE DEF a, k
  <2>2. r \in Runs /\ r.message = m /\ r.todo = workers[w].todo /\ r.at = a /\ r.ref = k
    BY <1>2, <2>1 DEF Runs
  <2> QED BY <2>2 DEF a, k
<1> HIDE DEF r, a, k
<1>4. /\ workers' \in [Workers -> Runs] /\ workers'[w] = r
      /\ \A x \in Workers : x # w => workers'[x] = workers[x]
  BY <1>1, <1>3 DEF RunsOK
<1>5. /\ provider' \in [Messages -> Nat]
      /\ provider'[m] = IF accepted THEN provider[m] + 1 ELSE provider[m]
      /\ \A n \in Messages : n # m => provider'[n] = provider[n]
  BY <1>1, <1>2
<1>6. \A n \in Messages : provider'[n] >= provider[n] /\ provider[n] \in Nat
  BY <1>2, <1>5
<1>7. \A x \in Workers : RunSound(x)'
  <2>1. RunSound(w)'
    BY <1>1, <1>2, <1>3, <1>4, <1>5 DEF RunSound
  <2>2. ASSUME NEW x \in Workers, x # w
        PROVE  RunSound(x)'
    <3>1. workers'[x] = workers[x] /\ RunSound(x)
      BY <1>4, <2>2 DEF RunsOK, RunsSound
    <3>2. workers[x].at = "sent" => workers[x].message \in Messages
      BY <3>1 DEF RunSound
    <3>3. workers[x].at = "sent" => workers[x].ref \in 1..provider'[workers[x].message]
      BY <1>5, <1>6, <3>1, <3>2 DEF RunSound
    <3> QED BY <3>1, <3>3 DEF RunSound
  <2> QED BY <2>1, <2>2
<1>8. ASSUME NEW n \in Messages
      PROVE  provider'[n] + Cardinality(Pending(n)') <= outbox'[n].claims
  <2>1. Cardinality(Pending(n)) \in Nat /\ provider[n] \in Nat /\ outbox[n].claims \in Nat
    BY PendingIsFinite DEF TypeOK, Rows
  <2>2. provider[n] + Cardinality(Pending(n)) <= outbox[n].claims
    BY DEF RunsOK, SendsClaimed
  <2>3. CASE n = m
    <3>1. Pending(m)' = Pending(m) \ {w}
      BY <1>3, <1>4 DEF Pending, Unspent
    <3>2. w \in Pending(m)
      BY <1>1 DEF Pending, Unspent
    <3>3. Cardinality(Pending(m)') = Cardinality(Pending(m)) - 1
      BY <3>1, <3>2, PendingIsFinite, FS_RemoveElement
    <3> QED BY <1>1, <1>5, <2>1, <2>2, <2>3, <3>3
  <2>4. CASE n # m
    <3>1. Pending(n)' = Pending(n)
      BY <1>1, <1>3, <1>4, <2>4 DEF Pending, Unspent
    <3> QED BY <1>1, <1>5, <2>2, <2>4, <3>1
  <2> QED BY <2>3, <2>4
<1> QED BY <1>4, <1>5, <1>6, <1>7, <1>8 DEF RunsOK, RunsSound, SendsClaimed

-----------------------------------------------------------------------------
(* Consent.                                                                *)

Allows(p, m) ==
  /\ p # Nobody
  /\ m[2] \notin p.suppressed
  /\ IF m[1].type \in Promotional THEN p.optIn /\ m[2] \in p.promotional
                                  ELSE m[2] \in p.transactional

(* Preferences, as they are or as a producer has read them, are of a       *)
(* consent event.                                                          *)
OfAnEvent(p) ==
  p.version > 0 => /\ p.version \in Versions
                   /\ p.profile \in Profiles
                   /\ consents[p.version] = p.profile

ConsentInv ==
  /\ preferences \in PreferenceRows /\ OfAnEvent(preferences)
  /\ \A v \in Versions : consents[v] # Nobody => v <= preferences.version
  /\ consents \in [Versions -> Profiles \cup {Nobody}]
  /\ producer \in [read : PreferenceRows, store : SUBSET Messages]
  /\ OfAnEvent(producer.read)
  /\ \A m \in Messages : outbox[m].status # "NONE" =>
       \E v \in Versions : Allows(consents[v], m)

LEMMA ProfileSets ==
  ASSUME NEW p \in Profiles
  PROVE  /\ p # Nobody
         /\ p.transactional \subseteq Channels /\ p.promotional \subseteq Channels
BY DEF OutboxAssumption

LEMMA AllowedChannels ==
  ASSUME NEW p \in Profiles, NEW e \in Offered, NEW c \in Allowed(e.type, p)
  PROVE  <<e, c>> \in Messages /\ Allows(p, <<e, c>>)
<1>1. c \in Channels /\ p # Nobody
  BY ProfileSets DEF Allowed
<1>2. c \notin p.suppressed
  BY DEF Allowed
<1>3. IF e.type \in Promotional THEN p.optIn /\ c \in p.promotional ELSE c \in p.transactional
  BY DEF Allowed
<1> QED BY <1>1, <1>2, <1>3 DEF Messages, Allows

LEMMA DispatchersKeepAbsence ==
  ASSUME TypeOK, RunsSound, NEW w \in Workers, DispatcherStep(w), NEW m \in Messages,
         outbox[m].status = "NONE"
  PROVE  outbox'[m].status = "NONE"
<1>1. ~Claimable(m) /\ \A x \in Workers : ~Owns(x, m)
  BY DEF Claimable, Owns, Unsent
<1>2. \A n, ref : MarkSent(w, n, ref) => outbox'[m] = outbox[m]
  BY <1>1 DEF MarkSent, TypeOK
<1>3. \A n : MarkFailed(w, n) => outbox'[m] = outbox[m]
  BY <1>1 DEF MarkFailed, TypeOK
<1>4. CASE Claim(w)
  BY <1>1, <1>4 DEF Claim
<1> QED BY <1>2, <1>3, <1>4 DEF DispatcherStep, RecordSent, RecordFailure, Crash, SettleInApp,
                               SettleWithoutAdapter, Send, Abort

LEMMA SavingKeepsConsent ==
  ASSUME TypeOK, ConsentInv, NEW version \in Versions, NEW profile \in Profiles,
         SavePreferences(version, profile)
  PROVE  ConsentInv'
<1>1. /\ version > preferences.version /\ consents[version] = Nobody
      /\ consents' = [consents EXCEPT ![version] = profile]
      /\ preferences' = [version |-> version, profile |-> profile]
      /\ UNCHANGED <<producer, outbox>>
  BY DEF SavePreferences, Advances
<1>2. /\ preferences'.version = version /\ preferences'.profile = profile
      /\ preferences' \in PreferenceRows
  BY <1>1 DEF PreferenceRows, Versions
<1>3. /\ consents' \in [Versions -> Profiles \cup {Nobody}] /\ consents'[version] = profile
      /\ \A v \in Versions : v # version => consents'[v] = consents[v]
  BY <1>1 DEF ConsentInv
<1>4. preferences.version \in 0..MaxVersion /\ \A v \in Versions : v \in Nat
  BY DEF ConsentInv, PreferenceRows, Versions
<1>5. \A v \in Versions : consents'[v] # Nobody => v <= version
  BY <1>1, <1>3, <1>4 DEF ConsentInv
<1>6. \A v \in Versions : consents[v] # Nobody => consents'[v] = consents[v]
  BY <1>1, <1>3
<1>7. OfAnEvent(preferences)'
  BY <1>2, <1>3 DEF OfAnEvent
<1>8. OfAnEvent(producer.read)'
  BY <1>1, <1>6, ProfileSets DEF OfAnEvent, ConsentInv
<1>9. \A m \in Messages : outbox'[m].status # "NONE" =>
        \E v \in Versions : Allows(consents'[v], m)
  <2> SUFFICES ASSUME NEW m \in Messages, outbox'[m].status # "NONE"
               PROVE  \E v \in Versions : Allows(consents'[v], m)
    OBVIOUS
  <2>1. PICK v \in Versions : Allows(consents[v], m)
    BY <1>1 DEF ConsentInv
  <2>2. consents'[v] = consents[v]
    BY <2>1, <1>6 DEF Allows
  <2> QED BY <2>1, <2>2
<1> QED BY <1>1, <1>2, <1>3, <1>5, <1>7, <1>8, <1>9 DEF ConsentInv

LEMMA ProducingKeepsConsent ==
  ASSUME TypeOK, ConsentInv, NEW e \in Offered, NEW commits \in BOOLEAN, Produce(e, commits)
  PROVE  ConsentInv'
<1> DEFINE p == producer.read.profile
           new == {<<e, c>> : c \in Allowed(e.type, p)}
<1>1. /\ producer.read.version > 0
      /\ producer' = [producer EXCEPT !.store = @ \cup new]
      /\ outbox' = IF ~commits THEN outbox ELSE [m \in Messages |->
           IF m \in new /\ outbox[m].status = "NONE" THEN Queued ELSE outbox[m]]
      /\ UNCHANGED <<preferences, consents>>
  BY DEF Produce, Queued
<1>2. /\ p \in Profiles /\ producer.read.version \in Versions
      /\ consents[producer.read.version] = p
  BY <1>1 DEF ConsentInv, OfAnEvent
<1>3. new \subseteq Messages /\ \A m \in new : Allows(p, m)
  BY <1>2, AllowedChannels
<1> HIDE DEF new, p
<1>4. /\ producer' \in [read : PreferenceRows, store : SUBSET Messages]
      /\ producer'.read = producer.read
  BY <1>1, <1>3 DEF ConsentInv
<1>5. ASSUME NEW m \in Messages, outbox'[m].status # "NONE"
      PROVE  \E v \in Versions : Allows(consents[v], m)
  <2>1. m \in new \/ outbox'[m] = outbox[m]
    BY <1>1
  <2> QED BY <1>2, <1>3, <1>5, <2>1 DEF ConsentInv
<1> QED BY <1>1, <1>4, <1>5 DEF ConsentInv, OfAnEvent

LEMMA ConsentKept ==
  ASSUME TypeOK, RunsSound, ConsentInv, [Next]_vars
  PROVE  ConsentInv'
<1>1. ASSUME UNCHANGED <<preferences, consents, producer>>,
             \A m \in Messages : outbox[m].status = "NONE" => outbox'[m].status = "NONE"
      PROVE  ConsentInv'
  BY <1>1 DEF ConsentInv, OfAnEvent
<1>2. CASE ReadPreferences
  <2>1. /\ producer' = [producer EXCEPT !.read = preferences]
        /\ UNCHANGED <<preferences, consents, outbox>>
    BY <1>2 DEF ReadPreferences
  <2>2. /\ producer'.read = preferences
        /\ producer' \in [read : PreferenceRows, store : SUBSET Messages]
    BY <2>1 DEF ConsentInv
  <2> QED BY <2>1, <2>2 DEF ConsentInv, OfAnEvent
<1>3. CASE ProducerRestarts
  <2>1. /\ producer' = [read |-> NoPreferences, store |-> {}]
        /\ UNCHANGED <<preferences, consents, outbox>>
    BY <1>3 DEF ProducerRestarts
  <2>2. NoPreferences \in PreferenceRows /\ NoPreferences.version = 0
    BY DEF NoPreferences, PreferenceRows
  <2>3. /\ producer'.read = NoPreferences
        /\ producer' \in [read : PreferenceRows, store : SUBSET Messages]
    BY <2>1, <2>2
  <2> QED BY <2>1, <2>2, <2>3 DEF ConsentInv, OfAnEvent
<1>4. ASSUME NEW w \in Workers, DispatcherStep(w)
      PROVE  ConsentInv'
  <2>1. UNCHANGED <<preferences, consents, producer>>
    BY <1>4 DEF DispatcherStep, Claim, RecordSent, RecordFailure, Crash, SettleInApp,
                SettleWithoutAdapter, Send
  <2>2. ASSUME NEW m \in Messages, outbox[m].status = "NONE"
        PROVE  outbox'[m].status = "NONE"
    BY <1>4, <2>2, DispatchersKeepAbsence
  <2> QED BY <1>1, <2>1, <2>2
<1>5. ASSUME NEW n \in Messages, LeaseRunsOut(n) \/ BecomesAvailable(n)
                                 \/ \E ref \in 0..provider[n] : MarkDelivered(n, ref)
      PROVE  ConsentInv'
  <2>1. UNCHANGED <<preferences, consents, producer>>
    BY <1>5 DEF LeaseRunsOut, BecomesAvailable, MarkDelivered
  <2>2. ASSUME NEW m \in Messages, outbox[m].status = "NONE"
        PROVE  outbox'[m].status = "NONE"
    BY <1>5, <2>2 DEF LeaseRunsOut, BecomesAvailable, MarkDelivered, TypeOK
  <2> QED BY <1>1, <2>1, <2>2
<1>6. CASE UNCHANGED vars
  BY <1>1, <1>6 DEF vars
<1> QED BY <1>2, <1>3, <1>4, <1>5, <1>6, SavingKeepsConsent, ProducingKeepsConsent DEF Next

-----------------------------------------------------------------------------
OutboxInv ==
  /\ TypeOK
  /\ RunsOK
  /\ ClaimsEarned
  /\ RefsIssued
  /\ ConsentInv

LEMMA OutboxInvInit == Init => OutboxInv
<1> SUFFICES ASSUME Init PROVE OutboxInv
  OBVIOUS
<1>1. /\ preferences = NoPreferences /\ consents = [v \in Versions |-> Nobody]
      /\ producer = [read |-> NoPreferences, store |-> {}]
      /\ outbox = [m \in Messages |-> NoRow]
      /\ workers = [w \in Workers |-> Resting]
      /\ provider = [m \in Messages |-> 0]
  BY DEF Init
<1>2. NoPreferences \in PreferenceRows /\ NoPreferences.version = 0
  BY DEF NoPreferences, PreferenceRows
<1>3. /\ NoRow \in Rows /\ NoRow.status = "NONE" /\ NoRow.claims = 0
      /\ NoRow.retries = 0 /\ NoRow.lapses = 0
  BY DEF NoRow, Rows
<1>4. ~NoRow.live
  BY DEF NoRow
<1>5. ConsentInv
  BY <1>1, <1>2, <1>3 DEF ConsentInv, OfAnEvent
<1>6. RefsIssued
  BY <1>1, <1>3 DEF RefsIssued
<1>7. ClaimsEarned
  BY <1>1, <1>3 DEF ClaimsEarned
<1>8. TypeOK
  BY <1>1, <1>2, <1>3, <1>4, RunRows DEF TypeOK
<1>9. \A m \in Messages : Pending(m) = {}
  BY <1>1, RunRows DEF Pending, Unspent
<1>10. RunsOK
  <2>1. workers \in [Workers -> Runs] /\ provider \in [Messages -> Nat]
    BY <1>1, RunRows
  <2>2. RunsSound
    BY <1>1, RunRows DEF RunsSound, RunSound
  <2>3. SendsClaimed
    <3>1. Cardinality({}) = 0
      BY FS_EmptySet
    <3>2. ASSUME NEW m \in Messages
          PROVE  provider[m] = 0 /\ outbox[m].claims = 0 /\ Cardinality(Pending(m)) = 0
      BY <1>1, <1>3, <1>9, <3>1
    <3> QED BY <3>2 DEF SendsClaimed
  <2> QED BY <2>1, <2>2, <2>3 DEF RunsOK
<1> QED BY <1>5, <1>6, <1>7, <1>8, <1>10 DEF OutboxInv

LEMMA OutboxInvNext == OutboxInv /\ [Next]_vars => OutboxInv'
<1> SUFFICES ASSUME OutboxInv, [Next]_vars PROVE OutboxInv'
  OBVIOUS
<1> USE DEF OutboxInv
<1>1. RowsMove
  BY StepsMoveRows DEF RunsOK
<1>2. ClaimsEarned'
  BY <1>1, ClaimsStayEarned DEF ClaimsEarned
<1>3. \A m \in Messages : outbox'[m].claims \in Nat /\ outbox'[m].claims >= outbox[m].claims
  <2>1. \A m \in Messages : outbox'[m] \in Rows /\ outbox'[m].claims \in Nat
    BY <1>1 DEF RowsMove, Rows
  <2> QED BY <1>1, <2>1, ClaimsStayEarned
<1>4. RunsOK' /\ \A m \in Messages : provider'[m] >= provider[m]
  <2>1. CASE QuietMove
    <3>1. \A m \in Messages : provider'[m] = provider[m] /\ provider[m] \in Nat
      BY <2>1 DEF QuietMove, TypeOK
    <3> QED BY <1>3, <2>1, <3>1, QuietKeepsRuns
  <2>2. ASSUME NEW w \in Workers, Claim(w)
        PROVE  RunsOK' /\ \A m \in Messages : provider'[m] >= provider[m]
    <3>1. provider' = provider
      BY <2>2 DEF Claim
    <3>2. \A m \in Messages : provider'[m] = provider[m] /\ provider[m] \in Nat
      BY <3>1 DEF TypeOK
    <3> QED BY <2>2, <3>2, ClaimKeepsRuns
  <2>3. ASSUME NEW w \in Workers, NEW m \in Messages, NEW a \in BOOLEAN, NEW b \in BOOLEAN,
               Send(w, m, a, b)
        PROVE  RunsOK' /\ \A n \in Messages : provider'[n] >= provider[n]
    BY <2>3, SendKeepsRuns
  <2> QED BY <2>1, <2>2, <2>3, StepsMoveRuns DEF RunsOK
<1>5. ConsentInv'
  BY ConsentKept DEF RunsOK
<1>6. RefsIssued'
  <2>1. RunsSound /\ \A m \in Messages : provider'[m] \in Nat
    BY <1>4 DEF RunsOK
  <2> QED BY <1>1, <1>4, <2>1, RefsStayIssued DEF RefsIssued
<1>7. TypeOK'
  BY <1>1, <1>4, <1>5, RowsStayTyped DEF TypeOK, RunsOK, ConsentInv, RowsMove
<1> QED BY <1>2, <1>4, <1>5, <1>6, <1>7

LEMMA OutboxInvHolds == Spec => []OutboxInv
BY OutboxInvInit, OutboxInvNext, PTL DEF Spec

(* A message is sent again only for a recorded reason, and what a row says *)
(* was sent a provider accepted: for any dispatchers, leases that run out  *)
(* at any moment, crashes between any two steps and answers that are lost. *)
(* Every acceptance spends a claim (SendsClaimed), and every claim but the *)
(* first was earned by a failure or a lapse (ClaimsEarned).                *)
THEOREM DuplicatesAreAccounted == Spec => []DuplicatesAccounted
<1>1. OutboxInv => DuplicatesAccounted
  <2> SUFFICES ASSUME OutboxInv, NEW m \in Messages
               PROVE  provider[m] <= 1 + outbox[m].retries + outbox[m].lapses
    BY DEF OutboxInv, DuplicatesAccounted, RefsIssued
  <2>1. provider[m] + Cardinality(Pending(m)) <= outbox[m].claims
    BY DEF OutboxInv, RunsOK, SendsClaimed
  <2>2. outbox[m].claims <= outbox[m].retries + outbox[m].lapses + 1
    BY DEF OutboxInv, ClaimsEarned
  <2>3. /\ outbox[m].claims \in Nat /\ outbox[m].retries \in Nat /\ outbox[m].lapses \in Nat
        /\ provider[m] \in Nat /\ Cardinality(Pending(m)) \in Nat
    BY PendingIsFinite DEF OutboxInv, TypeOK, Rows
  <2> QED BY <2>1, <2>2, <2>3
<1> QED BY <1>1, OutboxInvHolds, PTL

(* Consent is on record for every message of the outbox, though a producer *)
(* works from preferences it read before they were changed.                *)
THEOREM ConsentIsOnRecord == Spec => []ConsentOnRecord
<1>1. OutboxInv => ConsentOnRecord
  BY DEF OutboxInv, ConsentInv, OfAnEvent, Allows, ConsentOnRecord
<1> QED BY <1>1, OutboxInvHolds, PTL

(* The durable outbox implements the life of a message that the in-memory  *)
(* service keeps: it starts in the initial state, and every step of any    *)
(* dispatcher is a step of that life, or none, for every message.          *)
THEOREM OutboxImplementsLife == Spec => ImplementsLife
<1>1. Init => \A m \in Messages : Life(m)!Init
  BY NewRows DEF Init, StatusOf, Life!Init
<1>2. OutboxInv /\ [Next]_vars => [\A m \in Messages : [Life(m)!Next]_(StatusOf(m))]_vars
  <2> SUFFICES ASSUME OutboxInv, [Next]_vars, NEW m \in Messages
               PROVE  [Life(m)!Next]_(StatusOf(m))
    OBVIOUS
  <2>1. RowMove(m)
    BY StepsMoveRows DEF OutboxInv, RunsOK, RowsMove
  <2>2. /\ outbox[m] \in Rows
        /\ outbox[m].live => outbox[m].owner # Nobody
    BY DEF OutboxInv, TypeOK
  <2>3. SUFFICES \/ StatusOf(m)' = StatusOf(m)
                 \/ StatusOf(m) = "NONE" /\ StatusOf(m)' = "QUEUED"
                 \/ StatusOf(m) = "QUEUED" /\ StatusOf(m)' = "SENT"
                 \/ StatusOf(m) = "SENT" /\ StatusOf(m)' = "DELIVERED"
                 \/ StatusOf(m) # "NONE" /\ StatusOf(m)' = "FAILED"
                 \/ StatusOf(m) = "FAILED" /\ StatusOf(m)' = "QUEUED"
    BY DEF Life!Next, Life!Enqueue, Life!MarkSent, Life!MarkDelivered, Life!MarkFailed, Life!Retry
  <2> USE DEF StatusOf
  <2>4. CASE outbox'[m] = outbox[m]
    BY <2>4
  <2>5. CASE outbox[m].status = "NONE" /\ outbox'[m] = Queued
    BY <2>5, NewRows
  <2>6. ASSUME Claimable(m), NEW w \in Workers, outbox'[m] = Taken(outbox[m], w)
        PROVE  /\ StatusOf(m)' = "QUEUED"
               /\ StatusOf(m) \in {"QUEUED", "FAILED"}
    BY <2>2, <2>6, TakenRow DEF Claimable, Unsent
  <2>7. ASSUME NEW w \in Workers, Owns(w, m), NEW ref \in Nat,
               outbox'[m] = Settled(outbox[m], "SENT", ref)
        PROVE  StatusOf(m) = "QUEUED" /\ StatusOf(m)' = "SENT"
    <3>1. Settled(outbox[m], "SENT", ref).status = "SENT"
      BY <2>2, SentRow
    <3> QED BY <2>7, <3>1 DEF Owns, Unsent
  <2>8. ASSUME NEW w \in Workers, Owns(w, m), outbox'[m] = Retried(outbox[m])
        PROVE  StatusOf(m) = "QUEUED" /\ StatusOf(m)' = "FAILED"
    BY <2>2, <2>8, RetriedRow DEF Owns, Unsent
  <2>9. CASE outbox[m].status = "SENT" /\ outbox'[m] = Delivered(outbox[m])
    BY <2>2, <2>9, OtherRows
  <2>10. CASE outbox'[m] = Lapsed(outbox[m]) \/ outbox'[m] = Reopened(outbox[m])
    BY <2>2, <2>10, OtherRows
  <2> QED BY <2>1, <2>4, <2>5, <2>6, <2>7, <2>8, <2>9, <2>10 DEF RowMove
<1> QED BY <1>1, <1>2, OutboxInvHolds, PTL DEF Spec, ImplementsLife
=============================================================================
