---------------------------- MODULE DurableProofs ----------------------------
(***************************************************************************)
(* Proofs about the durable command store, for any number of keys,         *)
(* commands, attempts, instances and owner tokens.                         *)
(***************************************************************************)
EXTENDS DurableProperties, TLAPS

(***************************************************************************)
(* The strengthening.                                                      *)
(***************************************************************************)

(* An absent row holds nothing, a claim belongs to its holder's token, and *)
(* a command occurs in one row only.                                       *)
RowsCoherent ==
  \A k \in Keys :
    /\ rows[k].state = "NONE" => rows[k] = NoRow
    /\ rows[k].state # "NONE" => rows[k].command \in Commands
    /\ rows[k].state = "IN_FLIGHT" =>
         rows[k].holder \in Executions /\ rows[k].owner = Owner(rows[k].holder)
    /\ rows[k].state = "COMMITTED" => rows[k].result \in Executions
    /\ rows[k].state # "COMMITTED" => rows[k].result = "NONE"
    /\ \A j \in Keys : rows[j].state # "NONE" /\ rows[j].command = rows[k].command => j = k

VersionsLogged ==
  \A a \in Aggregates, v \in Nat :
    (v >= 1 /\ v <= version[a]) <=> \E ev \in events : ev.aggregate = a /\ ev.version = v

VersionsUnique ==
  \A ev, f \in events : ev.aggregate = f.aggregate /\ ev.version = f.version => ev = f

Authored ==
  \A ev \in events : \E k \in Keys :
    rows[k].state = "COMMITTED" /\ rows[k].command = ev.command /\ rows[k].result = ev.by

DurableInv ==
  TypeOK /\ RowsCoherent /\ VersionsLogged /\ VersionsUnique /\ Authored /\ AnswersAgree

-----------------------------------------------------------------------------
LEMMA OwnerType == \A e \in Executions : Owner(e) \in Owners /\ StoreOf[e] \in Stores
BY DurableAssumption DEF Owner

(* What every step does with the rows: at most one changes, never a        *)
(* committed one, and in one of five ways.                                 *)
RowStep(k, row) ==
  \/ row = rows[k]
  \/ /\ rows[k].state = "IN_FLIGHT"
     /\ row = [rows[k] EXCEPT !.expired = TRUE]
  \/ /\ rows[k].state = "IN_FLIGHT"
     /\ row = NoRow
  \/ \E e \in Executions :
       /\ rows[k].state = "IN_FLIGHT" /\ Owner(e) = rows[k].owner
       /\ row = [rows[k] EXCEPT !.state = "COMMITTED", !.result = e]
  \/ \E e \in Executions, c \in Commands :
       /\ \/ rows[k].state = "NONE" /\ \A j \in Keys : rows[j].command # c
          \/ rows[k].state = "IN_FLIGHT" /\ rows[k].command = c
       /\ row = [state |-> "IN_FLIGHT", command |-> c, owner |-> Owner(e),
                 fence |-> rows[k].fence + 1, expired |-> FALSE, result |-> "NONE",
                 holder |-> e]

RowsStep == \/ rows' = rows
            \/ \E k \in Keys, row \in Rows : RowStep(k, row) /\ rows' = [rows EXCEPT ![k] = row]

LEMMA AttemptType ==
  ASSUME TypeOK, NEW e \in Executions, execution[e].state \in {"submitted", "claimed"}
  PROVE  /\ execution[e] \in Attempts
         /\ execution[e].key \in Keys /\ execution[e].command \in Commands
         /\ execution[e].expected \in Nat /\ execution[e].fence \in Nat
         /\ RowOf(e) \in Rows
         /\ Slot(e) \in Stores \X Keys
<1>1. execution[e] \in {Idle, Failed} \cup Attempts \cup Answered
  BY DEF TypeOK
<1>2. execution[e] \in Attempts
  BY <1>1 DEF Idle, Failed, Answered
<1>3. execution[e].key \in Keys /\ execution[e].command \in Commands
      /\ execution[e].expected \in Nat /\ execution[e].fence \in Nat
  BY <1>2 DEF Attempts
<1> QED
  BY <1>2, <1>3, OwnerType DEF TypeOK, RowOf, Slot

LEMMA GrantType ==
  ASSUME TypeOK, NEW e \in Executions, execution[e].state = "submitted"
  PROVE  Grant(e) \in Rows /\ Grant(e).fence \in Nat
<1>1. RowOf(e).fence \in Nat
  BY AttemptType DEF Rows
<1> QED
  BY <1>1, AttemptType, OwnerType DEF Grant, Rows

LEMMA CommittedType ==
  ASSUME TypeOK, NEW e \in Executions, execution[e].state = "claimed"
  PROVE  Committed(e) \in Rows
BY AttemptType DEF Committed, Rows

LEMMA NoRowType == NoRow \in Rows
BY DEF NoRow, Rows

(* Every step of the module is a row step.                                 *)
LEMMA StepsAreRowSteps ==
  ASSUME TypeOK, [Next]_vars
  PROVE  RowsStep
<1>1. ASSUME NEW e \in Executions, ClaimFenced(e) PROVE RowsStep
  <2> DEFINE k == execution[e].key
  <2>0. execution[e].state = "submitted"
    BY <1>1 DEF ClaimFenced
  <2>1. k \in Keys /\ Grant(e) \in Rows /\ execution[e].command \in Commands
    BY <2>0, AttemptType, GrantType
  <2>2. RowStep(k, Grant(e))
    BY <1>1, <2>1 DEF ClaimFenced, Claimable, Grant, RowStep, RowOf
  <2>3. rows' = [rows EXCEPT ![k] = Grant(e)]
    BY <1>1 DEF ClaimFenced, Set
  <2> QED
    BY <2>1, <2>2, <2>3 DEF RowsStep
<1>2. ASSUME NEW e \in Executions, execution[e].state = "claimed", NEW fence, Matches(e, fence),
             Set(e, Committed(e))
      PROVE RowsStep
  <2> DEFINE k == execution[e].key
  <2>1. k \in Keys /\ Committed(e) \in Rows
    BY <1>2, AttemptType, CommittedType
  <2>2. RowStep(k, Committed(e))
    BY <1>2, <2>1 DEF Matches, Committed, RowStep, RowOf
  <2> QED
    BY <1>2, <2>1, <2>2 DEF RowsStep, Set
<1>3. ASSUME NEW e \in Executions, Abandon(e) PROVE RowsStep
  <2> DEFINE k == execution[e].key
  <2>1. k \in Keys
    BY <1>3, AttemptType DEF Abandon
  <2>2. CASE Matches(e, RememberedFence(e))
    <3>1. RowStep(k, NoRow)
      BY <2>2 DEF Matches, RowStep, RowOf
    <3> QED
      BY <1>3, <2>1, <2>2, <3>1, NoRowType DEF Abandon, RowsStep, Set
  <2>3. CASE ~Matches(e, RememberedFence(e))
    BY <1>3, <2>3 DEF Abandon, RowsStep
  <2> QED
    BY <2>2, <2>3
<1>4. ASSUME NEW k \in Keys, LeaseExpires(k) PROVE RowsStep
  <2>1. [rows[k] EXCEPT !.expired = TRUE] \in Rows
    BY DEF TypeOK, Rows
  <2> QED
    BY <1>4, <2>1 DEF LeaseExpires, RowsStep, RowStep
<1>5. ASSUME NEW e \in Executions, CommitFenced(e) PROVE RowsStep
  BY <1>2, <1>5 DEF CommitFenced, RowsStep
<1>6. ASSUME NEW e \in Executions, DomainCommit(e) PROVE RowsStep
  BY <1>2, <1>6 DEF DomainCommit
<1>7. ASSUME rows' = rows PROVE RowsStep
  BY <1>7 DEF RowsStep
<1>8. ASSUME NEW e \in Executions, Execute(e) PROVE RowsStep
  <2>1. ASSUME NEW k \in Keys, NEW c \in Commands, Submit(e, k, c) PROVE RowsStep
    BY <2>1, <1>7 DEF Submit
  <2>2. CASE ClaimRolledBack(e)
    BY <2>2, <1>7 DEF ClaimRolledBack
  <2>3. CASE Replay(e)
    BY <2>3, <1>7 DEF Replay
  <2>4. CASE GiveUp(e)
    BY <2>4, <1>7 DEF GiveUp
  <2> QED
    BY <1>8, <1>1, <1>3, <1>5, <1>6, <2>1, <2>2, <2>3, <2>4 DEF Execute
<1>9. ASSUME NEW s \in Stores, Crash(s) PROVE RowsStep
  BY <1>9, <1>7 DEF Crash
<1> QED
  BY <1>4, <1>7, <1>8, <1>9 DEF Next, vars

-----------------------------------------------------------------------------
(* A committed row is never changed again.                                 *)
LEMMA CommittedStays ==
  ASSUME RowsStep, NEW k \in Keys, rows \in [Keys -> Rows], rows[k].state = "COMMITTED"
  PROVE  rows'[k] = rows[k]
BY DEF RowsStep, RowStep

LEMMA RowsCoherentStep ==
  ASSUME TypeOK, RowsCoherent, RowsStep
  PROVE  RowsCoherent'
<1>1. CASE rows' = rows
  BY <1>1 DEF RowsCoherent
<1>2. ASSUME NEW k \in Keys, NEW row \in Rows, RowStep(k, row),
             rows' = [rows EXCEPT ![k] = row]
      PROVE  RowsCoherent'
  <2>1. rows'[k] = row /\ \A j \in Keys \ {k} : rows'[j] = rows[j]
    BY <1>2 DEF TypeOK
  <2> DEFINE Shape(j) == /\ rows[j].state = "NONE" => rows[j] = NoRow
                         /\ rows[j].state # "NONE" => rows[j].command \in Commands
                         /\ rows[j].state = "IN_FLIGHT" =>
                              rows[j].holder \in Executions /\ rows[j].owner = Owner(rows[j].holder)
                         /\ rows[j].state = "COMMITTED" => rows[j].result \in Executions
                         /\ rows[j].state # "COMMITTED" => rows[j].result = "NONE"
  <2>2. \A j \in Keys : Shape(j)
    BY DEF RowsCoherent
  <2>3. Shape(k)'
    <3>0. rows[k] \in Rows
      BY DEF TypeOK
    <3>1. CASE row = rows[k]
      BY <3>1, <2>1, <2>2
    <3>2. CASE rows[k].state = "IN_FLIGHT" /\ row = [rows[k] EXCEPT !.expired = TRUE]
      BY <3>0, <3>2, <2>1, <2>2 DEF Rows
    <3>3. CASE row = NoRow
      BY <3>3, <2>1 DEF NoRow
    <3>4. ASSUME NEW e \in Executions, rows[k].state = "IN_FLIGHT",
                 row = [rows[k] EXCEPT !.state = "COMMITTED", !.result = e]
          PROVE  Shape(k)'
      BY <3>0, <3>4, <2>1, <2>2 DEF Rows
    <3>5. ASSUME NEW e \in Executions, NEW c \in Commands,
                 row = [state |-> "IN_FLIGHT", command |-> c, owner |-> Owner(e),
                        fence |-> rows[k].fence + 1, expired |-> FALSE, result |-> "NONE",
                        holder |-> e]
          PROVE  Shape(k)'
      <4>1. rows'[k].state = "IN_FLIGHT" /\ rows'[k].command = c /\ rows'[k].owner = Owner(e)
            /\ rows'[k].result = "NONE" /\ rows'[k].holder = e
        BY <3>5, <2>1
      <4> QED
        BY <4>1
    <3> QED
      BY <1>2, <3>1, <3>2, <3>3, <3>4, <3>5 DEF RowStep
  <2>4. \A j \in Keys : Shape(j)'
    BY <2>1, <2>2, <2>3
  <2> DEFINE Fresh == \A j \in Keys : rows[j].command # row.command
             Kept == row.command = rows[k].command /\ (row.state # "NONE" => rows[k].state # "NONE")
             Gone == row.state = "NONE" /\ row.command = "NONE"
  <2>5. Gone \/ Kept \/ Fresh
    <3>0. rows[k] \in Rows
      BY DEF TypeOK
    <3>1. CASE row = rows[k]
      BY <3>1
    <3>2. CASE rows[k].state = "IN_FLIGHT" /\ row = [rows[k] EXCEPT !.expired = TRUE]
      <4>1. row.command = rows[k].command
        BY <3>0, <3>2 DEF Rows
      <4> QED
        BY <3>2, <4>1
    <3>3. CASE row = NoRow
      BY <3>3 DEF NoRow
    <3>4. ASSUME NEW e \in Executions, rows[k].state = "IN_FLIGHT",
                 row = [rows[k] EXCEPT !.state = "COMMITTED", !.result = e]
          PROVE  Kept
      <4>1. row.command = rows[k].command
        BY <3>0, <3>4 DEF Rows
      <4> QED
        BY <3>4, <4>1
    <3>5. ASSUME NEW e \in Executions, NEW c \in Commands,
                 \/ rows[k].state = "NONE" /\ \A j \in Keys : rows[j].command # c
                 \/ rows[k].state = "IN_FLIGHT" /\ rows[k].command = c,
                 row = [state |-> "IN_FLIGHT", command |-> c, owner |-> Owner(e),
                        fence |-> rows[k].fence + 1, expired |-> FALSE, result |-> "NONE",
                        holder |-> e]
          PROVE  Kept \/ Fresh
      <4>1. row.command = c
        BY <3>5
      <4> QED
        BY <3>5, <4>1
    <3> QED
      BY <1>2, <3>1, <3>2, <3>3, <3>4, <3>5 DEF RowStep
  <2>7. ASSUME NEW j \in Keys, NEW i \in Keys, rows'[j].state # "NONE",
               rows'[j].command = rows'[i].command
        PROVE  j = i
    <3>1. \A h \in Keys, g \in Keys :
            rows[h].state # "NONE" /\ rows[h].command = rows[g].command => h = g
      BY DEF RowsCoherent
    <3>2. CASE j = k /\ i # k
      BY <3>1, <3>2, <2>1, <2>5, <2>7
    <3>3. CASE j # k /\ i = k
      <4>1. rows[j].state # "NONE" /\ rows[j].command = row.command /\ rows[j].command \in Commands
        BY <3>3, <2>1, <2>2, <2>7
      <4>2. row.command # "NONE"
        BY <4>1, DurableAssumption
      <4> QED
        BY <4>1, <4>2, <3>1, <3>3, <2>5
    <3>4. CASE j # k /\ i # k
      BY <3>1, <3>4, <2>1, <2>7
    <3> QED
      BY <3>2, <3>3, <3>4
  <2> QED
    BY <2>4, <2>7 DEF RowsCoherent
<1> QED
  BY <1>1, <1>2 DEF RowsStep

-----------------------------------------------------------------------------
(* Only the domain committer touches the log. *)
LEMMA LogSteps ==
  ASSUME [Next]_vars
  PROVE  UNCHANGED <<version, events>> \/ \E e \in Executions : DomainCommit(e)
BY DEF Next, Execute, vars, Submit, ClaimFenced, ClaimRolledBack, Replay, CommitFenced,
       Abandon, GiveUp, LeaseExpires, Crash

LEMMA TypeStep ==
  ASSUME TypeOK, RowsCoherent, [Next]_vars
  PROVE  TypeOK'
<1>1. rows' \in [Keys -> Rows]
  BY StepsAreRowSteps DEF RowsStep, TypeOK
<1>2. activeFences' \in [Stores \X Keys -> Nat]
  <2>1. ASSUME NEW e \in Executions, NEW n \in Nat, Remember(e, n)
        PROVE  activeFences' \in [Stores \X Keys -> Nat]
    BY <2>1 DEF Remember, TypeOK
  <2>2. ASSUME NEW e \in Executions, Execute(e)
        PROVE  activeFences' \in [Stores \X Keys -> Nat]
    <3>1. ASSUME ClaimFenced(e) \/ ClaimRolledBack(e)
          PROVE  activeFences' \in [Stores \X Keys -> Nat]
      BY <3>1, <2>1, GrantType DEF ClaimFenced, ClaimRolledBack
    <3>2. ASSUME CommitFenced(e) \/ Abandon(e)
          PROVE  activeFences' \in [Stores \X Keys -> Nat]
      BY <3>2, <2>1 DEF CommitFenced, Abandon, TypeOK
    <3>3. ASSUME UNCHANGED activeFences PROVE activeFences' \in [Stores \X Keys -> Nat]
      BY <3>3 DEF TypeOK
    <3> QED
      BY <2>2, <3>1, <3>2, <3>3 DEF Execute, Submit, Replay, DomainCommit, GiveUp
  <2>3. ASSUME NEW s \in Stores, Crash(s) PROVE activeFences' \in [Stores \X Keys -> Nat]
    BY <2>3 DEF Crash, TypeOK
  <2>4. ASSUME UNCHANGED activeFences PROVE activeFences' \in [Stores \X Keys -> Nat]
    BY <2>4 DEF TypeOK
  <2> QED
    BY <2>2, <2>3, <2>4 DEF Next, LeaseExpires, vars
<1> DEFINE Known == {Idle, Failed} \cup Attempts \cup Answered
<1>3. execution' \in [Executions -> Known]
  <2>0. execution \in [Executions -> Known]
    BY DEF TypeOK
  <2> HIDE DEF Known
  <2>1. ASSUME NEW e \in Executions, Fail(e) PROVE execution' \in [Executions -> Known]
    BY <2>0, <2>1 DEF Fail, Known
  <2>2. ASSUME NEW e \in Executions, execution[e].state \in {"submitted", "claimed"},
               NEW a \in Executions, Answer(e, a)
        PROVE  execution' \in [Executions -> Known]
    <3>1. [state |-> "answered", key |-> execution[e].key, command |-> execution[e].command,
           answer |-> a] \in Known
      BY <2>2, AttemptType DEF Known, Answered
    <3> QED
      BY <2>0, <2>2, <3>1 DEF Answer
  <2>3. ASSUME UNCHANGED execution PROVE execution' \in [Executions -> Known]
    BY <2>0, <2>3
  <2>4. ASSUME NEW e \in Executions, Execute(e) PROVE execution' \in [Executions -> Known]
    <3>1. ASSUME NEW k \in Keys, NEW c \in Commands, Submit(e, k, c)
          PROVE  execution' \in [Executions -> Known]
      <4>1. [state |-> "submitted", key |-> k, command |-> c,
             expected |-> version[Target[c]], fence |-> 0] \in Known
        BY DurableAssumption DEF Known, Attempts, TypeOK
      <4> QED
        BY <2>0, <3>1, <4>1 DEF Submit
    <3>2. CASE ClaimFenced(e)
      <4>0. execution[e].state = "submitted"
        BY <3>2 DEF ClaimFenced
      <4>1. [execution[e] EXCEPT !.state = "claimed", !.fence = Grant(e).fence] \in Known
        BY <4>0, AttemptType, GrantType DEF Known, Attempts
      <4> QED
        BY <2>0, <2>1, <3>2, <4>1 DEF ClaimFenced
    <3>3. CASE Replay(e)
      <4>1. RowOf(e).result \in Executions
        BY <3>3, AttemptType DEF Replay, Answerable, RowsCoherent, RowOf
      <4> QED
        BY <3>3, <4>1, <2>2 DEF Replay
    <3>4. CASE CommitFenced(e) \/ DomainCommit(e)
      BY <3>4, <2>1, <2>2, <2>3 DEF CommitFenced, DomainCommit
    <3>5. CASE Abandon(e) \/ GiveUp(e) \/ ClaimRolledBack(e)
      BY <3>5, <2>1, <2>3 DEF Abandon, GiveUp, ClaimRolledBack
    <3> QED
      BY <2>4, <3>1, <3>2, <3>3, <3>4, <3>5 DEF Execute
  <2>5. ASSUME NEW s \in Stores, Crash(s) PROVE execution' \in [Executions -> Known]
    BY <2>0, <2>5 DEF Crash, Known
  <2> QED
    BY <2>3, <2>4, <2>5 DEF Next, LeaseExpires, vars
<1>4. /\ version' \in [Aggregates -> Nat]
      /\ events' \subseteq [aggregate : Aggregates, version : Nat, command : Commands,
                            by : Executions]
  <2>1. CASE UNCHANGED <<version, events>>
    BY <2>1 DEF TypeOK
  <2>2. ASSUME NEW e \in Executions, DomainCommit(e)
        PROVE  /\ version' \in [Aggregates -> Nat]
               /\ events' \subseteq [aggregate : Aggregates, version : Nat, command : Commands,
                                     by : Executions]
    <3> DEFINE c == execution[e].command
    <3>1. c \in Commands /\ execution[e].expected \in Nat /\ Batch[c] \in Nat
          /\ Target[c] \in Aggregates
      BY <2>2, AttemptType, DurableAssumption DEF DomainCommit
    <3>2. EventsOf(e) \subseteq [aggregate : Aggregates, version : Nat, command : Commands,
                                 by : Executions]
      BY <3>1 DEF EventsOf
    <3> QED
      BY <2>2, <3>1, <3>2 DEF DomainCommit, TypeOK
  <2> QED
    BY <2>1, <2>2, LogSteps
<1> QED
  BY <1>1, <1>2, <1>3, <1>4 DEF TypeOK

-----------------------------------------------------------------------------
(* The batch of a domain commit continues the log where it ends.           *)
LEMMA EventsOfMembers ==
  ASSUME TypeOK, NEW e \in Executions, DomainCommit(e), NEW ev
  PROVE  LET c == execution[e].command
         IN  ev \in EventsOf(e) <=>
               \E i \in Nat : /\ 1 <= i /\ i <= Batch[c]
                             /\ ev = [aggregate |-> Target[c], version |-> version[Target[c]] + i,
                                      command |-> c, by |-> e]
<1>1. execution[e].command \in Commands
  BY AttemptType DEF DomainCommit
<1>2. Batch[execution[e].command] \in Nat
  BY <1>1, DurableAssumption
<1>3. version[Target[execution[e].command]] = execution[e].expected
  BY DEF DomainCommit, Expected
<1> QED
  BY <1>2, <1>3 DEF EventsOf

LEMMA LogStep ==
  ASSUME TypeOK, VersionsLogged, VersionsUnique, [Next]_vars
  PROVE  VersionsLogged' /\ VersionsUnique'
<1>1. CASE UNCHANGED <<version, events>>
  BY <1>1 DEF VersionsLogged, VersionsUnique
<1>2. ASSUME NEW e \in Executions, DomainCommit(e)
      PROVE  VersionsLogged' /\ VersionsUnique'
  <2> DEFINE c == execution[e].command
             a == Target[c]
             n == version[a]
             New(i) == [aggregate |-> a, version |-> n + i, command |-> c, by |-> e]
  <2>1. c \in Commands /\ a \in Aggregates /\ n \in Nat /\ Batch[c] \in Nat
    <3>1. c \in Commands
      BY <1>2, AttemptType DEF DomainCommit
    <3> QED
      BY <3>1, DurableAssumption DEF TypeOK
  <2>2. /\ version'[a] = n + Batch[c]
        /\ \A b \in Aggregates : b # a => version'[b] = version[b]
    BY <1>2, <2>1 DEF DomainCommit, Expected, TypeOK
  <2>3. \A ev : ev \in events' <=>
          ev \in events \/ \E i \in Nat : 1 <= i /\ i <= Batch[c] /\ ev = New(i)
    BY <1>2, EventsOfMembers DEF DomainCommit
  <2>4. \A ev \in events : ev.aggregate = a => ev.version >= 1 /\ ev.version <= n
    BY <2>1 DEF VersionsLogged, TypeOK
  <2>5. \A ev \in events : ev.aggregate \in Aggregates /\ ev.version \in Nat
    BY DEF TypeOK
  <2> HIDE DEF n, a
  <2>6. VersionsUnique'
    <3> SUFFICES ASSUME NEW ev \in events', NEW f \in events',
                        ev.aggregate = f.aggregate, ev.version = f.version
                 PROVE  ev = f
      BY DEF VersionsUnique
    <3>1. CASE ev \in events /\ f \in events
      BY <3>1 DEF VersionsUnique
    <3>2. ASSUME NEW i \in Nat, 1 <= i, ev = New(i), f \in events PROVE FALSE
      <4>1. f.aggregate = a /\ f.version = n + i
        BY <3>2
      <4> QED
        BY <4>1, <3>2, <2>1, <2>4
    <3>3. ASSUME NEW i \in Nat, 1 <= i, f = New(i), ev \in events PROVE FALSE
      <4>1. ev.aggregate = a /\ ev.version = n + i
        BY <3>3
      <4> QED
        BY <4>1, <3>3, <2>1, <2>4
    <3>4. ASSUME NEW i \in Nat, NEW j \in Nat, ev = New(i), f = New(j) PROVE ev = f
      <4>1. n + i = n + j
        BY <3>4
      <4>2. i = j
        BY <4>1, <2>1
      <4> QED
        BY <3>4, <4>2
    <3> QED
      BY <2>3, <3>1, <3>2, <3>3, <3>4
  <2>7. VersionsLogged'
    <3> SUFFICES ASSUME NEW b \in Aggregates, NEW v \in Nat
                 PROVE  (v >= 1 /\ v <= version'[b]) <=>
                          \E ev \in events' : ev.aggregate = b /\ ev.version = v
      BY DEF VersionsLogged
    <3>0. (v >= 1 /\ v <= version[b]) <=> \E ev \in events : ev.aggregate = b /\ ev.version = v
      BY DEF VersionsLogged
    <3>1. CASE b # a
      <4>1. ASSUME NEW ev \in events', ev.aggregate = b PROVE ev \in events
        BY <3>1, <4>1, <2>3
      <4> QED
        BY <3>0, <3>1, <4>1, <2>2, <2>3
    <3>2. CASE b = a
      <4>1. version[b] = n /\ version'[b] = n + Batch[c]
        BY <3>2, <2>2 DEF n
      <4>2. ASSUME v >= 1, v <= n + Batch[c]
            PROVE  \E ev \in events' : ev.aggregate = b /\ ev.version = v
        <5>1. CASE v <= n
          BY <3>0, <4>1, <4>2, <5>1, <2>3
        <5>2. CASE v > n
          <6>1. v - n \in Nat /\ 1 <= v - n /\ v - n <= Batch[c] /\ n + (v - n) = v
            BY <2>1, <4>2, <5>2
          <6>2. New(v - n) \in events'
            BY <6>1, <2>3
          <6>3. New(v - n).aggregate = b /\ New(v - n).version = v
            BY <6>1, <3>2
          <6> QED
            BY <6>2, <6>3
        <5> QED
          BY <5>1, <5>2, <2>1
      <4>3. ASSUME NEW ev \in events', ev.aggregate = b, ev.version = v
            PROVE  v >= 1 /\ v <= n + Batch[c]
        <5>1. CASE ev \in events
          BY <4>3, <5>1, <2>1, <2>4, <3>2
        <5>2. ASSUME NEW i \in Nat, 1 <= i, i <= Batch[c], ev = New(i)
              PROVE  v >= 1 /\ v <= n + Batch[c]
          <6>1. v = n + i
            BY <4>3, <5>2
          <6> QED
            BY <6>1, <5>2, <2>1
        <5> QED
          BY <5>1, <5>2, <2>3
      <4> QED
        BY <4>1, <4>2, <4>3
    <3> QED
      BY <3>1, <3>2
  <2> QED
    BY <2>6, <2>7
<1> QED
  BY <1>1, <1>2, LogSteps

LEMMA CommittedRowStays ==
  ASSUME TypeOK, [Next]_vars, NEW k \in Keys, rows[k].state = "COMMITTED"
  PROVE  rows'[k] = rows[k]
BY StepsAreRowSteps, CommittedStays DEF TypeOK

(* A commit stores the committing attempt in its row. *)
LEMMA CommitStores ==
  ASSUME TypeOK, NEW e \in Executions, execution[e].state = "claimed",
         NEW fence, Matches(e, fence), Set(e, Committed(e))
  PROVE  LET k == execution[e].key
         IN  /\ k \in Keys
             /\ rows[k].state = "IN_FLIGHT" /\ rows[k].command = execution[e].command
             /\ rows'[k].state = "COMMITTED" /\ rows'[k].command = execution[e].command
             /\ rows'[k].result = e
             /\ \A j \in Keys \ {k} : rows'[j] = rows[j]
<1>1. execution[e].key \in Keys /\ RowOf(e) \in Rows /\ Committed(e) \in Rows
  BY AttemptType, CommittedType
<1>2. rows'[execution[e].key] = Committed(e)
  BY <1>1 DEF Set, TypeOK
<1>3. Committed(e).state = "COMMITTED" /\ Committed(e).result = e
      /\ Committed(e).command = RowOf(e).command
  BY <1>1 DEF Committed, Rows
<1> QED
  BY <1>1, <1>2, <1>3 DEF Matches, RowOf, Set, TypeOK

LEMMA AuthoredStep ==
  ASSUME TypeOK, Authored, [Next]_vars
  PROVE  Authored'
<1> DEFINE Credited(ev) == \E k \in Keys :
      rows[k].state = "COMMITTED" /\ rows[k].command = ev.command /\ rows[k].result = ev.by
<1>1. ASSUME NEW ev \in events PROVE Credited(ev)'
  <2>1. PICK k \in Keys : rows[k].state = "COMMITTED" /\ rows[k].command = ev.command
                         /\ rows[k].result = ev.by
    BY <1>1 DEF Authored
  <2> QED
    BY <2>1, CommittedRowStays
<1>2. CASE UNCHANGED <<version, events>>
  BY <1>1, <1>2 DEF Authored
<1>3. ASSUME NEW e \in Executions, DomainCommit(e) PROVE Authored'
  <2>1. \A ev \in EventsOf(e) : ev.command = execution[e].command /\ ev.by = e
    BY DEF EventsOf
  <2>2. \A ev \in EventsOf(e) : Credited(ev)'
    BY <1>3, <2>1, CommitStores DEF DomainCommit
  <2> QED
    BY <1>1, <1>3, <2>2 DEF DomainCommit, Authored
<1> QED
  BY <1>2, <1>3, LogSteps

(* Only an attempt that was not answered before is answered, and with what *)
(* its row stores.                                                         *)
LEMMA AnswersStep ==
  ASSUME TypeOK, AnswersAgree, [Next]_vars
  PROVE  AnswersAgree'
<1> DEFINE Agrees(e) == execution[e].state = "answered" =>
      /\ RowOf(e).state = "COMMITTED"
      /\ RowOf(e).command = execution[e].command
      /\ RowOf(e).result = execution[e].answer
<1>0. \A e \in Executions : execution[e].state = "answered" => execution[e].key \in Keys
  BY DEF TypeOK, Answered, Attempts, Idle, Failed
<1>1. ASSUME NEW d \in Executions, execution'[d] = execution[d] PROVE Agrees(d)'
  BY <1>0, <1>1, CommittedRowStays DEF AnswersAgree, RowOf
<1>2. ASSUME NEW d \in Executions, execution'[d].state # "answered" PROVE Agrees(d)'
  BY <1>2
<1>3. ASSUME NEW e \in Executions, Execute(e), NEW d \in Executions PROVE Agrees(d)'
  <2>1. CASE d # e
    <3>1. execution'[d] = execution[d]
      BY <1>3, <2>1
      DEF TypeOK, Execute, Submit, ClaimFenced, ClaimRolledBack, Replay, CommitFenced, DomainCommit,
          Abandon, GiveUp, Answer, Fail
    <3> QED
      BY <3>1, <1>1
  <2>2. ASSUME execution[e].state \in {"submitted", "claimed"}, NEW a \in Executions, Answer(e, a),
               LET k == execution[e].key
               IN  rows'[k].state = "COMMITTED" /\ rows'[k].command = execution[e].command
                   /\ rows'[k].result = a
        PROVE  Agrees(e)'
    <3>1. execution'[e] = [state |-> "answered", key |-> execution[e].key,
                           command |-> execution[e].command, answer |-> a]
      BY <2>2 DEF Answer, TypeOK
    <3> QED
      BY <2>2, <3>1 DEF RowOf
  <2>3. ASSUME Fail(e) PROVE Agrees(e)'
    BY <2>3, <1>2 DEF Fail, Failed, TypeOK
  <2>4. ASSUME Replay(e) PROVE Agrees(e)'
    <3>1. execution[e].key \in Keys
      BY <2>4, AttemptType DEF Replay
    <3>2. rows'[execution[e].key] = rows[execution[e].key]
      BY <2>4 DEF Replay
    <3>3. execution'[e] = [state |-> "answered", key |-> execution[e].key,
                           command |-> execution[e].command, answer |-> RowOf(e).result]
      BY <2>4 DEF Replay, Answer, TypeOK
    <3> QED
      BY <2>4, <3>1, <3>2, <3>3 DEF Replay, Answerable, RowOf
  <2>5. ASSUME CommitFenced(e) \/ DomainCommit(e) PROVE Agrees(e)'
    <3>1. UNCHANGED execution \/ Fail(e) \/
            /\ Answer(e, e) /\ execution[e].state = "claimed"
            /\ \E fence \in {execution[e].fence, RememberedFence(e)} : Matches(e, fence)
            /\ Set(e, Committed(e))
      BY <2>5 DEF CommitFenced, DomainCommit
    <3> QED
      BY <3>1, <1>1, <2>2, <2>3, CommitStores
  <2>6. ASSUME Abandon(e) \/ GiveUp(e) PROVE Agrees(e)'
    BY <2>6, <2>3 DEF Abandon, GiveUp
  <2>7. ASSUME ClaimFenced(e) PROVE Agrees(e)'
    <3>1. execution[e].state = "submitted"
      BY <2>7 DEF ClaimFenced
    <3>2. [execution[e] EXCEPT !.state = "claimed", !.fence = Grant(e).fence].state = "claimed"
      BY <3>1, AttemptType DEF Attempts
    <3> QED
      BY <2>7, <3>2, <1>2, <2>3 DEF ClaimFenced, TypeOK
  <2>8. ASSUME ClaimRolledBack(e) PROVE Agrees(e)'
    BY <2>8, <1>1 DEF ClaimRolledBack
  <2>9. ASSUME NEW k \in Keys, NEW c \in Commands, Submit(e, k, c) PROVE Agrees(e)'
    BY <2>9, <1>2 DEF Submit, TypeOK
  <2> QED
    BY <1>3, <2>1, <2>4, <2>5, <2>6, <2>7, <2>8, <2>9 DEF Execute
<1>4. ASSUME NEW s \in Stores, Crash(s), NEW d \in Executions PROVE Agrees(d)'
  BY <1>4, <1>1, <1>2 DEF Crash, Failed
<1>5. ASSUME UNCHANGED execution, NEW d \in Executions PROVE Agrees(d)'
  BY <1>5, <1>1
<1>6. \A d \in Executions : Agrees(d)'
  BY <1>3, <1>4, <1>5 DEF Next, LeaseExpires, vars
<1> QED
  BY <1>6 DEF AnswersAgree

-----------------------------------------------------------------------------
LEMMA InitInv == ASSUME Init PROVE DurableInv
<1>1. TypeOK
  BY NoRowType DEF Init, TypeOK
<1>2. RowsCoherent
  BY DEF Init, RowsCoherent, NoRow
<1>3. VersionsLogged /\ VersionsUnique /\ Authored
  BY DEF Init, VersionsLogged, VersionsUnique, Authored
<1>4. AnswersAgree
  BY DEF Init, AnswersAgree, Idle
<1> QED
  BY <1>1, <1>2, <1>3, <1>4 DEF DurableInv

LEMMA StepInv == ASSUME DurableInv, [Next]_vars PROVE DurableInv'
BY TypeStep, RowsCoherentStep, StepsAreRowSteps, LogStep, AuthoredStep, AnswersStep DEF DurableInv

(* The inductive invariant of the store.                                   *)
THEOREM DurableInvAlways == Spec => []DurableInv
<1>1. Init => DurableInv
  BY InitInv
<1>2. DurableInv /\ [Next]_vars => DurableInv'
  BY StepInv
<1> QED
  BY <1>1, <1>2, PTL DEF Spec

(* Every client that is answered for a key gets the one stored answer.     *)
THEOREM AnswersAlwaysAgree == Spec => []AnswersAgree
<1>1. DurableInv => AnswersAgree
  BY DEF DurableInv
<1> QED
  BY <1>1, DurableInvAlways, PTL

LEMMA InvLog == ASSUME DurableInv PROVE LogMatchesResults
<1>1. ASSUME NEW a \in Aggregates
      PROVE  {ev.version : ev \in {x \in events : x.aggregate = a}} = 1..version[a]
  <2>1. version[a] \in Nat
    BY DEF DurableInv, TypeOK
  <2>2. ASSUME NEW v, v \in 1..version[a]
        PROVE  v \in {ev.version : ev \in {x \in events : x.aggregate = a}}
    <3>1. v \in Nat /\ v >= 1 /\ v <= version[a]
      BY <2>1, <2>2
    <3>2. PICK ev \in events : ev.aggregate = a /\ ev.version = v
      BY <3>1 DEF DurableInv, VersionsLogged
    <3> QED
      BY <3>2
  <2>3. ASSUME NEW v, v \in {ev.version : ev \in {x \in events : x.aggregate = a}}
        PROVE  v \in 1..version[a]
    <3>1. PICK ev \in events : ev.aggregate = a /\ ev.version = v
      BY <2>3
    <3>2. v \in Nat
      BY <3>1 DEF DurableInv, TypeOK
    <3>3. v >= 1 /\ v <= version[a]
      BY <3>1, <3>2 DEF DurableInv, VersionsLogged
    <3> QED
      BY <2>1, <3>2, <3>3
  <2> QED
    BY <2>2, <2>3
<1> QED
  BY <1>1 DEF LogMatchesResults, DurableInv, VersionsUnique, Authored

(* The log of every aggregate is gapless, unforked, and written by the     *)
(* attempts whose results are stored.                                      *)
THEOREM LogAlwaysMatchesResults == Spec => []LogMatchesResults
<1>1. DurableInv => LogMatchesResults
  BY InvLog
<1> QED
  BY <1>1, DurableInvAlways, PTL

(* Fencing: with an owner token of its own, a superseded attempt cannot    *)
(* commit, whatever was abandoned, taken over or lost in between.          *)
THEOREM StaleOwnersRefused == Spec => StaleOwnersNeverCommit
<1>1. ASSUME DurableInv, [Next]_vars, NEW e \in Executions, NEW k \in Keys,
             SoleOwner(e), rows'[k].result = e, rows[k].result # e
      PROVE  rows[k].holder = e
  <2>0. e # "NONE"
    BY DurableAssumption
  <2>1. RowsStep
    BY <1>1, StepsAreRowSteps DEF DurableInv
  <2>2. PICK j \in Keys, row \in Rows : RowStep(j, row) /\ rows' = [rows EXCEPT ![j] = row]
    BY <1>1, <2>1 DEF RowsStep
  <2>3. j = k /\ rows'[k] = row
    BY <1>1, <2>2 DEF DurableInv, TypeOK
  <2>4. rows[k] \in Rows
    BY <1>1 DEF DurableInv, TypeOK
  <2>5. PICK d \in Executions : /\ rows[k].state = "IN_FLIGHT" /\ Owner(d) = rows[k].owner
                               /\ row = [rows[k] EXCEPT !.state = "COMMITTED", !.result = d]
    <3>1. ASSUME row = [rows[k] EXCEPT !.expired = TRUE] PROVE FALSE
      <4>1. row.result = rows[k].result
        BY <2>4, <3>1 DEF Rows
      <4> QED
        BY <1>1, <2>3, <4>1
    <3>2. ASSUME row = NoRow PROVE FALSE
      BY <1>1, <2>0, <2>3, <3>2 DEF NoRow
    <3>3. row # rows[k]
      BY <1>1, <2>3
    <3>4. ASSUME NEW d \in Executions, NEW c \in Commands,
                 row = [state |-> "IN_FLIGHT", command |-> c, owner |-> Owner(d),
                        fence |-> rows[k].fence + 1, expired |-> FALSE, result |-> "NONE",
                        holder |-> d]
          PROVE  FALSE
      <4>1. row.result = "NONE"
        BY <3>4
      <4> QED
        BY <1>1, <2>0, <2>3, <4>1
    <3>5. RowStep(k, row)
      BY <2>2, <2>3
    <3> QED
      BY <3>1, <3>2, <3>3, <3>4, <3>5 DEF RowStep
  <2>6. row.result = d
    BY <2>4, <2>5 DEF Rows
  <2>7. d = e
    BY <1>1, <2>3, <2>6
  <2>8. rows[k].holder \in Executions /\ rows[k].owner = Owner(rows[k].holder)
    BY <1>1, <2>5 DEF DurableInv, RowsCoherent
  <2> QED
    BY <1>1, <2>5, <2>7, <2>8 DEF SoleOwner
<1>2. DurableInv /\ [Next]_vars =>
        [\A e \in Executions, k \in Keys :
           (SoleOwner(e) /\ rows'[k].result = e /\ rows[k].result # e) => rows[k].holder = e]_vars
  BY <1>1
<1> QED
  BY <1>2, DurableInvAlways, PTL DEF Spec, StaleOwnersNeverCommit

-----------------------------------------------------------------------------
(* Refinement.                                                             *)

LEMMA OutcomeKept ==
  ASSUME TypeOK, RowsCoherent, RowsStep, \A k \in Keys : rows'[k].state = "COMMITTED" => rows[k].state = "COMMITTED"
  PROVE  Outcome' = Outcome
BY CommittedStays DEF Outcome, TypeOK

LEMMA CommitDecides ==
  ASSUME DurableInv, NEW e \in Executions, execution[e].state = "claimed",
         NEW fence, Matches(e, fence), Set(e, Committed(e))
  PROVE  LET k == execution[e].key
             c == execution[e].command
         IN  /\ k \in Keys /\ c \in Commands
             /\ Outcome[k] = [by |-> "NONE", command |-> "NONE"]
             /\ \A j \in Keys : Outcome[j].command # c
             /\ Outcome' = [Outcome EXCEPT ![k] = [by |-> e, command |-> c]]
             /\ \A ev \in events : ev.command # c
<1> DEFINE k == execution[e].key
           c == execution[e].command
<1>1. /\ k \in Keys
      /\ rows[k].state = "IN_FLIGHT" /\ rows[k].command = c
      /\ rows'[k].state = "COMMITTED" /\ rows'[k].command = c
      /\ rows'[k].result = e
      /\ \A j \in Keys \ {k} : rows'[j] = rows[j]
  BY CommitStores DEF DurableInv
<1>2. c \in Commands /\ c # "NONE"
  BY AttemptType, DurableAssumption DEF DurableInv
<1>3. \A j \in Keys : rows[j].state = "COMMITTED" => rows[j].command # c
  BY <1>1 DEF DurableInv, RowsCoherent
<1>4. \A ev \in events : ev.command # c
  BY <1>3 DEF DurableInv, Authored
<1> HIDE DEF k, c
<1>5. Outcome[k] = [by |-> "NONE", command |-> "NONE"]
  BY <1>1 DEF Outcome
<1>6. \A j \in Keys : Outcome[j].command # c
  BY <1>2, <1>3 DEF Outcome
<1>7. Outcome' = [Outcome EXCEPT ![k] = [by |-> e, command |-> c]]
  <2>1. \A j \in Keys : Outcome'[j] = [Outcome EXCEPT ![k] = [by |-> e, command |-> c]][j]
    BY <1>1 DEF Outcome
  <2> QED
    BY <2>1 DEF Outcome
<1> QED
  BY <1>1, <1>2, <1>4, <1>5, <1>6, <1>7 DEF k, c

LEMMA DomainEffect ==
  ASSUME DurableInv, NEW e \in Executions, DomainCommit(e)
  PROVE  Effect' \in {Effect, [Effect EXCEPT ![execution[e].command] = {e}]}
<1> DEFINE c == execution[e].command
<1>1. c \in Commands /\ \A ev \in events : ev.command # c
  BY CommitDecides DEF DomainCommit
<1>2. \A ev \in EventsOf(e) : ev.command = c /\ ev.by = e
  BY DEF EventsOf
<1>3. events' = events \cup EventsOf(e)
  BY DEF DomainCommit
<1> HIDE DEF c
<1>4. CASE EventsOf(e) = {}
  BY <1>3, <1>4 DEF Effect
<1>5. CASE EventsOf(e) # {}
  <2>1. \A d \in Commands : Effect'[d] = IF d = c THEN {e} ELSE Effect[d]
    <3>1. ASSUME NEW d \in Commands, d # c PROVE Effect'[d] = Effect[d]
      <4>1. {f \in events' : f.command = d} = {f \in events : f.command = d}
        BY <1>2, <1>3, <3>1
      <4> QED
        BY <4>1 DEF Effect
    <3>2. Effect'[c] = {e}
      <4>1. {f \in events' : f.command = c} = EventsOf(e)
        BY <1>1, <1>2, <1>3
      <4>2. {ev.by : ev \in EventsOf(e)} = {e}
        BY <1>2, <1>5
      <4> QED
        BY <1>1, <4>1, <4>2 DEF Effect
    <3> QED
      BY <3>1, <3>2
  <2>2. Effect' = [Effect EXCEPT ![c] = {e}]
    BY <2>1 DEF Effect
  <2> QED
    BY <2>2 DEF c
<1> QED
  BY <1>4, <1>5

LEMMA StepRefines ==
  ASSUME DurableInv, [Next]_vars
  PROVE  [Promise!Next]_(Promise!vars)
<1>0. TypeOK /\ RowsCoherent /\ RowsStep
  BY StepsAreRowSteps DEF DurableInv
<1>1. ASSUME \A k \in Keys : rows'[k].state = "COMMITTED" => rows[k].state = "COMMITTED",
             UNCHANGED events
      PROVE  UNCHANGED Promise!vars
  BY <1>0, <1>1, OutcomeKept DEF Promise!vars, Effect
<1>2. ASSUME UNCHANGED rows, UNCHANGED events PROVE UNCHANGED Promise!vars
  BY <1>2 DEF Promise!vars, Outcome, Effect
<1>3. ASSUME NEW e \in Executions, execution[e].state = "claimed",
             NEW fence, Matches(e, fence), Set(e, Committed(e)),
             Effect' \in {Effect, [Effect EXCEPT ![execution[e].command] = {e}]}
      PROVE  Promise!Next
  <2>1. Promise!Decide(execution[e].key, execution[e].command, e)
    BY <1>3, CommitDecides DEF Promise!Decide, Promise!Undecided
  <2>2. execution[e].key \in Keys /\ execution[e].command \in Commands
    BY <1>3, AttemptType DEF DurableInv
  <2> QED
    BY <2>1, <2>2 DEF Promise!Next
<1>4. ASSUME NEW e \in Executions, Execute(e) PROVE [Promise!Next]_(Promise!vars)
  <2>1. CASE ClaimFenced(e)
    <3>1. execution[e].key \in Keys /\ Grant(e).state = "IN_FLIGHT"
      BY <1>0, <2>1, AttemptType DEF ClaimFenced, Grant
    <3> QED
      BY <1>0, <1>1, <2>1, <3>1 DEF ClaimFenced, Set, TypeOK
  <2>2. CASE CommitFenced(e)
    <3>1. CASE UNCHANGED rows
      BY <1>2, <2>2, <3>1 DEF CommitFenced
    <3>2. CASE Set(e, Committed(e))
      <4>1. Effect' = Effect
        BY <2>2 DEF CommitFenced, Effect
      <4> QED
        BY <1>3, <2>2, <3>2, <4>1 DEF CommitFenced
    <3> QED
      BY <2>2, <3>1, <3>2 DEF CommitFenced
  <2>3. CASE DomainCommit(e)
    BY <1>3, <2>3, DomainEffect DEF DomainCommit
  <2>4. CASE Abandon(e)
    <3>1. execution[e].key \in Keys
      BY <1>0, <2>4, AttemptType DEF Abandon
    <3> QED
      BY <1>0, <1>1, <2>4, <3>1 DEF Abandon, Set, NoRow, TypeOK
  <2> QED
    BY <1>2, <1>4, <2>1, <2>2, <2>3, <2>4
    DEF Execute, Submit, ClaimRolledBack, Replay, GiveUp
<1>5. ASSUME NEW k \in Keys, LeaseExpires(k) PROVE UNCHANGED Promise!vars
  <2>1. [rows[k] EXCEPT !.expired = TRUE].state = rows[k].state
    BY <1>0 DEF TypeOK, Rows
  <2> QED
    BY <1>0, <1>1, <1>5, <2>1 DEF LeaseExpires, TypeOK
<1>6. ASSUME NEW s \in Stores, Crash(s) PROVE UNCHANGED Promise!vars
  BY <1>2, <1>6 DEF Crash
<1> QED
  BY <1>2, <1>4, <1>5, <1>6 DEF Next, vars

(* The store of leases, fences and retried transactions implements the     *)
(* one-outcome promise.                                                    *)
THEOREM StoreImplementsPromise == Spec => ImplementsExactlyOnce
<1>1. Init => Promise!Init
  BY DEF Init, Promise!Init, Promise!Undecided, Outcome, Effect, NoRow
<1>2. DurableInv /\ [Next]_vars => [Promise!Next]_(Promise!vars)
  BY StepRefines
<1> QED
  BY <1>1, <1>2, DurableInvAlways, PTL DEF Spec, ImplementsExactlyOnce, Promise!Spec
=============================================================================
