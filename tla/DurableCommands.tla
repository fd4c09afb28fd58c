--------------------------- MODULE DurableCommands ---------------------------
(***************************************************************************)
(* packages/durability: the PostgreSQL store of command executions and the *)
(* committer that writes events, aggregate version and command result in   *)
(* one transaction.                                                        *)
(*                                                                         *)
(* Every transaction is SERIALIZABLE, so it is one step.  It has three     *)
(* outcomes for its caller: acknowledged; rolled back (a serialization     *)
(* failure after the retries, a lost connection); or committed without an  *)
(* answer.  A store instance remembers the fences it was granted in        *)
(* process memory, which it writes before its transaction commits.  Several*)
(* executions may share an instance, and several instances an owner token  *)
(* (the tests do both).  Lease times are client clocks; a lease is taken   *)
(* to expire at any moment.                                                *)
(***************************************************************************)
EXTENDS Integers, FiniteSets

CONSTANTS
  Keys,        \* idempotency keys
  Commands,    \* command ids
  Requests,    \* which command clients send under which key
  Executions,  \* attempts of clients to execute a command, each made once
  Stores,      \* PostgresDurableCommandStore instances
  Owners,      \* owner tokens
  Aggregates,
  StoreOf,     \* the instance an execution uses
  OwnerOf,     \* the owner token of an instance
  Target,      \* the aggregate of a command
  Batch        \* how many events a command emits

ASSUME DurableAssumption ==
  /\ Requests \subseteq Keys \X Commands
  /\ StoreOf \in [Executions -> Stores]
  /\ OwnerOf \in [Stores -> Owners]
  /\ Target \in [Commands -> Aggregates]
  /\ Batch \in [Commands -> Nat]
  /\ "NONE" \notin Executions \cup Commands

VARIABLES
  rows,          \* durable_command_execution
  activeFences,  \* the in-memory map of each instance, 0 for no entry
  execution,     \* what each attempt knows
  version,       \* aggregate_version
  events         \* canonical_event

vars == <<rows, activeFences, execution, version, events>>

(* holder is not a column: it remembers whom the current claim was granted *)
(* to.                                                                     *)
Rows == [state : {"NONE", "IN_FLIGHT", "COMMITTED"},
         command : Commands \cup {"NONE"},
         owner : Owners \cup {"NONE"},
         fence : Nat,
         expired : BOOLEAN,
         result : Executions \cup {"NONE"},
         holder : Executions \cup {"NONE"}]
NoRow == [state |-> "NONE", command |-> "NONE", owner |-> "NONE", fence |-> 0,
          expired |-> FALSE, result |-> "NONE", holder |-> "NONE"]

(* An attempt that failed, or whose answer was lost, knows nothing.        *)
Attempts == [state : {"submitted", "claimed"}, key : Keys, command : Commands,
             expected : Nat, fence : Nat]
Answered == [state : {"answered"}, key : Keys, command : Commands, answer : Executions]
Idle == [state |-> "idle"]
Failed == [state |-> "failed"]

TypeOK ==
  /\ rows \in [Keys -> Rows]
  /\ activeFences \in [Stores \X Keys -> Nat]
  /\ execution \in [Executions -> {Idle, Failed} \cup Attempts \cup Answered]
  /\ version \in [Aggregates -> Nat]
  /\ events \subseteq [aggregate : Aggregates, version : Nat, command : Commands,
                       by : Executions]

Init ==
  /\ rows = [k \in Keys |-> NoRow]
  /\ activeFences = [i \in Stores \X Keys |-> 0]
  /\ execution = [e \in Executions |-> Idle]
  /\ version = [a \in Aggregates |-> 0]
  /\ events = {}

-----------------------------------------------------------------------------
Owner(e) == OwnerOf[StoreOf[e]]
Slot(e) == <<StoreOf[e], execution[e].key>>
RowOf(e) == rows[execution[e].key]

Set(e, row) == rows' = [rows EXCEPT ![execution[e].key] = row]
Remember(e, fence) == activeFences' = [activeFences EXCEPT ![Slot(e)] = fence]
Answer(e, answer) ==
  execution' = [execution EXCEPT ![e] =
    [state |-> "answered", key |-> execution[e].key, command |-> execution[e].command,
     answer |-> answer]]
Fail(e) == execution' = [execution EXCEPT ![e] = Failed]

(* The client composes a command against the version it sees. *)
Submit(e, k, c) ==
  /\ <<k, c>> \in Requests
  /\ execution[e] = Idle
  /\ execution' = [execution EXCEPT ![e] =
       [state |-> "submitted", key |-> k, command |-> c,
        expected |-> version[Target[c]], fence |-> 0]]
  /\ UNCHANGED <<rows, activeFences, version, events>>

-----------------------------------------------------------------------------
(* claimFenced                                                             *)

(* Mutation: an instance takes over only what its own token left behind. *)
ClaimableByOwner(e) ==
  LET x == execution[e] IN
  \/ RowOf(e).state = "NONE" /\ \A k \in Keys : rows[k].command # x.command
  \/ /\ RowOf(e).state = "IN_FLIGHT" /\ RowOf(e).command = x.command
     /\ RowOf(e).expired /\ RowOf(e).owner = Owner(e)

(* Mutation: the unique index on the command id is missing. *)
ClaimableAnyCommand(e) ==
  \/ RowOf(e).state = "NONE"
  \/ RowOf(e).state = "IN_FLIGHT" /\ RowOf(e).command = execution[e].command /\ RowOf(e).expired

(* The insert, which both the key and the unique command id must admit, or *)
(* the takeover of an expired lease.                                       *)
Claimable(e) ==
  LET x == execution[e] IN
  \/ RowOf(e).state = "NONE" /\ \A k \in Keys : rows[k].command # x.command
  \/ RowOf(e).state = "IN_FLIGHT" /\ RowOf(e).command = x.command /\ RowOf(e).expired

Grant(e) ==
  [state |-> "IN_FLIGHT", command |-> execution[e].command, owner |-> Owner(e),
   fence |-> RowOf(e).fence + 1, expired |-> FALSE, result |-> "NONE", holder |-> e]

ClaimFenced(e) ==
  /\ execution[e].state = "submitted"
  /\ Claimable(e)
  /\ Remember(e, Grant(e).fence)
  /\ Set(e, Grant(e))
  /\ \/ execution' = [execution EXCEPT ![e] =
          [@ EXCEPT !.state = "claimed", !.fence = Grant(e).fence]]
     \/ Fail(e)                                       \* the answer is lost
  /\ UNCHANGED <<version, events>>

ClaimRolledBack(e) ==
  /\ execution[e].state = "submitted"
  /\ Claimable(e)
  /\ Remember(e, Grant(e).fence)
  /\ UNCHANGED <<rows, execution, version, events>>

(* Mutation: the state of the row is not looked at. *)
AnswerableInFlight(e) == RowOf(e).command = execution[e].command

Answerable(e) == RowOf(e).state = "COMMITTED" /\ RowOf(e).command = execution[e].command

(* A committed key answers what it stored, to a claim and to a late commit. *)
Replay(e) ==
  /\ execution[e].state \in {"submitted", "claimed"}
  /\ Answerable(e)
  /\ Answer(e, RowOf(e).result)
  /\ UNCHANGED <<rows, activeFences, version, events>>

-----------------------------------------------------------------------------
(* commitFenced, commit, abandon and PostgresDomainCommitter.commit        *)

(* Mutation: state = 'IN_FLIGHT' is left out of the WHERE clause. *)
MatchesAnyState(e, fence) ==
  /\ RowOf(e).command = execution[e].command
  /\ RowOf(e).owner = Owner(e)
  /\ RowOf(e).fence = fence

(* Mutation: the owner token and the fence are left out. *)
MatchesAnyOwner(e, fence) ==
  /\ RowOf(e).state = "IN_FLIGHT"
  /\ RowOf(e).command = execution[e].command

Matches(e, fence) ==
  /\ RowOf(e).state = "IN_FLIGHT"
  /\ RowOf(e).command = execution[e].command
  /\ RowOf(e).owner = Owner(e)
  /\ RowOf(e).fence = fence

Committed(e) == [RowOf(e) EXCEPT !.state = "COMMITTED", !.result = e]

(* The fence commit and abandon take from memory; commitFenced is given    *)
(* one.  The entry is dropped inside the transaction of a commit.          *)
RememberedFence(e) == activeFences[Slot(e)]

CommitFenced(e) ==
  /\ execution[e].state = "claimed"
  /\ \E fence \in {execution[e].fence, RememberedFence(e)} \ {0} : Matches(e, fence)
  /\ Remember(e, 0)
  /\ \/ Set(e, Committed(e)) /\ (Answer(e, e) \/ Fail(e))
     \/ UNCHANGED <<rows, execution>>                 \* rolled back
  /\ UNCHANGED <<version, events>>

(* Mutation: the events are numbered from the version the client expected, *)
(* which is not compared with the current one.                             *)
ExpectedAny(e) == TRUE

Expected(e) == version[Target[execution[e].command]] = execution[e].expected

EventsOf(e) ==
  LET c == execution[e].command
  IN  {[aggregate |-> Target[c], version |-> execution[e].expected + i, command |-> c, by |-> e] :
         i \in 1..Batch[c]}

DomainCommit(e) ==
  LET c == execution[e].command IN
  /\ execution[e].state = "claimed"
  /\ Matches(e, execution[e].fence)
  /\ Expected(e)
  /\ events' = events \cup EventsOf(e)
  /\ version' = [version EXCEPT ![Target[c]] = execution[e].expected + Batch[c]]
  /\ Set(e, Committed(e))
  /\ Answer(e, e) \/ Fail(e)
  /\ UNCHANGED activeFences

Abandon(e) ==
  /\ execution[e].state = "claimed"
  /\ RememberedFence(e) > 0
  /\ IF Matches(e, RememberedFence(e)) THEN Set(e, NoRow) ELSE UNCHANGED rows
  /\ Remember(e, 0) \/ UNCHANGED activeFences         \* the answer is lost
  /\ Fail(e)
  /\ UNCHANGED <<version, events>>

-----------------------------------------------------------------------------
(* Time, failures and impatient clients.                                   *)

LeaseExpires(k) ==
  /\ rows[k].state = "IN_FLIGHT"
  /\ ~rows[k].expired
  /\ rows' = [rows EXCEPT ![k] = [@ EXCEPT !.expired = TRUE]]
  /\ UNCHANGED <<activeFences, execution, version, events>>

Crash(s) ==
  /\ activeFences' = [i \in Stores \X Keys |-> IF i[1] = s THEN 0 ELSE activeFences[i]]
  /\ execution' = [e \in Executions |->
       IF StoreOf[e] = s /\ execution[e].state \in {"submitted", "claimed"} THEN Failed
       ELSE execution[e]]
  /\ UNCHANGED <<rows, version, events>>

GiveUp(e) ==
  /\ execution[e].state \in {"submitted", "claimed"}
  /\ Fail(e)
  /\ UNCHANGED <<rows, activeFences, version, events>>

Execute(e) ==
  \/ \E k \in Keys, c \in Commands : Submit(e, k, c)
  \/ ClaimFenced(e)
  \/ ClaimRolledBack(e)
  \/ Replay(e)
  \/ CommitFenced(e)
  \/ DomainCommit(e)
  \/ Abandon(e)
  \/ GiveUp(e)

Next ==
  \/ \E e \in Executions : Execute(e)
  \/ \E k \in Keys : LeaseExpires(k)
  \/ \E s \in Stores : Crash(s)

(* Leases run out, and a client that waits keeps asking.  Nothing is       *)
(* assumed of a claim's holder: it may stop at any moment.                 *)
Fairness ==
  /\ \A k \in Keys : WF_vars(LeaseExpires(k))
  /\ \A e \in Executions : SF_vars(ClaimFenced(e)) /\ WF_vars(Replay(e))

Spec == Init /\ [][Next]_vars
FairSpec == Spec /\ Fairness
=============================================================================
