-------------------------- MODULE DurableProperties --------------------------
(***************************************************************************)
(* What the durable command store keeps true under crashes, lost answers,  *)
(* rolled-back transactions, lease takeovers and shared owner tokens.      *)
(***************************************************************************)
EXTENDS DurableCommands

(* The event log of an aggregate is gapless and unforked although several  *)
(* commands, each attempted several times, append batches to it; and every *)
(* event in it was written by the attempt whose result its command's key   *)
(* stores, so no event is there without its result and none twice.         *)
LogMatchesResults ==
  /\ \A a \in Aggregates :
       LET log == {ev \in events : ev.aggregate = a}
       IN  /\ {ev.version : ev \in log} = 1..version[a]
           /\ \A ev, f \in log : ev.version = f.version => ev = f
  /\ \A ev \in events : \E k \in Keys :
       rows[k].state = "COMMITTED" /\ rows[k].command = ev.command /\ rows[k].result = ev.by

(* Every client that is answered for a key is answered the same, for ever: *)
(* a claim replayed, a commit that came late and the commit itself.        *)
AnswersAgree ==
  \A e \in Executions : execution[e].state = "answered" =>
    /\ RowOf(e).state = "COMMITTED"
    /\ RowOf(e).command = execution[e].command
    /\ RowOf(e).result = execution[e].answer

Outcome == [k \in Keys |-> IF rows[k].state = "COMMITTED"
                           THEN [by |-> rows[k].result, command |-> rows[k].command]
                           ELSE [by |-> "NONE", command |-> "NONE"]]
Effect == [c \in Commands |-> {ev.by : ev \in {f \in events : f.command = c}}]

Promise == INSTANCE ExactlyOnce WITH
  Attempts <- Executions, None <- "NONE", outcome <- Outcome, effect <- Effect

(* The store implements the promise: committed results are never replaced, *)
(* removed or joined by another, and events come with the result or never. *)
ImplementsExactlyOnce == Promise!Spec

SoleOwner(e) == \A d \in Executions \ {e} : Owner(d) # Owner(e)

(* An attempt that was superseded (its lease ran out and another took the  *)
(* claim over, or the claim was abandoned and granted anew) cannot commit  *)
(* any more, if nobody else uses its owner token.                          *)
StaleOwnersNeverCommit ==
  [][\A e \in Executions, k \in Keys :
       (SoleOwner(e) /\ rows'[k].result = e /\ rows[k].result # e) => rows[k].holder = e]_vars

Conflict(e) ==
  \/ RowOf(e).command \notin {execution[e].command, "NONE"}
  \/ RowOf(e).state = "NONE" /\ \E k \in Keys : rows[k].command = execution[e].command

(* A claim left behind by a crashed holder blocks nobody for good: every   *)
(* client that keeps asking gets the claim or an answer, unless the key or *)
(* the command id belongs to something else.                               *)
WaitingClientDecided ==
  \A e \in Executions :
    execution[e].state = "submitted" ~> (execution[e].state # "submitted" \/ Conflict(e))

-----------------------------------------------------------------------------
(* docs/traceability/SW0-RC1A-command-fencing.json: stale owners cannot    *)
(* commit after takeover.  evidence/releases/SW0-RC3A.json: an unexpired   *)
(* claim is exclusive even when two process instances share the same owner *)
(* token.  Only the attempt the standing claim was granted to commits.     *)
OnlyHolderCommits ==
  [][\A k \in Keys : rows[k].state = "IN_FLIGHT" /\ rows'[k].state = "COMMITTED" =>
       rows'[k].result = rows[k].holder]_vars
=============================================================================
