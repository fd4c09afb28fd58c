----------------------------- MODULE ExactlyOnce -----------------------------
(***************************************************************************)
(* What a durable command store promises its clients, without leases,      *)
(* fences or transactions: a key gets at most one outcome, for one         *)
(* command; a command gets at most one outcome over all keys; and its      *)
(* events, if it has any, are written by the attempt whose outcome it is,  *)
(* together with that outcome.                                             *)
(***************************************************************************)
CONSTANTS Keys, Commands, Attempts, None

VARIABLES outcome,  \* per key: the attempt that decided it, and its command
          effect    \* per command: the attempts whose events are in the log

vars == <<outcome, effect>>

Undecided == [by |-> None, command |-> None]

Init == /\ outcome = [k \in Keys |-> Undecided]
        /\ effect = [c \in Commands |-> {}]

Decide(k, c, a) ==
  /\ outcome[k] = Undecided
  /\ \A j \in Keys : outcome[j].command # c
  /\ outcome' = [outcome EXCEPT ![k] = [by |-> a, command |-> c]]
  /\ effect' \in {effect, [effect EXCEPT ![c] = {a}]}

Next == \E k \in Keys, c \in Commands, a \in Attempts : Decide(k, c, a)

Spec == Init /\ [][Next]_vars
=============================================================================
