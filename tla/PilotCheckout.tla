---------------------------- MODULE PilotCheckout ----------------------------
(***************************************************************************)
(* Checkout in the pilot packages: a command is executed by the command    *)
(* bus, which answers one result per idempotency key and records it as the *)
(* proof of the command; a checkout then reserves a cart, consumes the     *)
(* proof as its authorisation and commits a purchase obligation.           *)
(*                                                                         *)
(* Everything is in the memory of one JavaScript process, so a step runs   *)
(* from one await to the next: the bus awaits the store, its handler and   *)
(* its evidence sink; a checkout awaits the proof, and its caller the      *)
(* commitment.  Any number of executions and checkouts are under way.      *)
(* Left out: quantities, prices and times (a cart has a line or none; the  *)
(* offer and the membership may refuse), replays of the handler's own.     *)
(***************************************************************************)
EXTENDS Naturals, FiniteSets

CONSTANTS
  Commands,    \* command ids
  KeyOf,       \* the idempotency key each is sent under
  Executions,  \* executions on the bus at a time
  Carts, Obligations,
  Checkouts,   \* checkouts under way at a time
  MaxHandled,  \* bound: runs of handlers
  Nothing      \* undefined

VARIABLES
  handled,    \* the events handlers have emitted: for which key
  results,    \* the idempotency store: the result of each key
  entries,    \* the execution registry: the proof of each command
  executions, \* where each execution is
  carts,      \* the cart store
  consumed,   \* consumedAuthorizations
  commitments, \* the purchase commitment of each obligation
  checkouts,  \* where each checkout is
  made        \* history: every commitment ever made, with its cart

busVars == <<handled, results, entries, executions>>
cartVars == <<carts, consumed, commitments, checkouts, made>>
vars == <<busVars, cartVars>>

Keys == {KeyOf[c] : c \in Commands}
Events == 1..MaxHandled
(* A result names its event; 0 is a rejection.                             *)
Results == 0..MaxHandled
Authorizations == Commands \X Events

IdleExecution == [at |-> "idle", command |-> Nothing, result |-> Nothing]
IdleCheckout == [at |-> "idle", cart |-> Nothing, obligation |-> Nothing, authorization |-> Nothing]

ExecutionRows ==
  [at : {"idle", "checked", "handling", "settling"}, command : Commands \cup {Nothing},
   result : Results \cup {Nothing}]
CartRows ==
  [state : {"OPEN", "CHECKING_OUT", "CHECKED_OUT", "ABANDONED"}, line : BOOLEAN,
   obligation : Obligations \cup {Nothing}, reservation : Authorizations \cup {Nothing}]
CheckoutRows ==
  [at : {"idle", "verifying", "marking", "failing"}, cart : Carts \cup {Nothing},
   obligation : Obligations \cup {Nothing}, authorization : Authorizations \cup {Nothing}]

TypeOK ==
  /\ handled \in [Events -> Keys \cup {Nothing}]
  /\ results \in [Keys -> Results \cup {Nothing}]
  /\ entries \in [Commands -> Results \cup {Nothing}]
  /\ executions \in [Executions -> ExecutionRows]
  /\ carts \in [Carts -> CartRows]
  /\ consumed \subseteq Authorizations
  /\ commitments \in [Obligations -> Authorizations \cup {Nothing}]
  /\ checkouts \in [Checkouts -> CheckoutRows]
  /\ made \subseteq (Carts \X Obligations \X Authorizations)
  /\ \A c \in Carts : (carts[c].reservation = Nothing) <=> (carts[c].state \in {"OPEN", "ABANDONED"})

Init ==
  /\ handled = [e \in Events |-> Nothing]
  /\ results = [k \in Keys |-> Nothing]
  /\ entries = [c \in Commands |-> Nothing]
  /\ executions = [x \in Executions |-> IdleExecution]
  /\ carts = [c \in Carts |-> [state |-> "OPEN", line |-> FALSE, obligation |-> Nothing,
                               reservation |-> Nothing]]
  /\ consumed = {}
  /\ commitments = [o \in Obligations |-> Nothing]
  /\ checkouts = [x \in Checkouts |-> IdleCheckout]
  /\ made = {}

-----------------------------------------------------------------------------
(* CommandBus.execute, of an action that is not consequential.             *)

(* record: a proof is written once; another one is an error.               *)
record(command, result) ==
  entries' = IF entries[command] = Nothing THEN [entries EXCEPT ![command] = result] ELSE entries

(* The key's result is looked for, and awaited; found, it is the answer.   *)
BeginExecution(x, command) ==
  LET prior == results[KeyOf[command]]
  IN /\ executions[x].at = "idle"
     /\ IF prior # Nothing
        THEN record(command, prior) /\ UNCHANGED executions
        ELSE /\ executions' = [executions EXCEPT ![x] =
                  [IdleExecution EXCEPT !.at = "checked", !.command = command]]
             /\ UNCHANGED entries
     /\ UNCHANGED <<handled, results, cartVars>>

(* A version conflict, a refused authority or a missing handler.           *)
Reject(x) ==
  /\ executions[x].at \in {"checked", "handling"}
  /\ executions' = [executions EXCEPT ![x] = [@ EXCEPT !.at = "settling", !.result = 0]]
  /\ UNCHANGED <<handled, results, entries, cartVars>>

Handle(x) ==
  /\ executions[x].at = "checked"
  /\ executions' = [executions EXCEPT ![x].at = "handling"]
  /\ UNCHANGED <<handled, results, entries, cartVars>>

(* The handler's event is new; DomainRejection is a Reject, any other      *)
(* error leaves the key without a result.                                  *)
HandlerReturns(x) ==
  \E e \in Events :
    /\ executions[x].at = "handling"
    /\ handled[e] = Nothing /\ \A f \in 1..(e - 1) : handled[f] # Nothing
    /\ handled' = [handled EXCEPT ![e] = KeyOf[executions[x].command]]
    /\ executions' = [executions EXCEPT ![x] = [@ EXCEPT !.at = "settling", !.result = e]]
    /\ UNCHANGED <<results, entries, cartVars>>

HandlerThrows(x) ==
  /\ executions[x].at = "handling"
  /\ executions' = [executions EXCEPT ![x] = IdleExecution]
  /\ UNCHANGED <<handled, results, entries, cartVars>>

(* Mutation: the last result is kept instead of the first. *)
putAlways(key, result) == result
putIfAbsent(key, result) == IF results[key] = Nothing THEN result ELSE results[key]

Settle(x) ==
  LET command == executions[x].command
      stored == putIfAbsent(KeyOf[command], executions[x].result)
  IN /\ executions[x].at = "settling"
     /\ results' = [results EXCEPT ![KeyOf[command]] = stored]
     /\ record(command, stored)
     /\ executions' = [executions EXCEPT ![x] = IdleExecution]
     /\ UNCHANGED <<handled, cartVars>>

-----------------------------------------------------------------------------
(* InMemoryPilotCartStore.                                                 *)

requireOpen(c) == carts[c].state = "OPEN"

setSingleLine(c) ==
  /\ requireOpen(c)
  /\ carts' = [carts EXCEPT ![c].line = TRUE]
  /\ UNCHANGED <<busVars, consumed, commitments, checkouts, made>>

abandon(c) ==
  /\ requireOpen(c)
  /\ carts' = [carts EXCEPT ![c].state = "ABANDONED"]
  /\ UNCHANGED <<busVars, consumed, commitments, checkouts, made>>

-----------------------------------------------------------------------------
(* PilotCheckoutService.checkout, and commitPurchase up to its await.      *)

(* Mutation: a cart that is being checked out will do. *)
AvailableReserved(c) == carts[c].state \in {"OPEN", "CHECKING_OUT"} /\ carts[c].line
Available(c) == requireOpen(c) /\ carts[c].line

(* Mutation: an authorisation is consumed when it is verified. *)
ConsumableVerified(a) == ~\E m \in made : m[3] = a
Consumable(a) == a \notin consumed

StartCheckout(x, c, o, a, eligible) ==
  LET commits == commitments[o] = Nothing /\ eligible /\ Consumable(a)
  IN /\ checkouts[x].at = "idle"
     /\ Available(c)
     /\ carts' = [carts EXCEPT ![c] = [@ EXCEPT !.state = "CHECKING_OUT", !.obligation = o,
                                               !.reservation = a]]
     /\ consumed' = IF commits THEN consumed \cup {a} ELSE consumed
     /\ checkouts' = [checkouts EXCEPT ![x] =
          [at |-> IF commits THEN "verifying" ELSE "failing",
           cart |-> c, obligation |-> o, authorization |-> a]]
     /\ UNCHANGED <<busVars, commitments, made>>

(* Mutation: any event of an accepted command will do. *)
isAcceptedAnyEvent(a) == entries[a[1]] \notin {Nothing, 0}
isAccepted(a) == entries[a[1]] = a[2]

(* After the await: the commitment is set, or the authorisation is freed.  *)
Verify(x) ==
  LET a == checkouts[x].authorization
      o == checkouts[x].obligation
  IN /\ checkouts[x].at = "verifying"
     /\ \/ /\ isAccepted(a)
           /\ commitments' = [commitments EXCEPT ![o] = a]
           /\ made' = made \cup {<<checkouts[x].cart, o, a>>}
           /\ checkouts' = [checkouts EXCEPT ![x].at = "marking"]
           /\ UNCHANGED consumed
        \/ /\ ~isAccepted(a)
           /\ consumed' = consumed \ {a}
           /\ checkouts' = [checkouts EXCEPT ![x].at = "failing"]
           /\ UNCHANGED <<commitments, made>>
     /\ UNCHANGED <<busVars, carts>>

ownsReservation(x) ==
  LET c == checkouts[x].cart
  IN carts[c].state = "CHECKING_OUT" /\ carts[c].reservation = checkouts[x].authorization

markCheckedOut(x) ==
  /\ checkouts[x].at = "marking"
  /\ carts' = IF ownsReservation(x)
              THEN [carts EXCEPT ![checkouts[x].cart].state = "CHECKED_OUT"] ELSE carts
  /\ checkouts' = [checkouts EXCEPT ![x] = IdleCheckout]
  /\ UNCHANGED <<busVars, consumed, commitments, made>>

(* The cart is released unless its obligation exists after all.            *)
(* Mutation: and without the reservation being cleared. *)
ReleasedReserved(c) == [carts EXCEPT ![c].state = "OPEN"]
Released(c) == [carts EXCEPT ![c] = [@ EXCEPT !.state = "OPEN", !.obligation = Nothing,
                                              !.reservation = Nothing]]

FailCheckout(x) ==
  /\ checkouts[x].at = "failing"
  /\ carts' = IF ownsReservation(x) /\ commitments[checkouts[x].obligation] = Nothing
              THEN Released(checkouts[x].cart) ELSE carts
  /\ checkouts' = [checkouts EXCEPT ![x] = IdleCheckout]
  /\ UNCHANGED <<busVars, consumed, commitments, made>>

-----------------------------------------------------------------------------
Next ==
  \/ \E x \in Executions :
       \/ \E command \in Commands : BeginExecution(x, command)
       \/ Reject(x) \/ Handle(x) \/ HandlerReturns(x) \/ HandlerThrows(x) \/ Settle(x)
  \/ \E c \in Carts : setSingleLine(c) \/ abandon(c)
  \/ \E x \in Checkouts :
       \/ \E c \in Carts, o \in Obligations, a \in Authorizations, eligible \in BOOLEAN :
            StartCheckout(x, c, o, a, eligible)
       \/ Verify(x) \/ markCheckedOut(x) \/ FailCheckout(x)

Spec == Init /\ [][Next]_vars

-----------------------------------------------------------------------------
(* What must hold of commands, carts and obligations however executions    *)
(* and checkouts interleave at their awaits.                               *)

(* The proofs agree: every command sent under a key is recorded with the   *)
(* one result the key has, though handlers of the same key may have run    *)
(* side by side; and an accepted result names an event that a handler of   *)
(* this key emitted.  Every record is of its type.                         *)
ProofsAgree ==
  /\ TypeOK
  /\ \A c \in Commands :
       LET result == results[KeyOf[c]]
       IN /\ entries[c] \in {Nothing, result}
          /\ result \notin {Nothing, 0} => handled[result] = KeyOf[c]

(* Nothing is bought twice.  An obligation has its authorisation to itself:*)
(* every commitment ever made rests on a command that is on record as      *)
(* accepted with that event, no two were made with one authorisation, and  *)
(* one that is consumed and not spent belongs to a checkout that still     *)
(* waits for its proof (so a failed checkout can be tried again).  And at  *)
(* most one commitment is ever made from a cart, which is then never open  *)
(* again, and is checked out only with the obligation committed from it.   *)
BoughtOnce ==
  /\ \A m \in made : m[3] \in consumed /\ entries[m[3][1]] = m[3][2]
  /\ \A m, n \in made : m[3] = n[3] \/ m[1] = n[1] => m = n
  /\ \A a \in consumed :
       \/ \E m \in made : m[3] = a
       \/ \E x \in Checkouts : checkouts[x].at = "verifying" /\ checkouts[x].authorization = a
  /\ \A m \in made : carts[m[1]].state \in {"CHECKING_OUT", "CHECKED_OUT"}
  /\ \A c \in Carts : carts[c].state = "CHECKED_OUT" =>
       \E m \in made : m[1] = c /\ m[2] = carts[c].obligation

(* A commitment is made once ("OBLIGATION_ID_DUPLICATE"): no commitment is *)
(* replaced by another.                                                    *)
CommitmentStands ==
  [][\A o \in Obligations : commitments[o] # Nothing => commitments'[o] = commitments[o]]_vars
=============================================================================
