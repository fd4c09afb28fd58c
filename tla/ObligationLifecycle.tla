------------------------ MODULE ObligationLifecycle ------------------------
(***************************************************************************)
(* What the order operations promise about one obligation, without         *)
(* requests, statements or snapshots: it moves through its phases one step *)
(* at a time and never back, the T-24h deadline disposes of it at most     *)
(* once, and the refund it is owed is fixed once and paid once.            *)
(***************************************************************************)
EXTENDS Integers

CONSTANT Obligations

VARIABLES phase,     \* where the obligation stands
          disposed,  \* the deadline processor has decided about it
          owed       \* refund authorized for it, 0 while there is none

vars == <<phase, disposed, owed>>

Init == /\ phase = [o \in Obligations |-> "NONE"]
        /\ disposed = [o \in Obligations |-> FALSE]
        /\ owed = [o \in Obligations |-> 0]

Move(o, from, to) == phase[o] = from /\ phase' = [phase EXCEPT ![o] = to]

Commit(o) == Move(o, "NONE", "COMMITTED") /\ UNCHANGED <<disposed, owed>>
Ready(o) == Move(o, "COMMITTED", "READY") /\ UNCHANGED <<disposed, owed>>
AcceptAll(o) == Move(o, "READY", "ACCEPTED") /\ UNCHANGED <<disposed, owed>>
AcceptShort(o) == Move(o, "READY", "SHORT") /\ UNCHANGED <<disposed, owed>>

Authorize(o) == /\ Move(o, "SHORT", "REFUND_AUTHORIZED")
                /\ owed'[o] \in Nat \ {0}
                /\ owed' = [owed EXCEPT ![o] = owed'[o]]
                /\ UNCHANGED disposed

Refund(o) == Move(o, "REFUND_AUTHORIZED", "REFUNDED") /\ UNCHANGED <<disposed, owed>>

Dispose(o) == /\ phase[o] \notin {"NONE", "REFUNDED"}
              /\ ~disposed[o]
              /\ disposed' = [disposed EXCEPT ![o] = TRUE]
              /\ UNCHANGED <<phase, owed>>

Next == \E o \in Obligations :
          \/ Commit(o) \/ Ready(o) \/ AcceptAll(o) \/ AcceptShort(o)
          \/ Authorize(o) \/ Refund(o) \/ Dispose(o)

Spec == Init /\ [][Next]_vars
=============================================================================
