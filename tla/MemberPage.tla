----------------------------- MODULE MemberPage -----------------------------
(***************************************************************************)
(* The member page: src/public/member-auth.js.  A member asks for a code,  *)
(* verifies it, and the session token it brings is checked for its status; *)
(* a restricted member may pay the invoice in the sandbox, under a request *)
(* id that localStorage keeps.  Each request is awaited while the page     *)
(* stays live: a task is one of them.  A reload forgets all but the store. *)
(* The endpoints are the environment (Enrolment.tla, Membership.tla).      *)
(***************************************************************************)
EXTENDS Naturals

CONSTANTS Sessions, Invoices, Tasks, MaxRequests, None

VARIABLES
  token, memberAccess, status,
  modal,     \* what the modal shows, or "closed"
  tasks,     \* what each task awaits
  stored,    \* localStorage: the request id of each invoice, 0 for none
  created,   \* history: how many ids were created
  sent       \* history: the payments sent, <<invoice, request id>>

vars == <<token, memberAccess, status, modal, tasks, stored, created, sent>>
page == <<token, memberAccess, status, modal>>
store == <<stored, created, sent>>

Statuses == [access : BOOLEAN, invoice : Invoices \cup {None}, sandbox : BOOLEAN]
Idle == [does |-> "nothing", with |-> None]

TypeOK ==
  /\ token \in Sessions \cup {None} /\ memberAccess \in BOOLEAN /\ status \in Statuses \cup {None}
  /\ modal \in {"closed", "signIn", "code", "recovery", "recoveryCode", "recovered",
                "restricted", "member"}
  /\ tasks \in [Tasks -> [does : {"nothing", "begin", "verify", "check", "recover", "reveal", "pay"},
                          with : Sessions \cup Invoices \cup {None}]]
  /\ stored \in [Invoices -> 0..MaxRequests] /\ created \in 0..MaxRequests
  /\ sent \in SUBSET (Invoices \X (1..MaxRequests))

Init ==
  /\ token = None /\ memberAccess = FALSE /\ status = None /\ modal = "closed"
  /\ tasks = [t \in Tasks |-> Idle]
  /\ stored = [i \in Invoices |-> 0] /\ created = 0 /\ sent = {}

Starts(t, does, with) ==
  tasks[t] = Idle /\ tasks' = [tasks EXCEPT ![t] = [does |-> does, with |-> with]]
Ends(t, does) == tasks[t].does = does /\ tasks' = [tasks EXCEPT ![t] = Idle]

render == IF memberAccess THEN "member" ELSE IF token # None THEN "restricted" ELSE "signIn"

-----------------------------------------------------------------------------
open == modal' = render /\ UNCHANGED <<token, memberAccess, status, tasks, store>>
close == modal' = "closed" /\ UNCHANGED <<token, memberAccess, status, tasks, store>>

(* From the modal, or from the landing that a restricted member is shown,   *)
(* which opens the modal at once (entry-journey-guard.js).                 *)
signOut ==
  /\ modal \in {"restricted", "member", "closed"}
  /\ token' = None /\ memberAccess' = FALSE /\ status' = None
  /\ modal' = "signIn"
  /\ UNCHANGED <<tasks, store>>

(* The requests a button sends: for a code, or for a forgotten number.     *)
Ask(t) ==
  /\ \/ modal = "signIn" /\ Starts(t, "begin", None)
     \/ modal = "recovery" /\ Starts(t, "recover", None)
     \/ modal = "recoveryCode" /\ Starts(t, "reveal", None)
     \/ modal = "code" /\ \E s \in Sessions : Starts(t, "verify", s)
  /\ UNCHANGED <<page, store>>

ForgotNumber == modal = "signIn" /\ modal' = "recovery" /\ UNCHANGED <<token, memberAccess, status, tasks, store>>
BackToSignIn ==
  /\ modal \in {"recovery", "recovered"} /\ modal' = render
  /\ UNCHANGED <<token, memberAccess, status, tasks, store>>

(* The answer is rendered into the modal, whatever it shows by now; a      *)
(* closed one stays closed.                                                *)
Shows(content) == modal' = IF modal = "closed" THEN "closed" ELSE content
AnswerShown(t) ==
  /\ \/ Ends(t, "begin") /\ Shows("code")
     \/ Ends(t, "recover") /\ Shows("recoveryCode")
     \/ Ends(t, "reveal") /\ Shows("recovered")
  /\ UNCHANGED <<token, memberAccess, status, store>>

(* A verified code signs the member in and goes on to check the status.    *)
verify(t) ==
  /\ tasks[t].does = "verify"
  /\ token' = tasks[t].with
  /\ tasks' = [tasks EXCEPT ![t].does = "check"]
  /\ UNCHANGED <<memberAccess, status, modal, store>>

check(t, body) ==
  /\ Ends(t, "check")
  /\ status' = body /\ memberAccess' = body.access
  /\ UNCHANGED <<token, store>>
  /\ IF body.access THEN modal' = "closed" ELSE Shows(render')

TaskFails(t) ==
  /\ tasks[t] # Idle
  /\ tasks' = [tasks EXCEPT ![t] = Idle]
  /\ UNCHANGED <<page, store>>

(* The id is read from the store, or created and stored before it is used; *)
(* when the store cannot be used nothing is sent.                          *)
sandboxRequestIdFresh(i) == created + 1    \* variant: the store is never read
sandboxRequestId(i) == IF stored[i] # 0 THEN stored[i] ELSE created + 1
paySandbox(t, i) ==
  /\ modal = "restricted" /\ status # None /\ status.sandbox /\ status.invoice = i
  /\ sandboxRequestId(i) <= MaxRequests
  /\ Starts(t, "pay", i)
  /\ stored' = [stored EXCEPT ![i] = sandboxRequestId(i)]
  /\ created' = IF stored[i] # 0 THEN created ELSE created + 1
  /\ sent' = sent \cup {<<i, sandboxRequestId(i)>>}
  /\ UNCHANGED page

Paid(t) ==
  /\ tasks[t].does = "pay"
  /\ tasks' = [tasks EXCEPT ![t] = [does |-> "check", with |-> token]]
  /\ UNCHANGED <<page, store>>

Reload ==
  /\ token' = None /\ memberAccess' = FALSE /\ status' = None
  /\ modal' \in {"closed", "signIn"}
  /\ tasks' = [t \in Tasks |-> Idle]
  /\ UNCHANGED store

Next ==
  \/ open \/ close \/ signOut \/ ForgotNumber \/ BackToSignIn \/ Reload
  \/ \E t \in Tasks :
       \/ Ask(t) \/ AnswerShown(t) \/ verify(t) \/ TaskFails(t) \/ Paid(t)
       \/ \E body \in Statuses : check(t, body)
       \/ \E i \in Invoices : paySandbox(t, i)

Spec == Init /\ [][Next]_vars

-----------------------------------------------------------------------------
(* An invoice is paid under one request: every payment of it that is ever  *)
(* sent, on a second click, after a failure, under another session or      *)
(* after a reload, carries one request id, so that the server can tell it  *)
(* is the same payment, and no other invoice's payments carry that id.     *)
InvoicePaidUnderOneRequest ==
  /\ TypeOK
  /\ \A p, q \in sent : p[1] = q[1] <=> p[2] = q[2]
=============================================================================
