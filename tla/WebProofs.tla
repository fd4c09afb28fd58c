------------------------------ MODULE WebProofs ------------------------------
(***************************************************************************)
(* Theorems about the pages of a browser tab (WebPages), for every set of  *)
(* credentials, sessions, invoices and tasks and every bound: the type     *)
(* invariant and the safety properties that web.cfg checks, each from an   *)
(* inductive invariant that is named in front of its proof.                *)
(***************************************************************************)
EXTENDS WebPages, FiniteSetTheorems, TLAPS

-----------------------------------------------------------------------------
(* The employee page.  A click is born in pendingAction, moves into one    *)
(* credential, and is what that credential submits, if it submits at all;  *)
(* no click is younger than the count of clicks.                           *)

ClickOf(c) == onCredentials[c].action.click

ClicksSound ==
  /\ pendingAction.click <= clicks
  /\ \A c \in Credentials :
       /\ ClickOf(c) <= clicks
       /\ ClickOf(c) # 0 => pendingAction.click # ClickOf(c)
       /\ submitted[c] \in {0, ClickOf(c)}
       /\ onCredentials[c].at = "new" => submitted[c] = 0
       /\ \A e \in Credentials : c # e /\ ClickOf(c) # 0 => ClickOf(c) # ClickOf(e)

EmployeeInv == Employee!TypeOK /\ ClicksSound

CallRows == [at : {"new", "minting", "submitting", "loading", "done"}, action : Employee!Actions]

LEMMA ActionValues ==
  /\ Employee!Verify \in Employee!Actions /\ Employee!Verify.click = 0
  /\ \A type \in {"invite", "revoke", "cancel", "approve", "reject"}, n \in 0..MaxClicks :
       [type |-> type, click |-> n] \in Employee!Actions
  /\ \A x \in Employee!Actions : x.click \in 0..MaxClicks
BY WebPagesAssumption DEF Employee!Verify, Employee!Actions

LEMMA CallValues ==
  /\ \A r \in CallRows : /\ r.action \in Employee!Actions
                         /\ [r EXCEPT !.at = "submitting"] \in CallRows
                         /\ [r EXCEPT !.at = "loading"] \in CallRows
                         /\ [r EXCEPT !.at = "done"] \in CallRows
                         /\ [r EXCEPT !.at = "submitting"].action = r.action
                         /\ [r EXCEPT !.at = "loading"].action = r.action
                         /\ [r EXCEPT !.at = "done"].action = r.action
                         /\ [r EXCEPT !.at = "submitting"].at = "submitting"
                         /\ [r EXCEPT !.at = "loading"].at = "loading"
                         /\ [r EXCEPT !.at = "done"].at = "done"
  /\ \A x \in Employee!Actions : /\ [at |-> "minting", action |-> x] \in CallRows
                                 /\ [at |-> "new", action |-> x] \in CallRows
BY DEF CallRows

(* The only ways a step of the page moves clicks: a click is armed, taken  *)
(* by a new credential, submitted by the one that carries it, or kept.     *)
Armed(type) ==
  /\ clicks < MaxClicks /\ clicks' = clicks + 1
  /\ pendingAction' = [type |-> type, click |-> clicks + 1]
  /\ UNCHANGED <<onCredentials, submitted>>
Taken(c) ==
  /\ onCredentials[c].at = "new"
  /\ onCredentials' = [onCredentials EXCEPT ![c] = [at |-> "minting", action |-> pendingAction]]
  /\ pendingAction' = Employee!Verify
  /\ UNCHANGED <<clicks, submitted>>
Carried(c) ==
  /\ \E at \in {"submitting", "loading", "done"} :
       onCredentials' = [onCredentials EXCEPT ![c].at = at]
  /\ \/ UNCHANGED submitted
     \/ onCredentials[c].at = "minting" /\ submitted' = [submitted EXCEPT ![c] = ClickOf(c)]
  /\ UNCHANGED <<clicks, pendingAction>>
ClickMove ==
  \/ \E type \in {"invite", "revoke", "cancel", "approve", "reject"} : Armed(type)
  \/ \E c \in Credentials : Taken(c) \/ Carried(c)
  \/ UNCHANGED <<onCredentials, submitted, clicks, pendingAction>>

LEMMA EmployeeStepsMoveClicks ==
  Employee!Next => ClickMove
<1> SUFFICES ASSUME Employee!Next PROVE ClickMove
  OBVIOUS
<1> USE DEF ClickMove
<1>1. CASE Employee!ConfigLoads \/ Employee!ensureGoogleButton
  BY <1>1 DEF Employee!ConfigLoads, Employee!ensureGoogleButton
<1>2. CASE \E r \in Employee!ROLE_PRESETS : Employee!PickRole(r)
  BY <1>2 DEF Employee!PickRole
<1>3. ASSUME NEW type \in {"invite", "revoke", "cancel", "approve", "reject"},
             Employee!Arm(type)
      PROVE  ClickMove
  <2>1. Armed(type)
    BY <1>3 DEF Employee!Arm, Armed
  <2> QED BY <2>1
<1>4. ASSUME NEW c \in Credentials,
             \/ Employee!onCredential(c) \/ Employee!CredentialInvalid(c)
             \/ Employee!mintEmployeeSession(c)
             \/ Employee!Submitted(c) \/ Employee!RequestFails(c)
             \/ \E d \in Employee!Directories : Employee!loadDirectory(c, d)
      PROVE  ClickMove
  <2>1. Employee!onCredential(c) => Taken(c)
    BY DEF Employee!onCredential, Taken
  <2>2. Employee!CredentialInvalid(c) => Carried(c)
    BY DEF Employee!CredentialInvalid, Carried
  <2>3. Employee!mintEmployeeSession(c) => Carried(c)
    BY DEF Employee!mintEmployeeSession, Carried, ClickOf
  <2>4. Employee!Submitted(c) \/ Employee!RequestFails(c) => Carried(c)
    BY DEF Employee!Submitted, Employee!RequestFails, Carried
  <2>5. (\E d \in Employee!Directories : Employee!loadDirectory(c, d)) => Carried(c)
    BY DEF Employee!loadDirectory, Carried
  <2> QED BY <1>4, <2>1, <2>2, <2>3, <2>4, <2>5
<1> QED BY <1>1, <1>2, <1>3, <1>4 DEF Employee!Next

LEMMA EmployeeTypes ==
  ASSUME Employee!TypeOK, Employee!Next
  PROVE  Employee!TypeOK'
<1>1. /\ pendingAction' \in Employee!Actions
      /\ onCredentials' \in [Credentials -> CallRows]
      /\ clicks' \in 0..MaxClicks /\ submitted' \in [Credentials -> 0..MaxClicks]
  <2> USE DEF Employee!TypeOK, CallRows
  <2>1. ASSUME NEW type \in {"invite", "revoke", "cancel", "approve", "reject"}, Armed(type)
        PROVE  <1>1!:
    <3>1. clicks + 1 \in 0..MaxClicks
      BY <2>1, WebPagesAssumption DEF Armed
    <3> QED BY <2>1, <3>1, ActionValues DEF Armed
  <2>2. ASSUME NEW c \in Credentials, Taken(c)
        PROVE  <1>1!:
    BY <2>2, ActionValues DEF Taken
  <2>3. ASSUME NEW c \in Credentials, Carried(c)
        PROVE  <1>1!:
    <3>1. ClickOf(c) \in 0..MaxClicks
      BY ActionValues DEF ClickOf
    <3>2. onCredentials' \in [Credentials -> CallRows]
      BY <2>3 DEF Carried
    <3> QED BY <2>3, <3>1, <3>2 DEF Carried
  <2> QED BY <2>1, <2>2, <2>3, EmployeeStepsMoveClicks DEF ClickMove
<1>2. /\ pageConfig' \in {None, "preview", "unconfigured", "ready"}
      /\ googleReady' \in {"no", "ready", "failed"}
      /\ selectedRoleKey' \in Employee!ROLE_PRESETS \cup {None}
      /\ directory' \in Employee!Directories \cup {None}
  BY DEF Employee!TypeOK, Employee!Next, Employee!ConfigLoads, Employee!ensureGoogleButton,
         Employee!PickRole, Employee!rolesOffered, Employee!Arm, Employee!onCredential,
         Employee!CredentialInvalid, Employee!mintEmployeeSession, Employee!Submitted,
         Employee!RequestFails, Employee!loadDirectory
<1> QED BY <1>1, <1>2 DEF Employee!TypeOK, CallRows

LEMMA EmployeeSteps ==
  ASSUME EmployeeInv, Employee!Next
  PROVE  EmployeeInv'
<1>1. Employee!TypeOK'
  BY EmployeeTypes DEF EmployeeInv
<1>2. /\ \A c \in Credentials : ClickOf(c) \in Nat /\ submitted[c] \in Nat
      /\ pendingAction.click \in Nat /\ clicks \in Nat
      /\ onCredentials \in [Credentials -> CallRows]
      /\ submitted \in [Credentials -> 0..MaxClicks]
  BY ActionValues DEF EmployeeInv, Employee!TypeOK, ClickOf, CallRows
<1>3. ASSUME NEW type \in {"invite", "revoke", "cancel", "approve", "reject"}, Armed(type)
      PROVE  ClicksSound'
  BY <1>2, <1>3 DEF EmployeeInv, ClicksSound, Armed, ClickOf
<1>4. ASSUME NEW c \in Credentials, Taken(c)
      PROVE  ClicksSound'
  <2>1. /\ \A e \in Credentials : e # c => onCredentials'[e] = onCredentials[e]
        /\ ClickOf(c)' = pendingAction.click /\ onCredentials'[c].at = "minting"
        /\ submitted[c] = 0 /\ pendingAction'.click = 0
    BY <1>2, <1>4, ActionValues DEF Taken, EmployeeInv, ClicksSound, ClickOf
  <2>2. \A e \in Credentials : e # c => ClickOf(e)' = ClickOf(e)
    BY <2>1 DEF ClickOf
  <2>3. UNCHANGED <<clicks, submitted>>
    BY <1>4 DEF Taken
  <2> QED BY <1>2, <2>1, <2>2, <2>3 DEF EmployeeInv, ClicksSound
<1>5. ASSUME NEW c \in Credentials, Carried(c)
      PROVE  ClicksSound'
  <2>1. \A e \in Credentials :
          /\ ClickOf(e)' = ClickOf(e)
          /\ onCredentials'[e].at = "new" => e # c /\ onCredentials[e].at = "new"
    BY <1>2, <1>5, CallValues DEF Carried, ClickOf
  <2>2. /\ UNCHANGED <<clicks, pendingAction>>
        /\ \A e \in Credentials : e # c => submitted'[e] = submitted[e]
        /\ submitted'[c] \in {submitted[c], ClickOf(c)}
    BY <1>2, <1>5 DEF Carried
  <2> QED BY <1>2, <2>1, <2>2 DEF EmployeeInv, ClicksSound
<1>6. ASSUME UNCHANGED <<onCredentials, submitted, clicks, pendingAction>>
      PROVE  ClicksSound'
  BY <1>6 DEF EmployeeInv, ClicksSound, ClickOf
<1>7. ClickMove
  BY EmployeeStepsMoveClicks
<1>8. ClicksSound'
  BY <1>3, <1>4, <1>5, <1>6, <1>7 DEF ClickMove
<1> QED BY <1>1, <1>8 DEF EmployeeInv

LEMMA EmployeeStarts ==
  Employee!Init => EmployeeInv
<1> SUFFICES ASSUME Employee!Init PROVE EmployeeInv
  OBVIOUS
<1>1. /\ onCredentials \in [Credentials -> CallRows]
      /\ \A c \in Credentials : ClickOf(c) = 0
  BY ActionValues, CallValues DEF Employee!Init, ClickOf
<1>2. Employee!TypeOK
  BY <1>1, ActionValues, WebPagesAssumption DEF Employee!Init, Employee!TypeOK, CallRows
<1>3. ClicksSound
  BY <1>1, ActionValues DEF Employee!Init, ClicksSound
<1> QED BY <1>2, <1>3 DEF EmployeeInv

LEMMA EmployeeStutters ==
  ASSUME EmployeeInv, UNCHANGED employeeVars
  PROVE  EmployeeInv'
BY DEF employeeVars, EmployeeInv, ClicksSound, ClickOf, Employee!TypeOK

LEMMA ClicksSpentOnce == EmployeeInv => StepUpsSpentOnce
<1> SUFFICES ASSUME EmployeeInv PROVE StepUpsSpentOnce
  OBVIOUS
<1>1. \A c \in Credentials : ClickOf(c) \in Nat /\ submitted[c] \in Nat
  BY ActionValues DEF EmployeeInv, Employee!TypeOK, ClickOf
<1> QED BY <1>1 DEF EmployeeInv, ClicksSound, ClickOf, StepUpsSpentOnce, Employee!StepUpsSpentOnce

-----------------------------------------------------------------------------
(* The member page.  The store names the request of each invoice: the ids  *)
(* in it were created, each for one invoice, and every payment that was    *)
(* sent carries the id that the store still holds for its invoice.         *)

RequestsSound ==
  /\ \A i \in Invoices : stored[i] <= created
  /\ \A i, j \in Invoices : i # j /\ stored[i] # 0 => stored[i] # stored[j]
  /\ \A p \in sent : p[2] = stored[p[1]]

(* A code that is being verified brings a session.                         *)
VerifiesSession ==
  \A t \in Tasks : tasks[t].does = "verify" => tasks[t].with \in Sessions \cup {None}

MemberInv == Member!TypeOK /\ RequestsSound /\ VerifiesSession

TaskRows == [does : {"nothing", "begin", "verify", "check", "recover", "reveal", "pay"},
             with : Sessions \cup Invoices \cup {None}]

LEMMA TaskValues ==
  /\ Member!Idle \in TaskRows /\ Member!Idle.does = "nothing"
  /\ \A r \in TaskRows : /\ r.with \in Sessions \cup Invoices \cup {None}
                         /\ [r EXCEPT !.does = "check"] \in TaskRows
                         /\ [r EXCEPT !.does = "check"].does = "check"
BY DEF TaskRows, Member!Idle

(* What a step of the page does to one task: it is started with one of the *)
(* requests, goes on to the status check, or is over.                      *)
TaskMove(t) ==
  \/ \E does \in {"begin", "recover", "reveal", "pay", "check"},
        with \in Sessions \cup Invoices \cup {None} :
       tasks' = [tasks EXCEPT ![t] = [does |-> does, with |-> with]]
  \/ \E s \in Sessions : tasks' = [tasks EXCEPT ![t] = [does |-> "verify", with |-> s]]
  \/ tasks' = [tasks EXCEPT ![t].does = "check"]
  \/ tasks' = [tasks EXCEPT ![t] = Member!Idle]
TasksMove ==
  \/ UNCHANGED tasks \/ tasks' = [t \in Tasks |-> Member!Idle]
  \/ \E t \in Tasks : TaskMove(t)

(* What a step does to the store: nothing, or it keeps the id under which  *)
(* one invoice is paid.                                                    *)
PayMove(i) ==
  /\ Member!sandboxRequestId(i) <= MaxRequests
  /\ stored' = [stored EXCEPT ![i] = Member!sandboxRequestId(i)]
  /\ created' = IF stored[i] # 0 THEN created ELSE created + 1
  /\ sent' = sent \cup {<<i, Member!sandboxRequestId(i)>>}
StoreMove == UNCHANGED <<stored, created, sent>> \/ \E i \in Invoices : PayMove(i)

PageTypes ==
  /\ memberToken \in Sessions \cup {None} /\ memberAccess \in BOOLEAN
  /\ status \in Member!Statuses \cup {None}
  /\ memberModal \in {"closed", "signIn", "code", "recovery", "recoveryCode", "recovered",
                      "restricted", "member"}

LEMMA MemberStepsMove ==
  ASSUME Member!TypeOK, VerifiesSession, Member!Next
  PROVE  TasksMove /\ StoreMove /\ PageTypes'
<1>0. /\ tasks \in [Tasks -> TaskRows] /\ PageTypes
      /\ \A body \in Member!Statuses : body.access \in BOOLEAN
      /\ Member!render \in {"signIn", "restricted", "member"}
      /\ Member!render' \in {"signIn", "restricted", "member"}
  BY DEF Member!TypeOK, TaskRows, PageTypes, Member!Statuses, Member!render
<1> USE DEF PageTypes, Member!store, Member!page
<1>1. CASE Member!open \/ Member!close \/ Member!signOut \/ Member!ForgotNumber
           \/ Member!BackToSignIn \/ Member!Reload
  BY <1>0, <1>1 DEF Member!open, Member!close, Member!signOut, Member!ForgotNumber,
     Member!BackToSignIn, Member!Reload, TasksMove, StoreMove
<1>2. ASSUME NEW t \in Tasks, Member!Ask(t) \/ Member!AnswerShown(t) \/ Member!TaskFails(t)
      PROVE  TasksMove /\ StoreMove /\ PageTypes'
  <2>1. TaskMove(t)
    BY <1>2 DEF Member!Ask, Member!AnswerShown, Member!TaskFails, Member!Starts, Member!Ends,
       TaskMove
  <2>2. StoreMove /\ PageTypes'
    BY <1>0, <1>2 DEF Member!Ask, Member!AnswerShown, Member!TaskFails, Member!Shows, StoreMove
  <2> QED BY <2>1, <2>2 DEF TasksMove
<1>3. ASSUME NEW t \in Tasks, Member!verify(t)
      PROVE  TasksMove /\ StoreMove /\ PageTypes'
  BY <1>0, <1>3 DEF Member!verify, VerifiesSession, TasksMove, TaskMove, StoreMove
<1>4. ASSUME NEW t \in Tasks, Member!Paid(t)
      PROVE  TasksMove /\ StoreMove /\ PageTypes'
  BY <1>0, <1>4 DEF Member!Paid, TasksMove, TaskMove, StoreMove
<1>5. ASSUME NEW t \in Tasks, NEW body \in Member!Statuses, Member!check(t, body)
      PROVE  TasksMove /\ StoreMove /\ PageTypes'
  BY <1>0, <1>5 DEF Member!check, Member!Ends, Member!Shows, TasksMove, TaskMove, StoreMove
<1>6. ASSUME NEW t \in Tasks, NEW i \in Invoices, Member!paySandbox(t, i)
      PROVE  TasksMove /\ StoreMove /\ PageTypes'
  <2>1. TaskMove(t) /\ PayMove(i)
    BY <1>6 DEF Member!paySandbox, Member!Starts, TaskMove, PayMove
  <2> QED BY <1>0, <1>6, <2>1 DEF Member!paySandbox, TasksMove, StoreMove
<1> QED BY <1>1, <1>2, <1>3, <1>4, <1>5, <1>6 DEF Member!Next

LEMMA TasksStaySound ==
  ASSUME tasks \in [Tasks -> TaskRows], VerifiesSession, TasksMove
  PROVE  tasks' \in [Tasks -> TaskRows] /\ VerifiesSession'
<1>1. ASSUME NEW t \in Tasks, TaskMove(t)
      PROVE  tasks' \in [Tasks -> TaskRows] /\ VerifiesSession'
  <2>1. /\ \A u \in Tasks : u # t => tasks'[u] = tasks[u]
        /\ tasks'[t] \in TaskRows /\ tasks' = [tasks EXCEPT ![t] = tasks'[t]]
        /\ tasks'[t].does = "verify" => tasks'[t].with \in Sessions \cup {None}
    <3>1. CASE \E does \in {"begin", "recover", "reveal", "pay", "check"},
                  with \in Sessions \cup Invoices \cup {None} :
                 tasks' = [tasks EXCEPT ![t] = [does |-> does, with |-> with]]
      BY <3>1 DEF TaskRows
    <3>2. CASE \E s \in Sessions : tasks' = [tasks EXCEPT ![t] = [does |-> "verify", with |-> s]]
      BY <3>2 DEF TaskRows
    <3>3. CASE tasks' = [tasks EXCEPT ![t].does = "check"]
      BY <3>3, TaskValues
    <3>4. CASE tasks' = [tasks EXCEPT ![t] = Member!Idle]
      BY <3>4, TaskValues
    <3> QED BY <1>1, <3>1, <3>2, <3>3, <3>4 DEF TaskMove
  <2> QED BY <2>1 DEF VerifiesSession
<1>2. CASE UNCHANGED tasks
  BY <1>2 DEF VerifiesSession
<1>3. CASE tasks' = [t \in Tasks |-> Member!Idle]
  BY <1>3, TaskValues DEF VerifiesSession
<1> QED BY <1>1, <1>2, <1>3 DEF TasksMove

LEMMA StoreStaysSound ==
  ASSUME Member!TypeOK, RequestsSound, StoreMove
  PROVE  /\ RequestsSound'
         /\ stored' \in [Invoices -> 0..MaxRequests] /\ created' \in 0..MaxRequests
         /\ sent' \in SUBSET (Invoices \X (1..MaxRequests))
<1>0. /\ stored \in [Invoices -> 0..MaxRequests] /\ created \in 0..MaxRequests
      /\ sent \in SUBSET (Invoices \X (1..MaxRequests))
      /\ \A i \in Invoices : stored[i] \in Nat
      /\ \A p \in sent : p[1] \in Invoices /\ p[2] \in 1..MaxRequests
  BY DEF Member!TypeOK
<1>1. CASE UNCHANGED <<stored, created, sent>>
  BY <1>0, <1>1 DEF RequestsSound
<1>2. ASSUME NEW i \in Invoices, PayMove(i)
      PROVE  /\ RequestsSound'
             /\ stored' \in [Invoices -> 0..MaxRequests] /\ created' \in 0..MaxRequests
             /\ sent' \in SUBSET (Invoices \X (1..MaxRequests))
  <2> DEFINE id == Member!sandboxRequestId(i)
  <2>1. /\ id \in 1..MaxRequests /\ created' \in 0..MaxRequests
        /\ id <= created' /\ created <= created'
        /\ stored[i] = id \/ (stored[i] = 0 /\ id = created + 1)
    BY <1>0, <1>2, WebPagesAssumption DEF PayMove, Member!sandboxRequestId, RequestsSound
  <2>2. /\ stored'[i] = id /\ stored' \in [Invoices -> 0..MaxRequests]
        /\ \A j \in Invoices : j # i => stored'[j] = stored[j]
        /\ sent' = sent \cup {<<i, id>>}
    BY <1>0, <1>2, <2>1 DEF PayMove
  <2> HIDE DEF id
  <2>3. \A j \in Invoices : stored'[j] <= created'
    BY <1>0, <2>1, <2>2 DEF RequestsSound
  <2>4. \A j, k \in Invoices : j # k /\ stored'[j] # 0 => stored'[j] # stored'[k]
    BY <1>0, <2>1, <2>2 DEF RequestsSound
  <2>5. ASSUME NEW p \in sent' PROVE p[2] = stored'[p[1]]
    <3>1. CASE p \in sent
      BY <1>0, <2>1, <2>2, <3>1 DEF RequestsSound
    <3>2. CASE p = <<i, id>>
      BY <2>2, <3>2
    <3> QED BY <2>2, <3>1, <3>2
  <2>6. sent' \in SUBSET (Invoices \X (1..MaxRequests))
    BY <1>0, <2>1, <2>2
  <2> QED BY <2>1, <2>2, <2>3, <2>4, <2>5, <2>6 DEF RequestsSound
<1> QED BY <1>1, <1>2 DEF StoreMove

LEMMA MemberSteps ==
  ASSUME MemberInv, Member!Next
  PROVE  MemberInv'
<1>1. TasksMove /\ StoreMove /\ PageTypes'
  BY MemberStepsMove DEF MemberInv
<1>2. tasks' \in [Tasks -> TaskRows] /\ VerifiesSession'
  <2>1. tasks \in [Tasks -> TaskRows]
    BY DEF MemberInv, Member!TypeOK, TaskRows
  <2> QED BY <1>1, <2>1, TasksStaySound DEF MemberInv
<1>3. /\ RequestsSound'
      /\ stored' \in [Invoices -> 0..MaxRequests] /\ created' \in 0..MaxRequests
      /\ sent' \in SUBSET (Invoices \X (1..MaxRequests))
  BY <1>1, StoreStaysSound DEF MemberInv
<1> QED BY <1>1, <1>2, <1>3 DEF MemberInv, Member!TypeOK, PageTypes, TaskRows

LEMMA MemberStarts ==
  Member!Init => MemberInv
<1> SUFFICES ASSUME Member!Init PROVE MemberInv
  OBVIOUS
<1>1. tasks \in [Tasks -> TaskRows] /\ VerifiesSession
  BY TaskValues DEF Member!Init, VerifiesSession
<1>2. 0 \in 0..MaxRequests /\ sent = {}
  BY WebPagesAssumption DEF Member!Init
<1>3. /\ stored \in [Invoices -> 0..MaxRequests] /\ created \in 0..MaxRequests
      /\ sent \in SUBSET (Invoices \X (1..MaxRequests))
  BY <1>2 DEF Member!Init
<1>4. RequestsSound
  BY <1>2 DEF Member!Init, RequestsSound
<1> QED BY <1>1, <1>3, <1>4 DEF Member!Init, MemberInv, Member!TypeOK, TaskRows

LEMMA MemberStutters ==
  ASSUME MemberInv, UNCHANGED memberVars
  PROVE  MemberInv'
BY DEF memberVars, MemberInv, Member!TypeOK, RequestsSound, VerifiesSession

LEMMA RequestsPayOneInvoice == MemberInv => InvoicePaidUnderOneRequest
<1> SUFFICES ASSUME MemberInv, NEW p \in sent, NEW q \in sent
             PROVE  p[1] = q[1] <=> p[2] = q[2]
  BY DEF MemberInv, InvoicePaidUnderOneRequest, Member!InvoicePaidUnderOneRequest
<1>1. /\ p[1] \in Invoices /\ q[1] \in Invoices /\ p[2] # 0
      /\ p[2] = stored[p[1]] /\ q[2] = stored[q[1]]
  BY DEF MemberInv, Member!TypeOK, RequestsSound
<1> QED BY <1>1 DEF MemberInv, RequestsSound

-----------------------------------------------------------------------------
(* The operator pages.  Where application access is not served there is no *)
(* session; a session is one credential's; what is shown is what there is  *)
(* when no sign-in is under way; and, as long as nothing overlapped, at    *)
(* most one sign-in is under way, it began from nothing, and how far it is *)
(* says whose the token, the employee session and the access are.          *)

Serves == config \in {"identityOnly", "open"}
NoSession ==
  /\ token = None /\ verifiedIdentity = None /\ expiryTimer = None /\ membership = None
  /\ ~memberAccessConfirmed /\ ~membershipRestricted
  /\ employeeSessionToken = None /\ operatorAccess = None /\ superUserAccess = None

Configured ==
  /\ modal.content \in {"signIn", "signedIn", "denied"} => Serves
  /\ modal.content = "preview" => config = "preview"
  /\ \A c \in Credentials : calls[c] # "new" => Serves
  /\ ~Serves => NoSession
  /\ config # "preview" => previewRole = "none" /\ ~previewTokens
  /\ ~production => /\ bridge.session = None
                    /\ \/ bridge.authorization = None
                       \/ previewTokens /\ bridge.authorization = previewRole

OneIdentity ==
  /\ verifiedIdentity = token /\ expiryTimer = token
  /\ membership # None => membership.of = token
  /\ memberAccessConfirmed => membership # None /\ membership.is = "active"
  /\ membershipRestricted => membership # None /\ membership.is \in {"due", "suspended"}

ShownSound ==
  Waiting = {} =>
    /\ shown.member = MemberLevel /\ shown.operator = OperatorLevel
    /\ shown.superUser = SuperUserLevel
    /\ shown.chip \in {ChipLabel, "pending", "notMember"}

(* How far the only sign-in is, and what there is of its session.          *)
Alone(c) ==
  /\ Waiting = {c}
  /\ calls[c] \in {"identity", "membership"} => ~Left /\ bridge = NoPair
  /\ calls[c] \in {"elevating", "discovering", "unelevated"} => token = c /\ operatorAccess = None
  /\ calls[c] \in {"elevating", "unelevated"} => employeeSessionToken = None

OneSignIn ==
  /\ IsFiniteSet(Waiting)
  /\ superUserAccess \in {None, operatorAccess}
  /\ production /\ Waiting = {} /\ ~Left => bridge = NoPair
  /\ production /\ ~overlapped =>
       /\ \A c \in Waiting : Alone(c)
       /\ employeeSessionToken \in {None, token} /\ operatorAccess \in {None, token}
       /\ bridge.authorization \in {None, token} /\ bridge.session \in {None, token}

OperatorInv == TypeOK /\ Configured /\ OneIdentity /\ ShownSound /\ OneSignIn

(* The types, but of what is shown and rendered.                           *)
BaseTypes ==
  /\ config \in {None, "preview"} \cup ProductionConfigs
  /\ token \in Holders /\ verifiedIdentity \in Holders
  /\ membership \in [of : Credentials, is : StatusAnswers] \cup {None}
  /\ memberAccessConfirmed \in BOOLEAN /\ membershipRestricted \in BOOLEAN
  /\ denialInfo \in {None, "pending", "notMember"}
  /\ employeeSessionToken \in Holders /\ operatorAccess \in Holders /\ superUserAccess \in Holders
  /\ previewRole \in PREVIEW_ROLES \cup {"none"} /\ previewTokens \in BOOLEAN
  /\ expiryTimer \in Holders
  /\ chipStatusOverride \in {None, "expired", "offline"}
  /\ calls \in [Credentials -> {"new", "asked", "done"} \cup InFlight]

ShownRows == [member : BOOLEAN, operator : BOOLEAN, superUser : BOOLEAN, chip : Labels]
ModalRows == [open : BOOLEAN, content : Content, role : PREVIEW_ROLES \cup {"none"}]
Pairs == [authorization : Holders \cup OPERATOR_TIER_ROLES, session : Holders]
Scripts == {"unloaded", "loading", "loaded", "failed"}
FaceTypes == modal \in ModalRows /\ shown \in ShownRows /\ bridge \in Pairs /\ googleScriptState \in Scripts

LEMMA TypeParts == TypeOK <=> BaseTypes /\ FaceTypes /\ overlapped \in BOOLEAN
BY DEF TypeOK, BaseTypes, FaceTypes, ShownRows, ModalRows, Pairs, Scripts

(* What the next state shows, renders and lends is of its type.            *)
LEMMA FacesHaveTypes ==
  ASSUME BaseTypes'
  PROVE  /\ ChipLabel' \in Labels /\ Showing' \in ShownRows
         /\ renderedContent' \in Content
         /\ OperatorPair' \in Pairs
         /\ [open |-> TRUE, content |-> renderedContent', role |-> previewRole'] \in ModalRows
<1>1. ChipLabel' \in Labels
  <2>1. currentRoleLabel' \in Labels
    BY DEF BaseTypes, currentRoleLabel, Labels
  <2> QED BY <2>1 DEF BaseTypes, ChipLabel, Labels
<1>2. Showing' \in ShownRows
  <2>1. MemberLevel' \in BOOLEAN /\ OperatorLevel' \in BOOLEAN /\ SuperUserLevel' \in BOOLEAN
    <3>1. CASE production'
      BY <3>1, Zenon DEF MemberLevel, OperatorLevel, SuperUserLevel
    <3>2. CASE ~production'
      BY <3>2, SMT DEF MemberLevel, OperatorLevel, SuperUserLevel
    <3> QED BY <3>1, <3>2
  <2> QED BY <1>1, <2>1 DEF Showing, ShownRows
<1>3. renderedContent' \in Content
  BY DEF BaseTypes, renderedContent, Content
<1>4. OperatorPair' \in Pairs
  <2>1. OperatorBearer' \in Holders \cup OPERATOR_TIER_ROLES
    BY DEF BaseTypes, OperatorBearer, Holders
  <2>2. (IF production THEN employeeSessionToken ELSE None)' \in Holders
    BY DEF BaseTypes, Holders
  <2> QED BY <2>1, <2>2 DEF OperatorPair, Pairs
<1>5. [open |-> TRUE, content |-> renderedContent', role |-> previewRole'] \in ModalRows
  BY <1>3 DEF BaseTypes, ModalRows
<1> QED BY <1>1, <1>2, <1>3, <1>4, <1>5

LEMMA EmissionsHaveTypes ==
  ASSUME BaseTypes', FaceTypes, emitAuthState
  PROVE  shown' \in ShownRows /\ bridge' \in Pairs
<1>1. NoPair \in Pairs /\ Observed(OperatorPair') \in Pairs
  BY FacesHaveTypes DEF NoPair, Pairs, Holders, Observed, FaceTypes
<1> QED BY <1>1, FacesHaveTypes DEF emitAuthState

LEMMA RenderingsHaveTypes ==
  ASSUME BaseTypes', FaceTypes
  PROVE  /\ renderModalContent => modal' \in ModalRows /\ googleScriptState' \in Scripts
         /\ closeModal => modal' \in ModalRows
<1>1. renderModalContent => modal' \in ModalRows /\ googleScriptState' \in Scripts
  BY FacesHaveTypes DEF renderModalContent, FaceTypes, Scripts
<1>2. closeModal => modal' \in ModalRows
  BY DEF closeModal, FaceTypes, ModalRows
<1> QED BY <1>1, <1>2

LEMMA StepsHaveTypes ==
  ASSUME BaseTypes, FaceTypes, Step
  PROVE  BaseTypes' /\ FaceTypes'
<1> USE DEF access, preview, keepsSession
<1>1. CASE OpenModal \/ TryDifferentAccount \/ RetryScript
  <2>1. BaseTypes' /\ UNCHANGED <<shown, bridge>> /\ renderModalContent
    BY <1>1 DEF OpenModal, TryDifferentAccount, RetryScript, BaseTypes
  <2> QED BY <2>1, RenderingsHaveTypes DEF FaceTypes
<1>2. CASE DismissModal
  <2>1. BaseTypes' /\ UNCHANGED <<shown, bridge, googleScriptState>> /\ closeModal
    BY <1>2 DEF DismissModal, BaseTypes
  <2> QED BY <2>1, RenderingsHaveTypes DEF FaceTypes
<1>3. CASE ScriptSettles
  BY <1>3 DEF ScriptSettles, BaseTypes, FaceTypes, Scripts
<1>4. CASE ConfigFails
  <2>1. BaseTypes' /\ UNCHANGED <<modal, bridge, googleScriptState>>
    BY <1>4 DEF ConfigFails, BaseTypes
  <2>2. shown' \in ShownRows
    BY <1>4, <2>1, FacesHaveTypes DEF ConfigFails, FaceTypes, ShownRows
  <2> QED BY <2>1, <2>2 DEF FaceTypes
<1>5. CASE ConfigArrives \/ PreviewSessionLoads \/ Expire
  <2>1. BaseTypes' /\ UNCHANGED <<modal, googleScriptState>> /\ emitAuthState
    <3>1. CASE ConfigArrives
      BY <3>1 DEF ConfigArrives, BaseTypes
    <3>2. CASE PreviewSessionLoads
      BY <3>2 DEF PreviewSessionLoads, BaseTypes, Holders
    <3>3. CASE Expire
      BY <3>3 DEF Expire, clearsSession, BaseTypes, Holders
    <3> QED BY <1>5, <3>1, <3>2, <3>3
  <2> QED BY <2>1, EmissionsHaveTypes DEF FaceTypes
<1>6. ASSUME NEW role \in PREVIEW_ROLES \cup {"none"}, setPreviewRole(role)
      PROVE  BaseTypes' /\ FaceTypes'
  <2>1. BaseTypes' /\ UNCHANGED googleScriptState /\ emitAuthState /\ closeModal
    BY <1>6 DEF setPreviewRole, BaseTypes
  <2> QED BY <2>1, EmissionsHaveTypes, RenderingsHaveTypes DEF FaceTypes
<1>7. CASE SignOut
  <2>1. BaseTypes' /\ UNCHANGED googleScriptState /\ emitAuthState /\ closeModal
    BY <1>7 DEF SignOut, clearsSession, BaseTypes, Holders
  <2> QED BY <2>1, EmissionsHaveTypes, RenderingsHaveTypes DEF FaceTypes
<1>8. CASE PageReadsOperatorOrders
  <2>1. BaseTypes' /\ UNCHANGED <<modal, googleScriptState, shown>> /\ OperatorPair' = OperatorPair
    BY <1>8 DEF PageReadsOperatorOrders, BaseTypes, OperatorPair, OperatorBearer, production
  <2>2. bridge' \in Pairs
    BY <1>8, <2>1, FacesHaveTypes DEF PageReadsOperatorOrders, FaceTypes, Observed
  <2> QED BY <2>1, <2>2 DEF FaceTypes
<1>9. ASSUME NEW c \in Credentials,
             AskGoogle(c) \/ CredentialRefused(c) \/ CredentialArrives(c) \/ IdentityVerified(c)
      PROVE  BaseTypes' /\ FaceTypes'
  <2>1. BaseTypes' /\ UNCHANGED <<modal, googleScriptState, shown, bridge>>
    BY <1>9 DEF AskGoogle, CredentialRefused, CredentialArrives, IdentityVerified, Goes,
       BaseTypes, InFlight
  <2> QED BY <2>1 DEF FaceTypes
<1>10. ASSUME NEW c \in Credentials, IdentityRefused(c)
       PROVE  BaseTypes' /\ FaceTypes'
  <2>1. BaseTypes' /\ UNCHANGED <<modal, googleScriptState>> /\ emitAuthState
    BY <1>10 DEF IdentityRefused, clearsSession, Goes, BaseTypes, Holders
  <2> QED BY <2>1, EmissionsHaveTypes DEF FaceTypes
<1>11. ASSUME NEW c \in Credentials, IdentityAlone(c)
       PROVE  BaseTypes' /\ FaceTypes'
  <2>1. BaseTypes' /\ UNCHANGED googleScriptState /\ emitAuthState /\ closeModal
    BY <1>11 DEF IdentityAlone, Goes, BaseTypes, Holders
  <2> QED BY <2>1, EmissionsHaveTypes, RenderingsHaveTypes DEF FaceTypes
<1>12. ASSUME NEW c \in Credentials, NEW answer \in StatusAnswers, MembershipAnswered(c, answer)
       PROVE  BaseTypes' /\ FaceTypes'
  <2>1. /\ membership' \in [of : Credentials, is : StatusAnswers] \cup {None}
        /\ memberAccessConfirmed' \in BOOLEAN /\ membershipRestricted' \in BOOLEAN
        /\ denialInfo' \in {None, "pending", "notMember"}
    BY <1>12 DEF MembershipAnswered
  <2>2. BaseTypes' /\ UNCHANGED <<modal, googleScriptState, shown, bridge>>
    BY <1>12, <2>1 DEF MembershipAnswered, Goes, BaseTypes, Holders, InFlight
  <2> QED BY <2>2 DEF FaceTypes
<1>13. ASSUME NEW c \in Credentials, NEW issued \in {FALSE, MayElevate}, SessionAnswered(c, issued)
       PROVE  BaseTypes' /\ FaceTypes'
  <2>1. BaseTypes' /\ UNCHANGED <<modal, googleScriptState, shown>>
    BY <1>13 DEF SessionAnswered, Goes, BaseTypes, Holders, InFlight
  <2>2. [authorization |-> c, session |-> c] \in Pairs
    BY DEF Pairs, Holders
  <2>3. bridge' \in Pairs
    BY <1>13, <2>2 DEF SessionAnswered, Observed, FaceTypes
  <2> QED BY <2>1, <2>3 DEF FaceTypes
<1>14. ASSUME NEW c \in Credentials, NEW granted \in {"none", "operator", "superUser"},
              OperatorAnswered(c, granted)
       PROVE  BaseTypes' /\ FaceTypes'
  <2>1. BaseTypes' /\ UNCHANGED googleScriptState /\ emitAuthState /\ closeModal
    BY <1>14 DEF OperatorAnswered, Goes, BaseTypes, Holders
  <2> QED BY <2>1, EmissionsHaveTypes, RenderingsHaveTypes DEF FaceTypes
<1> QED BY <1>1, <1>2, <1>3, <1>4, <1>5, <1>6, <1>7, <1>8, <1>9, <1>10, <1>11, <1>12, <1>13, <1>14
        DEF Step

LEMMA IdentitiesStayOne ==
  ASSUME BaseTypes, OneIdentity, Step
  PROVE  OneIdentity'
<1> USE DEF access
<1>1. CASE UNCHANGED <<token, verifiedIdentity, expiryTimer, membership, memberAccessConfirmed,
                       membershipRestricted>>
  BY <1>1 DEF OneIdentity
<1>2. CASE clearsSession
  BY <1>2 DEF clearsSession, OneIdentity
<1>3. ASSUME NEW c \in Credentials, IdentityAlone(c)
      PROVE  OneIdentity'
  BY <1>3 DEF IdentityAlone, OneIdentity
<1>4. ASSUME NEW c \in Credentials, NEW answer \in StatusAnswers, MembershipAnswered(c, answer)
      PROVE  OneIdentity'
  <2>1. membership' # None
    BY <1>4, WebPagesAssumption DEF MembershipAnswered
  <2> QED BY <1>4, <2>1 DEF MembershipAnswered, OneIdentity
<1> QED BY <1>1, <1>2, <1>3, <1>4
        DEF Step, keepsSession, ConfigArrives, ConfigFails, PreviewSessionLoads, setPreviewRole,
            OpenModal, DismissModal, TryDifferentAccount, ScriptSettles, RetryScript, SignOut,
            Expire, PageReadsOperatorOrders, AskGoogle, CredentialRefused, CredentialArrives,
            IdentityRefused, IdentityVerified, SessionAnswered, OperatorAnswered

LEMMA Environments ==
  /\ production <=> config \in {"unconfigured", "identityOnly", "open"}
  /\ Serves => production /\ config # "preview" /\ config # "unconfigured"
BY DEF production, ProductionConfigs, Serves

(* The content that is rendered tells the configuration.                   *)
LEMMA ContentTellsConfig ==
  ASSUME FaceTypes, Configured, BaseTypes', UNCHANGED config,
         renderModalContent \/ UNCHANGED modal \/ closeModal
  PROVE  /\ modal'.content \in {"signIn", "signedIn", "denied"} => Serves
         /\ modal'.content = "preview" => config = "preview"
<1>1. CASE renderModalContent
  <2>1. modal'.content = renderedContent'
    BY <1>1 DEF renderModalContent
  <2> QED BY <2>1 DEF renderedContent, BaseTypes, ProductionConfigs, Serves
<1>2. CASE UNCHANGED modal \/ closeModal
  <2>1. modal'.content = modal.content
    BY <1>2 DEF closeModal, FaceTypes, ModalRows
  <2> QED BY <2>1 DEF Configured
<1> QED BY <1>1, <1>2

(* What the extension keeps in Preview is the pair of the role that is     *)
(* picked now.                                                             *)
LEMMA PreviewLends ==
  ASSUME ~production', bridge.session = None,
         bridge.authorization = None \/ previewTokens', emitAuthState
  PROVE  /\ bridge'.session = None
         /\ \/ bridge'.authorization = None
            \/ previewTokens' /\ bridge'.authorization = previewRole'
<1>1. CASE OperatorLevel'
  <2>1. OperatorPair' = [authorization |-> IF previewTokens' THEN previewRole' ELSE None,
                         session |-> None]
    BY <1>1 DEF OperatorPair, OperatorBearer, OperatorLevel
  <2>2. bridge' = Observed(OperatorPair') /\ previewRole' # None
    BY <1>1, WebPagesAssumption DEF emitAuthState, OperatorLevel
  <2> QED BY <2>1, <2>2 DEF Observed
<1>2. CASE ~OperatorLevel'
  BY <1>2 DEF emitAuthState, NoPair
<1> QED BY <1>1, <1>2

LEMMA StaysConfigured ==
  ASSUME TypeOK, Configured, Step, BaseTypes'
  PROVE  Configured'
<1> USE DEF access, preview, keepsSession
<1>0. BaseTypes /\ FaceTypes
  BY TypeParts
<1>1. CASE OpenModal \/ DismissModal \/ TryDifferentAccount \/ ScriptSettles \/ RetryScript
  <2>1. /\ UNCHANGED <<config, calls, token, verifiedIdentity, expiryTimer, membership,
                       memberAccessConfirmed, membershipRestricted, employeeSessionToken,
                       operatorAccess, superUserAccess, previewRole, previewTokens, bridge>>
        /\ renderModalContent \/ UNCHANGED modal \/ closeModal
    BY <1>1 DEF OpenModal, DismissModal, TryDifferentAccount, ScriptSettles, RetryScript
  <2>2. /\ modal'.content \in {"signIn", "signedIn", "denied"} => Serves
        /\ modal'.content = "preview" => config = "preview"
    BY <1>0, <2>1, ContentTellsConfig
  <2> QED BY <2>1, <2>2 DEF Configured, Serves, NoSession, production
<1>2. CASE ConfigFails
  BY <1>2 DEF ConfigFails, Configured, Serves, NoSession, production
<1>3. CASE ConfigArrives
  <2>1. ~Serves /\ ~production /\ config # "preview"
    BY <1>3, WebPagesAssumption DEF ConfigArrives, Serves, production, ProductionConfigs
  <2>2. /\ UNCHANGED <<calls, token, verifiedIdentity, expiryTimer, membership,
                       memberAccessConfirmed, membershipRestricted, employeeSessionToken,
                       operatorAccess, superUserAccess, previewRole, previewTokens, modal>>
        /\ NoSession /\ bridge.session = None /\ bridge.authorization = None
        /\ modal.content \notin {"signIn", "signedIn", "denied", "preview"}
        /\ previewRole = "none" /\ ~previewTokens /\ emitAuthState
        /\ \A c \in Credentials : calls[c] = "new"
    BY <1>3, <2>1 DEF ConfigArrives, Configured
  <2>3. ~production' => /\ bridge'.session = None
                        /\ \/ bridge'.authorization = None
                           \/ previewTokens' /\ bridge'.authorization = previewRole'
    BY <2>2, PreviewLends
  <2> QED BY <2>2, <2>3 DEF Configured, Serves, NoSession
<1>4. CASE PreviewSessionLoads
  <2>1. /\ UNCHANGED <<config, calls, token, verifiedIdentity, expiryTimer, membership,
                       memberAccessConfirmed, membershipRestricted, employeeSessionToken,
                       operatorAccess, superUserAccess, previewRole, modal>>
        /\ config = "preview" /\ previewTokens' /\ emitAuthState
        /\ ~production /\ ~production'
    BY <1>4, Environments DEF PreviewSessionLoads, production
  <2> QED BY <2>1, PreviewLends DEF Configured, Serves, NoSession
<1>5. ASSUME NEW role \in PREVIEW_ROLES \cup {"none"}, setPreviewRole(role)
      PROVE  Configured'
  <2>1. /\ UNCHANGED <<config, calls, token, verifiedIdentity, expiryTimer, membership,
                       memberAccessConfirmed, membershipRestricted, employeeSessionToken,
                       operatorAccess, superUserAccess, previewTokens>>
        /\ modal.content = "preview" /\ closeModal /\ emitAuthState
    BY <1>5 DEF setPreviewRole
  <2>2. config = "preview" /\ ~production /\ ~production'
    BY <2>1, Environments DEF Configured, production
  <2>3. modal'.content = "preview"
    BY <1>0, <2>1 DEF closeModal, FaceTypes, ModalRows
  <2> QED BY <2>1, <2>2, <2>3, PreviewLends DEF Configured, Serves, NoSession
<1>6. CASE SignOut \/ Expire
  <2>1. UNCHANGED <<config, calls, previewRole, previewTokens>> /\ NoSession' /\ emitAuthState
    BY <1>6 DEF SignOut, Expire, clearsSession, NoSession
  <2>2. UNCHANGED modal \/ closeModal
    BY <1>6 DEF SignOut, Expire
  <2>3. /\ modal'.content \in {"signIn", "signedIn", "denied"} => Serves
        /\ modal'.content = "preview" => config = "preview"
    BY <1>0, <2>1, <2>2, ContentTellsConfig
  <2>4. ~production' => /\ bridge'.session = None
                        /\ \/ bridge'.authorization = None
                           \/ previewTokens' /\ bridge'.authorization = previewRole'
    BY <2>1, PreviewLends DEF Configured, production
  <2> QED BY <2>1, <2>3, <2>4 DEF Configured, Serves, production
<1>7. CASE PageReadsOperatorOrders
  <2>1. /\ UNCHANGED <<config, calls, token, verifiedIdentity, expiryTimer, membership,
                       memberAccessConfirmed, membershipRestricted, employeeSessionToken,
                       operatorAccess, superUserAccess, previewRole, previewTokens, modal>>
        /\ bridge' = Observed(OperatorPair)
    BY <1>7 DEF PageReadsOperatorOrders
  <2>2. ~production => \/ bridge' = bridge
                       \/ previewTokens /\ bridge' = [authorization |-> previewRole, session |-> None]
    BY <2>1 DEF Observed, OperatorPair, OperatorBearer
  <2> QED BY <2>1, <2>2 DEF Configured, Serves, NoSession, production
<1>8. ASSUME NEW c \in Credentials, AskGoogle(c)
      PROVE  Configured'
  <2>1. /\ UNCHANGED <<config, token, verifiedIdentity, expiryTimer, membership,
                       memberAccessConfirmed, membershipRestricted, employeeSessionToken,
                       operatorAccess, superUserAccess, previewRole, previewTokens, modal, bridge>>
        /\ Serves
    BY <1>8 DEF AskGoogle, Configured
  <2> QED BY <2>1, Environments DEF Configured, Serves, NoSession, production
<1>9. ASSUME NEW c \in Credentials,
             \/ CredentialRefused(c) \/ CredentialArrives(c) \/ IdentityVerified(c)
             \/ IdentityRefused(c) \/ IdentityAlone(c)
             \/ \E answer \in StatusAnswers : MembershipAnswered(c, answer)
             \/ \E issued \in {FALSE, MayElevate} : SessionAnswered(c, issued)
             \/ \E granted \in {"none", "operator", "superUser"} : OperatorAnswered(c, granted)
      PROVE  Configured'
  <2>1. calls[c] # "new" /\ UNCHANGED <<config, previewRole, previewTokens>>
    BY <1>9 DEF CredentialRefused, CredentialArrives, IdentityVerified, IdentityRefused,
       IdentityAlone, MembershipAnswered, SessionAnswered, OperatorAnswered, Goes
  <2>2. UNCHANGED modal \/ closeModal
    BY <1>9 DEF CredentialRefused, CredentialArrives, IdentityVerified, IdentityRefused,
       IdentityAlone, MembershipAnswered, SessionAnswered, OperatorAnswered
  <2>3. /\ modal'.content \in {"signIn", "signedIn", "denied"} => Serves
        /\ modal'.content = "preview" => config = "preview"
    BY <1>0, <2>1, <2>2, ContentTellsConfig
  <2>4. Serves /\ Serves' /\ production'
    BY <2>1, Environments DEF Configured, Serves, production
  <2> QED BY <2>1, <2>3, <2>4 DEF Configured
<1> QED BY <1>1, <1>2, <1>3, <1>4, <1>5, <1>6, <1>7, <1>8, <1>9 DEF Step

(* A sign-in that goes on from one await to the next.                      *)
LEMMA WaitingMoves ==
  ASSUME BaseTypes, NEW c \in Credentials, NEW from,
         NEW to \in {"new", "asked", "done"} \cup InFlight, Goes(c, from, to)
  PROVE  /\ to \in InFlight => Waiting' = Waiting \cup {c}
         /\ to \notin InFlight => Waiting' = Waiting \ {c}
         /\ c \in Waiting <=> from \in InFlight
         /\ calls'[c] = to /\ calls[c] = from
         /\ \A e \in Credentials : e # c => calls'[e] = calls[e]
<1>1. /\ calls'[c] = to /\ calls[c] = from
      /\ \A e \in Credentials : e # c => calls'[e] = calls[e]
  BY DEF Goes, BaseTypes
<1> QED BY <1>1 DEF Waiting

(* What is emitted is shown, and an emission without operator access       *)
(* leaves the extension with nothing.                                      *)
LEMMA EmissionsShow ==
  ASSUME emitAuthState
  PROVE  ShownSound' /\ (~OperatorLevel' => bridge' = NoPair)
BY DEF emitAuthState, ShownSound, Showing

LEMMA ShownStaysSound ==
  ASSUME BaseTypes, FaceTypes, ShownSound, Step
  PROVE  ShownSound'
<1> USE DEF access, preview, keepsSession
<1>1. CASE OpenModal \/ DismissModal \/ ScriptSettles \/ RetryScript \/ PageReadsOperatorOrders
  <2>1. UNCHANGED <<config, token, verifiedIdentity, access, denialInfo, preview,
                    chipStatusOverride, shown, calls>>
    BY <1>1 DEF OpenModal, DismissModal, ScriptSettles, RetryScript, PageReadsOperatorOrders
  <2> QED BY <2>1 DEF ShownSound, Waiting, MemberLevel, OperatorLevel, SuperUserLevel, ChipLabel,
                      currentRoleLabel, production
<1>2. CASE TryDifferentAccount
  <2>1. /\ UNCHANGED <<config, token, verifiedIdentity, access, preview,
                       chipStatusOverride, shown, calls>>
        /\ denialInfo' = None
    BY <1>2 DEF TryDifferentAccount
  <2>2. UNCHANGED <<MemberLevel, OperatorLevel, SuperUserLevel, currentRoleLabel, Waiting>>
    BY <2>1 DEF Waiting, MemberLevel, OperatorLevel, SuperUserLevel, currentRoleLabel, production
  <2>3. ChipLabel' = ChipLabel \/ ChipLabel \in {"pending", "notMember"}
    BY <2>1, <2>2 DEF ChipLabel, BaseTypes
  <2> QED BY <2>1, <2>2, <2>3 DEF ShownSound
<1>3. CASE ConfigFails
  <2>1. /\ UNCHANGED <<config, token, verifiedIdentity, access, preview, calls>>
        /\ shown' = [shown EXCEPT !.chip = ChipLabel']
    BY <1>3 DEF ConfigFails
  <2>2. UNCHANGED <<MemberLevel, OperatorLevel, SuperUserLevel, Waiting>>
    BY <2>1 DEF Waiting, MemberLevel, OperatorLevel, SuperUserLevel, production
  <2>3. /\ shown'.member = shown.member /\ shown'.operator = shown.operator
        /\ shown'.superUser = shown.superUser /\ shown'.chip = ChipLabel'
    BY <2>1 DEF FaceTypes, ShownRows
  <2> QED BY <2>2, <2>3 DEF ShownSound
<1>4. CASE ConfigArrives \/ PreviewSessionLoads \/ SignOut \/ Expire
           \/ \E role \in PREVIEW_ROLES \cup {"none"} : setPreviewRole(role)
  BY <1>4, EmissionsShow DEF ConfigArrives, PreviewSessionLoads, SignOut, Expire, setPreviewRole
<1>5. ASSUME NEW c \in Credentials, AskGoogle(c) \/ CredentialRefused(c)
      PROVE  ShownSound'
  <2>1. UNCHANGED <<config, token, verifiedIdentity, access, denialInfo, preview,
                    chipStatusOverride, shown>>
    BY <1>5 DEF AskGoogle, CredentialRefused
  <2>2. Waiting' = Waiting
    <3>1. Goes(c, "new", "asked") \/ Goes(c, "asked", "done")
      BY <1>5 DEF AskGoogle, CredentialRefused, Goes
    <3> QED BY <3>1, WaitingMoves DEF InFlight
  <2> QED BY <2>1, <2>2 DEF ShownSound, MemberLevel, OperatorLevel, SuperUserLevel, ChipLabel,
                            currentRoleLabel, production
<1>6. ASSUME NEW c \in Credentials,
             \/ CredentialArrives(c) \/ IdentityVerified(c)
             \/ \E answer \in StatusAnswers : MembershipAnswered(c, answer)
             \/ \E issued \in {FALSE, MayElevate} : SessionAnswered(c, issued)
      PROVE  ShownSound'
  <2>1. PICK from \in {"asked"} \cup InFlight, to \in InFlight : Goes(c, from, to)
    BY <1>6 DEF CredentialArrives, IdentityVerified, MembershipAnswered, SessionAnswered, InFlight
  <2>2. Waiting' # {}
    BY <2>1, WaitingMoves
  <2> QED BY <2>2 DEF ShownSound
<1>7. ASSUME NEW c \in Credentials,
             \/ IdentityRefused(c) \/ IdentityAlone(c)
             \/ \E granted \in {"none", "operator", "superUser"} : OperatorAnswered(c, granted)
      PROVE  ShownSound'
  BY <1>7, EmissionsShow DEF IdentityRefused, IdentityAlone, OperatorAnswered
<1> QED BY <1>1, <1>2, <1>3, <1>4, <1>5, <1>6, <1>7 DEF Step

-----------------------------------------------------------------------------
(* OneSignIn, action by action.                                            *)

(* What the history variable leaves of the rest to be shown.               *)
Afresh == Waiting' = {} /\ ~Left'
Lonely ==
  /\ \A c \in Waiting' : Alone(c)'
  /\ employeeSessionToken' \in {None, token'} /\ operatorAccess' \in {None, token'}
  /\ bridge'.authorization \in {None, token'} /\ bridge'.session \in {None, token'}

Parts ==
  /\ IsFiniteSet(Waiting') /\ superUserAccess' \in {None, operatorAccess'}
  /\ production' /\ Afresh => bridge' = NoPair
  /\ production' /\ ~overlapped /\ ~Overlapping => Lonely

LEMMA PartsAreEnough ==
  ASSUME Parts, overlapped' = (Overlapping \/ (overlapped /\ (Waiting' # {} \/ Left')))
  PROVE  OneSignIn'
<1>1. production' /\ Afresh => Lonely
  BY DEF Parts, Afresh, Lonely, Left, NoPair
<1>2. production' /\ ~overlapped' => Lonely
  BY <1>1 DEF Parts, Afresh
<1> QED BY <1>2 DEF Parts, OneSignIn, Lonely, Afresh

LEMMA QuietSteps ==
  ASSUME OneSignIn, Waiting' = Waiting,
         UNCHANGED <<config, token, employeeSessionToken, operatorAccess, superUserAccess, bridge>>,
         \A c \in Waiting : calls'[c] = calls[c]
  PROVE  Parts
BY DEF Parts, Afresh, Lonely, OneSignIn, Alone, Left, production

(* In production an emission lends the pair of the session.                *)
LEMMA EmissionsLend ==
  ASSUME emitAuthState, production'
  PROVE  /\ operatorAccess' = None => bridge' = NoPair
         /\ operatorAccess' # None =>
              bridge' = Observed([authorization |-> token', session |-> employeeSessionToken'])
BY DEF emitAuthState, OperatorLevel, OperatorPair, OperatorBearer

(* Where the sign-ins stay where they are.                                 *)
LEMMA PageStepsStayApart ==
  ASSUME TypeOK, Configured, OneIdentity, OneSignIn,
         \/ ConfigArrives \/ PreviewSessionLoads
         \/ \E role \in PREVIEW_ROLES \cup {"none"} : setPreviewRole(role)
         \/ SignOut \/ Expire \/ PageReadsOperatorOrders
  PROVE  Parts
<1> USE DEF access, preview
<1>0. UNCHANGED <<calls, Waiting>>
  BY DEF ConfigArrives, PreviewSessionLoads, setPreviewRole, SignOut, Expire,
         PageReadsOperatorOrders, Waiting
<1>1. CASE ConfigArrives
  <2>1. /\ NoSession /\ emitAuthState
        /\ UNCHANGED <<token, employeeSessionToken, operatorAccess, superUserAccess>>
        /\ Waiting = {}
    BY <1>1, WebPagesAssumption
       DEF ConfigArrives, Configured, Serves, ProductionConfigs, Waiting, InFlight
  <2>2. production' => bridge' = NoPair
    BY <2>1, EmissionsLend DEF NoSession
  <2> QED BY <1>0, <2>1, <2>2 DEF NoSession, NoPair, Parts, Lonely, OneSignIn
<1>2. CASE PreviewSessionLoads \/ \E role \in PREVIEW_ROLES \cup {"none"} : setPreviewRole(role)
  <2>1. config = "preview" /\ UNCHANGED <<config, operatorAccess, superUserAccess>>
    BY <1>2 DEF PreviewSessionLoads, setPreviewRole, Configured
  <2>2. ~production'
    BY <2>1 DEF production, ProductionConfigs
  <2> QED BY <1>0, <2>1, <2>2 DEF Parts, OneSignIn
<1>3. CASE SignOut \/ Expire
  <2>1. /\ token' = None /\ employeeSessionToken' = None /\ operatorAccess' = None
        /\ superUserAccess' = None /\ emitAuthState /\ UNCHANGED config
    BY <1>3 DEF SignOut, Expire, clearsSession
  <2>2. production' => bridge' = NoPair
    BY <2>1, EmissionsLend
  <2>3. ASSUME production', ~overlapped, ~Overlapping
        PROVE  Lonely
    <3>1. token = None \/ Waiting = {}
      BY <2>1, <2>3 DEF Overlapping
    <3>2. \A c \in Waiting : Alone(c) /\ c # None
      BY <2>1, <2>3, WebSessionAssumption DEF OneSignIn, production, Waiting
    <3>3. \A c \in Waiting : /\ Waiting = {c}
                             /\ calls[c] \notin {"elevating", "discovering", "unelevated"}
      BY <3>1, <3>2 DEF Alone
    <3>4. \A c \in Waiting' : Alone(c)'
      BY <1>0, <2>1, <2>2, <2>3, <3>3 DEF Alone, Left
    <3> QED BY <2>1, <2>2, <2>3, <3>4 DEF Lonely, NoPair
  <2> QED BY <1>0, <2>1, <2>2, <2>3 DEF Parts, OneSignIn
<1>4. CASE PageReadsOperatorOrders
  <2>1. UNCHANGED <<config, token, employeeSessionToken, operatorAccess, superUserAccess>>
    BY <1>4 DEF PageReadsOperatorOrders
  <2>2. production => bridge' = IF token # None
                                THEN [authorization |-> token, session |-> employeeSessionToken]
                                ELSE bridge
    BY <1>4 DEF PageReadsOperatorOrders, Observed, OperatorPair, OperatorBearer
  <2>3. UNCHANGED <<Left, production>>
    BY <2>1 DEF Left, production
  <2>4. production' /\ Afresh => bridge' = NoPair
    BY <1>0, <2>2, <2>3 DEF OneSignIn, Afresh, Left
  <2>5. ASSUME production', ~overlapped
        PROVE  Lonely
    <3>1. \A c \in Waiting' : Alone(c)'
      BY <1>0, <2>1, <2>2, <2>3, <2>5 DEF OneSignIn, Alone, Left
    <3> QED BY <2>1, <2>2, <2>3, <2>5, <3>1 DEF Lonely, OneSignIn
  <2> QED BY <1>0, <2>1, <2>4, <2>5 DEF Parts, OneSignIn
<1> QED BY <1>1, <1>2, <1>3, <1>4

(* Where a sign-in goes on.                                                *)
LEMMA SignInStepsStayApart ==
  ASSUME TypeOK, Configured, OneSignIn, NEW c \in Credentials,
         \/ CredentialArrives(c)
         \/ IdentityRefused(c) \/ IdentityAlone(c) \/ IdentityVerified(c)
         \/ \E answer \in StatusAnswers : MembershipAnswered(c, answer)
         \/ \E issued \in {FALSE, MayElevate} : SessionAnswered(c, issued)
         \/ \E granted \in {"none", "operator", "superUser"} : OperatorAnswered(c, granted)
  PROVE  Parts
<1> USE DEF access, preview, keepsSession
<1>0. /\ BaseTypes /\ c # None /\ production /\ production'
      /\ IsFiniteSet(Waiting) /\ superUserAccess \in {None, operatorAccess}
  <2>1. calls[c] # "new" /\ UNCHANGED config
    BY DEF CredentialArrives, IdentityVerified, IdentityRefused,
       IdentityAlone, MembershipAnswered, SessionAnswered, OperatorAnswered, Goes
  <2> QED BY <2>1, TypeParts, WebSessionAssumption, Environments
          DEF Configured, Serves, OneSignIn, production
<1>1. /\ "done" \in {"new", "asked", "done"} \cup InFlight /\ "done" \notin InFlight
      /\ InFlight \subseteq {"new", "asked", "done"} \cup InFlight
      /\ "asked" \notin InFlight
  BY DEF InFlight
<1>2. CASE CredentialArrives(c)
  <2>1. /\ UNCHANGED <<token, employeeSessionToken, operatorAccess, superUserAccess, bridge>>
        /\ Goes(c, "asked", "identity")
    BY <1>2 DEF CredentialArrives
  <2>2. /\ Waiting' = Waiting \cup {c} /\ c \notin Waiting /\ calls'[c] = "identity"
        /\ \A e \in Credentials : e # c => calls'[e] = calls[e]
    BY <1>0, <1>1, <2>1, WaitingMoves DEF InFlight
  <2>3. IsFiniteSet(Waiting') /\ Cardinality(Waiting') > Cardinality(Waiting)
    <3>1. IsFiniteSet(Waiting') /\ Cardinality(Waiting') = Cardinality(Waiting) + 1
      BY <1>0, <2>2, FS_AddElement
    <3>2. Cardinality(Waiting) \in Nat
      BY <1>0, FS_CardinalityType
    <3> QED BY <3>1, <3>2
  <2>4. ASSUME ~overlapped, ~Overlapping
        PROVE  Lonely
    <3>1. Waiting = {} /\ ~Left
      BY <2>3, <2>4 DEF Overlapping
    <3>2. bridge = NoPair
      BY <1>0, <3>1 DEF OneSignIn
    <3> QED BY <2>1, <2>2, <3>1, <3>2 DEF Lonely, Alone, Left, NoPair
  <2> QED BY <1>0, <2>1, <2>2, <2>3, <2>4 DEF Parts, Afresh
<1>3. CASE IdentityRefused(c) \/ IdentityAlone(c)
  <2>1. /\ Goes(c, "identity", "done") /\ emitAuthState
        /\ token' \in {None, c} /\ employeeSessionToken' = None
        /\ operatorAccess' = None /\ superUserAccess' = None
    BY <1>3 DEF IdentityRefused, IdentityAlone, clearsSession
  <2>2. bridge' = NoPair
    BY <1>0, <2>1, EmissionsLend
  <2>3. Waiting' = Waiting \ {c} /\ c \in Waiting
    BY <1>0, <1>1, <2>1, WaitingMoves DEF InFlight
  <2>4. IsFiniteSet(Waiting')
    BY <1>0, <2>3, FS_RemoveElement
  <2>5. ~overlapped => Waiting' = {}
    BY <1>0, <2>3 DEF OneSignIn, Alone
  <2> QED BY <2>1, <2>2, <2>4, <2>5 DEF Parts, Lonely, NoPair
<1>4. CASE IdentityVerified(c)
  <2>1. /\ UNCHANGED <<token, employeeSessionToken, operatorAccess, superUserAccess, bridge>>
        /\ Goes(c, "identity", "membership")
    BY <1>4 DEF IdentityVerified
  <2>2. /\ Waiting' = Waiting /\ c \in Waiting /\ calls[c] = "identity" /\ calls'[c] = "membership"
        /\ \A e \in Credentials : e # c => calls'[e] = calls[e]
    BY <1>0, <1>1, <2>1, WaitingMoves DEF InFlight
  <2>3. ~overlapped => Lonely
    BY <1>0, <2>1, <2>2 DEF OneSignIn, Lonely, Alone, Left
  <2> QED BY <1>0, <2>1, <2>2, <2>3 DEF Parts, Afresh
<1>5. ASSUME NEW answer \in StatusAnswers, MembershipAnswered(c, answer)
      PROVE  Parts
  <2>1. /\ UNCHANGED <<employeeSessionToken, operatorAccess, superUserAccess, bridge>>
        /\ Goes(c, "membership", "elevating") /\ token' = c
    BY <1>5 DEF MembershipAnswered
  <2>2. /\ Waiting' = Waiting /\ c \in Waiting /\ calls[c] = "membership" /\ calls'[c] = "elevating"
        /\ \A e \in Credentials : e # c => calls'[e] = calls[e]
    BY <1>0, <1>1, <2>1, WaitingMoves DEF InFlight
  <2>3. ASSUME ~overlapped
        PROVE  Lonely
    <3>1. Waiting = {c} /\ ~Left /\ bridge = NoPair
      BY <1>0, <2>2, <2>3 DEF OneSignIn, Alone
    <3> QED BY <2>1, <2>2, <3>1 DEF Lonely, Alone, Left, NoPair
  <2> QED BY <1>0, <2>1, <2>2, <2>3 DEF Parts, Afresh
<1>6. ASSUME NEW issued \in {FALSE, MayElevate}, SessionAnswered(c, issued)
      PROVE  Parts
  <2>1. /\ UNCHANGED <<token, operatorAccess, superUserAccess>>
        /\ \/ /\ Goes(c, "elevating", "discovering") /\ employeeSessionToken' = c
              /\ bridge' = [authorization |-> c, session |-> c]
           \/ Goes(c, "elevating", "unelevated") /\ employeeSessionToken' = None /\ bridge' = bridge
    BY <1>0, <1>6 DEF SessionAnswered, Observed
  <2>2. /\ Waiting' = Waiting /\ c \in Waiting /\ calls[c] = "elevating"
        /\ \/ calls'[c] = "discovering" /\ employeeSessionToken' = c
              /\ bridge' = [authorization |-> c, session |-> c]
           \/ calls'[c] = "unelevated" /\ employeeSessionToken' = None /\ bridge' = bridge
        /\ \A e \in Credentials : e # c => calls'[e] = calls[e]
    BY <1>0, <1>1, <2>1, WaitingMoves DEF InFlight
  <2>3. ASSUME ~overlapped
        PROVE  Lonely
    <3>1. /\ Waiting = {c} /\ token = c /\ operatorAccess = None
          /\ bridge.authorization \in {None, token} /\ bridge.session \in {None, token}
      BY <1>0, <2>2, <2>3 DEF OneSignIn, Alone
    <3> QED BY <2>1, <2>2, <3>1 DEF Lonely, Alone
  <2> QED BY <1>0, <2>1, <2>2, <2>3 DEF Parts, Afresh
<1>7. ASSUME NEW granted \in {"none", "operator", "superUser"}, OperatorAnswered(c, granted)
      PROVE  Parts
  <2>1. /\ UNCHANGED <<token, employeeSessionToken>> /\ emitAuthState
        /\ Goes(c, "discovering", "done") \/ Goes(c, "unelevated", "done")
        /\ operatorAccess' \in {None, c} /\ superUserAccess' \in {None, operatorAccess'}
    BY <1>7 DEF OperatorAnswered
  <2>2. /\ Waiting' = Waiting \ {c} /\ c \in Waiting
        /\ calls[c] \in {"discovering", "unelevated"}
    BY <1>0, <1>1, <2>1, WaitingMoves DEF InFlight
  <2>3. IsFiniteSet(Waiting')
    BY <1>0, <2>2, FS_RemoveElement
  <2>4. Afresh => bridge' = NoPair
    BY <1>0, <2>1, EmissionsLend DEF Afresh, Left
  <2>5. ASSUME ~overlapped
        PROVE  Lonely
    <3>1. Waiting = {c} /\ token = c /\ employeeSessionToken \in {None, token}
      BY <1>0, <2>2, <2>5 DEF OneSignIn, Alone
    <3>2. \/ bridge' = NoPair
          \/ bridge' = [authorization |-> token, session |-> employeeSessionToken]
      BY <1>0, <2>1, <3>1, EmissionsLend DEF Observed
    <3> QED BY <2>1, <2>2, <3>1, <3>2 DEF Lonely, NoPair
  <2> QED BY <1>0, <2>1, <2>3, <2>4, <2>5 DEF Parts
<1> QED BY <1>2, <1>3, <1>4, <1>5, <1>6, <1>7

LEMMA SignInsStayApart ==
  ASSUME TypeOK, Configured, OneIdentity, OneSignIn, Next
  PROVE  OneSignIn'
<1>1. Parts
  <2> USE DEF access, preview, keepsSession
  <2>1. CASE OpenModal \/ DismissModal \/ TryDifferentAccount \/ ScriptSettles \/ RetryScript
             \/ ConfigFails
    <3>1. UNCHANGED <<config, token, employeeSessionToken, operatorAccess, superUserAccess, bridge,
                      calls>>
      BY <2>1 DEF OpenModal, DismissModal, TryDifferentAccount, ScriptSettles, RetryScript, ConfigFails
    <3> QED BY <3>1, QuietSteps DEF Waiting
  <2>2. ASSUME NEW c \in Credentials, AskGoogle(c) \/ CredentialRefused(c)
        PROVE  Parts
    <3>1. UNCHANGED <<config, token, employeeSessionToken, operatorAccess, superUserAccess, bridge>>
      BY <2>2 DEF AskGoogle, CredentialRefused
    <3>2. Waiting' = Waiting /\ \A e \in Waiting : calls'[e] = calls[e]
      <4>1. Goes(c, "new", "asked") \/ Goes(c, "asked", "done")
        BY <2>2 DEF AskGoogle, CredentialRefused, Goes
      <4> QED BY <4>1, TypeParts, WaitingMoves DEF InFlight, Waiting
    <3> QED BY <3>1, <3>2, QuietSteps
  <2>3. Step
    BY DEF Next
  <2> QED BY <2>1, <2>2, <2>3, PageStepsStayApart, SignInStepsStayApart DEF Step
<1> QED BY <1>1, PartsAreEnough DEF Next

LEMMA OperatorSteps ==
  ASSUME OperatorInv, Next
  PROVE  OperatorInv'
<1>1. BaseTypes' /\ FaceTypes' /\ overlapped' \in BOOLEAN
  <2>1. overlapped' \in BOOLEAN
    BY Zenon DEF Next
  <2> QED BY <2>1, TypeParts, StepsHaveTypes DEF OperatorInv, Next
<1>2. TypeOK'
  BY <1>1 DEF TypeOK, BaseTypes, FaceTypes, ShownRows, ModalRows, Pairs, Scripts
<1>3. Configured' /\ OneIdentity' /\ ShownSound' /\ OneSignIn'
  BY <1>1, TypeParts, StaysConfigured, IdentitiesStayOne, ShownStaysSound, SignInsStayApart
     DEF OperatorInv, Next
<1> QED BY <1>2, <1>3 DEF OperatorInv

LEMMA OperatorStarts ==
  Init => OperatorInv
<1> SUFFICES ASSUME Init PROVE OperatorInv
  OBVIOUS
<1>1. ~production /\ ~Serves /\ config # "preview"
  BY WebPagesAssumption DEF Init, production, ProductionConfigs, Serves
<1>2. /\ ChipLabel = "checking"
      /\ MemberLevel \in BOOLEAN /\ OperatorLevel \in BOOLEAN /\ SuperUserLevel \in BOOLEAN
  BY <1>1, SMT DEF Init, ChipLabel, MemberLevel, OperatorLevel, SuperUserLevel
<1>3. shown \in ShownRows /\ ShownSound
  <2>1. shown = Showing
    BY DEF Init
  <2>2. shown \in ShownRows
    BY <1>2, <2>1 DEF Showing, ShownRows, Labels
  <2> QED BY <2>1, <2>2 DEF ShownSound, Showing
<1>4. modal \in ModalRows /\ bridge \in Pairs /\ googleScriptState \in Scripts
  BY DEF Init, ModalRows, Content, Pairs, NoPair, Holders, Scripts
<1>5. BaseTypes /\ overlapped \in BOOLEAN
  BY DEF Init, BaseTypes, Holders
<1>6. TypeOK
  BY <1>3, <1>4, <1>5, TypeParts DEF FaceTypes
<1>7. Configured
  BY <1>1 DEF Init, Configured, NoSession, NoPair
<1>8. OneIdentity
  BY DEF Init, OneIdentity
<1>9. OneSignIn
  <2>1. Waiting = {}
    BY DEF Init, Waiting, InFlight
  <2> QED BY <1>1, <2>1, FS_EmptySet DEF Init, OneSignIn
<1> QED BY <1>3, <1>6, <1>7, <1>8, <1>9 DEF OperatorInv

LEMMA OperatorStutters ==
  ASSUME OperatorInv, UNCHANGED vars
  PROVE  OperatorInv'
<1>1. UNCHANGED <<config, token, verifiedIdentity, membership, memberAccessConfirmed,
                  membershipRestricted, denialInfo, employeeSessionToken, operatorAccess,
                  superUserAccess, previewRole, previewTokens, expiryTimer, chipStatusOverride,
                  googleScriptState, modal, shown, bridge, calls, overlapped>>
  BY DEF vars, access, preview
<1>2. UNCHANGED <<Waiting, Left, production, MemberLevel, OperatorLevel, SuperUserLevel, ChipLabel>>
  BY <1>1 DEF Waiting, Left, production, MemberLevel, OperatorLevel, SuperUserLevel, ChipLabel,
              currentRoleLabel
<1>3. TypeOK'
  BY <1>1 DEF OperatorInv, TypeOK
<1>4. Configured' /\ OneIdentity'
  BY <1>1, <1>2 DEF OperatorInv, Configured, Serves, NoSession, OneIdentity
<1>5. ShownSound' /\ OneSignIn'
  BY <1>1, <1>2 DEF OperatorInv, ShownSound, OneSignIn, Alone
<1> QED BY <1>3, <1>4, <1>5 DEF OperatorInv

-----------------------------------------------------------------------------
(* The tab.                                                                *)

TabInv == OperatorInv /\ EmployeeInv /\ MemberInv

(* The pages of a tab share nothing, so each keeps its invariant whatever  *)
(* page the tab shows.                                                     *)
THEOREM TabInvAlways == WebSpec => []TabInv
<1>1. WebInit => TabInv
  BY OperatorStarts, EmployeeStarts, MemberStarts DEF WebInit, TabInv
<1>2. ASSUME TabInv, [WebNext]_<<page, vars, employeeVars, memberVars>>
      PROVE  TabInv'
  <2>1. (Next \/ UNCHANGED vars) => OperatorInv'
    BY <1>2, OperatorSteps, OperatorStutters DEF TabInv
  <2>2. (Employee!Next \/ UNCHANGED employeeVars) => EmployeeInv'
    BY <1>2, EmployeeSteps, EmployeeStutters DEF TabInv
  <2>3. (Member!Next \/ UNCHANGED memberVars) => MemberInv'
    BY <1>2, MemberSteps, MemberStutters DEF TabInv
  <2>4. /\ Next \/ UNCHANGED vars
        /\ Employee!Next \/ UNCHANGED employeeVars
        /\ Member!Next \/ UNCHANGED memberVars
    BY <1>2, Zenon DEF WebNext
  <2> QED BY <2>1, <2>2, <2>3, <2>4 DEF TabInv
<1> QED BY <1>1, <1>2, PTL DEF WebSpec

(* A session is one credential's in every part, and what the page shows    *)
(* when no sign-in is under way is the access there is.                    *)
THEOREM SessionsAreOneCredentials == WebSpec => []SessionOfOneCredential
<1>1. TabInv => SessionOfOneCredential
  BY DEF TabInv, OperatorInv, Configured, OneIdentity, ShownSound, SessionOfOneCredential
<1> QED BY <1>1, TabInvAlways, PTL

(* Two credentials' authority meets in one tab only where one sign-in      *)
(* overlapped another, a session, or its end.                              *)
THEOREM AuthorityMixesByOverlap == WebSpec => []MixedOnlyByOverlap
<1>1. TabInv => MixedOnlyByOverlap
  BY DEF TabInv, OperatorInv, OneSignIn, MixedOnlyByOverlap
<1> QED BY <1>1, TabInvAlways, PTL

(* However clicks, credentials and answers interleave on the employee      *)
(* page, one click is one submission.                                      *)
THEOREM ClicksAlwaysSpentOnce == WebSpec => []StepUpsSpentOnce
<1>1. TabInv => StepUpsSpentOnce
  BY ClicksSpentOnce DEF TabInv
<1> QED BY <1>1, TabInvAlways, PTL

(* However often a member clicks, fails, signs out or reloads, an invoice  *)
(* is paid under the request id that the store keeps for it.               *)
THEOREM InvoicesAlwaysPaidUnderOneRequest == WebSpec => []InvoicePaidUnderOneRequest
<1>1. TabInv => InvoicePaidUnderOneRequest
  BY RequestsPayOneInvoice DEF TabInv
<1> QED BY <1>1, TabInvAlways, PTL
=============================================================================
