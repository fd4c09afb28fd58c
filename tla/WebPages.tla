------------------------------ MODULE WebPages ------------------------------
(***************************************************************************)
(* A browser tab shows one page: an operator page (WebSession), the        *)
(* employee page or the member page.  Pages share no state, so a tab picks *)
(* its page and then behaves as that page does.                            *)
(***************************************************************************)
EXTENDS WebSession, TLC

CONSTANTS MaxClicks, Sessions, Invoices, Tasks, MaxRequests

ASSUME WebPagesAssumption ==
  /\ MaxClicks \in Nat /\ MaxRequests \in Nat
  /\ None \notin [of : Credentials, is : StatusAnswers] \cup OPERATOR_TIER_ROLES
                \cup {"preview"} \cup ProductionConfigs

VARIABLES
  page,                                                           \* the page shown
  pageConfig, googleReady, pendingAction, selectedRoleKey, directory,
  onCredentials, clicks, submitted,                               \* of the employee page
  memberToken, memberAccess, status, memberModal, tasks, stored,
  created, sent                                                   \* of the member page

employeeVars == <<pageConfig, googleReady, pendingAction, selectedRoleKey, directory,
                  onCredentials, clicks, submitted>>
memberVars == <<memberToken, memberAccess, status, memberModal, tasks, stored, created, sent>>

Employee == INSTANCE EmployeePage WITH config <- pageConfig
Member == INSTANCE MemberPage WITH token <- memberToken, modal <- memberModal

WebInit ==
  /\ page \in {"operator", "employee", "member"}
  /\ Init /\ Employee!Init /\ Member!Init

WebNext ==
  \/ page = "operator" /\ Next /\ UNCHANGED <<page, employeeVars, memberVars>>
  \/ page = "employee" /\ Employee!Next /\ UNCHANGED <<page, vars, memberVars>>
  \/ page = "member" /\ Member!Next /\ UNCHANGED <<page, vars, employeeVars>>

WebSpec == WebInit /\ [][WebNext]_<<page, vars, employeeVars, memberVars>>

InterchangeableCredentials == Permutations(Credentials) \cup Permutations(Tasks)

-----------------------------------------------------------------------------
(* A session is one credential's: the token, the verified identity, the    *)
(* expiry timer and the membership answer came from it and go with it, and *)
(* nobody has member access, or is marked as restricted, but by that       *)
(* answer; and when no sign-in is under way the page shows the access      *)
(* there is: the navigation the present levels, the chip the present label *)
(* (or a denial that was dismissed), and in Preview the extension lends no *)
(* other role's token.  Every variable is of its type.                     *)
SessionOfOneCredential ==
  /\ TypeOK
  /\ verifiedIdentity = token /\ expiryTimer = token
  /\ membership # None => membership.of = token
  /\ memberAccessConfirmed => membership # None /\ membership.is = "active"
  /\ membershipRestricted => membership # None /\ membership.is \in {"due", "suspended"}
  /\ Waiting = {} =>
       /\ shown.member = MemberLevel /\ shown.operator = OperatorLevel
       /\ shown.superUser = SuperUserLevel
       /\ shown.chip \in {ChipLabel, "pending", "notMember"}
       /\ ~production => bridge.authorization \in {None, previewRole}

(* Authority is mixed only by an overlap: unless a sign-in overlapped      *)
(* another one, a session, or its end, the employee session, the operator  *)
(* access and the pair that the extension lends to the governed calls are  *)
(* those of the credential that is signed in, and of no other ("A member   *)
(* credential alone never grants operator access", auth.js:727).           *)
MixedOnlyByOverlap ==
  production /\ ~overlapped =>
    /\ employeeSessionToken \in {None, token}
    /\ operatorAccess \in {None, token} /\ superUserAccess \in {None, operatorAccess}
    /\ bridge.authorization \in {None, token} /\ bridge.session \in {None, token}

(* Violated, by two sign-ins that overlap: who has operator access in      *)
(* production is the one who is signed in (the same comment, unguarded).   *)
AccessOfTheSignedIn == production => operatorAccess \in {None, token}

(* Violated in production: the levels nest ("none < member < operator <    *)
(* superUser, each a superset of the one before it", auth.js:191).         *)
LevelsNest == (SuperUserLevel => OperatorLevel) /\ (OperatorLevel => MemberLevel)

(* Holds with the endpoints of this commit alone, StatusAnswers = {"none"} *)
(* and MayElevate = FALSE: nobody signed in with Google has any level.     *)
NobodyIsAdmitted == production => ~MemberLevel /\ ~OperatorLevel

(* A click on the employee page is spent once: see EmployeePage.           *)
StepUpsSpentOnce == Employee!StepUpsSpentOnce

(* An invoice is paid under one request: see MemberPage.                   *)
InvoicePaidUnderOneRequest == Member!InvoicePaidUnderOneRequest
=============================================================================
