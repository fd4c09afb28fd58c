---------------------------- MODULE EmployeePage ----------------------------
(***************************************************************************)
(* The employee page: src/public/employee.js, over                         *)
(* src/public/employee-stepup-intent.js.  A click on an invitation, a      *)
(* revocation, a cancellation or a decision only arms pendingAction; the   *)
(* next credential Google answers with takes it, mints an employee session *)
(* with it, submits the action and reloads the directory, each at an await *)
(* of its own, while the page stays live.  The endpoints are the           *)
(* environment: Authority.tla models what they do.                         *)
(***************************************************************************)
EXTENDS Naturals

CONSTANTS Credentials, MaxClicks, None

VARIABLES
  config,          \* None, "preview", "unconfigured" or "ready"
  googleReady,     \* "no", "ready" or "failed"
  pendingAction,   \* what the next credential will do
  selectedRoleKey,
  directory,       \* the directory shown: whose tier, and one row of it
  onCredentials,   \* where onCredential is with each credential, and its action
  clicks,          \* history: how many actions were armed
  submitted        \* history: which click each credential submitted

vars == <<config, googleReady, pendingAction, selectedRoleKey, directory, onCredentials,
          clicks, submitted>>

(* ROLE_PRESETS, and whether only an Owner is offered it.                  *)
ROLE_PRESETS == {"admin", "operationsAdmin", "fulfillment", "finance"}
ownerOnly(role) == role = "admin"

Tiers == {"OWNER", "ADMIN", "OPERATOR"}
GrantRows == [row : {"grant"}, tier : Tiers, own : BOOLEAN, active : BOOLEAN]
InvitationRows == [row : {"invitation"}, own : BOOLEAN, open : BOOLEAN]
ApplicationRows == [row : {"application"}, submitted : BOOLEAN]
Directories == [tier : {"OWNER", "ADMIN"}, of : GrantRows \cup InvitationRows \cup ApplicationRows]

Verify == [type |-> "verify", click |-> 0]
Actions == [type : {"verify", "invite", "revoke", "cancel", "approve", "reject"},
            click : 0..MaxClicks]

TypeOK ==
  /\ config \in {None, "preview", "unconfigured", "ready"}
  /\ googleReady \in {"no", "ready", "failed"}
  /\ pendingAction \in Actions
  /\ selectedRoleKey \in ROLE_PRESETS \cup {None}
  /\ directory \in Directories \cup {None}
  /\ onCredentials \in [Credentials -> [at : {"new", "minting", "submitting", "loading", "done"},
                                        action : Actions]]
  /\ clicks \in 0..MaxClicks
  /\ submitted \in [Credentials -> 0..MaxClicks]

Init ==
  /\ config = None /\ googleReady = "no"
  /\ pendingAction = Verify
  /\ selectedRoleKey = None /\ directory = None
  /\ onCredentials = [c \in Credentials |-> [at |-> "new", action |-> Verify]]
  /\ clicks = 0 /\ submitted = [c \in Credentials |-> 0]

-----------------------------------------------------------------------------
(* What the page offers in the directory it shows.                         *)

rolesOffered(tier) == {r \in ROLE_PRESETS : tier = "OWNER" \/ ~ownerOnly(r)}
canAttemptRevoke(d) ==
  d.of.row = "grant" /\ d.of.active /\ ~d.of.own /\ (d.tier = "OWNER" \/ d.of.tier = "OPERATOR")
canCancel(d) == d.of.row = "invitation" /\ d.of.open /\ (d.of.own \/ d.tier = "OWNER")
canDecide(d) == d.of.row = "application" /\ d.of.submitted

offered(d) ==
  {"invite"} \cup (IF canAttemptRevoke(d) THEN {"revoke"} ELSE {})
             \cup (IF canCancel(d) THEN {"cancel"} ELSE {})
             \cup (IF canDecide(d) THEN {"approve", "reject"} ELSE {})

-----------------------------------------------------------------------------
ConfigLoads ==
  /\ config = None /\ googleReady = "no"
  /\ config' \in {"preview", "unconfigured", "ready"}
  /\ UNCHANGED <<googleReady, pendingAction, selectedRoleKey, directory, onCredentials, clicks, submitted>>

ensureGoogleButton ==
  /\ config = "ready" /\ googleReady = "no"
  /\ googleReady' \in {"ready", "failed"}
  /\ UNCHANGED <<config, pendingAction, selectedRoleKey, directory, onCredentials, clicks, submitted>>

PickRole(r) ==
  /\ directory # None /\ r \in rolesOffered(directory.tier)
  /\ selectedRoleKey' = r
  /\ UNCHANGED <<config, googleReady, pendingAction, directory, onCredentials, clicks, submitted>>

(* An invitation is of the role picked last, whoever is shown now.         *)
Arm(type) ==
  /\ directory # None /\ type \in offered(directory)
  /\ type = "invite" => selectedRoleKey # None
  /\ clicks < MaxClicks
  /\ clicks' = clicks + 1
  /\ pendingAction' = [type |-> type, click |-> clicks']
  /\ UNCHANGED <<config, googleReady, selectedRoleKey, directory, onCredentials, submitted>>

(* A variant that takes it and leaves it armed.                            *)
onCredentialArmed(c) ==
  /\ googleReady = "ready" /\ onCredentials[c].at = "new"
  /\ onCredentials' = [onCredentials EXCEPT ![c] = [at |-> "minting", action |-> pendingAction]]
  /\ UNCHANGED <<config, googleReady, pendingAction, selectedRoleKey, directory, clicks, submitted>>

(* onCredential takes the pending action before its first await.           *)
onCredential(c) ==
  /\ googleReady = "ready" /\ onCredentials[c].at = "new"
  /\ onCredentials' = [onCredentials EXCEPT ![c] = [at |-> "minting", action |-> pendingAction]]
  /\ pendingAction' = Verify
  /\ UNCHANGED <<config, googleReady, selectedRoleKey, directory, clicks, submitted>>

(* What Google answers is no credential: the action stays armed.           *)
CredentialInvalid(c) ==
  /\ googleReady = "ready" /\ onCredentials[c].at = "new"
  /\ onCredentials' = [onCredentials EXCEPT ![c].at = "done"]
  /\ UNCHANGED <<config, googleReady, pendingAction, selectedRoleKey, directory, clicks, submitted>>

mintEmployeeSession(c) ==
  /\ onCredentials[c].at = "minting"
  /\ IF onCredentials[c].action.type = "verify"
     THEN onCredentials' = [onCredentials EXCEPT ![c].at = "loading"] /\ UNCHANGED submitted
     ELSE /\ onCredentials' = [onCredentials EXCEPT ![c].at = "submitting"]
          /\ submitted' = [submitted EXCEPT ![c] = onCredentials[c].action.click]
  /\ UNCHANGED <<config, googleReady, pendingAction, selectedRoleKey, directory, clicks>>

Submitted(c) ==
  /\ onCredentials[c].at = "submitting"
  /\ onCredentials' = [onCredentials EXCEPT ![c].at = "loading"]
  /\ UNCHANGED <<config, googleReady, pendingAction, selectedRoleKey, directory, clicks, submitted>>

loadDirectory(c, d) ==
  /\ onCredentials[c].at = "loading"
  /\ onCredentials' = [onCredentials EXCEPT ![c].at = "done"]
  /\ directory' = d
  /\ UNCHANGED <<config, googleReady, pendingAction, selectedRoleKey, clicks, submitted>>

(* Any of the requests is refused or lost: the rest is given up.           *)
RequestFails(c) ==
  /\ onCredentials[c].at \in {"minting", "submitting", "loading"}
  /\ onCredentials' = [onCredentials EXCEPT ![c].at = "done"]
  /\ UNCHANGED <<config, googleReady, pendingAction, selectedRoleKey, directory, clicks, submitted>>

Next ==
  \/ ConfigLoads \/ ensureGoogleButton
  \/ \E r \in ROLE_PRESETS : PickRole(r)
  \/ \E type \in {"invite", "revoke", "cancel", "approve", "reject"} : Arm(type)
  \/ \E c \in Credentials :
       \/ onCredential(c) \/ CredentialInvalid(c) \/ mintEmployeeSession(c)
       \/ Submitted(c) \/ RequestFails(c)
       \/ \E d \in Directories : loadDirectory(c, d)

Spec == Init /\ [][Next]_vars

-----------------------------------------------------------------------------
(* A click is spent once: no two credentials submit one click, whatever    *)
(* else is clicked or answered while their requests are awaited; a click   *)
(* that waits for its credential has not been submitted; and a credential  *)
(* under way carries a click that no other one carries.  Every variable is *)
(* of its type.                                                            *)
StepUpsSpentOnce ==
  /\ TypeOK
  /\ \A c, e \in Credentials :
       c # e /\ submitted[c] # 0 => submitted[c] \notin {submitted[e], onCredentials[e].action.click}
  /\ pendingAction.click # 0 =>
       \A c \in Credentials : pendingAction.click \notin {submitted[c], onCredentials[c].action.click}
=============================================================================
