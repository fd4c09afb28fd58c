----------------------------- MODULE WebSession -----------------------------
(***************************************************************************)
(* The session of a tab: src/public/auth.js, which the operator pages load *)
(* over src/public/governed-fetch-extension.js.  The tab learns its        *)
(* configuration; in Preview a visitor picks a role, in production Google  *)
(* answers with a credential that authenticated() takes through four       *)
(* requests, awaiting each.  Meanwhile the visitor opens and closes the    *)
(* modal, asks Google again or signs out, the expiry timer fires, and the  *)
(* extension copies the credentials it sees pass to the operator probe,    *)
(* for the calls of the newer routes.                                      *)
(*                                                                         *)
(* A credential stands for its token, its subject, and what the server     *)
(* answered for it: a session issued to c, an access granted to c, are c.  *)
(* The endpoints are the environment and may answer whatever the script    *)
(* tells apart (StatusAnswers, MayElevate).                                *)
(***************************************************************************)
EXTENDS Naturals, FiniteSets

CONSTANTS
  Credentials,    \* what Google may answer with
  StatusAnswers,  \* what /api/membership-status may answer
  MayElevate,     \* whether /api/employee-session may issue a session
  None

ASSUME WebSessionAssumption ==
  /\ None \notin Credentials
  /\ StatusAnswers \subseteq {"active", "due", "suspended", "pending", "none", "other"}
  /\ MayElevate \in BOOLEAN

VARIABLES
  config,       \* the client configuration: the environment, and what it allows
  token, verifiedIdentity,
  membership,   \* the answer membershipAccessState, membershipRoute... are read from
  memberAccessConfirmed, membershipRestricted,
  denialInfo,
  employeeSessionToken, operatorAccess, superUserAccess,
  previewRole,
  previewTokens,  \* whether the Preview tokens were loaded
  expiryTimer,    \* the identity whose expiry is scheduled
  chipStatusOverride,
  googleScriptState,
  modal,        \* whether it is shown, what was last rendered in it, for which role
  shown,        \* what the last applyAccessUi and updateChip showed
  bridge,       \* the extension's operatorAuthorization and employeeSession
  calls,        \* where authenticated(c) is
  overlapped    \* history: something overlapped the session's sign-in

access == <<memberAccessConfirmed, membershipRestricted, membership, operatorAccess,
            superUserAccess, employeeSessionToken>>
preview == <<previewRole, previewTokens>>
vars == <<config, token, verifiedIdentity, access, denialInfo, preview, expiryTimer,
          chipStatusOverride, googleScriptState, modal, shown, bridge, calls, overlapped>>

OPERATOR_TIER_ROLES == {"fulfillment", "finance", "admin"}
PREVIEW_ROLES == OPERATOR_TIER_ROLES \cup {"member"}
ProductionConfigs == {"unconfigured", "identityOnly", "open"}
Holders == Credentials \cup {None}
NoPair == [authorization |-> None, session |-> None]
InFlight == {"identity", "membership", "elevating", "discovering", "unelevated"}
Content == {"empty", "loading", "preview", "unavailable", "denied", "signedIn", "signIn"}
Labels == {"checking", "signIn", "unavailable", "pending", "notMember", "expired", "offline",
           "Guest", "Member", "Operator", "SuperUser", "restricted", "blank"} \cup PREVIEW_ROLES

TypeOK ==
  /\ config \in {None, "preview"} \cup ProductionConfigs
  /\ token \in Holders /\ verifiedIdentity \in Holders
  /\ membership \in [of : Credentials, is : StatusAnswers] \cup {None}
  /\ memberAccessConfirmed \in BOOLEAN /\ membershipRestricted \in BOOLEAN
  /\ denialInfo \in {None, "pending", "notMember"}
  /\ employeeSessionToken \in Holders /\ operatorAccess \in Holders /\ superUserAccess \in Holders
  /\ previewRole \in PREVIEW_ROLES \cup {"none"} /\ previewTokens \in BOOLEAN
  /\ expiryTimer \in Holders
  /\ chipStatusOverride \in {None, "expired", "offline"}
  /\ googleScriptState \in {"unloaded", "loading", "loaded", "failed"}
  /\ modal \in [open : BOOLEAN, content : Content, role : PREVIEW_ROLES \cup {"none"}]
  /\ shown \in [member : BOOLEAN, operator : BOOLEAN, superUser : BOOLEAN, chip : Labels]
  /\ bridge \in [authorization : Holders \cup OPERATOR_TIER_ROLES, session : Holders]
  /\ calls \in [Credentials -> {"new", "asked", "done"} \cup InFlight]
  /\ overlapped \in BOOLEAN

-----------------------------------------------------------------------------
(* What the state means: the access levels, the chip and the bearer.       *)

production == config \in ProductionConfigs

MemberLevel ==
  IF production THEN config = "open" /\ verifiedIdentity # None /\ token # None /\ memberAccessConfirmed
                ELSE previewRole # "none"
OperatorLevel == IF production THEN operatorAccess # None ELSE previewRole \in OPERATOR_TIER_ROLES
SuperUserLevel == IF production THEN superUserAccess # None ELSE previewRole = "admin"

currentRoleLabel ==
  IF ~production THEN IF previewRole = "none" THEN "Guest" ELSE previewRole
  ELSE IF ~MemberLevel THEN "blank"
  ELSE IF SuperUserLevel THEN "SuperUser"
  ELSE IF OperatorLevel THEN "Operator"
  ELSE "Member"

ChipLabel ==
  IF chipStatusOverride # None THEN chipStatusOverride
  ELSE IF config = None THEN "checking"
  ELSE IF config = "preview" THEN IF previewRole = "none" THEN "signIn" ELSE previewRole
  ELSE IF config = "unconfigured" THEN "unavailable"
  ELSE IF denialInfo # None THEN denialInfo
  ELSE IF verifiedIdentity = None \/ token = None THEN "signIn"
  ELSE IF membershipRestricted THEN "restricted"
  ELSE currentRoleLabel

Showing == [member |-> MemberLevel, operator |-> OperatorLevel, superUser |-> SuperUserLevel,
            chip |-> ChipLabel]

(* bearerFor('/api/operator-orders'), and the session header beside it.    *)
OperatorBearer ==
  IF production THEN token
  ELSE IF previewRole \in OPERATOR_TIER_ROLES /\ previewTokens THEN previewRole
  ELSE None
OperatorPair == [authorization |-> OperatorBearer,
                 session |-> IF production THEN employeeSessionToken ELSE None]

(* The extension keeps the pair of an operator-orders request that carries *)
(* a bearer.                                                               *)
Observed(pair) == IF pair.authorization # None THEN pair ELSE bridge

(* A variant that forgets nothing.                                         *)
emitAuthStateKeepingPair ==
  /\ shown' = Showing'
  /\ bridge' = IF OperatorLevel' THEN Observed(OperatorPair') ELSE bridge

(* emitAuthState shows the levels and the chip and tells the extension,    *)
(* which forgets its pair or makes the probe that refreshes it; the views  *)
(* refreshed afterwards make the same request again.                       *)
emitAuthState ==
  /\ shown' = Showing'
  /\ bridge' = IF OperatorLevel' THEN Observed(OperatorPair') ELSE NoPair

renderedContent ==
  IF config = None THEN "loading"
  ELSE IF config = "preview" THEN "preview"
  ELSE IF config = "unconfigured" THEN "unavailable"
  ELSE IF denialInfo # None THEN "denied"
  ELSE IF verifiedIdentity # None /\ token # None THEN "signedIn"
  ELSE "signIn"

(* Rendering the sign-in content starts the Google script, unless it is    *)
(* loaded or on its way.                                                   *)
renderModalContent ==
  /\ modal' = [open |-> TRUE, content |-> renderedContent', role |-> previewRole']
  /\ googleScriptState' = IF renderedContent' = "signIn" /\ googleScriptState \in {"unloaded", "failed"}
                          THEN "loading" ELSE googleScriptState
closeModal == modal' = [modal EXCEPT !.open = FALSE]

Init ==
  /\ config = None
  /\ token = None /\ verifiedIdentity = None /\ membership = None
  /\ memberAccessConfirmed = FALSE /\ membershipRestricted = FALSE /\ denialInfo = None
  /\ employeeSessionToken = None /\ operatorAccess = None /\ superUserAccess = None
  /\ previewRole = "none" /\ previewTokens = FALSE
  /\ expiryTimer = None /\ chipStatusOverride = None /\ googleScriptState = "unloaded"
  /\ modal = [open |-> FALSE, content |-> "empty", role |-> "none"]
  /\ shown = Showing
  /\ bridge = NoPair
  /\ calls = [c \in Credentials |-> "new"]
  /\ overlapped = FALSE

-----------------------------------------------------------------------------
(* The configuration and the Preview roles.                                *)

ConfigArrives ==
  /\ config = None /\ chipStatusOverride = None
  /\ config' \in {"preview"} \cup ProductionConfigs
  /\ UNCHANGED <<token, verifiedIdentity, access, denialInfo, preview, expiryTimer,
                 chipStatusOverride, googleScriptState, modal, calls>>
  /\ emitAuthState

ConfigFails ==
  /\ config = None /\ chipStatusOverride = None
  /\ chipStatusOverride' = "offline"
  /\ UNCHANGED <<config, token, verifiedIdentity, access, denialInfo, preview, expiryTimer,
                 googleScriptState, modal, bridge, calls>>
  /\ shown' = [shown EXCEPT !.chip = ChipLabel']

PreviewSessionLoads ==
  /\ config = "preview" /\ ~previewTokens
  /\ previewTokens' = TRUE
  /\ UNCHANGED <<config, token, verifiedIdentity, access, denialInfo, previewRole, expiryTimer,
                 chipStatusOverride, googleScriptState, modal, calls>>
  /\ emitAuthState

setPreviewRole(role) ==
  /\ modal.open /\ modal.content = "preview" /\ role # modal.role
  /\ previewRole' = role
  /\ closeModal
  /\ UNCHANGED <<config, token, verifiedIdentity, access, denialInfo, previewTokens, expiryTimer,
                 chipStatusOverride, googleScriptState, calls>>
  /\ emitAuthState

-----------------------------------------------------------------------------
(* The modal and the Google button.                                        *)

keepsSession == UNCHANGED <<config, token, verifiedIdentity, access, preview, expiryTimer,
                            chipStatusOverride, shown, bridge>>

OpenModal ==
  /\ ~modal.open
  /\ keepsSession /\ UNCHANGED <<denialInfo, calls>>
  /\ renderModalContent

DismissModal ==
  /\ modal.open /\ closeModal
  /\ keepsSession /\ UNCHANGED <<denialInfo, googleScriptState, calls>>

TryDifferentAccount ==
  /\ modal.open /\ modal.content = "denied"
  /\ denialInfo' = None
  /\ keepsSession /\ UNCHANGED calls
  /\ renderModalContent

ScriptSettles ==
  /\ googleScriptState = "loading"
  /\ googleScriptState' \in {"loaded", "failed"}
  /\ keepsSession /\ UNCHANGED <<denialInfo, modal, calls>>

RetryScript ==
  /\ modal.open /\ modal.content = "signIn" /\ googleScriptState = "failed"
  /\ keepsSession /\ UNCHANGED <<denialInfo, calls>>
  /\ renderModalContent

AskGoogle(c) ==
  /\ modal.open /\ modal.content = "signIn" /\ googleScriptState = "loaded"
  /\ calls[c] = "new"
  /\ calls' = [calls EXCEPT ![c] = "asked"]
  /\ keepsSession /\ UNCHANGED <<denialInfo, googleScriptState, modal>>

-----------------------------------------------------------------------------
(* authenticated(c), from await to await.                                  *)

Goes(c, from, to) == calls[c] = from /\ calls' = [calls EXCEPT ![c] = to]

(* An answer that is no credential is refused before anything else.        *)
CredentialRefused(c) ==
  /\ Goes(c, "asked", "done")
  /\ keepsSession /\ UNCHANGED <<denialInfo, googleScriptState, modal>>

CredentialArrives(c) ==
  /\ Goes(c, "asked", "identity")
  /\ chipStatusOverride' = None /\ denialInfo' = None
  /\ UNCHANGED <<config, token, verifiedIdentity, access, preview, expiryTimer,
                 googleScriptState, modal, shown, bridge>>

(* A variant that leaves the timer running.                                *)
clearsSessionButTimer ==
  /\ token' = None /\ verifiedIdentity' = None /\ membership' = None
  /\ memberAccessConfirmed' = FALSE /\ membershipRestricted' = FALSE
  /\ employeeSessionToken' = None /\ operatorAccess' = None /\ superUserAccess' = None
  /\ UNCHANGED expiryTimer

clearsSession ==
  /\ token' = None /\ verifiedIdentity' = None /\ membership' = None
  /\ memberAccessConfirmed' = FALSE /\ membershipRestricted' = FALSE
  /\ employeeSessionToken' = None /\ operatorAccess' = None /\ superUserAccess' = None
  /\ expiryTimer' = None

IdentityRefused(c) ==
  /\ Goes(c, "identity", "done")
  /\ clearsSession
  /\ UNCHANGED <<config, denialInfo, preview, chipStatusOverride, googleScriptState, modal>>
  /\ emitAuthState

(* Without application access the identity is all there is.                *)
IdentityAlone(c) ==
  /\ config = "identityOnly"
  /\ Goes(c, "identity", "done")
  /\ token' = c /\ verifiedIdentity' = c /\ expiryTimer' = c
  /\ membership' = None /\ memberAccessConfirmed' = FALSE /\ membershipRestricted' = FALSE
  /\ employeeSessionToken' = None /\ operatorAccess' = None /\ superUserAccess' = None
  /\ closeModal
  /\ UNCHANGED <<config, denialInfo, preview, chipStatusOverride, googleScriptState>>
  /\ emitAuthState

IdentityVerified(c) ==
  /\ config = "open"
  /\ Goes(c, "identity", "membership")
  /\ keepsSession /\ UNCHANGED <<denialInfo, googleScriptState, modal>>

MembershipAnswered(c, answer) ==
  /\ Goes(c, "membership", "elevating")
  /\ token' = c /\ verifiedIdentity' = c /\ expiryTimer' = c
  /\ membership' = [of |-> c, is |-> answer]
  /\ memberAccessConfirmed' = (answer = "active")
  /\ membershipRestricted' = (answer \in {"due", "suspended"})
  /\ denialInfo' = CASE answer = "pending" -> "pending" [] answer = "none" -> "notMember" [] OTHER -> None
  /\ UNCHANGED <<config, employeeSessionToken, operatorAccess, superUserAccess, preview,
                 chipStatusOverride, googleScriptState, modal, shown, bridge>>

(* The session is stored, and the probe that carries it passes the         *)
(* extension; without a session there is no probe.                         *)
SessionAnswered(c, issued) ==
  /\ Goes(c, "elevating", IF issued THEN "discovering" ELSE "unelevated")
  /\ employeeSessionToken' = IF issued THEN c ELSE None
  /\ bridge' = IF issued THEN Observed([authorization |-> c, session |-> c]) ELSE bridge
  /\ UNCHANGED <<config, token, verifiedIdentity, membership, memberAccessConfirmed,
                 membershipRestricted, operatorAccess, superUserAccess, denialInfo, preview,
                 expiryTimer, chipStatusOverride, googleScriptState, modal, shown>>

OperatorAnswered(c, granted) ==
  /\ \/ Goes(c, "discovering", "done") /\ granted \in {"none", "operator", "superUser"}
     \/ Goes(c, "unelevated", "done") /\ granted = "none"
  /\ operatorAccess' = IF granted = "none" THEN None ELSE c
  /\ superUserAccess' = IF granted = "superUser" THEN c ELSE None
  /\ closeModal
  /\ UNCHANGED <<config, token, verifiedIdentity, membership, memberAccessConfirmed,
                 membershipRestricted, employeeSessionToken, denialInfo, preview, expiryTimer,
                 chipStatusOverride, googleScriptState>>
  /\ emitAuthState

-----------------------------------------------------------------------------
(* The end of a session.                                                   *)

SignOut ==
  /\ modal.open /\ modal.content = "signedIn"
  /\ clearsSession
  /\ closeModal
  /\ UNCHANGED <<config, denialInfo, preview, chipStatusOverride, googleScriptState, calls>>
  /\ emitAuthState

Expire ==
  /\ expiryTimer # None /\ verifiedIdentity # None
  /\ clearsSession
  /\ chipStatusOverride' = "expired"
  /\ UNCHANGED <<config, denialInfo, preview, googleScriptState, modal, calls>>
  /\ emitAuthState

(* A page's own script reads the operator orders.                          *)
PageReadsOperatorOrders ==
  /\ bridge' = Observed(OperatorPair)
  /\ UNCHANGED <<config, token, verifiedIdentity, access, denialInfo, preview, expiryTimer,
                 chipStatusOverride, googleScriptState, modal, shown, calls>>

Step ==
  \/ ConfigArrives \/ ConfigFails \/ PreviewSessionLoads
  \/ \E role \in PREVIEW_ROLES \cup {"none"} : setPreviewRole(role)
  \/ OpenModal \/ DismissModal \/ TryDifferentAccount \/ ScriptSettles \/ RetryScript
  \/ SignOut \/ Expire \/ PageReadsOperatorOrders
  \/ \E c \in Credentials :
       \/ AskGoogle(c) \/ CredentialRefused(c) \/ CredentialArrives(c)
       \/ IdentityRefused(c) \/ IdentityAlone(c) \/ IdentityVerified(c)
       \/ \E answer \in StatusAnswers : MembershipAnswered(c, answer)
       \/ \E issued \in {FALSE, MayElevate} : SessionAnswered(c, issued)
       \/ \E granted \in {"none", "operator", "superUser"} : OperatorAnswered(c, granted)

(* A sign-in is overlapped when it begins while somebody is signed in or   *)
(* another is under way, or when the session ends under it; once nothing   *)
(* is under way and nothing is left, the next one starts afresh.           *)
Waiting == {c \in Credentials : calls[c] \in InFlight}
Left == {token, employeeSessionToken, operatorAccess} # {None}
Overlapping ==
  \/ Cardinality(Waiting') > Cardinality(Waiting) /\ (Left \/ Waiting # {})
  \/ token # None /\ token' = None /\ Waiting # {}
Next ==
  /\ Step
  /\ overlapped' = (Overlapping \/ (overlapped /\ (Waiting' # {} \/ Left')))

Spec == Init /\ [][Next]_vars
=============================================================================
