------------------------------ MODULE Enrolment ------------------------------
(***************************************************************************)
(* How a contact becomes a member and a member signs in: an enrolment form *)
(* sends a code to the contact and only the code provisions a membership;  *)
(* a paper application waits for a reviewer; an existing member is sent a  *)
(* sign-in or a number-recovery code.                                      *)
(*                                                                         *)
(* A request that sends a code is named by the challenge id it generates   *)
(* and runs in steps: what the contact resolves to (one transaction), the  *)
(* insertion of the challenge (another), and the delivery, whose message   *)
(* may arrive although the handler sees a failure.  A verification is one  *)
(* transaction, named by the session id its handler generates.             *)
(*                                                                         *)
(* The advisory lock of a contact, the row lock of a campaign and those of *)
(* a challenge make each function one action: every statement of theirs    *)
(* that decides something starts after the lock is held.  A membership is  *)
(* named by its application.  Left out: the rate limit of an IP address    *)
(* (it only refuses), the invoice (Membership), e-mail (always refused).   *)
(***************************************************************************)
EXTENDS Naturals, FiniteSets, FiniteSetsExt

CONSTANTS
  Contacts,        \* normalised telephone numbers
  MaxApplications, \* bound: application rows, in the order of submitted_at
  Challenges,      \* challenge ids: one per request that sends a code
  Calls,           \* session ids: one per verification
  MaxAttempts,     \* wrong codes a challenge survives: 5 in the code
  MaxSends,        \* challenges of a kind within a quarter of an hour: 5 in the code
  CampaignMax      \* max_enrollments of the one campaign

ASSUME EnrolmentAssumption ==
  /\ MaxApplications \in Nat \ {0}
  /\ MaxAttempts \in Nat \ {0}
  /\ MaxSends \in Nat \ {0}
  /\ CampaignMax \in Nat

VARIABLES
  applications, \* membership_application and the membership it results in
  challenges,   \* the three challenge tables and the requests that fill them
  sessions,     \* member_session: the membership of each ACTIVE, unexpired session
  tokens        \* the calls answered 200 with a session token

vars == <<applications, challenges, sessions, tokens>>

Applications == 1..MaxApplications
None == 0

(* "raw": a paper application keeps the telephone number as it was typed,  *)
(* which no query by contact finds, until its approval normalises it.      *)
ApplicationRows ==
  [state : {"NONE", "PENDING_VERIFICATION", "SUBMITTED", "APPROVED", "REJECTED"},
   mode : {"AUTO", "MANUAL"}, contact : Contacts, raw : BOOLEAN, campaign : BOOLEAN,
   member : {"NONE", "ELIGIBLE", "BARRED"}]

(* EXISTING is a sign-in challenge sent by the enrolment form; "known" when *)
(* its code reached the contact; "age" 1 when it has expired and 2 when it *)
(* has left the window of the rate limit.                                  *)
ChallengeRows ==
  [at : {"idle", "resolved", "created", "answered"},
   kind : {"ENROL", "EXISTING", "SIGNIN", "RECOVERY"}, app : Applications,
   state : {"NONE", "OPEN", "USED", "REVOKED"}, attempts : 0..MaxAttempts,
   known : BOOLEAN, age : 0..2]

NoApplication(c) == [state |-> "NONE", mode |-> "AUTO", contact |-> c, raw |-> FALSE,
                     campaign |-> FALSE, member |-> "NONE"]
NoChallenge == [at |-> "idle", kind |-> "ENROL", app |-> 1, state |-> "NONE",
                attempts |-> 0, known |-> FALSE, age |-> 0]

TypeOK ==
  /\ applications \in [Applications -> ApplicationRows]
  /\ challenges \in [Challenges -> ChallengeRows]
  /\ sessions \in [Calls -> Applications \cup {None}]
  /\ tokens \subseteq Calls

Init ==
  /\ \E c \in Contacts : applications = [a \in Applications |-> NoApplication(c)]
  /\ challenges = [k \in Challenges |-> NoChallenge]
  /\ sessions = [v \in Calls |-> None]
  /\ tokens = {}

Used == {a \in Applications : applications[a].state # "NONE"}
Next1 == Cardinality(Used) + 1 \* the id of the next application row
Member(a) == applications[a].member # "NONE"

-----------------------------------------------------------------------------
(* Requests that send a code.                                              *)

Begin(k, kind, a) ==
  challenges' = [challenges EXCEPT ![k] = [NoChallenge EXCEPT !.at = "resolved",
                                             !.kind = kind, !.app = a]]

(* Mutation: an application that has been verified is not looked for. *)
LivePending(c) ==
  {a \in Used : /\ applications[a].contact = c /\ ~applications[a].raw
                /\ applications[a].state = "PENDING_VERIFICATION"}
Live(c) ==
  {a \in Used : /\ applications[a].contact = c /\ ~applications[a].raw
                /\ applications[a].state \in {"PENDING_VERIFICATION", "SUBMITTED", "APPROVED"}}

(* Mutation: only verified enrolments count. *)
HasRoomVerified ==
  Cardinality({a \in Used : applications[a].campaign /\ Member(a)}) < CampaignMax
HasRoom ==
  Cardinality({a \in Used : /\ applications[a].campaign
                            /\ applications[a].state # "REJECTED"}) < CampaignMax

(* enrollment-verify-start, resolve_enrollment_contact: the latest live    *)
(* application of the contact is resumed, or its member sent a sign-in     *)
(* code; otherwise an application is made, within the campaign's maximum.  *)
ResolveKnown(k, c) ==
  /\ challenges[k].at = "idle"
  /\ Live(c) # {}
  /\ LET a == Max(Live(c)) IN Begin(k, IF Member(a) THEN "EXISTING" ELSE "ENROL", a)
  /\ UNCHANGED <<applications, sessions, tokens>>

ResolveNew(k, c, campaign) ==
  /\ challenges[k].at = "idle"
  /\ Live(c) = {}
  /\ campaign => HasRoom
  /\ Next1 \in Applications
  /\ applications' = [applications EXCEPT ![Next1] =
       [NoApplication(c) EXCEPT !.state = "PENDING_VERIFICATION", !.campaign = campaign]]
  /\ Begin(k, "ENROL", Next1)
  /\ UNCHANGED <<sessions, tokens>>

(* member-auth-challenge, by member number. *)
RequestSignIn(k, a) ==
  /\ challenges[k].at = "idle"
  /\ applications[a].member = "ELIGIBLE"
  /\ Begin(k, "SIGNIN", a)
  /\ UNCHANGED <<applications, sessions, tokens>>

(* member-number-recovery-start: two memberships of a contact get nothing. *)
RequestRecovery(k, c) ==
  LET members == {a \in Used : applications[a].contact = c /\ ~applications[a].raw /\ Member(a)}
  IN /\ challenges[k].at = "idle"
     /\ Cardinality(members) = 1
     /\ Begin(k, "RECOVERY", Max(members))
     /\ UNCHANGED <<applications, sessions, tokens>>

Table(kind) == IF kind \in {"EXISTING", "SIGNIN"} THEN {"EXISTING", "SIGNIN"} ELSE {kind}
Siblings(k) ==
  {l \in Challenges : /\ challenges[l].state # "NONE" /\ challenges[l].app = challenges[k].app
                      /\ challenges[l].kind \in Table(challenges[k].kind)}

(* The three create functions: refused beyond the rate limit; a new        *)
(* enrolment code, and only that, revokes those still open.                *)
CreateChallenge(k) ==
  /\ challenges[k].at = "resolved"
  /\ IF Cardinality({l \in Siblings(k) : challenges[l].age < 2}) >= MaxSends
     THEN challenges' = [challenges EXCEPT ![k] = [NoChallenge EXCEPT !.at = "answered"]]
     ELSE challenges' = [l \in Challenges |->
            IF l = k THEN [challenges[k] EXCEPT !.at = "created", !.state = "OPEN"]
            ELSE IF /\ challenges[k].kind = "ENROL" /\ l \in Siblings(k)
                    /\ challenges[l].state = "OPEN"
            THEN [challenges[l] EXCEPT !.state = "REVOKED"]
            ELSE challenges[l]]
  /\ UNCHANGED <<applications, sessions, tokens>>

MessageArrives(k) ==
  /\ challenges[k].at = "created"
  /\ challenges' = [challenges EXCEPT ![k].known = TRUE]
  /\ UNCHANGED <<applications, sessions, tokens>>

DeliveryReported(k) ==
  /\ challenges[k].at = "created"
  /\ challenges[k].known
  /\ challenges' = [challenges EXCEPT ![k].at = "answered"]
  /\ UNCHANGED <<applications, sessions, tokens>>

(* A failed delivery revokes a challenge that is still OPEN, except that   *)
(* the enrolment form leaves its own as it is.  Recovery revokes without   *)
(* that condition, but a USED row may not lose its state (CHECK).          *)
(* Mutation: the state of the challenge is not looked at. *)
AfterFailureAnyState(k) ==
  IF challenges[k].kind \in {"SIGNIN", "RECOVERY"} THEN "REVOKED" ELSE challenges[k].state
AfterFailure(k) ==
  IF challenges[k].kind \in {"SIGNIN", "RECOVERY"} /\ challenges[k].state = "OPEN"
  THEN "REVOKED" ELSE challenges[k].state

DeliveryFails(k) ==
  /\ challenges[k].at = "created"
  /\ challenges' = [challenges EXCEPT ![k].at = "answered", ![k].state = AfterFailure(k)]
  /\ UNCHANGED <<applications, sessions, tokens>>

-----------------------------------------------------------------------------
(* Verification.                                                           *)

Checkable(k) ==
  challenges[k].state = "OPEN" /\ challenges[k].age = 0 /\ challenges[k].attempts < MaxAttempts

WrongCode(k) ==
  /\ Checkable(k)
  /\ challenges' = [challenges EXCEPT ![k].attempts = @ + 1,
       ![k].state = IF challenges[k].attempts + 1 >= MaxAttempts THEN "REVOKED" ELSE @]
  /\ UNCHANGED <<applications, sessions, tokens>>

Spent(k) == [challenges EXCEPT ![k].state = "USED"]
SessionFor(v, a) ==
  IF \E w \in Calls : sessions[w] = a THEN sessions ELSE [sessions EXCEPT ![v] = a]

(* verify_and_provision_enrollment, the first time: an application that is *)
(* not PENDING_VERIFICATION makes it raise and nothing happens.            *)
(* Mutation: it returns instead of raising, and the challenge is spent. *)
VerifiableAnyState(a) == TRUE
Verifiable(a) == Member(a) \/ applications[a].state = "PENDING_VERIFICATION"

(* Mutation: a state the table's CHECK does not list. *)
ProvisionedVerified(a) ==
  IF applications[a].state = "PENDING_VERIFICATION"
  THEN [applications EXCEPT ![a].state = "VERIFIED", ![a].member = "ELIGIBLE"]
  ELSE applications
Provisioned(a) ==
  IF applications[a].state = "PENDING_VERIFICATION"
  THEN [applications EXCEPT ![a].state = "SUBMITTED", ![a].member = "ELIGIBLE"]
  ELSE applications

VerifyEnrolment(v, k) ==
  LET a == challenges[k].app IN
  /\ v \notin tokens
  /\ challenges[k].kind = "ENROL" /\ challenges[k].known
  /\ Checkable(k)
  /\ Verifiable(a)
  /\ challenges' = Spent(k)
  /\ applications' = Provisioned(a)
  /\ sessions' = SessionFor(v, a)
  /\ tokens' = tokens \cup {v}

(* The code of a USED challenge sent again, however late, whoever is       *)
(* barred: the membership's session, or a new one.                         *)
ReplayEnrolment(v, k) ==
  /\ v \notin tokens
  /\ challenges[k].kind = "ENROL" /\ challenges[k].state = "USED" /\ challenges[k].known
  /\ sessions' = SessionFor(v, challenges[k].app)
  /\ tokens' = tokens \cup {v}
  /\ UNCHANGED <<applications, challenges>>

(* Another code for a USED challenge: no membership and no session, but    *)
(* the handler looks at the state USED alone.                              *)
ReplayWrongCode(v, k) ==
  /\ v \notin tokens
  /\ challenges[k].kind = "ENROL" /\ challenges[k].state = "USED"
  /\ tokens' = tokens \cup {v}
  /\ UNCHANGED <<applications, challenges, sessions>>

(* verify_member_auth_challenge: the challenge is spent even when the      *)
(* standing no longer allows a session.                                    *)
VerifySignIn(v, k) ==
  LET a == challenges[k].app IN
  /\ v \notin tokens
  /\ challenges[k].kind \in {"EXISTING", "SIGNIN"} /\ challenges[k].known
  /\ Checkable(k)
  /\ challenges' = Spent(k)
  /\ IF applications[a].member = "ELIGIBLE"
     THEN sessions' = [sessions EXCEPT ![v] = a] /\ tokens' = tokens \cup {v}
     ELSE UNCHANGED <<sessions, tokens>>
  /\ UNCHANGED applications

VerifyRecovery(k) ==
  /\ challenges[k].kind = "RECOVERY" /\ challenges[k].known
  /\ Checkable(k)
  /\ challenges' = Spent(k)
  /\ UNCHANGED <<applications, sessions, tokens>>

-----------------------------------------------------------------------------
(* Paper applications, standing, time.                                     *)

Apply(c, raw) ==
  /\ Next1 \in Applications
  /\ applications' = [applications EXCEPT ![Next1] =
       [NoApplication(c) EXCEPT !.state = "SUBMITTED", !.mode = "MANUAL", !.raw = raw]]
  /\ UNCHANGED <<challenges, sessions, tokens>>

Decidable(a) ==
  applications[a].state = "SUBMITTED" /\ applications[a].mode = "MANUAL" /\ ~Member(a)

Approve(a) ==
  /\ Decidable(a)
  /\ applications' = [applications EXCEPT ![a].state = "APPROVED", ![a].member = "ELIGIBLE",
                                          ![a].raw = FALSE]
  /\ UNCHANGED <<challenges, sessions, tokens>>

Reject(a) ==
  /\ Decidable(a)
  /\ applications' = [applications EXCEPT ![a].state = "REJECTED"]
  /\ UNCHANGED <<challenges, sessions, tokens>>

(* A renewal job or a payment (Membership). *)
StandingChanges(a) ==
  /\ Member(a)
  /\ applications' = [applications EXCEPT ![a].member =
       IF @ = "ELIGIBLE" THEN "BARRED" ELSE "ELIGIBLE"]
  /\ UNCHANGED <<challenges, sessions, tokens>>

ChallengeAges(k) ==
  /\ challenges[k].state # "NONE"
  /\ challenges[k].age < 2
  /\ challenges' = [challenges EXCEPT ![k].age = @ + 1]
  /\ UNCHANGED <<applications, sessions, tokens>>

SessionEnds(v) ==
  /\ sessions[v] # None
  /\ sessions' = [sessions EXCEPT ![v] = None]
  /\ UNCHANGED <<applications, challenges, tokens>>

Request(k) ==
  \/ \E c \in Contacts : \/ ResolveKnown(k, c) \/ RequestRecovery(k, c)
                         \/ \E campaign \in BOOLEAN : ResolveNew(k, c, campaign)
  \/ \E a \in Applications : RequestSignIn(k, a)
  \/ CreateChallenge(k) \/ MessageArrives(k) \/ DeliveryReported(k) \/ DeliveryFails(k)

Verification(k) ==
  \/ WrongCode(k) \/ VerifyRecovery(k)
  \/ \E v \in Calls : \/ VerifyEnrolment(v, k) \/ ReplayEnrolment(v, k)
                      \/ ReplayWrongCode(v, k) \/ VerifySignIn(v, k)

Next ==
  \/ \E k \in Challenges : Request(k) \/ Verification(k) \/ ChallengeAges(k)
  \/ \E c \in Contacts, raw \in BOOLEAN : Apply(c, raw)
  \/ \E a \in Applications : Approve(a) \/ Reject(a) \/ StandingChanges(a)
  \/ \E v \in Calls : SessionEnds(v)

Spec == Init /\ [][Next]_vars
=============================================================================
