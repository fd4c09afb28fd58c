------------------------------ MODULE Authority ------------------------------
(***************************************************************************)
(* Owners, Admins and operators: the one-time Owner bootstrap, invitations *)
(* and their redemption, revocation of grants, and employee sessions.      *)
(*                                                                         *)
(* Unlike the order requests, these handlers send SEVERAL autocommitted    *)
(* statements over Neon HTTP, with no transaction around them.  Every      *)
(* statement that reads or writes rows other requests may change is an     *)
(* action of its own; a request may die between any two (a crash, the 5 s  *)
(* abort signal, a lost answer), and what it wrote stays.                  *)
(*                                                                         *)
(* A call is one request.  Ids the code draws with randomUUID() are named  *)
(* by the call that draws them: the participant, grant, invitation or      *)
(* session that call c inserts is c, and revoked_at is the call whose      *)
(* update set it.  A retry is another call.                                *)
(*                                                                         *)
(* An identity binding is never deleted, disabled or given to another      *)
(* participant, so a handler that requires one may read it together with   *)
(* its next statement.  Left out: target prefixes (no rule here reads      *)
(* them), valid_until (no handler sets it), and skew between the clocks.   *)
(***************************************************************************)
EXTENDS Naturals, FiniteSets

CONSTANTS
  Calls,     \* requests; also the ids they draw
  KindsOf,   \* the endpoints a call may be sent to: all, or fewer as a bound
  Subjects,  \* (issuer, subject) identities of the OIDC provider
  MaxDeaths, \* bound: how many requests may end early
  System,    \* participant:system-bootstrap
  NoId       \* NULL

Kinds == {"bootstrap", "mint", "lock", "invite", "cancel", "redeem", "revoke"}

ASSUME AuthorityAssumption ==
  /\ KindsOf \in [Calls -> SUBSET Kinds]
  /\ MaxDeaths \in Nat
  /\ System \notin Calls
  /\ NoId \notin Calls \cup Subjects \cup {System}

VARIABLES
  people,       \* application_participant
  binding,      \* application_identity_binding, by (issuer, subject)
  grants,       \* application_authority_grant
  invitations,  \* authority_invitation
  sessions,     \* employee_session
  calls         \* what each request has read so far

vars == <<people, binding, grants, invitations, sessions, calls>>

-----------------------------------------------------------------------------
(* Rows.  An absent row has NoId or "NONE" in its first field.             *)

Tiers == {"OWNER", "ADMIN", "OPERATOR"}
Ids == Calls \cup {NoId}
People == Calls \cup {System, NoId}

Bindings == [person : Ids, scopes : SUBSET Tiers]
Grants == [tier : Tiers \cup {"NONE"}, grantor : People, actor : Ids,
           parent : Ids, revokedAt : Ids, revokedBy : Ids]
Invitations == [state : {"NONE", "INVITED", "ACCEPTED", "REVOKED"}, inviter : Ids,
                tier : Tiers, expired : BOOLEAN, by : Ids, grant : Ids]
Sessions == [person : Ids, open : BOOLEAN]
Steps == {"idle", "system", "identify", "authorize", "person", "grant", "bind",
          "claim", "withdraw", "target", "tiers", "owners", "entitle", "insert",
          "update", "done", "dead"}
CallStates == [kind : Kinds \cup {"NONE"}, at : Steps, subject : Subjects \cup {NoId},
               person : Ids, target : Ids, parent : Ids, late : BOOLEAN,
               tiers : SUBSET Tiers]

NoBinding == [person |-> NoId, scopes |-> {}]
NoGrant == [tier |-> "NONE", grantor |-> NoId, actor |-> NoId,
            parent |-> NoId, revokedAt |-> NoId, revokedBy |-> NoId]
NoInvitation == [state |-> "NONE", inviter |-> NoId, tier |-> "OPERATOR",
                 expired |-> FALSE, by |-> NoId, grant |-> NoId]
NoSession == [person |-> NoId, open |-> FALSE]
Call(kind, at, subject, person, target) ==
  [kind |-> kind, at |-> at, subject |-> subject, person |-> person, target |-> target,
   parent |-> NoId, late |-> FALSE, tiers |-> {}]

TypeOK ==
  /\ people \in SUBSET (Calls \cup {System})
  /\ binding \in [Subjects -> Bindings]
  /\ grants \in [Calls -> Grants]
  /\ invitations \in [Calls -> Invitations]
  /\ sessions \in [Calls -> Sessions]
  /\ calls \in [Calls -> CallStates]

Init ==
  /\ people = {}
  /\ binding = [s \in Subjects |-> NoBinding]
  /\ grants = [g \in Calls |-> NoGrant]
  /\ invitations = [i \in Calls |-> NoInvitation]
  /\ sessions = [x \in Calls |-> NoSession]
  /\ calls = [c \in Calls |-> Call("NONE", "idle", NoId, NoId, NoId)]

-----------------------------------------------------------------------------
(* The policy of packages/authority/src/hierarchy.ts.                      *)

Active(g) == grants[g].tier # "NONE" /\ grants[g].revokedAt = NoId
(* Mutation: the update has no such condition. *)
UnrevokedAlways(g) == TRUE
Unrevoked(g) == grants[g].revokedAt = NoId    \* WHERE revoked_at IS NULL

(* The update by call c in the name of person p.                           *)
SetRevoked(g, c, p) ==
  grants' = IF Unrevoked(g)
            THEN [grants EXCEPT ![g] = [grants[g] EXCEPT !.revokedAt = c, !.revokedBy = p]]
            ELSE grants
ActiveGrantsOf(p) == {g \in Calls : Active(g) /\ grants[g].actor = p}
ActiveTiers(p) == {grants[g].tier : g \in ActiveGrantsOf(p)}
ActiveOwners == {g \in Calls : Active(g) /\ grants[g].tier = "OWNER"}

IssuingTiers(tier) ==
  {t \in {"OWNER", "ADMIN"} : tier = "OPERATOR" \/ (tier = "ADMIN" /\ t = "OWNER")}

(* Mutation: without SELF_GRANT_FORBIDDEN. *)
IssuableToSelf(grantor, actor, tier) == ActiveTiers(grantor) \cap IssuingTiers(tier) # {}

Issuable(grantor, actor, tier) ==
  /\ actor # grantor
  /\ ActiveTiers(grantor) \cap IssuingTiers(tier) # {}

(* The parent recorded for a grant: an Owner grant of the inviter if there *)
(* is one (the query does not order them), else an Admin grant.            *)
Parents(inviter) ==
  LET owned == ActiveGrantsOf(inviter) \cap ActiveOwners
  IN IF owned # {} THEN owned
     ELSE {g \in ActiveGrantsOf(inviter) : grants[g].tier = "ADMIN"}

RevokingTiers(tier) == IF tier = "OPERATOR" THEN {"OWNER", "ADMIN"} ELSE {"OWNER"}

(* Mutation: an Admin revokes every tier. *)
RevocableByAnyAdmin(revoker, tiers, g) ==
  /\ tiers \cap {"OWNER", "ADMIN"} # {}
  /\ grants[g].tier = "OWNER" => revoker # grants[g].actor /\ ActiveOwners \ {g} # {}

Revocable(revoker, tiers, g) ==
  /\ tiers \cap RevokingTiers(grants[g].tier) # {}
  /\ grants[g].tier = "OWNER" =>
       /\ revoker # grants[g].actor
       /\ ActiveOwners \ {g} # {}

-----------------------------------------------------------------------------
(* The progress of a call.  Of a call that ended only its kind and, when   *)
(* it ran to its end, what it was about is kept.                           *)

Unstarted(c, kind) == calls[c].at = "idle" /\ kind \in KindsOf[c]
At(c, kind, step) == calls[c].kind = kind /\ calls[c].at = step
Become(c, call) == calls' = [calls EXCEPT ![c] = call]
GoTo(c, step) == Become(c, [calls[c] EXCEPT !.at = step])
End(c, outcome) ==
  Become(c, Call(calls[c].kind, outcome, NoId, NoId,
                 IF outcome = "done" THEN calls[c].target ELSE NoId))

(* An elevated request: a bound identity with its own open session.        *)
Elevated(s, x) ==
  /\ binding[s].person # NoId
  /\ sessions[x].open
  /\ sessions[x].person = binding[s].person

StartElevated(c, kind, step) ==
  /\ Unstarted(c, kind)
  /\ \E s \in Subjects, x \in Calls :
       /\ Elevated(s, x)
       /\ Become(c, Call(kind, step, s, binding[s].person, NoId))
  /\ UNCHANGED <<people, binding, grants, invitations, sessions>>

(* The identity's participant if it is bound, else a new one.              *)
Identify(c) ==
  LET person == binding[calls[c].subject].person
  IN /\ Become(c, [calls[c] EXCEPT !.person = IF person = NoId THEN c ELSE person,
                                   !.at = IF calls[c].kind = "redeem" THEN "authorize"
                                          ELSE IF person = NoId THEN "person"
                                          ELSE "grant"])
     /\ UNCHANGED <<people, binding, grants, invitations, sessions>>

AddPerson(c) ==
  /\ people' = people \cup {c}
  /\ GoTo(c, "grant")
  /\ UNCHANGED <<binding, grants, invitations, sessions>>

(* Mutation: the grant names the identity instead of the participant. *)
InsertGrantToSubject(c, tier, grantor, parent) ==
  grants' = [grants EXCEPT ![c] = [tier |-> tier, grantor |-> grantor,
                                   actor |-> calls[c].subject, parent |-> parent,
                                   revokedAt |-> NoId, revokedBy |-> NoId]]

InsertGrant(c, tier, grantor, parent) ==
  grants' = [grants EXCEPT ![c] = [tier |-> tier, grantor |-> grantor,
                                   actor |-> calls[c].person, parent |-> parent,
                                   revokedAt |-> NoId, revokedBy |-> NoId]]

(* Mutation: ON CONFLICT DO UPDATE. *)
UnboundAlways(c) == TRUE

(* UNIQUE (issuer, subject): the insert fails if another request bound the *)
(* identity meanwhile, and the handler ends with the grant already stored. *)
Unbound(c) == binding[calls[c].subject].person = NoId
Bind(c, scopes) ==
  binding' = [binding EXCEPT ![calls[c].subject] =
                [person |-> calls[c].person, scopes |-> scopes]]
(* Mutation: ON CONFLICT DO NOTHING, and the handler goes on. *)
BindConflictIgnored(c) ==
  /\ calls[c].at = "bind"
  /\ calls[c].person = c
  /\ ~Unbound(c)
  /\ End(c, "done")
  /\ UNCHANGED <<people, binding, grants, invitations, sessions>>

BindConflict(c) ==
  /\ calls[c].at = "bind"
  /\ calls[c].person = c
  /\ ~Unbound(c)
  /\ End(c, "dead")
  /\ UNCHANGED <<people, binding, grants, invitations, sessions>>

-----------------------------------------------------------------------------
(* api/owner-bootstrap.js                                                  *)

BootstrapCheck(c) ==
  /\ Unstarted(c, "bootstrap")
  /\ ActiveOwners = {}
  /\ \E s \in Subjects :
       Become(c, Call("bootstrap", "system", s, NoId, NoId))
  /\ UNCHANGED <<people, binding, grants, invitations, sessions>>

BootstrapSystem(c) ==
  /\ At(c, "bootstrap", "system")
  /\ people' = people \cup {System}
  /\ GoTo(c, "identify")
  /\ UNCHANGED <<binding, grants, invitations, sessions>>

BootstrapIdentify(c) == At(c, "bootstrap", "identify") /\ Identify(c)

BootstrapPerson(c) == At(c, "bootstrap", "person") /\ AddPerson(c)

BootstrapGrant(c) ==
  /\ At(c, "bootstrap", "grant")
  /\ InsertGrant(c, "OWNER", System, NoId)
  /\ IF calls[c].person = c THEN GoTo(c, "bind") ELSE End(c, "done")
  /\ UNCHANGED <<people, binding, invitations, sessions>>

BootstrapBind(c) ==
  /\ At(c, "bootstrap", "bind")
  /\ Unbound(c)
  /\ Bind(c, {})
  /\ End(c, "done")
  /\ UNCHANGED <<people, grants, invitations, sessions>>

-----------------------------------------------------------------------------
(* api/employee-session.js, api/employee-session-lock.js                   *)

MintCheck(c) ==
  /\ Unstarted(c, "mint")
  /\ \E s \in Subjects :
       /\ binding[s].person # NoId
       /\ ActiveGrantsOf(binding[s].person) # {}
       /\ Become(c, Call("mint", "insert", s, binding[s].person, NoId))
  /\ UNCHANGED <<people, binding, grants, invitations, sessions>>

MintInsert(c) ==
  /\ At(c, "mint", "insert")
  /\ sessions' = [sessions EXCEPT ![c] = [person |-> calls[c].person, open |-> TRUE]]
  /\ End(c, "done")
  /\ UNCHANGED <<people, binding, grants, invitations>>

Lock(c) ==
  /\ Unstarted(c, "lock")
  /\ \E s \in Subjects, x \in Calls :
       /\ Elevated(s, x)
       /\ sessions' = [sessions EXCEPT ![x].open = FALSE]
  /\ Become(c, Call("lock", "done", NoId, NoId, NoId))
  /\ UNCHANGED <<people, binding, grants, invitations>>

-----------------------------------------------------------------------------
(* api/authority-invite.js, api/authority-invite-cancel.js                 *)

InviteStart(c) == StartElevated(c, "invite", "authorize")

(* The invitee is unknown: the handler passes a placeholder as the actor.  *)
InviteAuthorize(c) ==
  /\ At(c, "invite", "authorize")
  /\ \E tier \in Tiers :
       IF Issuable(calls[c].person, NoId, tier)
       THEN Become(c, [calls[c] EXCEPT !.at = "insert", !.tiers = {tier}])
       ELSE End(c, "done")
  /\ UNCHANGED <<people, binding, grants, invitations, sessions>>

InviteInsert(c) ==
  /\ At(c, "invite", "insert")
  /\ \E tier \in calls[c].tiers :
       invitations' = [invitations EXCEPT ![c] =
         [state |-> "INVITED", inviter |-> calls[c].person, tier |-> tier,
          expired |-> FALSE, by |-> NoId, grant |-> NoId]]
  /\ End(c, "done")
  /\ UNCHANGED <<people, binding, grants, sessions>>

CancelStart(c) == StartElevated(c, "cancel", "target")

CancelTarget(c) ==
  /\ At(c, "cancel", "target")
  /\ \E i \in Calls :
       /\ invitations[i].state = "INVITED"
       /\ Become(c, [calls[c] EXCEPT !.target = i,
                       !.at = IF invitations[i].inviter = calls[c].person
                              THEN "update" ELSE "entitle"])
  /\ UNCHANGED <<people, binding, grants, invitations, sessions>>

CancelEntitle(c) ==
  /\ At(c, "cancel", "entitle")
  /\ IF "OWNER" \in ActiveTiers(calls[c].person)
     THEN GoTo(c, "update") ELSE End(c, "done")
  /\ UNCHANGED <<people, binding, grants, invitations, sessions>>

(* Mutation: the state was only looked at in the earlier read. *)
CancellableAnyState(i) == invitations[i].state # "NONE"
Cancellable(i) == invitations[i].state = "INVITED"
CancelUpdate(c) ==
  LET i == calls[c].target
  IN /\ At(c, "cancel", "update")
     /\ invitations' = IF Cancellable(i)
                       THEN [invitations EXCEPT ![i].state = "REVOKED",
                                                ![i].by = calls[c].person]
                       ELSE invitations
     /\ End(c, "done")
     /\ UNCHANGED <<people, binding, grants, sessions>>

-----------------------------------------------------------------------------
(* api/authority-invite-redeem.js                                          *)

RedeemStart(c) ==
  /\ Unstarted(c, "redeem")
  /\ \E s \in Subjects, i \in Calls :
       /\ invitations[i].state = "INVITED"
       /\ ~invitations[i].expired
       /\ Become(c, Call("redeem", "identify", s, NoId, i))
  /\ UNCHANGED <<people, binding, grants, invitations, sessions>>

RedeemIdentify(c) == At(c, "redeem", "identify") /\ Identify(c)

(* nowIso is taken here: the claim below judges the expiry by this moment. *)
RedeemAuthorize(c) ==
  LET i == invitations[calls[c].target]
  IN /\ At(c, "redeem", "authorize")
     /\ IF Issuable(i.inviter, calls[c].person, i.tier)
        THEN \E parent \in Parents(i.inviter) :
               Become(c, [calls[c] EXCEPT !.at = IF calls[c].person = c THEN "person"
                                                 ELSE "grant",
                                          !.parent = parent, !.late = i.expired])
        ELSE End(c, "done")
     /\ UNCHANGED <<people, binding, grants, invitations, sessions>>

RedeemPerson(c) == At(c, "redeem", "person") /\ AddPerson(c)

RedeemGrant(c) ==
  LET i == invitations[calls[c].target]
  IN /\ At(c, "redeem", "grant")
     /\ InsertGrant(c, i.tier, i.inviter, calls[c].parent)
     /\ GoTo(c, "bind")
     /\ UNCHANGED <<people, binding, invitations, sessions>>

RedeemBind(c) ==
  /\ At(c, "redeem", "bind")
  /\ calls[c].person = c
  /\ Unbound(c)
  /\ Bind(c, {invitations[calls[c].target].tier})
  /\ GoTo(c, "claim")
  /\ UNCHANGED <<people, grants, invitations, sessions>>

(* Mutation: an existing binding is left as it is. *)
WidenedNot(c) == binding[calls[c].subject].scopes
Widened(c) == binding[calls[c].subject].scopes \cup {invitations[calls[c].target].tier}
RedeemWiden(c) ==
  /\ At(c, "redeem", "bind")
  /\ calls[c].person # c
  /\ binding' = [binding EXCEPT ![calls[c].subject].scopes = Widened(c)]
  /\ GoTo(c, "claim")
  /\ UNCHANGED <<people, grants, invitations, sessions>>

(* Mutation: an invitation is not withheld from a second claim. *)
ClaimableUnlessCancelled(c, i) ==
  invitations[i].state # "REVOKED" /\ ~calls[c].late
Claimable(c, i) == invitations[i].state = "INVITED" /\ ~calls[c].late
RedeemClaim(c) ==
  LET i == calls[c].target
  IN /\ At(c, "redeem", "claim")
     /\ IF Claimable(c, i)
        THEN /\ invitations' = [invitations EXCEPT ![i].state = "ACCEPTED",
                                                   ![i].by = calls[c].person,
                                                   ![i].grant = c]
             /\ End(c, "done")
        ELSE /\ GoTo(c, "withdraw")
             /\ UNCHANGED invitations
     /\ UNCHANGED <<people, binding, grants, sessions>>

RedeemWithdraw(c) ==
  /\ At(c, "redeem", "withdraw")
  /\ SetRevoked(c, c, invitations[calls[c].target].inviter)
  /\ End(c, "done")
  /\ UNCHANGED <<people, binding, invitations, sessions>>

-----------------------------------------------------------------------------
(* api/authority-revoke.js                                                 *)

RevokeStart(c) == StartElevated(c, "revoke", "target")

RevokeTarget(c) ==
  /\ At(c, "revoke", "target")
  /\ \E g \in Calls :
       /\ Active(g)
       /\ Become(c, [calls[c] EXCEPT !.at = "tiers", !.target = g])
  /\ UNCHANGED <<people, binding, grants, invitations, sessions>>

RevokeTiers(c) ==
  /\ At(c, "revoke", "tiers")
  /\ Become(c, [calls[c] EXCEPT !.at = "owners",
                                !.tiers = ActiveTiers(calls[c].person)])
  /\ UNCHANGED <<people, binding, grants, invitations, sessions>>

RevokeOwners(c) ==
  /\ At(c, "revoke", "owners")
  /\ IF Revocable(calls[c].person, calls[c].tiers, calls[c].target)
     THEN GoTo(c, "update") ELSE End(c, "done")
  /\ UNCHANGED <<people, binding, grants, invitations, sessions>>

RevokeUpdate(c) ==
  /\ At(c, "revoke", "update")
  /\ SetRevoked(calls[c].target, c, calls[c].person)
  /\ End(c, "done")
  /\ UNCHANGED <<people, binding, invitations, sessions>>

-----------------------------------------------------------------------------
(* The clock, and requests that end early: they die, or a read above finds *)
(* nothing and the handler refuses; what they wrote so far stays.          *)

InvitationExpires(i) ==
  /\ invitations[i].state = "INVITED"
  /\ ~invitations[i].expired
  /\ invitations' = [invitations EXCEPT ![i].expired = TRUE]
  /\ UNCHANGED <<people, binding, grants, sessions, calls>>

SessionExpires(x) ==
  /\ sessions[x].open
  /\ sessions' = [sessions EXCEPT ![x].open = FALSE]
  /\ UNCHANGED <<people, binding, grants, invitations, calls>>

Die(c) ==
  /\ calls[c].at \notin {"idle", "done", "dead"}
  /\ Cardinality({d \in Calls : calls[d].at = "dead"}) < MaxDeaths
  /\ End(c, "dead")
  /\ UNCHANGED <<people, binding, grants, invitations, sessions>>

Bootstrap(c) ==
  \/ BootstrapCheck(c) \/ BootstrapSystem(c) \/ BootstrapIdentify(c)
  \/ BootstrapPerson(c) \/ BootstrapGrant(c) \/ BootstrapBind(c)
Session(c) == MintCheck(c) \/ MintInsert(c) \/ Lock(c)
Invite(c) == InviteStart(c) \/ InviteAuthorize(c) \/ InviteInsert(c)
Cancel(c) == CancelStart(c) \/ CancelTarget(c) \/ CancelEntitle(c) \/ CancelUpdate(c)
Redeem(c) ==
  \/ RedeemStart(c) \/ RedeemIdentify(c) \/ RedeemAuthorize(c) \/ RedeemPerson(c)
  \/ RedeemGrant(c) \/ RedeemBind(c) \/ RedeemWiden(c) \/ RedeemClaim(c)
  \/ RedeemWithdraw(c)
Revoke(c) ==
  \/ RevokeStart(c) \/ RevokeTarget(c) \/ RevokeTiers(c) \/ RevokeOwners(c)
  \/ RevokeUpdate(c)
Time(c) == InvitationExpires(c) \/ SessionExpires(c)

Next ==
  \E c \in Calls :
    \/ Bootstrap(c) \/ Session(c) \/ Invite(c) \/ Cancel(c) \/ Redeem(c) \/ Revoke(c)
    \/ BindConflict(c) \/ Time(c) \/ Die(c)

Spec == Init /\ [][Next]_vars
=============================================================================
