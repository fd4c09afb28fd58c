------------------------- MODULE AuthorityProperties -------------------------
(***************************************************************************)
(* What must hold of grants, invitations and identities while requests     *)
(* race, retry and die between their statements.                           *)
(***************************************************************************)
EXTENDS Authority

Granted(g) == grants[g].tier # "NONE"
Holds(p, tiers) == \E g \in Calls : grants[g].actor = p /\ grants[g].tier \in tiers

(* Authority has one source: every Owner grant comes from the bootstrap    *)
(* and every other grant hangs, by parent_grant_id, from a grant of its    *)
(* grantor that outranks it (Admin from Owner; operator from Owner or      *)
(* Admin) and is held by somebody else than its actor, whatever races      *)
(* between the check and the insert (assertGrantIssuable).                 *)
DelegationRooted ==
  \A g \in Calls : Granted(g) =>
    IF grants[g].tier = "OWNER"
    THEN grants[g].grantor = System /\ grants[g].parent = NoId
    ELSE /\ grants[g].parent # NoId
         /\ grants[g].grantor # grants[g].actor
         /\ grants[grants[g].parent].actor = grants[g].grantor
         /\ grants[grants[g].parent].tier \in IssuingTiers(grants[g].tier)

(* One invitation, one live grant: an accepted invitation names the grant  *)
(* it led to, with the tier and the grantor it promised; and of all the    *)
(* redemptions that ran to their end, only that one's grant may be live.   *)
(* The others withdrew theirs, whoever cancelled, expired or raced.        *)
InvitationGrantsOnce ==
  /\ \A i \in Calls : invitations[i].state = "ACCEPTED" =>
       LET g == invitations[i].grant
       IN /\ g # NoId
          /\ calls[g].kind = "redeem"
          /\ calls[g].target = i
          /\ grants[g].tier = invitations[i].tier
          /\ grants[g].grantor = invitations[i].inviter
          /\ grants[g].actor = invitations[i].by
  /\ \A c \in Calls :
       (calls[c].kind = "redeem" /\ calls[c].at = "done" /\ Active(c)) =>
         /\ invitations[calls[c].target].state = "ACCEPTED"
         /\ invitations[calls[c].target].grant = c

(* Whoever is recorded as having revoked a grant once held a grant that    *)
(* outranks it, and nobody revoked an Owner grant of his own               *)
(* (assertGrantRevocable).                                                 *)
RevokersOutrank ==
  \A g \in Calls : (Granted(g) /\ grants[g].revokedAt # NoId) =>
    /\ Holds(grants[g].revokedBy, RevokingTiers(grants[g].tier))
    /\ grants[g].tier = "OWNER" => grants[g].revokedBy # grants[g].actor

(* Every grant of a request that ran to its end has exactly one identity   *)
(* that can use it, and no two identities share a person: two first        *)
(* requests by one identity do not leave a grant with somebody nobody can  *)
(* sign in as (UNIQUE (issuer, subject) ends the second one instead).      *)
HoldersReachable ==
  \A c \in Calls : (calls[c].at = "done" /\ Granted(c)) =>
    /\ grants[c].actor # NoId
    /\ \E s \in Subjects : binding[s].person = grants[c].actor
    /\ \A s, t \in Subjects :
         (binding[s].person = grants[c].actor /\ binding[t].person = grants[c].actor)
           => s = t

(* No grant is inert: the identity of somebody who accepted an invitation  *)
(* has its actions among its scopes, although two redemptions may widen    *)
(* the same binding at once (the comment in authority-invite-redeem.js).   *)
ScopesCoverGrants ==
  \A i \in Calls : invitations[i].state = "ACCEPTED" =>
    \E s \in Subjects : /\ binding[s].person = invitations[i].by
                        /\ invitations[i].tier \in binding[s].scopes

(* Authority that was granted can be used.                                 *)
GrantsUsable == HoldersReachable /\ ScopesCoverGrants

(* A decision on an invitation stands: an accepted one is not cancelled, a *)
(* cancelled one is not accepted, and neither is decided a second time.    *)
InvitationDecisionStands ==
  [][\A i \in Calls : invitations[i].state \in {"ACCEPTED", "REVOKED"} =>
       /\ invitations'[i].state = invitations[i].state
       /\ invitations'[i].by = invitations[i].by
       /\ invitations'[i].grant = invitations[i].grant]_vars

(* The audit trail stands: a grant is never rewritten, and its first       *)
(* revocation keeps its time and author when two revocations race.         *)
RevocationStands ==
  [][\A g \in Calls : Granted(g) =>
       /\ grants'[g].actor = grants[g].actor
       /\ grants'[g].tier = grants[g].tier
       /\ grants'[g].grantor = grants[g].grantor
       /\ grants[g].revokedAt # NoId =>
            /\ grants'[g].revokedAt = grants[g].revokedAt
            /\ grants'[g].revokedBy = grants[g].revokedBy]_vars

(* An identity keeps the person it was bound to, and its scopes only grow. *)
BindingStands ==
  [][\A s \in Subjects : binding[s].person # NoId =>
       /\ binding'[s].person = binding[s].person
       /\ binding[s].scopes \subseteq binding'[s].scopes]_vars

(* What was decided stays decided, for invitations, grants and identities. *)
DecisionsFinal == InvitationDecisionStands /\ RevocationStands /\ BindingStands

(* packages/authority/src/hierarchy.ts:83 says "The last remaining active  *)
(* Owner grant can never be revoked".                                      *)
LastOwnerProtected == [][ActiveOwners # {} => ActiveOwners' # {}]_vars

=============================================================================
