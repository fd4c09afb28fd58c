--------------------------- MODULE AuthorityProofs ---------------------------
(***************************************************************************)
(* Proofs about grants, invitations and identities, for any number of      *)
(* requests, identities and deaths.                                        *)
(*                                                                         *)
(* Rows only ever grow (RowsGrow), so what a request has read keeps        *)
(* holding while others write (OthersInv); four lemmas, one per table a    *)
(* step may change, carry the invariant over, and each action is reduced   *)
(* to one of them.                                                         *)
(***************************************************************************)
EXTENDS AuthorityProperties, TLAPS

-----------------------------------------------------------------------------
(* How a call moves.                                                       *)

CallsTyped == calls \in [Calls -> CallStates]
OthersKeep(c) == \A d \in Calls : d # c => calls'[d] = calls[d]

(* The records a call goes through are call states.                        *)
LEMMA CallTyped ==
  ASSUME NEW kind \in Kinds \cup {"NONE"}, NEW at \in Steps,
         NEW subject \in Subjects \cup {NoId}, NEW person \in Ids, NEW target \in Ids
  PROVE  Call(kind, at, subject, person, target) \in CallStates
  BY DEF Call, CallStates, Ids

(* Replacing one call by a call state changes that call alone.             *)
LEMMA BecomeMoves ==
  ASSUME CallsTyped, NEW c \in Calls, NEW k \in CallStates, Become(c, k)
  PROVE  CallsTyped' /\ calls'[c] = k /\ OthersKeep(c)
  BY DEF CallsTyped, Become, OthersKeep

(* GoTo keeps all a call has read and changes where it is.                 *)
LEMMA GoToMoves ==
  ASSUME CallsTyped, NEW c \in Calls, NEW step \in Steps, GoTo(c, step)
  PROVE  /\ CallsTyped' /\ OthersKeep(c)
         /\ calls'[c].at = step
         /\ calls'[c].kind = calls[c].kind
         /\ calls'[c].subject = calls[c].subject
         /\ calls'[c].person = calls[c].person
         /\ calls'[c].target = calls[c].target
         /\ calls'[c].parent = calls[c].parent
         /\ calls'[c].tiers = calls[c].tiers
<1> DEFINE k == [calls[c] EXCEPT !.at = step]
<1>1. k \in CallStates
  BY DEF CallsTyped, CallStates
<1>2. k.at = step /\ k.kind = calls[c].kind /\ k.subject = calls[c].subject
      /\ k.person = calls[c].person /\ k.target = calls[c].target
      /\ k.parent = calls[c].parent /\ k.tiers = calls[c].tiers
  BY DEF CallsTyped, CallStates
<1>3. Become(c, k)
  BY DEF GoTo
<1> HIDE DEF k
<1> QED BY <1>1, <1>2, <1>3, BecomeMoves

(* An ended call keeps its kind and, if it ran to its end, its target.     *)
LEMMA EndMoves ==
  ASSUME CallsTyped, NEW c \in Calls, NEW outcome \in {"done", "dead"}, End(c, outcome)
  PROVE  /\ CallsTyped' /\ OthersKeep(c)
         /\ calls'[c].at = outcome
         /\ calls'[c].kind = calls[c].kind
         /\ outcome = "done" => calls'[c].target = calls[c].target
<1> DEFINE t == IF outcome = "done" THEN calls[c].target ELSE NoId
           k == Call(calls[c].kind, outcome, NoId, NoId, t)
<1>1. calls[c].kind \in Kinds \cup {"NONE"} /\ calls[c].target \in Ids
  BY DEF CallsTyped, CallStates
<1>2. t \in Ids /\ NoId \in Ids /\ outcome \in Steps
  BY <1>1 DEF Ids, Steps
<1>3. k \in CallStates
  <2> HIDE DEF t
  <2> QED BY <1>1, <1>2, CallTyped
<1>4. k.at = outcome /\ k.kind = calls[c].kind /\ k.target = t
  BY DEF Call
<1>5. Become(c, k)
  BY DEF End
<1> HIDE DEF k
<1> QED BY <1>3, <1>4, <1>5, BecomeMoves

(* A request starts with a record of its own.                              *)
LEMMA StartMoves ==
  ASSUME CallsTyped, NEW c \in Calls, NEW kind \in Kinds, NEW at \in Steps,
         NEW s \in Subjects \cup {NoId}, NEW p \in Ids, NEW t \in Ids,
         Become(c, Call(kind, at, s, p, t))
  PROVE  /\ CallsTyped' /\ OthersKeep(c)
         /\ calls'[c].at = at /\ calls'[c].kind = kind /\ calls'[c].subject = s
         /\ calls'[c].person = p /\ calls'[c].target = t
<1> DEFINE k == Call(kind, at, s, p, t)
<1>1. k \in CallStates
  BY CallTyped
<1>2. k.at = at /\ k.kind = kind /\ k.subject = s /\ k.person = p /\ k.target = t
  BY DEF Call
<1> HIDE DEF k
<1> QED BY <1>1, <1>2, BecomeMoves DEF k

(* What a request learns about who it acts for.                            *)
LEMMA IdentifyMoves ==
  ASSUME CallsTyped, binding \in [Subjects -> Bindings], NEW c \in Calls,
         calls[c].subject \in Subjects, Identify(c)
  PROVE  /\ CallsTyped' /\ OthersKeep(c)
         /\ calls'[c].kind = calls[c].kind
         /\ calls'[c].subject = calls[c].subject
         /\ calls'[c].target = calls[c].target
         /\ calls'[c].person = IF binding[calls[c].subject].person = NoId THEN c
                               ELSE binding[calls[c].subject].person
         /\ calls'[c].at = IF calls[c].kind = "redeem" THEN "authorize"
                           ELSE IF binding[calls[c].subject].person = NoId THEN "person"
                           ELSE "grant"
<1> DEFINE b == binding[calls[c].subject].person
           p == IF b = NoId THEN c ELSE b
           a == IF calls[c].kind = "redeem" THEN "authorize"
                ELSE IF b = NoId THEN "person" ELSE "grant"
           k == [calls[c] EXCEPT !.person = p, !.at = a]
<1>1. b \in Ids
  BY DEF Bindings
<1>2. p \in Ids /\ a \in Steps
  <2> HIDE DEF b
  <2> QED BY <1>1 DEF Ids, Steps
<1>3. Become(c, k)
  BY DEF Identify
<1> HIDE DEF p, a
<1>4. k \in CallStates
  BY <1>2 DEF CallsTyped, CallStates
<1>5. k.kind = calls[c].kind /\ k.subject = calls[c].subject /\ k.target = calls[c].target
      /\ k.person = p /\ k.at = a
  BY DEF CallsTyped, CallStates
<1> HIDE DEF k
<1>6. CallsTyped' /\ calls'[c] = k /\ OthersKeep(c)
  BY <1>3, <1>4, BecomeMoves
<1> QED BY <1>5, <1>6 DEF p, a

-----------------------------------------------------------------------------
(* The inductive invariant.                                                *)

(* What call c inserts, it inserts at its own step; and a redemption that  *)
(* inserted a grant was about an invitation.                               *)
OwnIds(c) ==
  /\ (calls[c].kind = "redeem" /\ calls[c].at = "done" /\ Granted(c)) =>
       calls[c].target \in Calls
  /\ Granted(c) => calls[c].at \in {"bind", "claim", "withdraw", "done", "dead"}
  /\ invitations[c].state # "NONE" => calls[c].at = "done"
  /\ (\E s \in Subjects : binding[s].person = c) =>
       calls[c].at \in {"claim", "withdraw", "done", "dead"}

(* The person a request acts for: a new one, or the one its identity has.  *)
Acting(c) ==
  /\ calls[c].subject \in Subjects
  /\ calls[c].person \in Calls
  /\ calls[c].person # c => binding[calls[c].subject].person = calls[c].person

(* The grant a redemption may insert, and the one it inserted.             *)
Sponsored(c) ==
  LET i == invitations[calls[c].target]
      p == calls[c].parent
  IN /\ p \in Calls
     /\ Granted(p)
     /\ grants[p].actor = i.inviter
     /\ grants[p].tier \in IssuingTiers(i.tier)
     /\ calls[c].person # i.inviter
GrantMade(c) ==
  LET i == invitations[calls[c].target]
  IN /\ Granted(c)
     /\ grants[c].tier = i.tier
     /\ grants[c].grantor = i.inviter
     /\ grants[c].actor = calls[c].person
     /\ i.tier # "OWNER"
Usable(c) ==
  /\ binding[calls[c].subject].person = calls[c].person
  /\ invitations[calls[c].target].tier \in binding[calls[c].subject].scopes

BootstrapInv(c) ==
  calls[c].kind = "bootstrap" =>
    /\ calls[c].at \in {"system", "identify"} => calls[c].subject \in Subjects
    /\ calls[c].at \in {"person", "grant", "bind"} => Acting(c)
    /\ calls[c].at \in {"person", "bind"} => calls[c].person = c
    /\ calls[c].at = "bind" => Granted(c) /\ grants[c].actor = c

RedeemInv(c) ==
  calls[c].kind = "redeem" =>
    /\ calls[c].at \in {"identify", "authorize", "person", "grant", "bind", "claim",
                        "withdraw"} =>
         /\ calls[c].subject \in Subjects
         /\ calls[c].target \in Calls
         /\ invitations[calls[c].target].state # "NONE"
    /\ calls[c].at \in {"authorize", "person", "grant", "bind"} => Acting(c)
    /\ calls[c].at = "person" => calls[c].person = c
    /\ calls[c].at \in {"person", "grant"} => Sponsored(c)
    /\ calls[c].at \in {"bind", "claim", "withdraw"} => GrantMade(c)
    /\ calls[c].at \in {"claim", "withdraw"} => Usable(c) /\ calls[c].person # NoId

RevokeInv(c) ==
  calls[c].kind = "revoke" =>
    /\ calls[c].at \in {"tiers", "owners", "update"} =>
         calls[c].target \in Calls /\ Granted(calls[c].target)
    /\ calls[c].at = "owners" => \A t \in calls[c].tiers : Holds(calls[c].person, {t})
    /\ calls[c].at = "update" =>
         /\ Holds(calls[c].person, RevokingTiers(grants[calls[c].target].tier))
         /\ grants[calls[c].target].tier = "OWNER" =>
              calls[c].person # grants[calls[c].target].actor

CallInv(c) == OwnIds(c) /\ BootstrapInv(c) /\ RedeemInv(c) /\ RevokeInv(c)

IdentitiesApart ==
  \A s, t \in Subjects :
    (binding[s].person # NoId /\ binding[s].person = binding[t].person) => s = t

AcceptanceEnds ==
  \A i \in Calls : invitations[i].state = "ACCEPTED" =>
    calls[invitations[i].grant].at = "done"

AuthorityInv ==
  /\ TypeOK
  /\ \A c \in Calls : CallInv(c)
  /\ DelegationRooted
  /\ RevokersOutrank
  /\ IdentitiesApart
  /\ HoldersReachable
  /\ ScopesCoverGrants
  /\ InvitationGrantsOnce
  /\ AcceptanceEnds

-----------------------------------------------------------------------------
(* What other requests may do to the rows a request has read.              *)

GrantsGrow ==
  \A g \in Calls : Granted(g) =>
    /\ grants'[g].tier = grants[g].tier
    /\ grants'[g].actor = grants[g].actor
    /\ grants'[g].grantor = grants[g].grantor
    /\ grants'[g].parent = grants[g].parent
    /\ grants[g].revokedAt # NoId => /\ grants'[g].revokedAt = grants[g].revokedAt
                                    /\ grants'[g].revokedBy = grants[g].revokedBy
InvitationsGrow ==
  \A i \in Calls : invitations[i].state # "NONE" =>
    /\ invitations'[i].state # "NONE"
    /\ invitations'[i].inviter = invitations[i].inviter
    /\ invitations'[i].tier = invitations[i].tier
    /\ invitations[i].state \in {"ACCEPTED", "REVOKED"} =>
         /\ invitations'[i].state = invitations[i].state
         /\ invitations'[i].by = invitations[i].by
         /\ invitations'[i].grant = invitations[i].grant
BindingsGrow ==
  \A s \in Subjects : binding[s].person # NoId =>
    /\ binding'[s].person = binding[s].person
    /\ binding[s].scopes \subseteq binding'[s].scopes
RowsGrow == GrantsGrow /\ InvitationsGrow /\ BindingsGrow

(* A request inserts nothing under the ids of another.                     *)
OnlyOwn(c) ==
  \A d \in Calls \ {c} :
    /\ grants'[d].tier # "NONE" => Granted(d)
    /\ invitations'[d].state # "NONE" => invitations[d].state # "NONE"
    /\ \A s \in Subjects : binding'[s].person = d => binding[s].person = d

(* Whoever holds a grant of some tier goes on being its (former) holder.   *)
LEMMA HoldsStays ==
  ASSUME GrantsGrow, NEW p, NEW tiers \in SUBSET Tiers, Holds(p, tiers)
  PROVE  Holds(p, tiers)'
<1>1. PICK g \in Calls : grants[g].actor = p /\ grants[g].tier \in tiers
  BY DEF Holds
<1>2. Granted(g)
  BY <1>1 DEF Granted, Tiers
<1>3. grants'[g].actor = p /\ grants'[g].tier \in tiers
  BY <1>1, <1>2 DEF GrantsGrow
<1> QED BY <1>3 DEF Holds

(* A request that is not moving keeps its invariant while others write.    *)
LEMMA OthersInv ==
  ASSUME TypeOK, RowsGrow, NEW c \in Calls, OnlyOwn(c), NEW d \in Calls, d # c,
         calls'[d] = calls[d], CallInv(d)
  PROVE  CallInv(d)'
<1> USE DEF RowsGrow
<1>1. OwnIds(d)'
  BY DEF CallInv, OwnIds, OnlyOwn, Granted
<1>2. ASSUME Acting(d) PROVE Acting(d)'
  BY <1>2, AuthorityAssumption DEF Acting, BindingsGrow
<1>3. BootstrapInv(d)'
  <2>1. CASE calls[d].kind = "bootstrap" /\ calls[d].at = "bind"
    <3>1. calls[d].person = d /\ Granted(d) /\ grants[d].actor = d /\ Acting(d)
      BY <2>1 DEF CallInv, BootstrapInv
    <3>3. Granted(d)' /\ grants'[d].actor = d
      BY <3>1, <2>1 DEF GrantsGrow, Granted
    <3> QED BY <1>2, <3>1, <3>3, <2>1 DEF BootstrapInv
  <2>2. CASE ~(calls[d].kind = "bootstrap" /\ calls[d].at = "bind")
    BY <2>2, <1>2 DEF CallInv, BootstrapInv
  <2> QED BY <2>1, <2>2
<1>4. RedeemInv(d)'
  <2> SUFFICES ASSUME calls[d].kind = "redeem" PROVE RedeemInv(d)'
    BY DEF RedeemInv
  <2> DEFINE i == calls[d].target
  <2>1. ASSUME calls[d].at \in {"identify", "authorize", "person", "grant", "bind",
                                "claim", "withdraw"}
        PROVE  /\ calls[d].subject \in Subjects
               /\ i \in Calls /\ invitations[i].state # "NONE"
               /\ invitations'[i].state # "NONE"
               /\ invitations'[i].inviter = invitations[i].inviter
               /\ invitations'[i].tier = invitations[i].tier
    BY <2>1 DEF CallInv, RedeemInv, InvitationsGrow
  <2>2. ASSUME calls[d].at \in {"person", "grant"} PROVE Sponsored(d)'
    <3>1. Sponsored(d)
      BY <2>2 DEF CallInv, RedeemInv
    <3>2. grants'[calls[d].parent].tier = grants[calls[d].parent].tier
          /\ grants'[calls[d].parent].actor = grants[calls[d].parent].actor
      BY <3>1 DEF Sponsored, GrantsGrow
    <3> QED BY <2>1, <2>2, <3>1, <3>2 DEF Sponsored, Granted, IssuingTiers
  <2>3. ASSUME calls[d].at \in {"bind", "claim", "withdraw"} PROVE GrantMade(d)'
    <3>1. GrantMade(d)
      BY <2>3 DEF CallInv, RedeemInv
    <3> QED BY <2>1, <2>3, <3>1 DEF GrantMade, GrantsGrow, Granted
  <2>4. ASSUME calls[d].at \in {"claim", "withdraw"} PROVE Usable(d)'
    <3>1. Usable(d) /\ calls[d].subject \in Subjects /\ GrantMade(d)
      BY <2>1, <2>4 DEF CallInv, RedeemInv
    <3>2. invitations[i].tier \in binding[calls[d].subject].scopes
      BY <3>1 DEF Usable
    <3>3. binding[calls[d].subject].person # NoId
      <4>1. calls[d].person # NoId
        BY <3>1, <2>4 DEF CallInv, RedeemInv
      <4> QED BY <4>1, <3>1 DEF Usable
    <3> QED BY <2>1, <2>4, <3>1, <3>2, <3>3 DEF Usable, BindingsGrow
  <2>5. calls[d].at = "person" => calls[d].person = d
    BY DEF CallInv, RedeemInv
  <2>6. calls[d].at \in {"authorize", "person", "grant", "bind"} => Acting(d)
    BY DEF CallInv, RedeemInv
  <2>7. calls[d].at \in {"claim", "withdraw"} => calls[d].person # NoId
    BY DEF CallInv, RedeemInv
  <2> QED BY <1>2, <2>1, <2>2, <2>3, <2>4, <2>5, <2>6, <2>7 DEF RedeemInv
<1>5. RevokeInv(d)'
  <2> SUFFICES ASSUME calls[d].kind = "revoke" PROVE RevokeInv(d)'
    BY DEF RevokeInv
  <2> DEFINE g == calls[d].target
  <2>1. ASSUME calls[d].at \in {"tiers", "owners", "update"}
        PROVE  /\ g \in Calls /\ Granted(g) /\ Granted(g)'
               /\ grants'[g].tier = grants[g].tier
               /\ grants'[g].actor = grants[g].actor
    BY <2>1 DEF CallInv, RevokeInv, GrantsGrow, Granted
  <2>2. ASSUME calls[d].at = "owners", NEW t \in calls[d].tiers
        PROVE  Holds(calls[d].person, {t})'
    <3>1. Holds(calls[d].person, {t})
      BY <2>2 DEF CallInv, RevokeInv
    <3>2. {t} \in SUBSET Tiers
      BY <2>2 DEF TypeOK, CallStates
    <3>3. ASSUME NEW p, p = calls[d].person PROVE Holds(p, {t})'
      BY <3>1, <3>2, <3>3, HoldsStays
    <3>4. calls'[d].person = calls[d].person
      OBVIOUS
    <3> QED BY <3>3, <3>4
  <2>3. ASSUME calls[d].at = "update"
        PROVE  Holds(calls[d].person, RevokingTiers(grants[g].tier))'
    <3>1. Holds(calls[d].person, RevokingTiers(grants[g].tier))
      BY <2>3 DEF CallInv, RevokeInv
    <3>2. RevokingTiers(grants[g].tier) \in SUBSET Tiers
      BY DEF RevokingTiers, Tiers
    <3>3. RevokingTiers(grants[g].tier)' = RevokingTiers(grants[g].tier)
      BY <2>1, <2>3 DEF RevokingTiers
    <3> QED BY <3>1, <3>2, <3>3, HoldsStays, <2>3 DEF Holds
  <2>4. calls[d].at = "update" /\ grants[g].tier = "OWNER" =>
          calls[d].person # grants[g].actor
    BY DEF CallInv, RevokeInv
  <2> QED BY <2>1, <2>2, <2>3, <2>4 DEF RevokeInv
<1> QED BY <1>1, <1>3, <1>4, <1>5 DEF CallInv

-----------------------------------------------------------------------------
(* Steps by the rows they change.                                          *)

Reachable(c) ==
  grants[c].actor # NoId /\ \E s \in Subjects : binding[s].person = grants[c].actor

(* A step of a call that has not ended yet.                                *)
Moves(c) ==
  /\ CallsTyped' /\ OthersKeep(c)
  /\ CallInv(c)'
  /\ calls[c].at # "done"

(* A step that leaves grants, invitations and bindings alone.              *)
LEMMA QuietStep ==
  ASSUME AuthorityInv, NEW c \in Calls, Moves(c),
         UNCHANGED <<binding, grants, invitations>>,
         people' \in SUBSET (Calls \cup {System}), sessions' \in [Calls -> Sessions],
         calls'[c].at = "done" /\ Granted(c) => Reachable(c) /\ ~Active(c)
  PROVE  AuthorityInv' /\ RowsGrow
<1> USE DEF AuthorityInv, Moves
<1>1. RowsGrow
  BY DEF RowsGrow, GrantsGrow, InvitationsGrow, BindingsGrow
<1>2. OnlyOwn(c)
  BY DEF OnlyOwn, Granted
<1>3. \A d \in Calls : CallInv(d)'
  BY <1>1, <1>2, OthersInv DEF OthersKeep
<1>4. TypeOK'
  BY DEF TypeOK, CallsTyped
<1>5. DelegationRooted' /\ IdentitiesApart' /\ ScopesCoverGrants'
  BY DEF DelegationRooted, IdentitiesApart, ScopesCoverGrants, Granted
<1>6. RevokersOutrank'
  BY DEF RevokersOutrank, Granted, Holds
<1>7. HoldersReachable'
  <2> SUFFICES ASSUME NEW d \in Calls, calls'[d].at = "done", Granted(d)
               PROVE  Reachable(d)
    BY DEF HoldersReachable, Reachable, Granted, IdentitiesApart
  <2> QED BY DEF HoldersReachable, Reachable, OthersKeep
<1>8. InvitationGrantsOnce'
  <2>1. ASSUME NEW i \in Calls, invitations[i].state = "ACCEPTED"
        PROVE  invitations[i].grant \in Calls /\ calls'[invitations[i].grant] = calls[invitations[i].grant]
    BY <2>1 DEF InvitationGrantsOnce, AcceptanceEnds, OthersKeep, TypeOK, Invitations, Ids
  <2>2. ASSUME NEW d \in Calls, calls'[d].at = "done", Active(d)
        PROVE  calls'[d] = calls[d]
    BY <2>2 DEF OthersKeep, Active, Granted
  <2> QED BY <2>1, <2>2 DEF InvitationGrantsOnce, Active
<1>9. AcceptanceEnds'
  BY DEF AcceptanceEnds, OthersKeep, InvitationGrantsOnce, TypeOK, Invitations, Ids
<1> QED BY <1>1, <1>3, <1>4, <1>5, <1>6, <1>7, <1>8, <1>9

(* A step that inserts the call's own grant.                               *)
Rooted(row) ==
  IF row.tier = "OWNER"
  THEN row.grantor = System /\ row.parent = NoId
  ELSE /\ row.parent # NoId
       /\ row.grantor # row.actor
       /\ grants[row.parent].actor = row.grantor
       /\ grants[row.parent].tier \in IssuingTiers(row.tier)

LEMMA InsertStep ==
  ASSUME AuthorityInv, NEW c \in Calls, Moves(c), NEW row \in Grants,
         grants' = [grants EXCEPT ![c] = row],
         UNCHANGED <<people, binding, invitations, sessions>>,
         ~Granted(c), row.tier \in Tiers, row.revokedAt = NoId, Rooted(row),
         calls'[c].at = "done" =>
           /\ calls'[c].kind # "redeem"
           /\ row.actor # NoId
           /\ \E s \in Subjects : binding[s].person = row.actor
  PROVE  AuthorityInv' /\ RowsGrow
<1> USE DEF AuthorityInv, Moves
<1>1. grants'[c] = row /\ \A d \in Calls : d # c => grants'[d] = grants[d]
  BY DEF TypeOK
<1>2. RowsGrow
  BY <1>1 DEF RowsGrow, GrantsGrow, InvitationsGrow, BindingsGrow
<1>3. OnlyOwn(c)
  BY <1>1 DEF OnlyOwn, Granted
<1>4. \A d \in Calls : CallInv(d)'
  BY <1>2, <1>3, OthersInv DEF OthersKeep
<1>5. TypeOK'
  BY DEF TypeOK, CallsTyped
<1>6. DelegationRooted'
  <2> SUFFICES ASSUME NEW g \in Calls, Granted(g)'
               PROVE  IF grants'[g].tier = "OWNER"
                      THEN grants'[g].grantor = System /\ grants'[g].parent = NoId
                      ELSE /\ grants'[g].parent # NoId
                           /\ grants'[g].grantor # grants'[g].actor
                           /\ grants'[grants'[g].parent].actor = grants'[g].grantor
                           /\ grants'[grants'[g].parent].tier
                                \in IssuingTiers(grants'[g].tier)
    BY DEF DelegationRooted, IssuingTiers
  <2>1. ASSUME NEW p \in Calls, NEW t, grants[p].tier \in IssuingTiers(t) PROVE p # c
    BY <2>1 DEF IssuingTiers, Granted
  <2>2. CASE g = c
    <3>1. row.tier # "OWNER" => row.parent \in Calls
      BY DEF Rooted, Grants, Ids
    <3> QED BY <1>1, <2>1, <2>2, <3>1 DEF Rooted
  <2>3. CASE g # c
    <3>1. Granted(g) /\ grants'[g] = grants[g]
      BY <1>1, <2>3 DEF Granted
    <3>2. grants[g].tier # "OWNER" => grants[g].parent \in Calls
      BY <3>1 DEF DelegationRooted, TypeOK, Grants, Ids
    <3> QED BY <1>1, <2>1, <3>1, <3>2 DEF DelegationRooted
  <2> QED BY <2>2, <2>3
<1>7. RevokersOutrank'
  <2> SUFFICES ASSUME NEW g \in Calls, Granted(g)', grants'[g].revokedAt # NoId
               PROVE  /\ Holds(grants[g].revokedBy, RevokingTiers(grants[g].tier))'
                      /\ grants'[g].tier = "OWNER" => grants'[g].revokedBy # grants'[g].actor
    BY DEF RevokersOutrank
  <2>1. g # c /\ grants'[g] = grants[g] /\ Granted(g)
    BY <1>1 DEF Granted
  <2>2. ASSUME NEW p, NEW t, p = grants[g].revokedBy, t = RevokingTiers(grants[g].tier)
        PROVE  Holds(p, t)'
    <3>1. Holds(p, t) /\ t \in SUBSET Tiers
      BY <2>1, <2>2 DEF RevokersOutrank, RevokingTiers, Tiers
    <3> QED BY <1>2, <3>1, HoldsStays DEF RowsGrow
  <2>3. grants[g].tier = "OWNER" => grants[g].revokedBy # grants[g].actor
    BY <2>1 DEF RevokersOutrank
  <2>4. RevokingTiers(grants[g].tier)' = RevokingTiers(grants[g].tier)
    BY <2>1 DEF RevokingTiers
  <2> QED BY <2>1, <2>2, <2>3, <2>4
<1>8. IdentitiesApart' /\ ScopesCoverGrants'
  BY DEF IdentitiesApart, ScopesCoverGrants
<1>9. HoldersReachable'
  <2> SUFFICES ASSUME NEW d \in Calls, calls'[d].at = "done", Granted(d)'
               PROVE  Reachable(d)'
    BY <1>8 DEF HoldersReachable, Reachable, IdentitiesApart
  <2>1. CASE d = c
    BY <1>1, <2>1 DEF Reachable
  <2>2. CASE d # c
    BY <1>1, <2>2 DEF Reachable, HoldersReachable, OthersKeep, Granted
  <2> QED BY <2>1, <2>2
<1>10. InvitationGrantsOnce' /\ AcceptanceEnds'
  <2>1. ASSUME NEW i \in Calls, invitations[i].state = "ACCEPTED"
        PROVE  /\ invitations[i].grant \in Calls /\ invitations[i].grant # c
               /\ calls'[invitations[i].grant] = calls[invitations[i].grant]
    BY <2>1 DEF InvitationGrantsOnce, AcceptanceEnds, OthersKeep, TypeOK, Invitations, Ids
  <2>2. ASSUME NEW d \in Calls, calls'[d].kind = "redeem", calls'[d].at = "done", Active(d)'
        PROVE  calls'[d] = calls[d] /\ Active(d) /\ d # c
    BY <1>1, <2>2 DEF OthersKeep, Active
  <2>3. InvitationGrantsOnce'
    BY <1>1, <2>1, <2>2 DEF InvitationGrantsOnce
  <2> QED BY <2>1, <2>3 DEF AcceptanceEnds
<1> QED BY <1>2, <1>4, <1>5, <1>6, <1>7, <1>8, <1>9, <1>10

(* A step that binds the call's new person, or widens a binding.           *)
LEMMA BindStep ==
  ASSUME AuthorityInv, NEW c \in Calls, Moves(c), NEW s \in Subjects, NEW b \in Bindings,
         binding' = [binding EXCEPT ![s] = b],
         UNCHANGED <<people, grants, invitations, sessions>>,
         \/ /\ binding[s].person = NoId
            /\ b.person = c
            /\ \A t \in Subjects : binding[t].person # c
         \/ /\ binding[s].person # NoId
            /\ b.person = binding[s].person
            /\ binding[s].scopes \subseteq b.scopes,
         calls'[c].at = "done" => grants[c].actor = c /\ b.person = c /\ ~(calls'[c].kind = "redeem")
  PROVE  AuthorityInv' /\ RowsGrow
<1> USE DEF AuthorityInv, Moves
<1>1. binding'[s] = b /\ \A t \in Subjects : t # s => binding'[t] = binding[t]
  BY DEF TypeOK
<1>2. BindingsGrow
  BY <1>1 DEF BindingsGrow
<1>3. RowsGrow
  BY <1>2 DEF RowsGrow, GrantsGrow, InvitationsGrow
<1>4. OnlyOwn(c)
  BY <1>1 DEF OnlyOwn, Granted
<1>5. \A d \in Calls : CallInv(d)'
  BY <1>3, <1>4, OthersInv DEF OthersKeep
<1>6. TypeOK'
  BY DEF TypeOK, CallsTyped
<1>7. DelegationRooted' /\ RevokersOutrank'
  BY DEF DelegationRooted, RevokersOutrank, Granted, Holds
<1>8. IdentitiesApart'
  BY <1>1, AuthorityAssumption DEF IdentitiesApart
<1>9. ScopesCoverGrants'
  <2> SUFFICES ASSUME NEW i \in Calls, invitations[i].state = "ACCEPTED"
               PROVE  \E t \in Subjects : /\ binding'[t].person = invitations[i].by
                                          /\ invitations[i].tier \in binding'[t].scopes
    BY DEF ScopesCoverGrants
  <2>1. PICK t \in Subjects : /\ binding[t].person = invitations[i].by
                             /\ invitations[i].tier \in binding[t].scopes
    BY DEF ScopesCoverGrants
  <2>2. calls[invitations[i].grant].at = "done" /\ Granted(invitations[i].grant)
        /\ invitations[i].grant \in Calls
    BY DEF AcceptanceEnds, InvitationGrantsOnce, TypeOK, Invitations, Ids, Granted, Tiers
  <2>3. invitations[i].by # NoId
    BY <2>2 DEF HoldersReachable, InvitationGrantsOnce
  <2> QED BY <1>2, <2>1, <2>3 DEF BindingsGrow
<1>10. HoldersReachable'
  <2> SUFFICES ASSUME NEW d \in Calls, calls'[d].at = "done", Granted(d)
               PROVE  grants[d].actor # NoId
                      /\ \E t \in Subjects : binding'[t].person = grants[d].actor
    BY <1>8 DEF HoldersReachable, IdentitiesApart, Granted
  <2>1. CASE d = c
    BY <1>1, <2>1, AuthorityAssumption
  <2>2. CASE d # c
    <3>1. grants[d].actor # NoId /\ \E t \in Subjects : binding[t].person = grants[d].actor
      BY <2>2 DEF HoldersReachable, OthersKeep
    <3> QED BY <3>1, <1>2 DEF BindingsGrow
  <2> QED BY <2>1, <2>2
<1>11. InvitationGrantsOnce' /\ AcceptanceEnds'
  <2>1. ASSUME NEW i \in Calls, invitations[i].state = "ACCEPTED"
        PROVE  calls'[invitations[i].grant] = calls[invitations[i].grant]
    BY <2>1 DEF InvitationGrantsOnce, AcceptanceEnds, OthersKeep, TypeOK, Invitations, Ids
  <2>2. ASSUME NEW d \in Calls, calls'[d].kind = "redeem", calls'[d].at = "done"
        PROVE  calls'[d] = calls[d]
    BY <2>2 DEF OthersKeep
  <2> QED BY <2>1, <2>2 DEF InvitationGrantsOnce, AcceptanceEnds, Active
<1> QED BY <1>3, <1>5, <1>6, <1>7, <1>8, <1>9, <1>10, <1>11

(* What a redemption must bring along to turn an invitation ACCEPTED.      *)
Accepts(c, i, row) ==
  /\ row.grant = c
  /\ calls'[c].kind = "redeem" /\ calls'[c].at = "done" /\ calls'[c].target = i
  /\ Granted(c)
  /\ grants[c].tier = row.tier
  /\ grants[c].grantor = row.inviter
  /\ grants[c].actor = row.by
  /\ row.by # NoId
  /\ \E s \in Subjects : binding[s].person = row.by /\ row.tier \in binding[s].scopes

(* A step that creates, cancels or accepts an invitation.                  *)
LEMMA InvitationStep ==
  ASSUME AuthorityInv, NEW c \in Calls, Moves(c), NEW i \in Calls, NEW row \in Invitations,
         invitations' = [invitations EXCEPT ![i] = row],
         UNCHANGED <<people, binding, grants, sessions>>,
         row.state # "NONE",
         IF invitations[i].state = "NONE" THEN i = c
         ELSE /\ invitations[i].state = "INVITED"
              /\ row.inviter = invitations[i].inviter
              /\ row.tier = invitations[i].tier,
         row.state = "ACCEPTED" => Accepts(c, i, row),
         calls'[c].at = "done" /\ Granted(c) => row.state = "ACCEPTED"
  PROVE  AuthorityInv' /\ RowsGrow
<1> USE DEF AuthorityInv, Moves
<1>1. invitations'[i] = row /\ \A j \in Calls : j # i => invitations'[j] = invitations[j]
  BY DEF TypeOK
<1>2. InvitationsGrow
  BY <1>1 DEF InvitationsGrow
<1>3. RowsGrow
  BY <1>2 DEF RowsGrow, GrantsGrow, BindingsGrow
<1>4. OnlyOwn(c)
  BY <1>1 DEF OnlyOwn, Granted
<1>5. \A d \in Calls : CallInv(d)'
  BY <1>3, <1>4, OthersInv DEF OthersKeep
<1>6. TypeOK'
  BY DEF TypeOK, CallsTyped
<1>7. DelegationRooted' /\ RevokersOutrank' /\ IdentitiesApart'
  BY DEF DelegationRooted, RevokersOutrank, Granted, Holds, IdentitiesApart
<1>8. ScopesCoverGrants'
  BY <1>1 DEF ScopesCoverGrants, Accepts
<1>9. HoldersReachable'
  <2> SUFFICES ASSUME NEW d \in Calls, calls'[d].at = "done", Granted(d)
               PROVE  Reachable(d)
    BY DEF HoldersReachable, Reachable, Granted, IdentitiesApart
  <2> QED BY DEF HoldersReachable, Reachable, OthersKeep, Accepts
<1>10. ASSUME NEW j \in Calls, j # i, invitations[j].state = "ACCEPTED"
       PROVE  /\ invitations'[j] = invitations[j]
              /\ calls'[invitations[j].grant] = calls[invitations[j].grant]
  BY <1>1, <1>10 DEF InvitationGrantsOnce, AcceptanceEnds, OthersKeep, TypeOK, Invitations, Ids
<1>11. ASSUME NEW d \in Calls, d # c, calls[d].kind = "redeem", calls[d].at = "done", Active(d)
       PROVE  /\ invitations'[calls[d].target].state = "ACCEPTED"
              /\ invitations'[calls[d].target].grant = d
  BY <1>1, <1>11 DEF InvitationGrantsOnce
<1>12. InvitationGrantsOnce'
  <2>1. ASSUME NEW j \in Calls, invitations'[j].state = "ACCEPTED"
        PROVE  /\ invitations'[j].grant # NoId
               /\ calls'[invitations'[j].grant].kind = "redeem"
               /\ calls'[invitations'[j].grant].target = j
               /\ grants[invitations'[j].grant].tier = invitations'[j].tier
               /\ grants[invitations'[j].grant].grantor = invitations'[j].inviter
               /\ grants[invitations'[j].grant].actor = invitations'[j].by
    <3>1. CASE j = i
      BY <1>1, <2>1, <3>1, AuthorityAssumption DEF Accepts
    <3>2. CASE j # i
      BY <1>1, <1>10, <2>1, <3>2 DEF InvitationGrantsOnce
    <3> QED BY <3>1, <3>2
  <2>2. ASSUME NEW d \in Calls, calls'[d].kind = "redeem", calls'[d].at = "done", Active(d)
        PROVE  /\ invitations'[calls'[d].target].state = "ACCEPTED"
               /\ invitations'[calls'[d].target].grant = d
    <3>1. CASE d = c
      BY <1>1, <2>2, <3>1 DEF Accepts, Active, Granted
    <3>2. CASE d # c
      BY <1>11, <2>2, <3>2 DEF OthersKeep
    <3> QED BY <3>1, <3>2
  <2> QED BY <2>1, <2>2 DEF InvitationGrantsOnce, Active
<1>13. AcceptanceEnds'
  BY <1>1, <1>10 DEF AcceptanceEnds, Accepts
<1> QED BY <1>3, <1>5, <1>6, <1>7, <1>8, <1>9, <1>12, <1>13

(* A step that revokes a live grant.                                       *)
LEMMA RevocationStep ==
  ASSUME AuthorityInv, NEW c \in Calls, Moves(c), NEW g \in Calls, NEW p \in Ids,
         SetRevoked(g, c, p),
         UNCHANGED <<people, binding, invitations, sessions>>,
         Granted(g), Unrevoked(g),
         Holds(p, RevokingTiers(grants[g].tier)),
         grants[g].tier = "OWNER" => p # grants[g].actor,
         calls'[c].at = "done" /\ Granted(c) => g = c /\ Reachable(c)
  PROVE  AuthorityInv' /\ RowsGrow
<1> USE DEF AuthorityInv, Moves
<1>1. /\ \A h \in Calls : h # g => grants'[h] = grants[h]
      /\ grants'[g].tier = grants[g].tier /\ grants'[g].grantor = grants[g].grantor
      /\ grants'[g].actor = grants[g].actor /\ grants'[g].parent = grants[g].parent
      /\ grants'[g].revokedAt = c /\ grants'[g].revokedBy = p
      /\ grants' \in [Calls -> Grants]
  <2> DEFINE row == [grants[g] EXCEPT !.revokedAt = c, !.revokedBy = p]
  <2>1. grants[g] \in Grants /\ c \in Ids
    BY DEF TypeOK, Ids
  <2>2. row \in Grants
    BY <2>1 DEF Grants
  <2>3. /\ row.tier = grants[g].tier /\ row.grantor = grants[g].grantor
        /\ row.actor = grants[g].actor /\ row.parent = grants[g].parent
        /\ row.revokedAt = c /\ row.revokedBy = p
    BY <2>1 DEF Grants
  <2>4. grants' = [grants EXCEPT ![g] = row]
    BY DEF SetRevoked
  <2> HIDE DEF row
  <2> QED BY <2>2, <2>3, <2>4 DEF TypeOK
<1>2. \A h \in Calls :
        /\ grants'[h].tier = grants[h].tier /\ grants'[h].grantor = grants[h].grantor
        /\ grants'[h].actor = grants[h].actor /\ grants'[h].parent = grants[h].parent
  BY <1>1
<1>3. GrantsGrow
  BY <1>1 DEF GrantsGrow, Unrevoked
<1>4. RowsGrow
  BY <1>3 DEF RowsGrow, InvitationsGrow, BindingsGrow
<1>5. OnlyOwn(c)
  BY <1>2 DEF OnlyOwn, Granted
<1>6. \A d \in Calls : CallInv(d)'
  BY <1>4, <1>5, OthersInv DEF OthersKeep
<1>7. TypeOK'
  BY <1>1 DEF TypeOK, CallsTyped
<1>8. IdentitiesApart' /\ ScopesCoverGrants'
  BY DEF IdentitiesApart, ScopesCoverGrants
<1>9. DelegationRooted'
  <2>1. \A h \in Calls : Granted(h) /\ grants[h].tier # "OWNER" => grants[h].parent \in Calls
    BY DEF DelegationRooted, TypeOK, Grants, Ids
  <2>2. ASSUME NEW h \in Calls, Granted(h)'
        PROVE  IF grants'[h].tier = "OWNER"
               THEN grants'[h].grantor = System /\ grants'[h].parent = NoId
               ELSE /\ grants'[h].parent # NoId
                    /\ grants'[h].grantor # grants'[h].actor
                    /\ grants'[grants'[h].parent].actor = grants'[h].grantor
                    /\ grants'[grants'[h].parent].tier \in IssuingTiers(grants'[h].tier)
    <3>1. Granted(h)
      BY <1>2, <2>2 DEF Granted
    <3>2. grants'[h].parent = grants[h].parent
      BY <1>2
    <3>3. grants[h].tier # "OWNER" =>
            /\ grants'[grants[h].parent].actor = grants[grants[h].parent].actor
            /\ grants'[grants[h].parent].tier = grants[grants[h].parent].tier
      BY <1>2, <2>1, <3>1
    <3>4. /\ grants'[h].tier = grants[h].tier /\ grants'[h].grantor = grants[h].grantor
          /\ grants'[h].actor = grants[h].actor
      BY <1>2
    <3> QED BY <3>1, <3>2, <3>3, <3>4 DEF DelegationRooted
  <2> QED BY <2>2 DEF DelegationRooted, IssuingTiers
<1>10. RevokersOutrank'
  <2> SUFFICES ASSUME NEW h \in Calls, Granted(h)', grants'[h].revokedAt # NoId
               PROVE  /\ Holds(grants[h].revokedBy, RevokingTiers(grants[h].tier))'
                      /\ grants'[h].tier = "OWNER" => grants'[h].revokedBy # grants'[h].actor
    BY DEF RevokersOutrank
  <2>1. ASSUME NEW q, NEW t, q = grants'[h].revokedBy, t = RevokingTiers(grants[h].tier)
        PROVE  Holds(q, t)' /\ (grants[h].tier = "OWNER" => q # grants[h].actor)
    <3>1. Holds(q, t) /\ t \in SUBSET Tiers /\ (grants[h].tier = "OWNER" => q # grants[h].actor)
      <4>1. CASE h = g
        BY <1>1, <2>1, <4>1 DEF RevokingTiers, Tiers
      <4>2. CASE h # g
        BY <1>1, <2>1, <4>2 DEF RevokersOutrank, RevokingTiers, Tiers, Granted
      <4> QED BY <4>1, <4>2
    <3> QED BY <1>3, <3>1, HoldsStays
  <2>2. RevokingTiers(grants[h].tier)' = RevokingTiers(grants[h].tier)
    BY <1>2 DEF RevokingTiers
  <2> QED BY <1>2, <2>1, <2>2
<1>11. HoldersReachable'
  <2> SUFFICES ASSUME NEW d \in Calls, calls'[d].at = "done", Granted(d)
               PROVE  Reachable(d)
    <3>1. \A d \in Calls : (Granted(d)' <=> Granted(d)) /\ (Reachable(d)' <=> Reachable(d))
      BY <1>2 DEF Granted, Reachable
    <3> QED BY <3>1, <1>8 DEF HoldersReachable, Reachable, IdentitiesApart
  <2> QED BY DEF HoldersReachable, Reachable, OthersKeep
<1>12. InvitationGrantsOnce' /\ AcceptanceEnds'
  <2>1. ASSUME NEW i \in Calls, invitations[i].state = "ACCEPTED"
        PROVE  /\ calls'[invitations[i].grant] = calls[invitations[i].grant]
               /\ invitations[i].grant \in Calls
    BY <2>1 DEF InvitationGrantsOnce, AcceptanceEnds, OthersKeep, TypeOK, Invitations, Ids
  <2>2. ASSUME NEW d \in Calls, calls'[d].at = "done", Active(d)'
        PROVE  calls'[d] = calls[d] /\ Active(d)
    <3>1. d # g
      BY <1>1, <2>2, AuthorityAssumption DEF Active
    <3>2. Active(d)
      BY <1>1, <2>2, <3>1 DEF Active
    <3> QED BY <2>2, <3>1, <3>2 DEF OthersKeep, Active, Granted
  <2>3. InvitationGrantsOnce'
    <3>1. ASSUME NEW i \in Calls, invitations[i].state = "ACCEPTED"
          PROVE  LET h == invitations[i].grant IN
                   /\ h # NoId
                   /\ calls'[h].kind = "redeem" /\ calls'[h].target = i
                   /\ grants'[h].tier = invitations[i].tier
                   /\ grants'[h].grantor = invitations[i].inviter
                   /\ grants'[h].actor = invitations[i].by
      BY <1>2, <2>1, <3>1 DEF InvitationGrantsOnce
    <3>2. ASSUME NEW d \in Calls, calls'[d].kind = "redeem", calls'[d].at = "done", Active(d)'
          PROVE  /\ invitations[calls'[d].target].state = "ACCEPTED"
                 /\ invitations[calls'[d].target].grant = d
      BY <2>2, <3>2 DEF InvitationGrantsOnce
    <3> QED BY <3>1, <3>2 DEF InvitationGrantsOnce
  <2> QED BY <2>1, <2>3 DEF AcceptanceEnds
<1> QED BY <1>4, <1>6, <1>7, <1>8, <1>9, <1>10, <1>11, <1>12

-----------------------------------------------------------------------------
(* The actions.                                                            *)

(* Before its grant is stored a call owns no row at all.                   *)
LEMMA EarlyOwnsNothing ==
  ASSUME NEW c \in Calls, OwnIds(c),
         calls[c].at \notin {"bind", "claim", "withdraw", "done", "dead"}
  PROVE  /\ ~Granted(c)
         /\ invitations[c].state = "NONE"
         /\ \A s \in Subjects : binding[s].person # c
  BY DEF OwnIds

LEMMA EarlyMoves ==
  ASSUME NEW c \in Calls, OwnIds(c), UNCHANGED <<binding, grants, invitations>>,
         calls[c].at \notin {"bind", "claim", "withdraw", "done", "dead"}
  PROVE  OwnIds(c)'
  BY EarlyOwnsNothing DEF OwnIds, Granted

LEMMA BootstrapSteps ==
  ASSUME AuthorityInv, NEW c \in Calls, Bootstrap(c)
  PROVE  AuthorityInv' /\ RowsGrow
<1> USE DEF AuthorityInv
<1>0. CallsTyped /\ CallInv(c) /\ NoId \in Ids /\ NoId \in Subjects \cup {NoId}
  BY DEF TypeOK, CallsTyped, Ids
<1>1. CASE BootstrapCheck(c)
  <2>1. PICK s \in Subjects : Become(c, Call("bootstrap", "system", s, NoId, NoId))
    BY <1>1 DEF BootstrapCheck
  <2>2. /\ CallsTyped' /\ OthersKeep(c) /\ calls'[c].kind = "bootstrap"
        /\ calls'[c].at = "system" /\ calls'[c].subject \in Subjects
    <3>1. "bootstrap" \in Kinds /\ "system" \in Steps
      BY DEF Kinds, Steps
    <3> QED BY <1>0, <2>1, <3>1, StartMoves
  <2>3. OwnIds(c)'
    BY <1>0, <1>1, EarlyMoves DEF BootstrapCheck, Unstarted, CallInv
  <2>4. Moves(c)
    BY <1>1, <2>2, <2>3 DEF Moves, CallInv, BootstrapInv, RedeemInv, RevokeInv,
                            BootstrapCheck, Unstarted
  <2> QED BY <1>1, <2>2, <2>4, QuietStep DEF BootstrapCheck, TypeOK
<1>2. CASE BootstrapSystem(c)
  <2>1. /\ CallsTyped' /\ OthersKeep(c) /\ calls'[c].kind = "bootstrap"
        /\ calls'[c].at = "identify" /\ calls'[c].subject = calls[c].subject
    <3>1. "identify" \in Steps
      BY DEF Steps
    <3> QED BY <1>0, <1>2, <3>1, GoToMoves DEF BootstrapSystem, At
  <2>2. OwnIds(c)'
    BY <1>0, <1>2, EarlyMoves DEF BootstrapSystem, At, CallInv
  <2>3. calls[c].subject \in Subjects
    BY <1>0, <1>2 DEF CallInv, BootstrapInv, BootstrapSystem, At
  <2>4. Moves(c)
    BY <1>2, <2>1, <2>2, <2>3 DEF Moves, CallInv, BootstrapInv, RedeemInv, RevokeInv,
                                  BootstrapSystem, At
  <2> QED BY <1>2, <2>1, <2>4, QuietStep DEF BootstrapSystem, TypeOK
<1>3. CASE BootstrapIdentify(c)
  <2>1. calls[c].subject \in Subjects /\ calls[c].kind = "bootstrap" /\ calls[c].at = "identify"
    BY <1>0, <1>3 DEF CallInv, BootstrapInv, BootstrapIdentify, At
  <2> DEFINE b == binding[calls[c].subject].person
  <2>2. /\ CallsTyped' /\ OthersKeep(c) /\ calls'[c].kind = "bootstrap"
        /\ calls'[c].subject = calls[c].subject
        /\ calls'[c].person = IF b = NoId THEN c ELSE b
        /\ calls'[c].at = IF b = NoId THEN "person" ELSE "grant"
    BY <1>0, <1>3, <2>1, IdentifyMoves DEF BootstrapIdentify, TypeOK
  <2>3. OwnIds(c)'
    BY <1>0, <1>3, <2>1, EarlyMoves DEF BootstrapIdentify, Identify, CallInv
  <2>4. b \in Ids
    BY <2>1 DEF TypeOK, Bindings
  <2>5. UNCHANGED <<people, binding, grants, invitations, sessions>>
    BY <1>3 DEF BootstrapIdentify, Identify
  <2>6. Acting(c)'
    BY <2>1, <2>2, <2>4, <2>5 DEF Acting, Ids
  <2>7. Moves(c)
    BY <2>1, <2>2, <2>3, <2>6 DEF Moves, CallInv, BootstrapInv, RedeemInv, RevokeInv
  <2> QED BY <2>2, <2>5, <2>7, QuietStep DEF TypeOK
<1>4. CASE BootstrapPerson(c)
  <2>1. calls[c].kind = "bootstrap" /\ calls[c].at = "person" /\ Acting(c)
    BY <1>0, <1>4 DEF CallInv, BootstrapInv, BootstrapPerson, At
  <2>2. /\ CallsTyped' /\ OthersKeep(c) /\ calls'[c].kind = "bootstrap"
        /\ calls'[c].at = "grant" /\ calls'[c].subject = calls[c].subject
        /\ calls'[c].person = calls[c].person
    <3>1. "grant" \in Steps
      BY DEF Steps
    <3> QED BY <1>0, <1>4, <2>1, <3>1, GoToMoves DEF BootstrapPerson, AddPerson
  <2>3. UNCHANGED <<binding, grants, invitations, sessions>> /\ people' = people \cup {c}
    BY <1>4 DEF BootstrapPerson, AddPerson
  <2>4. OwnIds(c)' /\ Acting(c)'
    BY <1>0, <2>1, <2>2, <2>3, EarlyMoves DEF CallInv, Acting
  <2>5. Moves(c)
    BY <2>1, <2>2, <2>4 DEF Moves, CallInv, BootstrapInv, RedeemInv, RevokeInv
  <2> QED BY <2>2, <2>3, <2>5, QuietStep DEF TypeOK
<1>5. CASE BootstrapGrant(c)
  <2>1. calls[c].kind = "bootstrap" /\ calls[c].at = "grant" /\ Acting(c)
    BY <1>0, <1>5 DEF CallInv, BootstrapInv, BootstrapGrant, At
  <2> DEFINE row == [tier |-> "OWNER", grantor |-> System, actor |-> calls[c].person,
                     parent |-> NoId, revokedAt |-> NoId, revokedBy |-> NoId]
  <2>2. row \in Grants
    BY <2>1 DEF Grants, Acting, Tiers, People, Ids
  <2>3. grants' = [grants EXCEPT ![c] = row]
        /\ UNCHANGED <<people, binding, invitations, sessions>>
    BY <1>5 DEF BootstrapGrant, InsertGrant
  <2>4. row.tier = "OWNER" /\ row.actor = calls[c].person /\ row.revokedAt = NoId /\ Rooted(row)
    BY DEF Rooted
  <2>5. ~Granted(c) /\ invitations[c].state = "NONE"
        /\ \A s \in Subjects : binding[s].person # c
    BY <1>0, <2>1, EarlyOwnsNothing DEF CallInv
  <2> HIDE DEF row
  <2>6. Granted(c)' /\ grants'[c].actor = calls[c].person
    BY <2>2, <2>3, <2>4 DEF TypeOK, Granted
  <2>7. CASE calls[c].person = c
    <3>1. /\ CallsTyped' /\ OthersKeep(c) /\ calls'[c].kind = "bootstrap"
          /\ calls'[c].at = "bind" /\ calls'[c].subject = calls[c].subject
          /\ calls'[c].person = c
      <4>1. "bind" \in Steps
        BY DEF Steps
      <4> QED BY <1>0, <1>5, <2>1, <2>7, <4>1, GoToMoves DEF BootstrapGrant
    <3>2. OwnIds(c)' /\ Acting(c)'
      BY <2>1, <2>3, <2>5, <2>7, <3>1 DEF OwnIds, Acting
    <3>3. Moves(c)
      BY <2>1, <2>6, <2>7, <3>1, <3>2 DEF Moves, CallInv, BootstrapInv, RedeemInv, RevokeInv
    <3> QED BY <2>2, <2>3, <2>4, <2>5, <3>1, <3>3, InsertStep DEF Tiers
  <2>8. CASE calls[c].person # c
    <3>1. /\ CallsTyped' /\ OthersKeep(c) /\ calls'[c].kind = "bootstrap"
          /\ calls'[c].at = "done"
      BY <1>0, <1>5, <2>1, <2>8, EndMoves DEF BootstrapGrant
    <3>2. OwnIds(c)'
      BY <3>1 DEF OwnIds
    <3>3. Moves(c)
      BY <2>1, <3>1, <3>2 DEF Moves, CallInv, BootstrapInv, RedeemInv, RevokeInv
    <3>4. row.actor # NoId /\ \E s \in Subjects : binding[s].person = row.actor
      BY <2>1, <2>4, <2>8, AuthorityAssumption DEF Acting
    <3> QED BY <2>2, <2>3, <2>4, <2>5, <3>1, <3>3, <3>4, InsertStep DEF Tiers
  <2> QED BY <2>7, <2>8
<1>6. CASE BootstrapBind(c)
  <2>1. /\ calls[c].kind = "bootstrap" /\ calls[c].at = "bind" /\ Acting(c)
        /\ calls[c].person = c /\ grants[c].actor = c /\ Granted(c)
        /\ \A s \in Subjects : binding[s].person # c
    BY <1>0, <1>6 DEF CallInv, BootstrapInv, BootstrapBind, At, OwnIds
  <2> DEFINE b == [person |-> c, scopes |-> {}]
             s == calls[c].subject
  <2>2. b \in Bindings /\ b.person = c /\ s \in Subjects
    BY <2>1 DEF Bindings, Ids, Acting
  <2>3. /\ binding' = [binding EXCEPT ![s] = b] /\ binding[s].person = NoId
        /\ UNCHANGED <<people, grants, invitations, sessions>>
    BY <1>6, <2>1 DEF BootstrapBind, Bind, Unbound
  <2>4. /\ CallsTyped' /\ OthersKeep(c) /\ calls'[c].kind = "bootstrap"
        /\ calls'[c].at = "done"
    BY <1>0, <1>6, <2>1, EndMoves DEF BootstrapBind
  <2>5. OwnIds(c)'
    BY <2>4 DEF OwnIds
  <2>6. Moves(c)
    BY <2>1, <2>4, <2>5 DEF Moves, CallInv, BootstrapInv, RedeemInv, RevokeInv
  <2> HIDE DEF b, s
  <2> QED BY <2>1, <2>2, <2>3, <2>4, <2>6, BindStep
<1> QED BY <1>1, <1>2, <1>3, <1>4, <1>5, <1>6 DEF Bootstrap

(* A step before any row of the call's own exists.                         *)
LEMMA EarlyStep ==
  ASSUME AuthorityInv, NEW c \in Calls, CallsTyped', OthersKeep(c),
         calls[c].at \notin {"bind", "claim", "withdraw", "done", "dead"},
         UNCHANGED <<binding, grants, invitations>>,
         people' \in SUBSET (Calls \cup {System}), sessions' \in [Calls -> Sessions],
         BootstrapInv(c)', RedeemInv(c)', RevokeInv(c)'
  PROVE  AuthorityInv' /\ RowsGrow
<1>1. OwnIds(c) /\ ~Granted(c)
  BY EarlyOwnsNothing DEF AuthorityInv, CallInv
<1>2. OwnIds(c)'
  BY <1>1, EarlyMoves
<1>3. Moves(c)
  BY <1>2 DEF Moves, CallInv
<1> QED BY <1>1, <1>3, QuietStep

(* Only requests of three kinds have something to keep in mind.            *)
LEMMA OtherKinds ==
  ASSUME NEW c \in Calls, calls'[c].kind \notin {"bootstrap", "redeem", "revoke"}
  PROVE  BootstrapInv(c)' /\ RedeemInv(c)' /\ RevokeInv(c)'
  BY DEF BootstrapInv, RedeemInv, RevokeInv

LEMMA EndedKinds ==
  ASSUME NEW c \in Calls, calls'[c].at \in {"done", "dead"}
  PROVE  BootstrapInv(c)' /\ RedeemInv(c)' /\ RevokeInv(c)'
  BY DEF BootstrapInv, RedeemInv, RevokeInv

(* An elevated request starts as a bound person.                           *)
LEMMA ElevatedMoves ==
  ASSUME AuthorityInv, NEW c \in Calls, NEW kind \in Kinds, NEW step \in Steps,
         StartElevated(c, kind, step)
  PROVE  /\ CallsTyped' /\ OthersKeep(c)
         /\ calls[c].at = "idle"
         /\ calls'[c].kind = kind /\ calls'[c].at = step
         /\ UNCHANGED <<people, binding, grants, invitations, sessions>>
<1>1. PICK s \in Subjects :
        Become(c, Call(kind, step, s, binding[s].person, NoId))
  BY DEF StartElevated
<1>2. CallsTyped /\ binding[s].person \in Ids /\ NoId \in Ids
  BY DEF AuthorityInv, TypeOK, CallsTyped, Bindings, Ids
<1>3. CallsTyped' /\ OthersKeep(c) /\ calls'[c].kind = kind /\ calls'[c].at = step
  BY <1>1, <1>2, StartMoves
<1> QED BY <1>3 DEF StartElevated, Unstarted

LEMMA SessionSteps ==
  ASSUME AuthorityInv, NEW c \in Calls, Session(c)
  PROVE  AuthorityInv' /\ RowsGrow
<1>0. CallsTyped /\ TypeOK /\ NoId \in Ids /\ NoId \in Subjects \cup {NoId}
  BY DEF AuthorityInv, TypeOK, CallsTyped, Ids
<1>1. CASE MintCheck(c)
  <2>1. PICK s \in Subjects : Become(c, Call("mint", "insert", s, binding[s].person, NoId))
    BY <1>1 DEF MintCheck
  <2>2. binding[s].person \in Ids /\ "mint" \in Kinds /\ "insert" \in Steps
    BY <1>0 DEF TypeOK, Bindings, Kinds, Steps
  <2>3. CallsTyped' /\ OthersKeep(c) /\ calls'[c].kind = "mint"
    BY <1>0, <2>1, <2>2, StartMoves
  <2> QED BY <1>0, <1>1, <2>3, OtherKinds, EarlyStep DEF MintCheck, Unstarted, TypeOK
<1>2. CASE MintInsert(c)
  <2>1. CallsTyped' /\ OthersKeep(c) /\ calls'[c].at = "done"
    BY <1>0, <1>2, EndMoves DEF MintInsert
  <2>2. sessions' \in [Calls -> Sessions]
    BY <1>0, <1>2 DEF MintInsert, TypeOK, Sessions, CallStates
  <2> QED BY <1>0, <1>2, <2>1, <2>2, EndedKinds, EarlyStep DEF MintInsert, At, TypeOK
<1>3. CASE Lock(c)
  <2>1. CallsTyped' /\ OthersKeep(c) /\ calls'[c].at = "done"
    <3>1. "lock" \in Kinds /\ "done" \in Steps
      BY DEF Kinds, Steps
    <3> QED BY <1>0, <1>3, <3>1, StartMoves DEF Lock
  <2>2. sessions' \in [Calls -> Sessions]
    BY <1>0, <1>3 DEF Lock, TypeOK, Sessions
  <2> QED BY <1>0, <1>3, <2>1, <2>2, EndedKinds, EarlyStep DEF Lock, Unstarted, TypeOK
<1> QED BY <1>1, <1>2, <1>3 DEF Session

LEMMA InviteSteps ==
  ASSUME AuthorityInv, NEW c \in Calls, Invite(c)
  PROVE  AuthorityInv' /\ RowsGrow
<1>0. CallsTyped /\ TypeOK
  BY DEF AuthorityInv, TypeOK, CallsTyped
<1>1. CASE InviteStart(c)
  <2>1. "invite" \in Kinds /\ "authorize" \in Steps
    BY DEF Kinds, Steps
  <2>2. CallsTyped' /\ OthersKeep(c) /\ calls[c].at = "idle" /\ calls'[c].kind = "invite"
        /\ UNCHANGED <<people, binding, grants, invitations, sessions>>
    BY <1>1, <2>1, ElevatedMoves DEF InviteStart
  <2> QED BY <1>0, <2>2, OtherKinds, EarlyStep DEF TypeOK
<1>2. CASE InviteAuthorize(c)
  <2>1. calls[c].kind = "invite" /\ calls[c].at = "authorize"
        /\ UNCHANGED <<people, binding, grants, invitations, sessions>>
    BY <1>2 DEF InviteAuthorize, At
  <2>2. PICK tier \in Tiers :
          \/ Become(c, [calls[c] EXCEPT !.at = "insert", !.tiers = {tier}])
          \/ End(c, "done")
    BY <1>2 DEF InviteAuthorize
  <2>3. CallsTyped' /\ OthersKeep(c) /\ calls'[c].kind = "invite"
    <3>1. CASE Become(c, [calls[c] EXCEPT !.at = "insert", !.tiers = {tier}])
      <4> DEFINE k == [calls[c] EXCEPT !.at = "insert", !.tiers = {tier}]
      <4>1. k \in CallStates /\ k.kind = "invite"
        <5>1. calls[c] \in CallStates
          BY <1>0 DEF CallsTyped
        <5>2. "insert" \in Steps
          BY DEF Steps
        <5> QED BY <2>1, <5>1, <5>2 DEF CallStates
      <4> QED BY <1>0, <3>1, <4>1, BecomeMoves
    <3>2. CASE End(c, "done")
      BY <1>0, <2>1, <3>2, EndMoves
    <3> QED BY <2>2, <3>1, <3>2
  <2> QED BY <1>0, <2>1, <2>3, OtherKinds, EarlyStep DEF TypeOK
<1>3. CASE InviteInsert(c)
  <2>1. calls[c].at = "insert" /\ UNCHANGED <<people, binding, grants, sessions>>
    BY <1>3 DEF InviteInsert, At
  <2>2. PICK tier \in calls[c].tiers :
          invitations' = [invitations EXCEPT ![c] =
            [state |-> "INVITED", inviter |-> calls[c].person, tier |-> tier,
             expired |-> FALSE, by |-> NoId, grant |-> NoId]]
    BY <1>3 DEF InviteInsert
  <2> DEFINE row == [state |-> "INVITED", inviter |-> calls[c].person, tier |-> tier,
                     expired |-> FALSE, by |-> NoId, grant |-> NoId]
  <2>3. row \in Invitations /\ row.state = "INVITED"
    BY <1>0, <2>2 DEF Invitations, Ids, CallsTyped, CallStates
  <2>4. CallsTyped' /\ OthersKeep(c) /\ calls'[c].at = "done"
    BY <1>0, <1>3, EndMoves DEF InviteInsert
  <2>5. ~Granted(c) /\ invitations[c].state = "NONE"
    BY <2>1, EarlyOwnsNothing DEF AuthorityInv, CallInv
  <2>6. OwnIds(c)'
    BY <2>1, <2>4, <2>5 DEF OwnIds, Granted
  <2>7. Moves(c)
    BY <2>1, <2>4, <2>6, EndedKinds DEF Moves, CallInv
  <2>8. invitations' = [invitations EXCEPT ![c] = row]
    BY <2>2
  <2> HIDE DEF row
  <2> QED BY <2>1, <2>3, <2>4, <2>5, <2>7, <2>8, InvitationStep
<1> QED BY <1>1, <1>2, <1>3 DEF Invite

LEMMA CancelSteps ==
  ASSUME AuthorityInv, NEW c \in Calls, Cancel(c)
  PROVE  AuthorityInv' /\ RowsGrow
<1>0. CallsTyped /\ TypeOK
  BY DEF AuthorityInv, TypeOK, CallsTyped
<1>1. CASE CancelStart(c)
  <2>1. "cancel" \in Kinds /\ "target" \in Steps
    BY DEF Kinds, Steps
  <2>2. CallsTyped' /\ OthersKeep(c) /\ calls[c].at = "idle" /\ calls'[c].kind = "cancel"
        /\ UNCHANGED <<people, binding, grants, invitations, sessions>>
    BY <1>1, <2>1, ElevatedMoves DEF CancelStart
  <2> QED BY <1>0, <2>2, OtherKinds, EarlyStep DEF TypeOK
<1>2. CASE CancelTarget(c)
  <2>1. calls[c].kind = "cancel" /\ calls[c].at = "target"
        /\ UNCHANGED <<people, binding, grants, invitations, sessions>>
    BY <1>2 DEF CancelTarget, At
  <2>2. PICK i \in Calls : \E step \in {"update", "entitle"} :
          Become(c, [calls[c] EXCEPT !.target = i, !.at = step])
    BY <1>2 DEF CancelTarget
  <2>3. PICK step \in {"update", "entitle"} :
          Become(c, [calls[c] EXCEPT !.target = i, !.at = step])
    BY <2>2
  <2> DEFINE k == [calls[c] EXCEPT !.target = i, !.at = step]
  <2>4. k \in CallStates /\ k.kind = "cancel"
    <3>1. calls[c] \in CallStates
      BY <1>0 DEF CallsTyped
    <3>2. step \in Steps /\ i \in Ids
      BY DEF Steps, Ids
    <3> QED BY <2>1, <3>1, <3>2 DEF CallStates
  <2>5. CallsTyped' /\ OthersKeep(c) /\ calls'[c].kind = "cancel"
    BY <1>0, <2>3, <2>4, BecomeMoves
  <2> QED BY <1>0, <2>1, <2>5, OtherKinds, EarlyStep DEF TypeOK
<1>3. CASE CancelEntitle(c)
  <2>1. calls[c].kind = "cancel" /\ calls[c].at = "entitle"
        /\ UNCHANGED <<people, binding, grants, invitations, sessions>>
        /\ (GoTo(c, "update") \/ End(c, "done"))
    BY <1>3 DEF CancelEntitle, At
  <2>2. CallsTyped' /\ OthersKeep(c) /\ calls'[c].kind = "cancel"
    <3>1. "update" \in Steps
      BY DEF Steps
    <3> QED BY <1>0, <2>1, <3>1, GoToMoves, EndMoves
  <2> QED BY <1>0, <2>1, <2>2, OtherKinds, EarlyStep DEF TypeOK
<1>4. CASE CancelUpdate(c)
  <2> DEFINE i == calls[c].target
  <2>1. calls[c].at = "update" /\ calls[c].kind = "cancel"
        /\ UNCHANGED <<people, binding, grants, sessions>>
    BY <1>4 DEF CancelUpdate, At
  <2>2. CallsTyped' /\ OthersKeep(c) /\ calls'[c].at = "done"
    BY <1>0, <1>4, EndMoves DEF CancelUpdate
  <2>3. CASE i \in Calls /\ Cancellable(i)
    <3> DEFINE row == [invitations[i] EXCEPT !.state = "REVOKED", !.by = calls[c].person]
    <3>1. /\ row \in Invitations /\ row.state = "REVOKED"
          /\ row.inviter = invitations[i].inviter /\ row.tier = invitations[i].tier
      <4>1. invitations[i] \in Invitations /\ calls[c].person \in Ids
        BY <1>0, <2>3 DEF TypeOK, CallStates
      <4> HIDE DEF i
      <4> QED BY <4>1 DEF Invitations
    <3>2. invitations' = [invitations EXCEPT ![i] = row]
      BY <1>4, <2>3 DEF CancelUpdate
    <3>3. ~Granted(c)
      BY <2>1, EarlyOwnsNothing DEF AuthorityInv, CallInv
    <3>4. OwnIds(c)'
      BY <2>1, <2>2, <3>3 DEF OwnIds, Granted
    <3>5. Moves(c)
      BY <2>1, <2>2, <3>4, EndedKinds DEF Moves, CallInv
    <3> HIDE DEF row, i
    <3> QED BY <2>1, <2>2, <2>3, <3>1, <3>2, <3>3, <3>5, InvitationStep DEF Cancellable
  <2>4. CASE ~(i \in Calls /\ Cancellable(i))
    <3>1. invitations' = invitations
      BY <1>0, <1>4, <2>4 DEF CancelUpdate, TypeOK
    <3> QED BY <1>0, <2>1, <2>2, <3>1, EndedKinds, EarlyStep DEF TypeOK
  <2> QED BY <2>3, <2>4
<1> QED BY <1>1, <1>2, <1>3, <1>4 DEF Cancel

(* A call that ends before its row is claimed, by a conflict or by dying.  *)
LEMMA DeathStep ==
  ASSUME AuthorityInv, NEW c \in Calls, calls[c].at \notin {"done", "dead"},
         End(c, "dead"), UNCHANGED <<people, binding, grants, invitations, sessions>>
  PROVE  AuthorityInv' /\ RowsGrow
<1>1. CallsTyped /\ TypeOK /\ OwnIds(c)
  BY DEF AuthorityInv, TypeOK, CallsTyped, CallInv
<1>2. CallsTyped' /\ OthersKeep(c) /\ calls'[c].at = "dead"
  BY <1>1, EndMoves
<1>3. OwnIds(c)'
  BY <1>1, <1>2 DEF OwnIds
<1>4. Moves(c)
  BY <1>2, <1>3, EndedKinds DEF Moves, CallInv
<1> QED BY <1>1, <1>2, <1>4, QuietStep DEF TypeOK

LEMMA RevokeSteps ==
  ASSUME AuthorityInv, NEW c \in Calls, Revoke(c)
  PROVE  AuthorityInv' /\ RowsGrow
<1>0. CallsTyped /\ TypeOK /\ RevokeInv(c)
  BY DEF AuthorityInv, TypeOK, CallsTyped, CallInv
<1>1. CASE RevokeStart(c)
  <2>1. "revoke" \in Kinds /\ "target" \in Steps
    BY DEF Kinds, Steps
  <2>2. CallsTyped' /\ OthersKeep(c) /\ calls[c].at = "idle" /\ calls'[c].kind = "revoke"
        /\ calls'[c].at = "target"
        /\ UNCHANGED <<people, binding, grants, invitations, sessions>>
    BY <1>1, <2>1, ElevatedMoves DEF RevokeStart
  <2>3. BootstrapInv(c)' /\ RedeemInv(c)' /\ RevokeInv(c)'
    BY <2>2 DEF BootstrapInv, RedeemInv, RevokeInv
  <2> QED BY <1>0, <2>2, <2>3, EarlyStep DEF TypeOK
<1>2. CASE RevokeTarget(c)
  <2>1. calls[c].kind = "revoke" /\ calls[c].at = "target"
        /\ UNCHANGED <<people, binding, grants, invitations, sessions>>
    BY <1>2 DEF RevokeTarget, At
  <2>2. PICK g \in Calls : /\ Active(g)
                           /\ Become(c, [calls[c] EXCEPT !.at = "tiers", !.target = g])
    BY <1>2 DEF RevokeTarget
  <2> DEFINE k == [calls[c] EXCEPT !.at = "tiers", !.target = g]
  <2>3. k \in CallStates /\ k.kind = "revoke" /\ k.at = "tiers" /\ k.target = g
    <3>1. calls[c] \in CallStates
      BY <1>0 DEF CallsTyped
    <3>2. "tiers" \in Steps /\ g \in Ids
      BY DEF Steps, Ids
    <3> QED BY <2>1, <3>1, <3>2 DEF CallStates
  <2>4. Become(c, k)
    BY <2>2
  <2> HIDE DEF k
  <2>5. CallsTyped' /\ OthersKeep(c) /\ calls'[c] = k
    BY <1>0, <2>3, <2>4, BecomeMoves
  <2>6. BootstrapInv(c)' /\ RedeemInv(c)' /\ RevokeInv(c)'
    BY <2>1, <2>2, <2>3, <2>5 DEF BootstrapInv, RedeemInv, RevokeInv, Active, Granted
  <2> QED BY <1>0, <2>1, <2>5, <2>6, EarlyStep DEF TypeOK
<1>3. CASE RevokeTiers(c)
  <2>1. calls[c].kind = "revoke" /\ calls[c].at = "tiers"
        /\ UNCHANGED <<people, binding, grants, invitations, sessions>>
        /\ calls[c].target \in Calls /\ Granted(calls[c].target)
    BY <1>0, <1>3 DEF RevokeTiers, At, RevokeInv
  <2> DEFINE ts == ActiveTiers(calls[c].person)
             k == [calls[c] EXCEPT !.at = "owners", !.tiers = ts]
  <2>2. ts \in SUBSET Tiers /\ \A t \in ts : Holds(calls[c].person, {t})
    BY <1>0 DEF TypeOK, Grants, ActiveTiers, ActiveGrantsOf, Active, Holds
  <2>3. Become(c, k)
    BY <1>3 DEF RevokeTiers
  <2> HIDE DEF ts
  <2>4. /\ k \in CallStates /\ k.kind = "revoke" /\ k.at = "owners" /\ k.tiers = ts
        /\ k.person = calls[c].person /\ k.target = calls[c].target
    BY <1>0, <2>1, <2>2 DEF CallsTyped, CallStates, Steps
  <2> HIDE DEF k
  <2>5. CallsTyped' /\ OthersKeep(c) /\ calls'[c] = k
    BY <1>0, <2>3, <2>4, BecomeMoves
  <2>6. BootstrapInv(c)' /\ RedeemInv(c)'
    BY <2>4, <2>5 DEF BootstrapInv, RedeemInv
  <2>7. RevokeInv(c)'
    BY <2>1, <2>2, <2>4, <2>5 DEF RevokeInv, Holds, Granted
  <2> QED BY <1>0, <2>1, <2>5, <2>6, <2>7, EarlyStep DEF TypeOK
<1>4. CASE RevokeOwners(c)
  <2> DEFINE g == calls[c].target
  <2>1. calls[c].kind = "revoke" /\ calls[c].at = "owners"
        /\ UNCHANGED <<people, binding, grants, invitations, sessions>>
        /\ g \in Calls /\ Granted(g)
        /\ \A t \in calls[c].tiers : Holds(calls[c].person, {t})
    BY <1>0, <1>4 DEF RevokeOwners, At, RevokeInv
  <2>2. CASE Revocable(calls[c].person, calls[c].tiers, g)
    <3>1. /\ CallsTyped' /\ OthersKeep(c) /\ calls'[c].kind = "revoke"
          /\ calls'[c].at = "update" /\ calls'[c].person = calls[c].person
          /\ calls'[c].target = g
      <4>1. "update" \in Steps
        BY DEF Steps
      <4> QED BY <1>0, <1>4, <2>1, <2>2, <4>1, GoToMoves DEF RevokeOwners
    <3>2. PICK t \in calls[c].tiers : t \in RevokingTiers(grants[g].tier)
      BY <2>2 DEF Revocable
    <3>3. Holds(calls[c].person, RevokingTiers(grants[g].tier))
      BY <2>1, <3>2 DEF Holds
    <3>4. grants[g].tier = "OWNER" => calls[c].person # grants[g].actor
      BY <2>2 DEF Revocable
    <3> HIDE DEF g
    <3>5. BootstrapInv(c)' /\ RedeemInv(c)'
      BY <3>1 DEF BootstrapInv, RedeemInv
    <3>6. RevokeInv(c)'
      BY <2>1, <3>1, <3>3, <3>4 DEF RevokeInv, Holds, Granted, RevokingTiers
    <3> QED BY <1>0, <2>1, <3>1, <3>5, <3>6, EarlyStep DEF TypeOK
  <2>3. CASE ~Revocable(calls[c].person, calls[c].tiers, g)
    <3>1. CallsTyped' /\ OthersKeep(c) /\ calls'[c].at = "done"
      BY <1>0, <1>4, <2>3, EndMoves DEF RevokeOwners
    <3> QED BY <1>0, <2>1, <3>1, EndedKinds, EarlyStep DEF TypeOK
  <2> QED BY <2>2, <2>3
<1>5. CASE RevokeUpdate(c)
  <2> DEFINE g == calls[c].target
             p == calls[c].person
  <2>1. calls[c].kind = "revoke" /\ calls[c].at = "update"
        /\ UNCHANGED <<people, binding, invitations, sessions>>
        /\ g \in Calls /\ Granted(g)
        /\ Holds(p, RevokingTiers(grants[g].tier))
        /\ (grants[g].tier = "OWNER" => p # grants[g].actor)
    BY <1>0, <1>5 DEF RevokeUpdate, At, RevokeInv
  <2>2. CallsTyped' /\ OthersKeep(c) /\ calls'[c].at = "done"
    BY <1>0, <1>5, EndMoves DEF RevokeUpdate
  <2>3. SetRevoked(g, c, p) /\ p \in Ids
    BY <1>0, <1>5 DEF RevokeUpdate, CallsTyped, CallStates
  <2>4. ~Granted(c)
    BY <2>1, EarlyOwnsNothing DEF AuthorityInv, CallInv
  <2>5. OwnIds(c)'
    <3>1. invitations[c].state = "NONE"
      BY <2>1, EarlyOwnsNothing DEF AuthorityInv, CallInv
    <3>2. grants'[c].tier = grants[c].tier
      <4>1. grants[g] \in Grants
        BY <1>0, <2>1 DEF TypeOK
      <4> HIDE DEF g, p
      <4> QED BY <1>0, <2>1, <2>3, <4>1 DEF SetRevoked, TypeOK, Grants
    <3> QED BY <2>1, <2>2, <2>4, <3>1, <3>2 DEF OwnIds, Granted
  <2>6. Moves(c)
    BY <2>1, <2>2, <2>5, EndedKinds DEF Moves, CallInv
  <2> HIDE DEF g, p
  <2>7. CASE Unrevoked(g)
    BY <2>1, <2>2, <2>3, <2>4, <2>6, <2>7, RevocationStep
  <2>8. CASE ~Unrevoked(g)
    <3>1. grants' = grants
      BY <2>3, <2>8 DEF SetRevoked
    <3> QED BY <1>0, <2>1, <2>2, <3>1, EndedKinds, EarlyStep DEF TypeOK
  <2> QED BY <2>7, <2>8
<1> QED BY <1>1, <1>2, <1>3, <1>4, <1>5 DEF Revoke

LEMMA EarlyEnds ==
  ASSUME AuthorityInv, NEW c \in Calls, BindConflict(c) \/ Die(c)
  PROVE  AuthorityInv' /\ RowsGrow
  BY DeathStep DEF BindConflict, Die

(* The clock changes one flag, which no conjunct of the invariant reads.   *)
LEMMA TimeSteps ==
  ASSUME AuthorityInv, NEW c \in Calls, Time(c)
  PROVE  AuthorityInv' /\ RowsGrow
<1> USE DEF AuthorityInv
<1>1. /\ UNCHANGED <<people, binding, grants, calls>>
      /\ invitations' \in [Calls -> Invitations]
      /\ sessions' \in [Calls -> Sessions]
      /\ \A i \in Calls : /\ invitations'[i].state = invitations[i].state
                           /\ invitations'[i].inviter = invitations[i].inviter
                           /\ invitations'[i].tier = invitations[i].tier
                           /\ invitations'[i].by = invitations[i].by
                           /\ invitations'[i].grant = invitations[i].grant
  <2>1. CASE InvitationExpires(c)
    <3> DEFINE row == [invitations[c] EXCEPT !.expired = TRUE]
    <3>1. invitations[c] \in Invitations
      BY DEF TypeOK
    <3>2. /\ row \in Invitations /\ row.state = invitations[c].state
          /\ row.inviter = invitations[c].inviter /\ row.tier = invitations[c].tier
          /\ row.by = invitations[c].by /\ row.grant = invitations[c].grant
      BY <3>1 DEF Invitations
    <3>3. invitations' = [invitations EXCEPT ![c] = row]
      BY <2>1 DEF InvitationExpires
    <3> HIDE DEF row
    <3> QED BY <2>1, <3>2, <3>3 DEF InvitationExpires, TypeOK
  <2>2. CASE SessionExpires(c)
    <3>1. sessions' \in [Calls -> Sessions]
      <4>1. sessions \in [Calls -> Sessions] /\ sessions[c] \in Sessions
        BY DEF TypeOK
      <4>2. [sessions[c] EXCEPT !.open = FALSE] \in Sessions
        BY <4>1 DEF Sessions
      <4> QED BY <2>2, <4>1, <4>2 DEF SessionExpires
    <3> QED BY <2>2, <3>1 DEF SessionExpires, TypeOK
  <2> QED BY <2>1, <2>2 DEF Time
<1>2. RowsGrow
  BY <1>1 DEF RowsGrow, GrantsGrow, InvitationsGrow, BindingsGrow
<1>3. TypeOK'
  BY <1>1 DEF TypeOK
<1>4. ASSUME NEW d \in Calls PROVE CallInv(d)'
  <2>1. CallInv(d)
    OBVIOUS
  <2>2. OwnIds(d)' /\ BootstrapInv(d)'
    BY <1>1, <2>1 DEF CallInv, OwnIds, BootstrapInv, Acting, Granted
  <2>3. RedeemInv(d)'
    <3>1. Acting(d)' <=> Acting(d)
      BY <1>1 DEF Acting
    <3>2. CASE calls[d].target \in Calls
      <4>1. Sponsored(d)' <=> Sponsored(d)
        BY <1>1, <3>2 DEF Sponsored, Granted, IssuingTiers
      <4>2. (GrantMade(d)' <=> GrantMade(d)) /\ (Usable(d)' <=> Usable(d))
        BY <1>1, <3>2 DEF GrantMade, Usable, Granted
      <4> QED BY <1>1, <2>1, <3>1, <3>2, <4>1, <4>2 DEF CallInv, RedeemInv
    <3>3. CASE calls[d].target \notin Calls
      BY <1>1, <2>1, <3>1, <3>3 DEF CallInv, RedeemInv
    <3> QED BY <3>2, <3>3
  <2>4. RevokeInv(d)'
    BY <1>1, <2>1 DEF CallInv, RevokeInv, Granted, Holds, RevokingTiers
  <2> QED BY <2>2, <2>3, <2>4 DEF CallInv
<1>5. DelegationRooted' /\ RevokersOutrank' /\ IdentitiesApart' /\ HoldersReachable'
  BY <1>1 DEF DelegationRooted, RevokersOutrank, IdentitiesApart, HoldersReachable,
              Granted, Holds
<1>6. ScopesCoverGrants' /\ AcceptanceEnds'
  BY <1>1 DEF ScopesCoverGrants, AcceptanceEnds
<1>7. InvitationGrantsOnce'
  <2>1. \A d \in Calls :
          (calls[d].kind = "redeem" /\ calls[d].at = "done" /\ Active(d)) =>
            calls[d].target \in Calls
    BY DEF CallInv, OwnIds, Active, Granted
  <2> QED BY <1>1, <2>1 DEF InvitationGrantsOnce, Active
<1> QED BY <1>2, <1>3, <1>4, <1>5, <1>6, <1>7

(* An issuable tier is outranked by every grant that may be its parent.    *)
LEMMA ParentOutranks ==
  ASSUME TypeOK, NEW inviter, NEW actor, NEW tier \in Tiers,
         Issuable(inviter, actor, tier), NEW parent \in Parents(inviter)
  PROVE  /\ parent \in Calls /\ Granted(parent)
         /\ grants[parent].actor = inviter
         /\ grants[parent].tier \in IssuingTiers(tier)
         /\ actor # inviter
<1>1. PICK g \in ActiveGrantsOf(inviter) : grants[g].tier \in IssuingTiers(tier)
  BY DEF Issuable, ActiveTiers
<1>2. CASE ActiveGrantsOf(inviter) \cap ActiveOwners # {}
  BY <1>1, <1>2 DEF Parents, ActiveOwners, ActiveGrantsOf, Active, Granted, IssuingTiers,
                    Issuable
<1>3. CASE ActiveGrantsOf(inviter) \cap ActiveOwners = {}
  <2>1. grants[g].tier # "OWNER"
    BY <1>1, <1>3 DEF ActiveOwners, ActiveGrantsOf
  <2>2. grants[g].tier = "ADMIN"
    BY <1>1, <2>1 DEF IssuingTiers
  <2>3. "ADMIN" \in IssuingTiers(tier)
    BY <1>1, <2>2
  <2>4. parent \in ActiveGrantsOf(inviter) /\ grants[parent].tier = "ADMIN"
    BY <1>3 DEF Parents
  <2> QED BY <2>3, <2>4 DEF ActiveGrantsOf, Active, Granted, Issuable
<1> QED BY <1>2, <1>3

LEMMA RedeemSteps ==
  ASSUME AuthorityInv, NEW c \in Calls, Redeem(c)
  PROVE  AuthorityInv' /\ RowsGrow
<1>0. CallsTyped /\ TypeOK /\ RedeemInv(c) /\ OwnIds(c) /\ NoId \in Ids
  BY DEF AuthorityInv, TypeOK, CallsTyped, CallInv, Ids
<1> DEFINE i == calls[c].target
<1>1. CASE RedeemStart(c)
  <2>1. PICK s \in Subjects, j \in Calls :
          /\ invitations[j].state = "INVITED"
          /\ Become(c, Call("redeem", "identify", s, NoId, j))
    BY <1>1 DEF RedeemStart
  <2>2. /\ CallsTyped' /\ OthersKeep(c) /\ calls'[c].kind = "redeem"
        /\ calls'[c].at = "identify" /\ calls'[c].subject = s /\ calls'[c].target = j
    <3>1. "redeem" \in Kinds /\ "identify" \in Steps /\ j \in Ids
      BY DEF Kinds, Steps, Ids
    <3> QED BY <1>0, <2>1, <3>1, StartMoves
  <2>3. calls[c].at = "idle" /\ UNCHANGED <<people, binding, grants, invitations, sessions>>
    BY <1>1 DEF RedeemStart, Unstarted
  <2>4. BootstrapInv(c)' /\ RedeemInv(c)' /\ RevokeInv(c)'
    BY <2>1, <2>2, <2>3 DEF BootstrapInv, RedeemInv, RevokeInv
  <2> QED BY <1>0, <2>2, <2>3, <2>4, EarlyStep DEF TypeOK
<1>2. CASE RedeemIdentify(c)
  <2>1. /\ calls[c].kind = "redeem" /\ calls[c].at = "identify"
        /\ calls[c].subject \in Subjects /\ i \in Calls /\ invitations[i].state # "NONE"
        /\ UNCHANGED <<people, binding, grants, invitations, sessions>>
    BY <1>0, <1>2 DEF RedeemIdentify, At, RedeemInv, Identify
  <2> DEFINE b == binding[calls[c].subject].person
  <2>2. /\ CallsTyped' /\ OthersKeep(c) /\ calls'[c].kind = "redeem"
        /\ calls'[c].subject = calls[c].subject /\ calls'[c].target = i
        /\ calls'[c].person = (IF b = NoId THEN c ELSE b)
        /\ calls'[c].at = "authorize"
    BY <1>0, <1>2, <2>1, IdentifyMoves DEF RedeemIdentify, TypeOK
  <2>3. b \in Ids
    BY <1>0, <2>1 DEF TypeOK, Bindings
  <2>4. Acting(c)'
    BY <2>1, <2>2, <2>3 DEF Acting, Ids
  <2>5. BootstrapInv(c)' /\ RedeemInv(c)' /\ RevokeInv(c)'
    BY <2>1, <2>2, <2>4 DEF BootstrapInv, RedeemInv, RevokeInv
  <2> QED BY <1>0, <2>1, <2>2, <2>5, EarlyStep DEF TypeOK
<1>3. CASE RedeemAuthorize(c)
  <2>1. /\ calls[c].kind = "redeem" /\ calls[c].at = "authorize" /\ Acting(c)
        /\ calls[c].subject \in Subjects /\ i \in Calls /\ invitations[i].state # "NONE"
        /\ UNCHANGED <<people, binding, grants, invitations, sessions>>
    BY <1>0, <1>3 DEF RedeemAuthorize, At, RedeemInv
  <2>2. CASE ~Issuable(invitations[i].inviter, calls[c].person, invitations[i].tier)
    <3>1. CallsTyped' /\ OthersKeep(c) /\ calls'[c].at = "done"
      BY <1>0, <1>3, <2>2, EndMoves DEF RedeemAuthorize
    <3> QED BY <1>0, <2>1, <3>1, EndedKinds, EarlyStep DEF TypeOK
  <2>3. CASE Issuable(invitations[i].inviter, calls[c].person, invitations[i].tier)
    <3> DEFINE a == IF calls[c].person = c THEN "person" ELSE "grant"
               late == invitations[i].expired
    <3>1. PICK parent \in Parents(invitations[i].inviter) :
            Become(c, [calls[c] EXCEPT !.at = a, !.parent = parent, !.late = late])
      BY <1>3, <2>3 DEF RedeemAuthorize
    <3>2. invitations[i].tier \in Tiers /\ late \in BOOLEAN
      BY <1>0, <2>1 DEF TypeOK, Invitations
    <3>3. /\ parent \in Calls /\ Granted(parent)
          /\ grants[parent].actor = invitations[i].inviter
          /\ grants[parent].tier \in IssuingTiers(invitations[i].tier)
          /\ calls[c].person # invitations[i].inviter
      BY <1>0, <2>3, <3>2, ParentOutranks
    <3> DEFINE k == [calls[c] EXCEPT !.at = a, !.parent = parent, !.late = late]
    <3>4. a \in Steps /\ (a = "person" => calls[c].person = c) /\ a \in {"person", "grant"}
      BY DEF Steps
    <3> HIDE DEF a, late
    <3>5. /\ k \in CallStates /\ k.kind = "redeem" /\ k.at = a /\ k.parent = parent
          /\ k.subject = calls[c].subject /\ k.person = calls[c].person
          /\ k.target = calls[c].target
      BY <1>0, <2>1, <3>2, <3>3, <3>4 DEF CallsTyped, CallStates, Ids
    <3>6. CallsTyped' /\ OthersKeep(c) /\ calls'[c] = k
      <4>1. Become(c, k)
        BY <3>1
      <4> HIDE DEF k
      <4> QED BY <1>0, <3>5, <4>1, BecomeMoves
    <3> HIDE DEF k
    <3>7. Acting(c)' /\ Sponsored(c)'
      BY <2>1, <3>3, <3>5, <3>6 DEF Acting, Sponsored, Granted, IssuingTiers
    <3>8. BootstrapInv(c)' /\ RedeemInv(c)' /\ RevokeInv(c)'
      BY <2>1, <3>4, <3>5, <3>6, <3>7 DEF BootstrapInv, RedeemInv, RevokeInv
    <3> QED BY <1>0, <2>1, <3>6, <3>8, EarlyStep DEF TypeOK
  <2> QED BY <2>2, <2>3
<1>4. CASE RedeemPerson(c)
  <2>1. /\ calls[c].kind = "redeem" /\ calls[c].at = "person" /\ Acting(c) /\ Sponsored(c)
        /\ calls[c].subject \in Subjects /\ i \in Calls /\ invitations[i].state # "NONE"
        /\ UNCHANGED <<binding, grants, invitations, sessions>>
        /\ people' = people \cup {c}
    BY <1>0, <1>4 DEF RedeemPerson, AddPerson, At, RedeemInv
  <2>2. /\ CallsTyped' /\ OthersKeep(c) /\ calls'[c].kind = "redeem"
        /\ calls'[c].at = "grant" /\ calls'[c].subject = calls[c].subject
        /\ calls'[c].person = calls[c].person /\ calls'[c].target = i
        /\ calls'[c].parent = calls[c].parent
    <3>1. "grant" \in Steps
      BY DEF Steps
    <3> QED BY <1>0, <1>4, <2>1, <3>1, GoToMoves DEF RedeemPerson, AddPerson
  <2>3. Acting(c)' /\ Sponsored(c)'
    BY <2>1, <2>2 DEF Acting, Sponsored, Granted, IssuingTiers
  <2>4. BootstrapInv(c)' /\ RedeemInv(c)' /\ RevokeInv(c)'
    BY <2>1, <2>2, <2>3 DEF BootstrapInv, RedeemInv, RevokeInv
  <2> QED BY <1>0, <2>1, <2>2, <2>4, EarlyStep DEF TypeOK
<1>5. CASE RedeemGrant(c)
  <2>1. /\ calls[c].kind = "redeem" /\ calls[c].at = "grant" /\ Acting(c) /\ Sponsored(c)
        /\ calls[c].subject \in Subjects /\ i \in Calls /\ invitations[i].state # "NONE"
        /\ UNCHANGED <<people, binding, invitations, sessions>>
    BY <1>0, <1>5 DEF RedeemGrant, At, RedeemInv
  <2> DEFINE row == [tier |-> invitations[i].tier, grantor |-> invitations[i].inviter,
                     actor |-> calls[c].person, parent |-> calls[c].parent,
                     revokedAt |-> NoId, revokedBy |-> NoId]
  <2>2. invitations[i].tier \in Tiers /\ invitations[i].inviter \in People
        /\ calls[c].person \in Ids /\ calls[c].parent \in Calls
    BY <1>0, <2>1 DEF TypeOK, Invitations, Ids, People, Acting, Sponsored
  <2>3. row \in Grants
    BY <1>0, <2>2 DEF Grants, Ids
  <2>4. grants' = [grants EXCEPT ![c] = row]
    BY <1>5 DEF RedeemGrant, InsertGrant
  <2>5. invitations[i].tier # "OWNER"
    BY <2>1 DEF Sponsored, IssuingTiers
  <2>6. Rooted(row)
    BY <2>1, <2>2, <2>5, AuthorityAssumption DEF Rooted, Sponsored
  <2>7. /\ row.tier = invitations[i].tier /\ row.grantor = invitations[i].inviter
        /\ row.actor = calls[c].person /\ row.revokedAt = NoId
    OBVIOUS
  <2>8. ~Granted(c) /\ invitations[c].state = "NONE"
        /\ \A s \in Subjects : binding[s].person # c
    BY <1>0, <2>1, EarlyOwnsNothing
  <2> HIDE DEF row
  <2>9. /\ CallsTyped' /\ OthersKeep(c) /\ calls'[c].kind = "redeem"
        /\ calls'[c].at = "bind" /\ calls'[c].subject = calls[c].subject
        /\ calls'[c].person = calls[c].person /\ calls'[c].target = i
    <3>1. "bind" \in Steps
      BY DEF Steps
    <3> QED BY <1>0, <1>5, <2>1, <3>1, GoToMoves DEF RedeemGrant
  <2>10. grants'[c] = row
    BY <1>0, <2>4 DEF TypeOK
  <2>11. OwnIds(c)' /\ Acting(c)'
    BY <2>1, <2>8, <2>9 DEF OwnIds, Acting
  <2>12. GrantMade(c)'
    BY <2>1, <2>2, <2>5, <2>7, <2>9, <2>10 DEF GrantMade, Granted, Tiers
  <2>13. Moves(c)
    BY <2>1, <2>9, <2>11, <2>12 DEF Moves, CallInv, BootstrapInv, RedeemInv, RevokeInv
  <2> QED BY <2>1, <2>2, <2>3, <2>4, <2>6, <2>7, <2>8, <2>9, <2>13, InsertStep
<1>6. CASE RedeemBind(c) \/ RedeemWiden(c)
  <2> DEFINE s == calls[c].subject
             b == IF calls[c].person = c
                  THEN [person |-> c, scopes |-> {invitations[i].tier}]
                  ELSE [binding[s] EXCEPT !.scopes = Widened(c)]
  <2>1. /\ calls[c].kind = "redeem" /\ calls[c].at = "bind" /\ Acting(c) /\ GrantMade(c)
        /\ s \in Subjects /\ i \in Calls /\ invitations[i].state # "NONE"
        /\ UNCHANGED <<people, grants, invitations, sessions>>
    BY <1>0, <1>6 DEF RedeemBind, RedeemWiden, At, RedeemInv
  <2>2. binding[s] \in Bindings /\ invitations[i].tier \in Tiers
    BY <1>0, <2>1 DEF TypeOK, Invitations
  <2>3. /\ b \in Bindings /\ b.person = calls[c].person
        /\ invitations[i].tier \in b.scopes
        /\ \/ /\ binding[s].person = NoId /\ b.person = c
              /\ \A t \in Subjects : binding[t].person # c
           \/ /\ binding[s].person # NoId /\ b.person = binding[s].person
              /\ binding[s].scopes \subseteq b.scopes
        /\ binding' = [binding EXCEPT ![s] = b]
    <3>1. CASE calls[c].person = c
      <4>1. b = [person |-> c, scopes |-> {invitations[i].tier}]
        BY <3>1
      <4>2. binding[s].person = NoId /\ binding' = [binding EXCEPT ![s] = b]
        BY <1>6, <3>1 DEF RedeemBind, RedeemWiden, Unbound, Bind
      <4>3. \A t \in Subjects : binding[t].person # c
        BY <1>0, <2>1 DEF OwnIds
      <4> HIDE DEF s
      <4> QED BY <2>2, <3>1, <4>1, <4>2, <4>3 DEF Bindings, Ids
    <3>2. CASE calls[c].person # c
      <4>1. b = [binding[s] EXCEPT !.scopes = Widened(c)]
        BY <3>2
      <4>2. Widened(c) = binding[s].scopes \cup {invitations[i].tier}
        BY DEF Widened
      <4>3. binding' = [binding EXCEPT ![s] = b]
        BY <1>6, <3>2 DEF RedeemBind, RedeemWiden
      <4>4. binding[s].person = calls[c].person /\ binding[s].person # NoId
        BY <2>1, <3>2, AuthorityAssumption DEF Acting
      <4> HIDE DEF s, b
      <4> QED BY <2>2, <4>1, <4>2, <4>3, <4>4 DEF Bindings
    <3> QED BY <3>1, <3>2
  <2> HIDE DEF b
  <2>4. /\ CallsTyped' /\ OthersKeep(c) /\ calls'[c].kind = "redeem"
        /\ calls'[c].at = "claim" /\ calls'[c].subject = s
        /\ calls'[c].person = calls[c].person /\ calls'[c].target = i
    <3>1. "claim" \in Steps
      BY DEF Steps
    <3> QED BY <1>0, <1>6, <2>1, <3>1, GoToMoves DEF RedeemBind, RedeemWiden
  <2>5. binding'[s] = b
    BY <1>0, <2>1, <2>3 DEF TypeOK
  <2>6. invitations[c].state = "NONE"
    BY <1>0, <2>1 DEF OwnIds
  <2> HIDE DEF s
  <2>7. OwnIds(c)' /\ GrantMade(c)'
    BY <2>1, <2>4, <2>6 DEF OwnIds, GrantMade, Granted
  <2>8. Usable(c)' /\ calls'[c].person # NoId
    BY <2>1, <2>3, <2>4, <2>5, AuthorityAssumption DEF Usable, Acting
  <2>9. Moves(c)
    BY <2>1, <2>4, <2>7, <2>8 DEF Moves, CallInv, BootstrapInv, RedeemInv, RevokeInv
  <2> QED BY <2>1, <2>3, <2>4, <2>9, BindStep
<1>7. CASE RedeemClaim(c)
  <2>1. /\ calls[c].kind = "redeem" /\ calls[c].at = "claim" /\ GrantMade(c) /\ Usable(c)
        /\ calls[c].subject \in Subjects /\ i \in Calls /\ invitations[i].state # "NONE"
        /\ calls[c].person # NoId
        /\ UNCHANGED <<people, binding, grants, sessions>>
    BY <1>0, <1>7 DEF RedeemClaim, At, RedeemInv
  <2>2. invitations[c].state = "NONE"
    BY <1>0, <2>1 DEF OwnIds
  <2>3. CASE Claimable(c, i)
    <3> DEFINE row == [invitations[i] EXCEPT !.state = "ACCEPTED", !.by = calls[c].person,
                                             !.grant = c]
    <3>1. /\ row \in Invitations /\ row.state = "ACCEPTED" /\ row.grant = c
          /\ row.by = calls[c].person /\ row.inviter = invitations[i].inviter
          /\ row.tier = invitations[i].tier
      <4>1. invitations[i] \in Invitations /\ calls[c].person \in Ids /\ c \in Ids
        BY <1>0, <2>1 DEF TypeOK, CallStates, Ids
      <4> HIDE DEF i
      <4> QED BY <4>1 DEF Invitations
    <3>2. invitations' = [invitations EXCEPT ![i] = row]
      BY <1>7, <2>3 DEF RedeemClaim
    <3>3. /\ CallsTyped' /\ OthersKeep(c) /\ calls'[c].kind = "redeem"
          /\ calls'[c].at = "done" /\ calls'[c].target = i
      BY <1>0, <1>7, <2>1, <2>3, EndMoves DEF RedeemClaim
    <3> HIDE DEF row
    <3>4. OwnIds(c)'
      BY <2>1, <3>3 DEF OwnIds
    <3>5. Moves(c)
      BY <2>1, <3>3, <3>4, EndedKinds DEF Moves, CallInv
    <3>6. Accepts(c, i, row)
      BY <2>1, <3>1, <3>3 DEF Accepts, GrantMade, Usable
    <3> HIDE DEF i
    <3> QED BY <2>1, <2>3, <3>1, <3>2, <3>5, <3>6, InvitationStep DEF Claimable
  <2>4. CASE ~Claimable(c, i)
    <3>1. /\ CallsTyped' /\ OthersKeep(c) /\ calls'[c].kind = "redeem"
          /\ calls'[c].at = "withdraw" /\ calls'[c].subject = calls[c].subject
          /\ calls'[c].person = calls[c].person /\ calls'[c].target = i
          /\ invitations' = invitations
      <4>1. "withdraw" \in Steps
        BY DEF Steps
      <4> QED BY <1>0, <1>7, <2>1, <2>4, <4>1, GoToMoves DEF RedeemClaim
    <3>2. OwnIds(c)' /\ GrantMade(c)' /\ Usable(c)'
      BY <2>1, <2>2, <3>1 DEF OwnIds, GrantMade, Granted, Usable
    <3>3. Moves(c)
      BY <2>1, <3>1, <3>2 DEF Moves, CallInv, BootstrapInv, RedeemInv, RevokeInv
    <3> QED BY <1>0, <2>1, <3>1, <3>3, QuietStep DEF TypeOK
  <2> QED BY <2>3, <2>4
<1>8. CASE RedeemWithdraw(c)
  <2> DEFINE p == invitations[i].inviter
  <2>1. /\ calls[c].kind = "redeem" /\ calls[c].at = "withdraw" /\ GrantMade(c) /\ Usable(c)
        /\ calls[c].subject \in Subjects /\ i \in Calls /\ calls[c].person # NoId
        /\ UNCHANGED <<people, binding, invitations, sessions>>
        /\ SetRevoked(c, c, p)
    BY <1>0, <1>8 DEF RedeemWithdraw, At, RedeemInv
  <2>2. /\ CallsTyped' /\ OthersKeep(c) /\ calls'[c].at = "done" /\ calls'[c].target = i
    BY <1>0, <1>8, EndMoves DEF RedeemWithdraw
  <2>3. OwnIds(c)'
    BY <2>1, <2>2 DEF OwnIds
  <2>4. Moves(c)
    BY <2>1, <2>2, <2>3, EndedKinds DEF Moves, CallInv
  <2>5. p \in Ids
    BY <1>0, <2>1 DEF TypeOK, Invitations
  <2>6. Granted(c) /\ grants[c].tier # "OWNER" /\ grants[c].grantor = p
    BY <2>1 DEF GrantMade
  <2>7. Holds(p, RevokingTiers(grants[c].tier))
    <3>1. /\ grants[c].parent \in Calls
          /\ grants[grants[c].parent].actor = p
          /\ grants[grants[c].parent].tier \in IssuingTiers(grants[c].tier)
      BY <1>0, <2>6 DEF AuthorityInv, DelegationRooted, TypeOK, Grants, Ids
    <3>2. IssuingTiers(grants[c].tier) \subseteq RevokingTiers(grants[c].tier)
      BY <2>6 DEF IssuingTiers, RevokingTiers
    <3> HIDE DEF p
    <3> QED BY <3>1, <3>2 DEF Holds
  <2>8. Reachable(c)
    BY <2>1 DEF Reachable, GrantMade, Usable
  <2> HIDE DEF p, i
  <2>9. CASE Unrevoked(c)
    BY <2>1, <2>4, <2>5, <2>6, <2>7, <2>8, <2>9, RevocationStep
  <2>10. CASE ~Unrevoked(c)
    <3>1. grants' = grants /\ ~Active(c)
      BY <2>1, <2>10 DEF SetRevoked, Unrevoked, Active
    <3> QED BY <1>0, <2>1, <2>4, <2>8, <3>1, QuietStep DEF TypeOK
  <2> QED BY <2>9, <2>10
<1> QED BY <1>1, <1>2, <1>3, <1>4, <1>5, <1>6, <1>7, <1>8 DEF Redeem

-----------------------------------------------------------------------------
(* The theorems.                                                           *)

LEMMA InitHolds == ASSUME Init PROVE AuthorityInv
<1>1. TypeOK
  <2>1. NoBinding \in Bindings /\ NoGrant \in Grants /\ NoInvitation \in Invitations
        /\ NoSession \in Sessions
    BY DEF NoBinding, Bindings, NoGrant, Grants, NoInvitation, Invitations, NoSession,
           Sessions, Ids, People, Tiers
  <2>2. Call("NONE", "idle", NoId, NoId, NoId) \in CallStates
    BY CallTyped DEF Steps, Ids
  <2> QED BY <2>1, <2>2 DEF Init, TypeOK
<1>2. \A c \in Calls :
        /\ calls[c].kind = "NONE" /\ calls[c].at = "idle" /\ grants[c].tier = "NONE"
        /\ invitations[c].state = "NONE"
  BY DEF Init, Call, NoGrant, NoInvitation
<1>3. \A s \in Subjects : binding[s].person = NoId
  BY DEF Init, NoBinding
<1>4. \A c \in Calls : CallInv(c)
  BY <1>2, <1>3, AuthorityAssumption DEF CallInv, OwnIds, BootstrapInv, RedeemInv,
                                         RevokeInv, Granted
<1>5. DelegationRooted /\ RevokersOutrank /\ HoldersReachable
  BY <1>2 DEF DelegationRooted, RevokersOutrank, HoldersReachable, Granted
<1>6. IdentitiesApart /\ ScopesCoverGrants /\ InvitationGrantsOnce /\ AcceptanceEnds
  BY <1>2, <1>3 DEF IdentitiesApart, ScopesCoverGrants, InvitationGrantsOnce, AcceptanceEnds
<1> QED BY <1>1, <1>4, <1>5, <1>6 DEF AuthorityInv

LEMMA StepHolds ==
  ASSUME AuthorityInv, [Next]_vars
  PROVE  AuthorityInv' /\ RowsGrow
<1>1. CASE Next
  <2>1. PICK c \in Calls :
          \/ Bootstrap(c) \/ Session(c) \/ Invite(c) \/ Cancel(c) \/ Redeem(c)
          \/ Revoke(c) \/ BindConflict(c) \/ Time(c) \/ Die(c)
    BY <1>1 DEF Next
  <2> QED BY <2>1, BootstrapSteps, SessionSteps, InviteSteps, CancelSteps, RedeemSteps,
             RevokeSteps, EarlyEnds, TimeSteps
<1>2. CASE UNCHANGED vars
  <2> USE <1>2 DEF vars
  <2>1. RowsGrow
    BY DEF RowsGrow, GrantsGrow, InvitationsGrow, BindingsGrow
  <2>2. TypeOK'
    BY DEF AuthorityInv, TypeOK
  <2>3. ASSUME NEW c \in Calls PROVE CallInv(c)'
    <3>1. CallInv(c)
      BY DEF AuthorityInv
    <3>2. OwnIds(c)' /\ BootstrapInv(c)'
      BY <3>1 DEF CallInv, OwnIds, BootstrapInv, Acting, Granted
    <3>3. RedeemInv(c)'
      BY <3>1 DEF CallInv, RedeemInv, Acting, Granted, Sponsored, GrantMade, Usable,
                  IssuingTiers
    <3>4. RevokeInv(c)'
      BY <3>1 DEF CallInv, RevokeInv, Granted, Holds, RevokingTiers
    <3> QED BY <3>2, <3>3, <3>4 DEF CallInv
  <2>4. DelegationRooted' /\ RevokersOutrank' /\ IdentitiesApart' /\ HoldersReachable'
    BY DEF AuthorityInv, DelegationRooted, RevokersOutrank, IdentitiesApart,
           HoldersReachable, Granted, Holds
  <2>5. ScopesCoverGrants' /\ AcceptanceEnds' /\ InvitationGrantsOnce'
    BY DEF AuthorityInv, ScopesCoverGrants, AcceptanceEnds, InvitationGrantsOnce, Active
  <2> QED BY <2>1, <2>2, <2>3, <2>4, <2>5 DEF AuthorityInv
<1> QED BY <1>1, <1>2

(* The inductive invariant holds however many requests race, retry or die. *)
THEOREM AuthorityInvAlways == Spec => []AuthorityInv
<1>1. Init => AuthorityInv
  BY InitHolds
<1>2. AuthorityInv /\ [Next]_vars => AuthorityInv'
  BY StepHolds
<1> QED BY <1>1, <1>2, PTL DEF Spec

(* Every row and every request stays well formed.                          *)
THEOREM AuthorityTypeOK == Spec => []TypeOK
<1>1. AuthorityInv => TypeOK
  BY DEF AuthorityInv
<1> QED BY <1>1, AuthorityInvAlways, PTL

(* Every grant but an Owner's hangs from a grant of its grantor that       *)
(* outranks it, so all authority goes back to an Owner.                    *)
THEOREM AuthorityIsRooted == Spec => []DelegationRooted
<1>1. AuthorityInv => DelegationRooted
  BY DEF AuthorityInv
<1> QED BY <1>1, AuthorityInvAlways, PTL

(* An invitation leads to one live grant among the redemptions that ran to *)
(* their end, whoever races, cancels or retries.                           *)
THEOREM OneLiveGrantPerInvitation == Spec => []InvitationGrantsOnce
<1>1. AuthorityInv => InvitationGrantsOnce
  BY DEF AuthorityInv
<1> QED BY <1>1, AuthorityInvAlways, PTL

(* Nobody revokes a grant without having held one that outranks it.        *)
THEOREM RevokersAlwaysOutrank == Spec => []RevokersOutrank
<1>1. AuthorityInv => RevokersOutrank
  BY DEF AuthorityInv
<1> QED BY <1>1, AuthorityInvAlways, PTL

(* The holder of a completed grant is always the person of one identity.   *)
THEOREM HoldersStayReachable == Spec => []HoldersReachable
<1>1. AuthorityInv => HoldersReachable
  BY DEF AuthorityInv
<1> QED BY <1>1, AuthorityInvAlways, PTL

(* An accepted invitation's tier is always in the scopes of its identity.  *)
THEOREM ScopesAlwaysCover == Spec => []ScopesCoverGrants
<1>1. AuthorityInv => ScopesCoverGrants
  BY DEF AuthorityInv
<1> QED BY <1>1, AuthorityInvAlways, PTL

(* A decided invitation is never decided again.                            *)
THEOREM DecisionsStand == Spec => InvitationDecisionStands
<1>1. AuthorityInv /\ [Next]_vars =>
       [\A i \in Calls : invitations[i].state \in {"ACCEPTED", "REVOKED"} =>
           /\ invitations'[i].state = invitations[i].state
           /\ invitations'[i].by = invitations[i].by
           /\ invitations'[i].grant = invitations[i].grant]_vars
  BY StepHolds DEF RowsGrow, InvitationsGrow
<1> QED BY <1>1, AuthorityInvAlways, PTL DEF Spec, InvitationDecisionStands

(* A grant is never rewritten and its first revocation is final.           *)
THEOREM RevocationsStand == Spec => RevocationStands
<1>1. AuthorityInv /\ [Next]_vars =>
       [\A g \in Calls : Granted(g) =>
           /\ grants'[g].actor = grants[g].actor
           /\ grants'[g].tier = grants[g].tier
           /\ grants'[g].grantor = grants[g].grantor
           /\ grants[g].revokedAt # NoId =>
                /\ grants'[g].revokedAt = grants[g].revokedAt
                /\ grants'[g].revokedBy = grants[g].revokedBy]_vars
  BY StepHolds DEF RowsGrow, GrantsGrow, Granted
<1> QED BY <1>1, AuthorityInvAlways, PTL DEF Spec, RevocationStands

(* An identity keeps its person, and its scopes only grow.                 *)
THEOREM BindingsStand == Spec => BindingStands
<1>1. AuthorityInv /\ [Next]_vars =>
       [\A s \in Subjects : binding[s].person # NoId =>
           /\ binding'[s].person = binding[s].person
           /\ binding[s].scopes \subseteq binding'[s].scopes]_vars
  BY StepHolds DEF RowsGrow, BindingsGrow
<1> QED BY <1>1, AuthorityInvAlways, PTL DEF Spec, BindingStands

(* Authority that was granted stays usable.                                *)
THEOREM GrantsStayUsable == Spec => []GrantsUsable
<1>1. AuthorityInv => GrantsUsable
  BY DEF AuthorityInv, GrantsUsable
<1> QED BY <1>1, AuthorityInvAlways, PTL

(* Decisions on invitations, grants and identities are final.              *)
THEOREM DecisionsStayFinal == Spec => DecisionsFinal
BY DecisionsStand, RevocationsStand, BindingsStand DEF DecisionsFinal
=============================================================================
