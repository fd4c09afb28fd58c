--------------------------- MODULE EnrolmentProofs ---------------------------
(***************************************************************************)
(* Proofs about enrolment and sign-in codes, for every set of contacts,    *)
(* challenges and verifications and every limit: what is on record is      *)
(* earned and within bounds, and a code decides once.                      *)
(***************************************************************************)
EXTENDS EnrolmentProperties, FiniteSetTheorems, TLAPS

-----------------------------------------------------------------------------
(* The latest application.                                                 *)

(* A set of application ids that is not empty has a latest one: of the     *)
(* sets of the ids after each, one contains no other.                      *)
LEMMA LatestExists ==
  ASSUME NEW S \in SUBSET Applications, S # {}
  PROVE  Max(S) \in S
<1> DEFINE After(a) == {x \in S : x > a}
<1>1. S \subseteq Nat /\ IsFiniteSet(S)
  <2>1. MaxApplications \in Int /\ Applications \subseteq Nat
    BY EnrolmentAssumption DEF Applications
  <2>2. IsFiniteSet(Applications)
    BY <2>1, FS_Interval DEF Applications
  <2> QED
    BY <2>1, <2>2, FS_Subset
<1>2. IsWellFoundedOn(StrictSubsetOrdering(S), FiniteSubsetsOf(S))
  BY FS_StrictSubsetOrderingWellFounded
<1>3. {After(a) : a \in S} \subseteq FiniteSubsetsOf(S)
  BY <1>1, FS_Subset DEF FiniteSubsetsOf
<1>4. PICK T \in {After(a) : a \in S} :
             \A U \in {After(a) : a \in S} : <<U, T>> \notin StrictSubsetOrdering(S)
  <2>1. {After(a) : a \in S} # {}
    OBVIOUS
  <2> QED
    BY <1>2, <1>3, <2>1, WFMin
<1>5. PICK a \in S : T = After(a)
  BY <1>4
<1>6. ASSUME NEW b \in S, ~(a >= b) PROVE FALSE
  <2>1. b > a
    BY <1>1, <1>6
  <2>2. After(b) \subseteq After(a) /\ b \in After(a) /\ b \notin After(b)
    <3>1. a \in Nat /\ b \in Nat /\ \A x \in S : x \in Nat
      BY <1>1
    <3>2. \A x \in S : x > b => x > a
      BY <2>1, <3>1
    <3>3. After(b) \subseteq After(a)
      BY <3>2
    <3>4. b \in After(a)
      BY <2>1
    <3>5. ~(b > b)
      BY <3>1
    <3> QED
      BY <3>3, <3>4, <3>5
  <2>3. <<After(b), After(a)>> \in StrictSubsetOrdering(S)
    BY <2>2 DEF StrictSubsetOrdering
  <2> QED
    BY <1>4, <1>5, <2>3
<1> QED
  BY <1>6 DEF Max

-----------------------------------------------------------------------------
(* The inductive invariant.                                                *)

(* Application ids are given in order. *)
UsedFirst == \E n \in 0..MaxApplications : Used = 1..n

(* A row of the form's is verified or waits for it; a paper row is decided *)
(* by a reviewer and belongs to no campaign.                               *)
RowSound(r) ==
  /\ r.member # "NONE" => r.state # "NONE"
  /\ r.state = "PENDING_VERIFICATION" => r.mode = "AUTO"
  /\ r.state # "NONE" /\ r.mode = "AUTO" =>
       ~r.raw /\ r.state \in {"PENDING_VERIFICATION", "SUBMITTED"}
  /\ r.state # "NONE" /\ r.campaign => r.mode = "AUTO"
  /\ r.mode = "MANUAL" => (r.member # "NONE" <=> r.state = "APPROVED")

RowsSound == \A a \in Applications : RowSound(applications[a])

OnePerContact ==
  \A a, b \in Used : /\ applications[a].mode = "AUTO" /\ applications[b].mode = "AUTO"
                     /\ applications[a].contact = applications[b].contact
                     => a = b

Enrolled == {a \in Used : applications[a].campaign}
WithinMaximum == Cardinality(Enrolled) <= CampaignMax

(* A request has a challenge from its insertion on; a code for signing in  *)
(* is sent to members only, and a used code has its membership.            *)
ChallengesSound ==
  \A k \in Challenges :
    LET c == challenges[k] IN
    /\ c.at \in {"idle", "resolved"} => c.state = "NONE"
    /\ (c.at = "resolved" \/ c.state # "NONE") /\ c.kind # "ENROL" => Member(c.app)
    /\ c.state = "USED" => Member(c.app)

VerifiedByCode ==
  \A a \in Applications : Member(a) /\ applications[a].mode = "AUTO" =>
    \E k \in Challenges : /\ challenges[k].kind = "ENROL"
                          /\ challenges[k].app = a
                          /\ challenges[k].state = "USED"

ApplicationsInv == UsedFirst /\ RowsSound /\ OnePerContact /\ WithinMaximum

EnrolInv == TypeOK /\ ApplicationsInv /\ ChallengesSound /\ VerifiedByCode

LEMMA ApplicationIds ==
  /\ Applications \subseteq Nat
  /\ IsFiniteSet(Applications)
  /\ 1 \in Applications
  /\ None \notin Applications
<1>1. MaxApplications \in Int /\ 1 <= MaxApplications
  BY EnrolmentAssumption
<1> QED
  BY <1>1, FS_Interval DEF Applications, None

LEMMA NextRow ==
  ASSUME UsedFirst, Next1 \in Applications
  PROVE  /\ Next1 \notin Used
         /\ \E n \in 0..MaxApplications : Used \cup {Next1} = 1..n
<1>1. PICK n \in 0..MaxApplications : Used = 1..n
  BY DEF UsedFirst
<1>2. n \in Nat /\ MaxApplications \in Nat
  BY <1>1, EnrolmentAssumption
<1>3. Next1 = n + 1
  <2>1. 1 \in Int /\ n \in Int
    BY <1>2
  <2>2. Cardinality(1..n) = IF 1 > n THEN 0 ELSE n - 1 + 1
    BY <2>1, FS_Interval
  <2>3. Cardinality(1..n) = n
    BY <1>2, <2>2
  <2> QED
    BY <1>1, <2>3 DEF Next1
<1>4. n + 1 \in 0..MaxApplications
  BY <1>2, <1>3 DEF Applications
<1>5. Next1 \notin Used
  BY <1>1, <1>2, <1>3
<1>6. Used \cup {Next1} = 1..(n + 1)
  BY <1>1, <1>2, <1>3
<1> QED
  BY <1>4, <1>5, <1>6

-----------------------------------------------------------------------------
(* What a step may do to the applications.                                 *)

(* The first unused row is taken. *)
NewRow(r) ==
  /\ Next1 \in Applications
  /\ applications' = [applications EXCEPT ![Next1] = r]

(* A used row keeps its contact and its campaign. *)
RowChanged(a, r) ==
  /\ a \in Used
  /\ r.contact = applications[a].contact
  /\ r.mode = applications[a].mode
  /\ r.campaign = applications[a].campaign
  /\ r.state # "NONE"
  /\ applications' = [applications EXCEPT ![a] = r]

LEMMA NewRowKeeps ==
  ASSUME EnrolInv, NEW r \in ApplicationRows, NewRow(r), RowSound(r), r.state # "NONE",
         r.mode = "AUTO" => Live(r.contact) = {},
         r.campaign => HasRoom
  PROVE  /\ applications' \in [Applications -> ApplicationRows]
         /\ ApplicationsInv'
         /\ \A a \in Applications : Member(a) => Member(a)'
<1> USE DEF EnrolInv, ApplicationsInv, TypeOK
<1>1. Next1 \in Applications /\ Next1 \notin Used
  BY NextRow DEF NewRow
<1>2. applications'[Next1] = r /\ \A a \in Applications \ {Next1} : applications'[a] = applications[a]
  BY <1>1 DEF NewRow
<1>3. Used' = Used \cup {Next1}
  BY <1>1, <1>2 DEF Used
<1>4. UsedFirst'
  BY <1>1, <1>3, NextRow DEF UsedFirst
<1>5. RowsSound'
  BY <1>2 DEF RowsSound
<1>6. OnePerContact'
  <2>1. ASSUME NEW a \in Used, applications[a].mode = "AUTO", r.mode = "AUTO",
               applications[a].contact = r.contact
        PROVE  FALSE
    <3>1. a \in Live(r.contact)
      BY <2>1 DEF Live, RowsSound, RowSound, Used
    <3> QED
      BY <2>1, <3>1
  <2>2. \A a \in Used : applications'[a] = applications[a]
    BY <1>1, <1>2 DEF Used
  <2> QED
    BY <1>2, <1>3, <2>1, <2>2 DEF OnePerContact
<1>7. WithinMaximum'
  <2>1. IsFiniteSet(Enrolled)
    BY ApplicationIds, FS_Subset DEF Enrolled, Used
  <2>2. \A a \in Used : applications'[a] = applications[a]
    BY <1>1, <1>2 DEF Used
  <2>3. CASE ~r.campaign
    <3>1. Enrolled' = Enrolled
      BY <1>2, <1>3, <2>2, <2>3 DEF Enrolled
    <3> QED
      BY <3>1 DEF WithinMaximum
  <2>4. CASE r.campaign
    <3>1. Enrolled' = Enrolled \cup {Next1}
      BY <1>2, <1>3, <2>2, <2>4 DEF Enrolled
    <3>2. {a \in Used : applications[a].campaign /\ applications[a].state # "REJECTED"} = Enrolled
      BY DEF Enrolled, RowsSound, RowSound, Used
    <3>3. Cardinality(Enrolled) < CampaignMax
      BY <2>4, <3>2 DEF HasRoom
    <3>4. Cardinality(Enrolled) \in Nat
      BY <2>1, FS_CardinalityType
    <3>5. Next1 \notin Enrolled
      BY <1>1 DEF Enrolled
    <3>6. Cardinality(Enrolled \cup {Next1}) = Cardinality(Enrolled) + 1
      BY <2>1, <3>5, FS_AddElement
    <3>7. Cardinality(Enrolled) + 1 <= CampaignMax
      BY <3>3, <3>4, EnrolmentAssumption
    <3> QED
      BY <3>1, <3>6, <3>7 DEF WithinMaximum
  <2> QED
    BY <2>3, <2>4 DEF ApplicationRows
<1>8. applications' \in [Applications -> ApplicationRows]
  BY DEF NewRow
<1>9. \A a \in Applications : Member(a) => Member(a)'
  BY <1>1, <1>2 DEF Member, RowsSound, RowSound, Used
<1> QED
  BY <1>4, <1>5, <1>6, <1>7, <1>8, <1>9

LEMMA ChangedRowKeeps ==
  ASSUME EnrolInv, NEW a \in Applications, NEW r \in ApplicationRows, RowChanged(a, r),
         RowSound(r)
  PROVE  /\ applications' \in [Applications -> ApplicationRows]
         /\ ApplicationsInv'
<1> USE DEF EnrolInv, ApplicationsInv, TypeOK
<1>1. applications'[a] = r /\ \A b \in Applications \ {a} : applications'[b] = applications[b]
  BY DEF RowChanged
<1>2. Used' = Used
  BY <1>1 DEF Used, RowChanged
<1>3. \A b \in Used : /\ applications'[b].contact = applications[b].contact
                      /\ applications'[b].mode = applications[b].mode
                      /\ applications'[b].campaign = applications[b].campaign
  BY <1>1 DEF RowChanged, Used
<1>4. Enrolled' = Enrolled
  BY <1>2, <1>3 DEF Enrolled
<1>5. UsedFirst' /\ OnePerContact' /\ WithinMaximum'
  BY <1>2, <1>3, <1>4 DEF UsedFirst, OnePerContact, WithinMaximum
<1>6. RowsSound'
  BY <1>1 DEF RowsSound
<1> QED
  BY <1>5, <1>6 DEF RowChanged

LEMMA SameRowsKeep ==
  ASSUME EnrolInv, UNCHANGED applications
  PROVE  /\ applications' \in [Applications -> ApplicationRows]
         /\ ApplicationsInv'
         /\ \A a \in Applications : Member(a) => Member(a)'
BY DEF EnrolInv, ApplicationsInv, TypeOK, UsedFirst, Used, RowsSound, OnePerContact,
       WithinMaximum, Enrolled, Member

-----------------------------------------------------------------------------
(* What a step may do to a challenge.                                      *)

(* A request resolves an application: a member's, unless it enrols. *)
Resolves(c, d) ==
  /\ c.at = "idle"
  /\ \E kind \in {"ENROL", "EXISTING", "SIGNIN", "RECOVERY"}, a \in Applications :
       /\ d = [NoChallenge EXCEPT !.at = "resolved", !.kind = kind, !.app = a]
       /\ kind # "ENROL" => Member(a)

Inserted(c, d) ==
  /\ c.at = "resolved"
  /\ \/ d = [NoChallenge EXCEPT !.at = "answered"]
     \/ d = [c EXCEPT !.at = "created", !.state = "OPEN"]

(* An open challenge is revoked, by a newer one, a failure or the last     *)
(* wrong code, or counts a wrong code.                                     *)
OpenChanges(c, d) ==
  /\ c.state = "OPEN"
  /\ \/ d = [c EXCEPT !.state = "REVOKED"]
     \/ c.at = "created" /\ d = [c EXCEPT !.at = "answered", !.state = "REVOKED"]
     \/ \E n \in 0..MaxAttempts, s \in {"OPEN", "REVOKED"} :
          d = [c EXCEPT !.attempts = n, !.state = s]

(* Delivery and age. *)
StateKept(c, d) ==
  \/ c.at = "created" /\ d = [c EXCEPT !.known = TRUE]
  \/ c.at = "created" /\ d = [c EXCEPT !.at = "answered"]
  \/ c.age < 2 /\ d = [c EXCEPT !.age = c.age + 1]

IsSpent(c, d) == c.state = "OPEN" /\ d = [c EXCEPT !.state = "USED"]

Follows(c, d) ==
  d = c \/ Resolves(c, d) \/ Inserted(c, d) \/ OpenChanges(c, d) \/ StateKept(c, d)

ChallengeStep ==
  /\ challenges' \in [Challenges -> ChallengeRows]
  /\ \A k \in Challenges :
       \/ Follows(challenges[k], challenges'[k])
       \/ IsSpent(challenges[k], challenges'[k]) /\ applications'[challenges[k].app].member # "NONE"

LEMMA NoChallengeType == NoChallenge \in ChallengeRows
BY ApplicationIds, EnrolmentAssumption DEF NoChallenge, ChallengeRows

LEMMA SameChallenges ==
  ASSUME EnrolInv, UNCHANGED challenges
  PROVE  ChallengeStep
BY DEF EnrolInv, TypeOK, ChallengeStep, Follows

LEMMA OneChallenge ==
  ASSUME EnrolInv, NEW k \in Challenges, NEW d \in ChallengeRows,
         challenges' = [challenges EXCEPT ![k] = d],
         \/ Follows(challenges[k], d)
         \/ IsSpent(challenges[k], d) /\ applications'[challenges[k].app].member # "NONE"
  PROVE  ChallengeStep
<1>1. /\ challenges' \in [Challenges -> ChallengeRows]
      /\ challenges'[k] = d
      /\ \A l \in Challenges \ {k} : challenges'[l] = challenges[l]
  BY DEF EnrolInv, TypeOK
<1> QED
  BY <1>1 DEF ChallengeStep, Follows

LEMMA RowOf ==
  ASSUME EnrolInv, NEW k \in Challenges
  PROVE  /\ challenges[k] \in ChallengeRows
         /\ challenges[k].app \in Applications
         /\ challenges[k].attempts \in 0..MaxAttempts
         /\ challenges[k].age \in 0..2
         /\ challenges[k].state \in {"NONE", "OPEN", "USED", "REVOKED"}
         /\ challenges[k].kind \in {"ENROL", "EXISTING", "SIGNIN", "RECOVERY"}
BY DEF EnrolInv, TypeOK, ChallengeRows

LEMMA BeginStep ==
  ASSUME EnrolInv, NEW k \in Challenges, challenges[k].at = "idle",
         NEW kind \in {"ENROL", "EXISTING", "SIGNIN", "RECOVERY"}, NEW a \in Applications,
         kind # "ENROL" => Member(a), Begin(k, kind, a)
  PROVE  ChallengeStep
<1> DEFINE d == [NoChallenge EXCEPT !.at = "resolved", !.kind = kind, !.app = a]
<1>1. d \in ChallengeRows
  BY NoChallengeType DEF ChallengeRows
<1>2. Resolves(challenges[k], d)
  BY DEF Resolves
<1> HIDE DEF d
<1>3. challenges' = [challenges EXCEPT ![k] = d]
  BY DEF Begin, d
<1> QED
  BY <1>1, <1>2, <1>3, OneChallenge DEF Follows

LEMMA RequestStep ==
  ASSUME EnrolInv, NEW k \in Challenges, Request(k)
  PROVE  ChallengeStep
<1>1. ASSUME NEW c \in Contacts, ResolveKnown(k, c) PROVE ChallengeStep
  <2>1. Live(c) \in SUBSET Applications /\ Live(c) # {}
    BY <1>1 DEF ResolveKnown, Live, Used
  <2>2. Max(Live(c)) \in Applications
    BY <2>1, LatestExists
  <2> DEFINE a == Max(Live(c))
             kind == IF Member(a) THEN "EXISTING" ELSE "ENROL"
  <2>3. challenges[k].at = "idle" /\ Begin(k, kind, a)
    BY <1>1 DEF ResolveKnown
  <2>4. kind \in {"ENROL", "EXISTING", "SIGNIN", "RECOVERY"} /\ (kind # "ENROL" => Member(a))
    OBVIOUS
  <2> HIDE DEF a, kind
  <2> QED
    BY <2>2, <2>3, <2>4, BeginStep DEF a
<1>2. ASSUME NEW c \in Contacts, NEW campaign \in BOOLEAN, ResolveNew(k, c, campaign)
      PROVE  ChallengeStep
  BY <1>2, BeginStep DEF ResolveNew
<1>3. ASSUME NEW a \in Applications, RequestSignIn(k, a) PROVE ChallengeStep
  BY <1>3, BeginStep DEF RequestSignIn, Member
<1>4. ASSUME NEW c \in Contacts, RequestRecovery(k, c) PROVE ChallengeStep
  <2> DEFINE members == {a \in Used : /\ applications[a].contact = c
                                      /\ ~applications[a].raw /\ Member(a)}
  <2>1. members \in SUBSET Applications
    BY DEF Used
  <2>2. members # {}
    BY <1>4, FS_EmptySet DEF RequestRecovery
  <2>3. Max(members) \in members
    BY <2>1, <2>2, LatestExists
  <2>4. Max(members) \in Applications /\ Member(Max(members))
    BY <2>1, <2>3
  <2>5. challenges[k].at = "idle" /\ Begin(k, "RECOVERY", Max(members))
    BY <1>4 DEF RequestRecovery
  <2> HIDE DEF members
  <2> QED
    BY <2>4, <2>5, BeginStep
<1>5. ASSUME CreateChallenge(k) PROVE ChallengeStep
  <2> DEFINE c == challenges[k]
             gone == [NoChallenge EXCEPT !.at = "answered"]
             made == [c EXCEPT !.at = "created", !.state = "OPEN"]
  <2>1. gone \in ChallengeRows /\ made \in ChallengeRows
    BY NoChallengeType, RowOf DEF ChallengeRows
  <2>2. c.at = "resolved"
    BY <1>5 DEF CreateChallenge
  <2>3. CASE challenges' = [challenges EXCEPT ![k] = gone]
    BY <2>1, <2>2, <2>3, OneChallenge DEF Follows, Inserted
  <2>4. CASE challenges' = [l \in Challenges |->
              IF l = k THEN made
              ELSE IF /\ challenges[k].kind = "ENROL" /\ l \in Siblings(k)
                      /\ challenges[l].state = "OPEN"
              THEN [challenges[l] EXCEPT !.state = "REVOKED"]
              ELSE challenges[l]]
    <3>1. ASSUME NEW l \in Challenges
          PROVE  challenges'[l] \in ChallengeRows /\ Follows(challenges[l], challenges'[l])
      <4>1. CASE l = k
        BY <2>1, <2>2, <2>4, <4>1 DEF Follows, Inserted
      <4>2. CASE /\ l # k
                 /\ challenges[l].state = "OPEN"
                 /\ challenges'[l] = [challenges[l] EXCEPT !.state = "REVOKED"]
        BY <4>2, RowOf DEF Follows, OpenChanges, ChallengeRows
      <4>3. CASE challenges'[l] = challenges[l]
        BY <4>3, RowOf DEF Follows
      <4> HIDE DEF made
      <4> QED
        BY <2>4, <4>1, <4>2, <4>3
    <3>2. challenges' = [l \in Challenges |-> challenges'[l]]
      BY <2>4
    <3> QED
      BY <3>1, <3>2 DEF ChallengeStep
  <2> QED
    BY <1>5, <2>3, <2>4 DEF CreateChallenge
<1>6. ASSUME MessageArrives(k) PROVE ChallengeStep
  <2> DEFINE d == [challenges[k] EXCEPT !.known = TRUE]
  <2>1. d \in ChallengeRows
    BY RowOf DEF ChallengeRows
  <2>2. challenges[k].at = "created" /\ challenges' = [challenges EXCEPT ![k] = d]
    BY <1>6 DEF MessageArrives
  <2> QED
    BY <2>1, <2>2, OneChallenge DEF Follows, StateKept
<1>7. ASSUME DeliveryReported(k) PROVE ChallengeStep
  <2> DEFINE d == [challenges[k] EXCEPT !.at = "answered"]
  <2>1. d \in ChallengeRows
    BY RowOf DEF ChallengeRows
  <2>2. challenges[k].at = "created" /\ challenges' = [challenges EXCEPT ![k] = d]
    BY <1>7 DEF DeliveryReported
  <2> QED
    BY <2>1, <2>2, OneChallenge DEF Follows, StateKept
<1>8. ASSUME DeliveryFails(k) PROVE ChallengeStep
  <2> DEFINE c == challenges[k]
             kept == [c EXCEPT !.at = "answered"]
             gone == [c EXCEPT !.at = "answered", !.state = "REVOKED"]
  <2>1. kept \in ChallengeRows /\ gone \in ChallengeRows
    BY RowOf DEF ChallengeRows
  <2>2. /\ c.at = "created"
        /\ challenges' = [challenges EXCEPT ![k] =
                            [c EXCEPT !.at = "answered", !.state = AfterFailure(k)]]
    BY <1>8 DEF DeliveryFails, EnrolInv, TypeOK
  <2>3. CASE AfterFailure(k) = c.state
    <3>1. [c EXCEPT !.at = "answered", !.state = AfterFailure(k)] = kept
      BY <2>3, RowOf DEF ChallengeRows
    <3> QED
      BY <2>1, <2>2, <3>1, OneChallenge DEF Follows, StateKept
  <2>4. CASE c.state = "OPEN" /\ AfterFailure(k) = "REVOKED"
    BY <2>1, <2>2, <2>4, OneChallenge DEF Follows, OpenChanges
  <2> QED
    BY <2>3, <2>4 DEF AfterFailure
<1> QED
  BY <1>1, <1>2, <1>3, <1>4, <1>5, <1>6, <1>7, <1>8 DEF Request

LEMMA SpentStep ==
  ASSUME EnrolInv, NEW k \in Challenges, challenges[k].state = "OPEN",
         challenges' = Spent(k), applications'[challenges[k].app].member # "NONE"
  PROVE  ChallengeStep
<1> DEFINE d == [challenges[k] EXCEPT !.state = "USED"]
<1>1. d \in ChallengeRows
  BY RowOf DEF ChallengeRows
<1>2. challenges' = [challenges EXCEPT ![k] = d]
  BY DEF Spent
<1>3. IsSpent(challenges[k], d)
  BY DEF IsSpent
<1> HIDE DEF d
<1> QED
  BY <1>1, <1>2, <1>3, OneChallenge

(* Provisioning makes the verified application a member's. *)
LEMMA ProvisionedMember ==
  ASSUME EnrolInv, NEW a \in Applications, Verifiable(a), applications' = Provisioned(a)
  PROVE  Member(a)'
BY DEF EnrolInv, TypeOK, Verifiable, Provisioned, Member

LEMMA VerificationStep ==
  ASSUME EnrolInv, NEW k \in Challenges, Verification(k)
  PROVE  ChallengeStep
<1>1. ASSUME WrongCode(k) PROVE ChallengeStep
  <2> DEFINE c == challenges[k]
             s == IF c.attempts + 1 >= MaxAttempts THEN "REVOKED" ELSE c.state
             n == c.attempts + 1
             d == [c EXCEPT !.attempts = n, !.state = s]
  <2>1. c \in ChallengeRows /\ c.attempts \in 0..MaxAttempts /\ MaxAttempts \in Nat
    BY RowOf, EnrolmentAssumption
  <2>2. c.state = "OPEN" /\ c.attempts < MaxAttempts
    BY <1>1 DEF WrongCode, Checkable
  <2>3. n \in 0..MaxAttempts /\ s \in {"OPEN", "REVOKED"}
    BY <2>1, <2>2
  <2>4. challenges' = [challenges EXCEPT ![k] = d]
    BY <1>1 DEF WrongCode, EnrolInv, TypeOK
  <2> HIDE DEF n, s
  <2>5. d \in ChallengeRows
    BY <2>1, <2>3 DEF ChallengeRows
  <2>6. OpenChanges(c, d)
    BY <2>2, <2>3 DEF OpenChanges
  <2> HIDE DEF c, d
  <2> QED
    BY <2>4, <2>5, <2>6, OneChallenge DEF Follows, c
<1>2. ASSUME VerifyRecovery(k) PROVE ChallengeStep
  <2>1. /\ challenges[k].state = "OPEN" /\ challenges[k].kind = "RECOVERY"
        /\ challenges' = Spent(k) /\ UNCHANGED applications
    BY <1>2 DEF VerifyRecovery, Checkable
  <2>2. applications'[challenges[k].app].member # "NONE"
    BY <2>1 DEF EnrolInv, ChallengesSound, Member
  <2> QED
    BY <2>1, <2>2, SpentStep
<1>3. ASSUME NEW v \in Calls, VerifyEnrolment(v, k) PROVE ChallengeStep
  <2>1. /\ challenges[k].state = "OPEN" /\ Verifiable(challenges[k].app)
        /\ challenges' = Spent(k) /\ applications' = Provisioned(challenges[k].app)
    BY <1>3 DEF VerifyEnrolment, Checkable
  <2>2. applications'[challenges[k].app].member # "NONE"
    BY <2>1, RowOf, ProvisionedMember DEF Member
  <2> QED
    BY <2>1, <2>2, SpentStep
<1>4. ASSUME NEW v \in Calls, ReplayEnrolment(v, k) PROVE ChallengeStep
  BY <1>4, SameChallenges DEF ReplayEnrolment
<1>5. ASSUME NEW v \in Calls, ReplayWrongCode(v, k) PROVE ChallengeStep
  BY <1>5, SameChallenges DEF ReplayWrongCode
<1>6. ASSUME NEW v \in Calls, VerifySignIn(v, k) PROVE ChallengeStep
  <2>1. /\ challenges[k].state = "OPEN" /\ challenges[k].kind \in {"EXISTING", "SIGNIN"}
        /\ challenges' = Spent(k) /\ UNCHANGED applications
    BY <1>6 DEF VerifySignIn, Checkable
  <2>2. applications'[challenges[k].app].member # "NONE"
    BY <2>1 DEF EnrolInv, ChallengesSound, Member
  <2> QED
    BY <2>1, <2>2, SpentStep
<1> QED
  BY <1>1, <1>2, <1>3, <1>4, <1>5, <1>6 DEF Verification

LEMMA AgeStep ==
  ASSUME EnrolInv, NEW k \in Challenges, ChallengeAges(k)
  PROVE  ChallengeStep
<1> DEFINE c == challenges[k]
           d == [c EXCEPT !.age = c.age + 1]
<1>1. c \in ChallengeRows /\ c.age \in 0..2 /\ c.age < 2
  BY RowOf DEF ChallengeAges
<1>2. c.age + 1 \in 0..2
  BY <1>1
<1>3. d \in ChallengeRows
  BY <1>1, <1>2 DEF ChallengeRows
<1>4. challenges' = [challenges EXCEPT ![k] = d]
  BY DEF ChallengeAges, EnrolInv, TypeOK
<1>5. StateKept(c, d)
  BY <1>1 DEF StateKept
<1> HIDE DEF c, d
<1> QED
  BY <1>3, <1>4, <1>5, OneChallenge DEF Follows, c

(* Every step keeps to what may be done to a challenge. *)
LEMMA ChallengesFollow ==
  ASSUME EnrolInv, [Next]_vars
  PROVE  ChallengeStep
<1>1. CASE UNCHANGED challenges
  BY <1>1, SameChallenges
<1>2. CASE \E k \in Challenges : Request(k) \/ Verification(k) \/ ChallengeAges(k)
  BY <1>2, RequestStep, VerificationStep, AgeStep
<1>3. CASE \E c \in Contacts, raw \in BOOLEAN : Apply(c, raw)
  BY <1>1, <1>3 DEF Apply
<1>4. CASE \E a \in Applications : Approve(a) \/ Reject(a) \/ StandingChanges(a)
  BY <1>1, <1>4 DEF Approve, Reject, StandingChanges
<1>5. CASE \E v \in Calls : SessionEnds(v)
  BY <1>1, <1>5 DEF SessionEnds
<1> QED
  BY <1>1, <1>2, <1>3, <1>4, <1>5 DEF Next, vars

(* What has been decided stays, and so do the wrong codes counted. *)
LEMMA DecidedStays ==
  ASSUME EnrolInv, ChallengeStep, NEW k \in Challenges,
         challenges[k].state \in {"USED", "REVOKED"}
  PROVE  /\ challenges'[k].state = challenges[k].state
         /\ challenges'[k].attempts = challenges[k].attempts
         /\ challenges'[k].kind = challenges[k].kind
         /\ challenges'[k].app = challenges[k].app
<1> DEFINE c == challenges[k]
           d == challenges'[k]
<1>1. c \in ChallengeRows /\ ~(c.at \in {"idle", "resolved"})
  BY RowOf DEF EnrolInv, ChallengesSound
<1>2. ~IsSpent(c, d) /\ ~Resolves(c, d) /\ ~Inserted(c, d) /\ ~OpenChanges(c, d)
  BY <1>1 DEF IsSpent, Resolves, Inserted, OpenChanges
<1>3. d = c \/ StateKept(c, d)
  BY <1>2 DEF ChallengeStep, Follows
<1> HIDE DEF d
<1> QED
  BY <1>1, <1>3 DEF StateKept, ChallengeRows, d

-----------------------------------------------------------------------------
(* What every step does to the applications.                               *)

MembersStay == \A a \in Applications : Member(a) => applications'[a].member # "NONE"

(* Who becomes a member by the form has a code spent by this step. *)
FormEarned ==
  \A a \in Applications :
    applications'[a].member # "NONE" /\ applications'[a].mode = "AUTO" =>
      \/ Member(a) /\ applications[a].mode = "AUTO"
      \/ \E k \in Challenges : /\ challenges'[k].kind = "ENROL"
                               /\ challenges'[k].app = a
                               /\ challenges'[k].state = "USED"

RowsStep ==
  /\ applications' \in [Applications -> ApplicationRows]
  /\ ApplicationsInv'
  /\ MembersStay
  /\ FormEarned

LEMMA SameRowsStep ==
  ASSUME EnrolInv, UNCHANGED applications
  PROVE  RowsStep
<1>1. MembersStay /\ FormEarned
  BY DEF MembersStay, FormEarned, Member
<1> QED
  BY <1>1, SameRowsKeep DEF RowsStep

LEMMA NewRowStep ==
  ASSUME EnrolInv, NEW r \in ApplicationRows, NewRow(r), RowSound(r), r.state # "NONE",
         r.member = "NONE",
         r.mode = "AUTO" => Live(r.contact) = {},
         r.campaign => HasRoom
  PROVE  RowsStep
<1>1. MembersStay
  BY NewRowKeeps DEF MembersStay, Member
<1>2. FormEarned
  BY DEF FormEarned, NewRow, Member, EnrolInv, TypeOK
<1> QED
  BY <1>1, <1>2, NewRowKeeps DEF RowsStep

LEMMA ApplicationRow ==
  ASSUME EnrolInv, NEW a \in Applications
  PROVE  /\ applications[a] \in ApplicationRows
         /\ RowSound(applications[a])
BY DEF EnrolInv, TypeOK, ApplicationsInv, RowsSound

LEMMA ChangedRowStep ==
  ASSUME EnrolInv, NEW a \in Applications, NEW r \in ApplicationRows, RowChanged(a, r),
         RowSound(r),
         Member(a) => r.member # "NONE",
         r.member # "NONE" /\ r.mode = "AUTO" =>
           \/ Member(a)
           \/ \E k \in Challenges : /\ challenges'[k].kind = "ENROL"
                                    /\ challenges'[k].app = a
                                    /\ challenges'[k].state = "USED"
  PROVE  RowsStep
<1>1. applications'[a] = r /\ \A b \in Applications \ {a} : applications'[b] = applications[b]
  BY DEF RowChanged, EnrolInv, TypeOK
<1>2. r.mode = applications[a].mode
  BY DEF RowChanged
<1>3. MembersStay
  BY <1>1 DEF MembersStay, Member
<1>4. FormEarned
  BY <1>1, <1>2 DEF FormEarned, Member
<1> QED
  BY <1>3, <1>4, ChangedRowKeeps DEF RowsStep

LEMMA NoApplicationType ==
  ASSUME NEW c \in Contacts
  PROVE  NoApplication(c) \in ApplicationRows
BY DEF NoApplication, ApplicationRows

LEMMA ResolveNewRows ==
  ASSUME EnrolInv, NEW k \in Challenges, NEW c \in Contacts, NEW campaign \in BOOLEAN,
         ResolveNew(k, c, campaign)
  PROVE  RowsStep
<1> DEFINE r == [NoApplication(c) EXCEPT !.state = "PENDING_VERIFICATION", !.campaign = campaign]
<1>1. /\ r \in ApplicationRows
      /\ r.state = "PENDING_VERIFICATION" /\ r.mode = "AUTO" /\ r.contact = c
      /\ ~r.raw /\ r.campaign = campaign /\ r.member = "NONE"
  BY NoApplicationType DEF NoApplication, ApplicationRows
<1>2. NewRow(r) /\ Live(c) = {} /\ (campaign => HasRoom)
  BY DEF ResolveNew, NewRow
<1> HIDE DEF r
<1>3. RowSound(r)
  BY <1>1 DEF RowSound
<1> QED
  BY <1>1, <1>2, <1>3, NewRowStep

LEMMA ApplyRows ==
  ASSUME EnrolInv, NEW c \in Contacts, NEW raw \in BOOLEAN, Apply(c, raw)
  PROVE  RowsStep
<1> DEFINE r == [NoApplication(c) EXCEPT !.state = "SUBMITTED", !.mode = "MANUAL", !.raw = raw]
<1>1. /\ r \in ApplicationRows
      /\ r.state = "SUBMITTED" /\ r.mode = "MANUAL" /\ ~r.campaign /\ r.member = "NONE"
  BY NoApplicationType DEF NoApplication, ApplicationRows
<1>2. NewRow(r)
  BY DEF Apply, NewRow
<1> HIDE DEF r
<1>3. RowSound(r)
  BY <1>1 DEF RowSound
<1> QED
  BY <1>1, <1>2, <1>3, NewRowStep

LEMMA VerifyEnrolmentRows ==
  ASSUME EnrolInv, NEW v \in Calls, NEW k \in Challenges, VerifyEnrolment(v, k)
  PROVE  RowsStep
<1> DEFINE a == challenges[k].app
           r == [applications[a] EXCEPT !.state = "SUBMITTED", !.member = "ELIGIBLE"]
<1>1. a \in Applications /\ applications' = Provisioned(a)
  BY RowOf DEF VerifyEnrolment
<1>2. CASE applications[a].state = "PENDING_VERIFICATION"
  <2>1. applications[a] \in ApplicationRows /\ RowSound(applications[a])
    BY <1>1, ApplicationRow
  <2>2. r \in ApplicationRows
    BY <2>1 DEF ApplicationRows
  <2>3. RowSound(r)
    BY <1>2, <2>1 DEF RowSound, ApplicationRows
  <2>4. RowChanged(a, r)
    BY <1>1, <1>2, <2>1 DEF RowChanged, Provisioned, EnrolInv, TypeOK, Used, ApplicationRows
  <2>5. r.member # "NONE"
    BY <2>1 DEF ApplicationRows
  <2>6. /\ challenges'[k].kind = "ENROL"
        /\ challenges'[k].app = a
        /\ challenges'[k].state = "USED"
    BY RowOf DEF VerifyEnrolment, Spent, EnrolInv, TypeOK, ChallengeRows
  <2> HIDE DEF a, r
  <2> QED
    BY <1>1, <2>2, <2>3, <2>4, <2>5, <2>6, ChangedRowStep
<1>3. CASE applications[a].state # "PENDING_VERIFICATION"
  BY <1>1, <1>3, SameRowsStep DEF Provisioned
<1> QED
  BY <1>2, <1>3

LEMMA DecisionRows ==
  ASSUME EnrolInv, NEW a \in Applications, Approve(a) \/ Reject(a) \/ StandingChanges(a)
  PROVE  RowsStep
<1>1. applications[a] \in ApplicationRows /\ RowSound(applications[a])
  BY ApplicationRow
<1>2. CASE Approve(a)
  <2> DEFINE r == [applications[a] EXCEPT !.state = "APPROVED", !.member = "ELIGIBLE",
                                          !.raw = FALSE]
  <2>1. r \in ApplicationRows
    BY <1>1 DEF ApplicationRows
  <2>2. /\ applications[a].state = "SUBMITTED" /\ applications[a].mode = "MANUAL"
        /\ ~Member(a) /\ applications' = [applications EXCEPT ![a] = r]
    BY <1>2 DEF Approve, Decidable, EnrolInv, TypeOK
  <2>3. RowSound(r) /\ r.mode = "MANUAL"
    BY <1>1, <2>2 DEF RowSound, ApplicationRows
  <2>4. RowChanged(a, r)
    BY <1>1, <2>2 DEF RowChanged, Used, ApplicationRows
  <2> HIDE DEF r
  <2> QED
    BY <2>1, <2>2, <2>3, <2>4, ChangedRowStep
<1>3. CASE Reject(a)
  <2> DEFINE r == [applications[a] EXCEPT !.state = "REJECTED"]
  <2>1. r \in ApplicationRows
    BY <1>1 DEF ApplicationRows
  <2>2. /\ applications[a].state = "SUBMITTED" /\ applications[a].mode = "MANUAL"
        /\ ~Member(a) /\ applications' = [applications EXCEPT ![a] = r]
    BY <1>3 DEF Reject, Decidable, EnrolInv, TypeOK
  <2>3. RowSound(r) /\ r.mode = "MANUAL"
    BY <1>1, <2>2 DEF RowSound, ApplicationRows, Member
  <2>4. RowChanged(a, r)
    BY <1>1, <2>2 DEF RowChanged, Used, ApplicationRows
  <2> HIDE DEF r
  <2> QED
    BY <2>1, <2>2, <2>3, <2>4, ChangedRowStep
<1>4. CASE StandingChanges(a)
  <2> DEFINE m == IF applications[a].member = "ELIGIBLE" THEN "BARRED" ELSE "ELIGIBLE"
             r == [applications[a] EXCEPT !.member = m]
  <2>1. m \in {"ELIGIBLE", "BARRED"}
    OBVIOUS
  <2>2. Member(a) /\ applications' = [applications EXCEPT ![a] = r]
    BY <1>4 DEF StandingChanges, EnrolInv, TypeOK
  <2> HIDE DEF m
  <2>3. r \in ApplicationRows
    BY <1>1, <2>1 DEF ApplicationRows
  <2>4. RowSound(r) /\ r.member # "NONE"
    BY <1>1, <2>1, <2>2 DEF RowSound, ApplicationRows, Member
  <2>5. RowChanged(a, r)
    BY <1>1, <2>2 DEF RowChanged, Used, RowSound, Member, ApplicationRows
  <2> HIDE DEF r
  <2> QED
    BY <2>2, <2>3, <2>4, <2>5, ChangedRowStep
<1> QED
  BY <1>2, <1>3, <1>4

LEMMA RequestRows ==
  ASSUME EnrolInv, NEW k \in Challenges, Request(k)
  PROVE  RowsStep
<1>1. ASSUME NEW c \in Contacts, NEW campaign \in BOOLEAN, ResolveNew(k, c, campaign)
      PROVE  RowsStep
  BY <1>1, ResolveNewRows
<1>2. CASE UNCHANGED applications
  BY <1>2, SameRowsStep
<1> QED
  BY <1>1, <1>2 DEF Request, ResolveKnown, RequestRecovery, RequestSignIn, CreateChallenge,
                    MessageArrives, DeliveryReported, DeliveryFails

LEMMA VerificationRows ==
  ASSUME EnrolInv, NEW k \in Challenges, Verification(k)
  PROVE  RowsStep
<1>1. ASSUME NEW v \in Calls, VerifyEnrolment(v, k) PROVE RowsStep
  BY <1>1, VerifyEnrolmentRows
<1>2. CASE UNCHANGED applications
  BY <1>2, SameRowsStep
<1> QED
  BY <1>1, <1>2 DEF Verification, WrongCode, VerifyRecovery, ReplayEnrolment, ReplayWrongCode,
                    VerifySignIn

LEMMA RowsFollow ==
  ASSUME EnrolInv, [Next]_vars
  PROVE  RowsStep
<1>1. CASE UNCHANGED applications
  BY <1>1, SameRowsStep
<1>2. CASE \E k \in Challenges : Request(k) \/ Verification(k) \/ ChallengeAges(k)
  BY <1>1, <1>2, RequestRows, VerificationRows DEF ChallengeAges
<1>3. CASE \E c \in Contacts, raw \in BOOLEAN : Apply(c, raw)
  BY <1>3, ApplyRows
<1>4. CASE \E a \in Applications : Approve(a) \/ Reject(a) \/ StandingChanges(a)
  BY <1>4, DecisionRows
<1>5. CASE \E v \in Calls : SessionEnds(v)
  BY <1>1, <1>5 DEF SessionEnds
<1> QED
  BY <1>1, <1>2, <1>3, <1>4, <1>5 DEF Next, vars

-----------------------------------------------------------------------------
(* The invariant is inductive.                                             *)

LEMMA SessionForType ==
  ASSUME EnrolInv, NEW v \in Calls, NEW a \in Applications
  PROVE  SessionFor(v, a) \in [Calls -> Applications \cup {None}]
BY DEF EnrolInv, TypeOK, SessionFor

LEMMA SessionsStep ==
  ASSUME EnrolInv, [Next]_vars
  PROVE  /\ sessions' \in [Calls -> Applications \cup {None}]
         /\ tokens' \subseteq Calls
<1>1. sessions \in [Calls -> Applications \cup {None}] /\ tokens \subseteq Calls
  BY DEF EnrolInv, TypeOK
<1>2. CASE UNCHANGED <<sessions, tokens>>
  BY <1>1, <1>2
<1>3. ASSUME NEW k \in Challenges, NEW v \in Calls,
             VerifyEnrolment(v, k) \/ ReplayEnrolment(v, k)
      PROVE  /\ sessions' \in [Calls -> Applications \cup {None}]
             /\ tokens' \subseteq Calls
  <2>1. sessions' = SessionFor(v, challenges[k].app) /\ tokens' = tokens \cup {v}
    BY <1>3 DEF VerifyEnrolment, ReplayEnrolment
  <2> QED
    BY <1>1, <2>1, RowOf, SessionForType
<1>4. ASSUME NEW k \in Challenges, NEW v \in Calls,
             ReplayWrongCode(v, k) \/ VerifySignIn(v, k)
      PROVE  /\ sessions' \in [Calls -> Applications \cup {None}]
             /\ tokens' \subseteq Calls
  BY <1>1, <1>4, RowOf DEF ReplayWrongCode, VerifySignIn
<1>5. ASSUME NEW v \in Calls, SessionEnds(v)
      PROVE  /\ sessions' \in [Calls -> Applications \cup {None}]
             /\ tokens' \subseteq Calls
  BY <1>1, <1>5 DEF SessionEnds
<1>6. ASSUME NEW k \in Challenges, Request(k) PROVE UNCHANGED <<sessions, tokens>>
  BY <1>6 DEF Request, ResolveKnown, RequestRecovery, ResolveNew, RequestSignIn,
              CreateChallenge, MessageArrives, DeliveryReported, DeliveryFails
<1>7. ASSUME NEW k \in Challenges, WrongCode(k) \/ VerifyRecovery(k) \/ ChallengeAges(k)
      PROVE  UNCHANGED <<sessions, tokens>>
  BY <1>7 DEF WrongCode, VerifyRecovery, ChallengeAges
<1>8. ASSUME NEW a \in Applications, Approve(a) \/ Reject(a) \/ StandingChanges(a)
      PROVE  UNCHANGED <<sessions, tokens>>
  BY <1>8 DEF Approve, Reject, StandingChanges
<1>9. ASSUME NEW c \in Contacts, NEW raw \in BOOLEAN, Apply(c, raw)
      PROVE  UNCHANGED <<sessions, tokens>>
  BY <1>9 DEF Apply
<1> QED
  BY <1>2, <1>3, <1>4, <1>5, <1>6, <1>7, <1>8, <1>9 DEF Next, Verification, vars

LEMMA ChallengesStaySound ==
  ASSUME EnrolInv, ChallengeStep, MembersStay
  PROVE  ChallengesSound'
<1> SUFFICES ASSUME NEW k \in Challenges
             PROVE  LET c == challenges'[k] IN
                    /\ c.at \in {"idle", "resolved"} => c.state = "NONE"
                    /\ (c.at = "resolved" \/ c.state # "NONE") /\ c.kind # "ENROL"
                         => applications'[c.app].member # "NONE"
                    /\ c.state = "USED" => applications'[c.app].member # "NONE"
  BY DEF ChallengesSound, Member
<1> DEFINE c == challenges[k]
           d == challenges'[k]
<1>1. /\ c \in ChallengeRows /\ c.app \in Applications
      /\ c.at \in {"idle", "resolved"} => c.state = "NONE"
      /\ (c.at = "resolved" \/ c.state # "NONE") /\ c.kind # "ENROL" => Member(c.app)
      /\ c.state = "USED" => Member(c.app)
  BY RowOf DEF EnrolInv, ChallengesSound
<1>2. \A a \in Applications : Member(a) => applications'[a].member # "NONE"
  BY DEF MembersStay
<1>3. Follows(c, d) \/ (IsSpent(c, d) /\ applications'[c.app].member # "NONE")
  BY DEF ChallengeStep
<1> HIDE DEF c, d
<1>4. CASE d = c
  BY <1>1, <1>2, <1>4 DEF d
<1>5. CASE Resolves(c, d)
  BY <1>2, <1>5 DEF Resolves, NoChallenge, d
<1>6. CASE Inserted(c, d)
  BY <1>1, <1>2, <1>6 DEF Inserted, NoChallenge, ChallengeRows, d
<1>7. CASE OpenChanges(c, d)
  BY <1>1, <1>2, <1>7 DEF OpenChanges, ChallengeRows, d
<1>8. CASE StateKept(c, d)
  BY <1>1, <1>2, <1>8 DEF StateKept, ChallengeRows, d
<1>9. CASE IsSpent(c, d) /\ applications'[c.app].member # "NONE"
  BY <1>1, <1>9 DEF IsSpent, ChallengeRows, d
<1> QED
  BY <1>3, <1>4, <1>5, <1>6, <1>7, <1>8, <1>9 DEF Follows

LEMMA CodesStayEarned ==
  ASSUME EnrolInv, ChallengeStep, FormEarned
  PROVE  VerifiedByCode'
<1> SUFFICES ASSUME NEW a \in Applications,
                    applications'[a].member # "NONE", applications'[a].mode = "AUTO"
             PROVE  \E k \in Challenges : /\ challenges'[k].kind = "ENROL"
                                          /\ challenges'[k].app = a
                                          /\ challenges'[k].state = "USED"
  BY DEF VerifiedByCode, Member
<1>1. CASE Member(a) /\ applications[a].mode = "AUTO"
  <2>1. PICK k \in Challenges : /\ challenges[k].kind = "ENROL"
                                /\ challenges[k].app = a
                                /\ challenges[k].state = "USED"
    BY <1>1 DEF EnrolInv, VerifiedByCode
  <2> QED
    BY <2>1, DecidedStays
<1> QED
  BY <1>1 DEF FormEarned

LEMMA EnrolInit ==
  ASSUME Init
  PROVE  EnrolInv
<1>1. PICK c \in Contacts : applications = [a \in Applications |-> NoApplication(c)]
  BY DEF Init
<1>2. NoApplication(c) \in ApplicationRows /\ RowSound(NoApplication(c))
  BY DEF NoApplication, ApplicationRows, RowSound
<1>3. \A a \in Applications : applications[a].state = "NONE" /\ applications[a].member = "NONE"
  BY <1>1 DEF NoApplication
<1>4. Used = {} /\ Enrolled = {}
  BY <1>3 DEF Used, Enrolled
<1>5. TypeOK
  BY <1>1, <1>2, NoChallengeType DEF Init, TypeOK
<1>6. UsedFirst
  <2>1. 0 \in 0..MaxApplications /\ 1..0 = {}
    BY EnrolmentAssumption
  <2> QED
    BY <1>4, <2>1 DEF UsedFirst
<1>7. RowsSound /\ OnePerContact
  BY <1>1, <1>2, <1>4 DEF RowsSound, OnePerContact
<1>8. WithinMaximum
  BY <1>4, FS_EmptySet, EnrolmentAssumption DEF WithinMaximum
<1>9. ChallengesSound
  BY DEF Init, NoChallenge, ChallengesSound
<1>10. VerifiedByCode
  BY <1>3 DEF VerifiedByCode, Member
<1> QED
  BY <1>5, <1>6, <1>7, <1>8, <1>9, <1>10 DEF EnrolInv, ApplicationsInv

LEMMA EnrolStep ==
  ASSUME EnrolInv, [Next]_vars
  PROVE  EnrolInv'
<1>1. ChallengeStep /\ RowsStep
  BY ChallengesFollow, RowsFollow
<1>2. TypeOK'
  BY <1>1, SessionsStep DEF ChallengeStep, RowsStep, TypeOK
<1>3. ChallengesSound' /\ VerifiedByCode'
  BY <1>1, ChallengesStaySound, CodesStayEarned DEF RowsStep
<1> QED
  BY <1>1, <1>2, <1>3 DEF RowsStep, EnrolInv

(* However forms, codes, replies and reviewers interleave, the invariant   *)
(* of the enrolment tables holds.                                          *)
THEOREM EnrolInvAlways == Spec => []EnrolInv
<1>1. Init => EnrolInv
  BY EnrolInit
<1>2. EnrolInv /\ [Next]_vars => EnrolInv'
  BY EnrolStep
<1> QED
  BY <1>1, <1>2, PTL DEF Spec

-----------------------------------------------------------------------------
(* What follows from it.                                                   *)

LEMMA EarnedBy ==
  ASSUME EnrolInv, NEW a \in Applications
  PROVE  Member(a) <=> CASE applications[a].mode = "AUTO" ->
                              \E k \in Challenges : /\ challenges[k].kind = "ENROL"
                                                    /\ challenges[k].app = a
                                                    /\ challenges[k].state = "USED"
                         [] OTHER -> applications[a].state = "APPROVED"
<1>1. applications[a].mode \in {"AUTO", "MANUAL"} /\ RowSound(applications[a])
  BY ApplicationRow DEF ApplicationRows
<1>2. CASE applications[a].mode = "AUTO"
  <2>1. Member(a) <=> \E k \in Challenges : /\ challenges[k].kind = "ENROL"
                                            /\ challenges[k].app = a
                                            /\ challenges[k].state = "USED"
    BY <1>2 DEF EnrolInv, VerifiedByCode, ChallengesSound
  <2> QED
    BY <1>2, <2>1
<1>3. CASE applications[a].mode = "MANUAL"
  <2>1. Member(a) <=> applications[a].state = "APPROVED"
    BY <1>1, <1>3 DEF RowSound, Member
  <2> QED
    BY <1>3, <2>1
<1> QED
  BY <1>1, <1>2, <1>3

(* A set no two elements of which differ has at most one. *)
LEMMA AtMostOne ==
  ASSUME NEW S, \A x, y \in S : x = y
  PROVE  Cardinality(S) <= 1
<1>1. CASE S = {}
  BY <1>1, FS_EmptySet
<1>2. CASE S # {}
  <2>1. PICK x \in S : TRUE
    BY <1>2
  <2>2. S = {x}
    BY <2>1
  <2>3. Cardinality({x}) = 1
    BY FS_Singleton
  <2> QED
    BY <2>2, <2>3
<1> QED
  BY <1>1, <1>2

LEMMA InvariantIsSound ==
  ASSUME EnrolInv
  PROVE  EnrolmentsSound
<1>1. MembershipEarned
  <2>1. TypeOK
    BY DEF EnrolInv
  <2>2. \A k \in Challenges : challenges[k].state = "USED" => Member(challenges[k].app)
    BY DEF EnrolInv, ChallengesSound
  <2> QED
    BY <2>1, <2>2, EarnedBy DEF MembershipEarned
<1>2. ASSUME NEW c \in Contacts
      PROVE  Cardinality({a \in Used : /\ applications[a].mode = "AUTO"
                                       /\ applications[a].contact = c}) <= 1
  <2> DEFINE S == {a \in Used : applications[a].mode = "AUTO" /\ applications[a].contact = c}
  <2>1. \A x, y \in S : x = y
    BY DEF EnrolInv, ApplicationsInv, OnePerContact
  <2> HIDE DEF S
  <2>2. Cardinality(S) <= 1
    BY <2>1, AtMostOne
  <2> QED
    BY <2>2 DEF S
<1>3. Cardinality({a \in Used : applications[a].campaign}) <= CampaignMax
  BY DEF EnrolInv, ApplicationsInv, WithinMaximum, Enrolled
<1> QED
  BY <1>1, <1>2, <1>3 DEF EnrolmentsSound, EnrolmentsBounded

(* For every set of contacts and every limit: a membership is earned by a  *)
(* verified code or a reviewer, a spent code has its membership, a contact *)
(* has one application of the form's and a campaign keeps to its maximum,  *)
(* whatever resolve_enrollment_contact, verify_and_provision_enrollment    *)
(* and the decisions do at the same time.                                  *)
THEOREM EnrolmentsAlwaysSound == Spec => []EnrolmentsSound
BY EnrolInvAlways, InvariantIsSound, PTL

(* No newer code, replay, guess or late delivery failure takes a challenge *)
(* out of USED or REVOKED, and no step takes a membership away.            *)
THEOREM CodesAlwaysDecideOnce == Spec => CodesDecideOnce
<1> DEFINE Decided ==
      /\ \A k \in Challenges : challenges[k].state \in {"USED", "REVOKED"} =>
           /\ challenges'[k].state = challenges[k].state
           /\ challenges'[k].attempts = challenges[k].attempts
      /\ \A a \in Applications : Member(a) => applications'[a].member # "NONE"
<1>1. EnrolInv /\ [Next]_vars => [Decided]_vars
  <2> SUFFICES ASSUME EnrolInv, [Next]_vars PROVE Decided
    OBVIOUS
  <2>1. ChallengeStep /\ MembersStay
    BY ChallengesFollow, RowsFollow DEF RowsStep
  <2> QED
    BY <2>1, DecidedStays DEF MembersStay
<1> QED
  BY <1>1, EnrolInvAlways, PTL DEF Spec, CodesDecideOnce
=============================================================================
