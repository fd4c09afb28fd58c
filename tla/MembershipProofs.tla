-------------------------- MODULE MembershipProofs --------------------------
(***************************************************************************)
(* Theorems about invoices, evidence and standing, for any members,        *)
(* employees, requests, receipts, overlapping jobs, years and fees.        *)
(***************************************************************************)
EXTENDS MembershipProperties, TLAPS

USE MembershipAssumption

(***************************************************************************)
(* How a step may move the two ledgers.                                    *)
(***************************************************************************)

IssueMove(b, amount) ==
  /\ invoices[b].state = "NONE"
  /\ invoices' = [invoices EXCEPT ![b] = Issued(amount)]
  /\ UNCHANGED evidence

DueMove(b) ==
  /\ invoices[b].state = "OPEN"
  /\ invoices' = [invoices EXCEPT ![b].due = TRUE]
  /\ UNCHANGED evidence

ReconcileMove(e, b, amount) ==
  /\ e \in Receipts
  /\ evidence[e] = NoEvidence
  /\ evidence' = [evidence EXCEPT ![e].obligation = b, ![e].amount = amount]
  /\ UNCHANGED invoices

(* An OPEN invoice is paid by evidence for it that pays nothing yet.       *)
PayMove(b, e) ==
  /\ invoices[b].state = "OPEN"
  /\ evidence[e].consumer = None
  /\ invoices' = [invoices EXCEPT ![b] = Paid(@, e)]
  /\ evidence' = [evidence EXCEPT ![e] = [obligation |-> b, consumer |-> b,
                                          amount |-> invoices[b].amount]]

LedgerMove ==
  \/ UNCHANGED <<invoices, evidence>>
  \/ \E b \in Bills, amount \in 0..MaxFee : IssueMove(b, amount)
  \/ \E b \in Bills : DueMove(b)
  \/ \E e \in Evidence, b \in Bills, amount \in Amounts : ReconcileMove(e, b, amount)
  \/ \E b \in Bills, e \in Evidence : PayMove(b, e)

-----------------------------------------------------------------------------
LEMMA BillOf ==
  ASSUME NEW m \in Members, NEW y \in Years
  PROVE  <<m, y>> \in Bills /\ <<m, y>> # None
BY DEF Bills, Members, Years

LEMMA NoneIsNobody == None \notin Bills /\ None \notin Evidence
BY DEF Bills, Members, Years, Evidence

LEMMA ApplicantsAreMembers ==
  /\ Applicants \subseteq Members /\ Employees \subseteq Members
  /\ Applicants \cap Employees = {}
BY DEF Members

(* Every step moves the ledgers in one of these ways.                      *)
LEMMA StepsMoveLedgers ==
  ASSUME TypeOK, [Next]_vars
  PROVE  LedgerMove
<1>1. ASSUME NEW m \in Applicants, IssueInvoice(m)
      PROVE  LedgerMove
  <2>1. <<m, year>> \in Bills
    BY BillOf, ApplicantsAreMembers DEF TypeOK
  <2>2. IssueMove(<<m, year>>, fee)
    BY <1>1 DEF IssueInvoice, IssueMove
  <2> QED BY <2>1, <2>2 DEF LedgerMove, TypeOK
<1>2. ASSUME NEW m \in Employees, EndSponsorship(m)
      PROVE  LedgerMove
  <2>1. <<m, year>> \in Bills
    BY BillOf, ApplicantsAreMembers DEF TypeOK
  <2>2. IssueMove(<<m, year>>, fee)
    BY <1>2 DEF EndSponsorship, IssueMove
  <2> QED BY <2>1, <2>2 DEF LedgerMove, TypeOK
<1>3. ASSUME NEW j \in Jobs, NEW m \in Members, BillNext(j, m)
      PROVE  LedgerMove
  <2> DEFINE bill == <<m, jobs[j].year>>
  <2>1. jobs[j].year \in Years /\ jobs[j].fee \in 0..MaxFee
    BY DEF TypeOK, JobStates
  <2>2. bill \in Bills
    BY <2>1, BillOf
  <2>3. UNCHANGED evidence /\ (invoices' = Billed(bill, jobs[j].fee) \/ UNCHANGED invoices)
    BY <1>3 DEF BillNext
  <2>4. CASE invoices' = [invoices EXCEPT ![bill] = Issued(jobs[j].fee)]
               /\ invoices[bill].state = "NONE"
    BY <2>1, <2>2, <2>3, <2>4 DEF LedgerMove, IssueMove
  <2>5. CASE UNCHANGED invoices
    BY <2>3, <2>5 DEF LedgerMove
  <2> QED BY <2>3, <2>4, <2>5 DEF Billed
<1>4. ASSUME NEW m \in Applicants, NEW y \in Years, NEW r \in Requests, PaySandbox(r, m, y)
      PROVE  LedgerMove
  <2>1. <<m, y>> \in Bills /\ r \in Evidence
    BY BillOf, ApplicantsAreMembers DEF Evidence
  <2>2. PayMove(<<m, y>>, r)
    BY <1>4 DEF PaySandbox, PayMove, Settleable, Allocate, NoEvidence
  <2> QED BY <2>1, <2>2 DEF LedgerMove
<1>5. ASSUME NEW m \in Applicants, NEW y \in Years, NEW e \in Receipts, SettleReceipt(e, m, y)
      PROVE  LedgerMove
  <2>1. <<m, y>> \in Bills /\ e \in Evidence
    BY BillOf, ApplicantsAreMembers DEF Evidence
  <2>2. evidence[e] \in EvidenceRows
    BY <2>1 DEF TypeOK
  <2>3. /\ evidence[e].obligation = <<m, y>> /\ evidence[e].consumer = None
        /\ evidence[e].amount = invoices[<<m, y>>].amount
    BY <1>5 DEF SettleReceipt, Matches
  <2>4. [evidence[e] EXCEPT !.consumer = <<m, y>>]
          = [obligation |-> <<m, y>>, consumer |-> <<m, y>>, amount |-> invoices[<<m, y>>].amount]
    BY <2>2, <2>3 DEF EvidenceRows
  <2>5. evidence' = [evidence EXCEPT ![e] = [evidence[e] EXCEPT !.consumer = <<m, y>>]]
    BY <1>5 DEF SettleReceipt
  <2>6. PayMove(<<m, y>>, e)
    BY <1>5, <2>3, <2>4, <2>5 DEF SettleReceipt, PayMove, Settleable, Allocate
  <2> QED BY <2>1, <2>6 DEF LedgerMove
<1>6. ASSUME NEW m \in Applicants, NEW y \in Years, NEW e \in Receipts, NEW amount \in Amounts,
             Reconcile(e, m, y, amount)
      PROVE  LedgerMove
  <2>1. <<m, y>> \in Bills /\ e \in Evidence
    BY BillOf, ApplicantsAreMembers DEF Evidence
  <2>2. ReconcileMove(e, <<m, y>>, amount)
    BY <1>6 DEF Reconcile, ReconcileMove
  <2> QED BY <2>1, <2>2 DEF LedgerMove
<1>7. ASSUME NEW b \in Bills, DueDatePasses(b)
      PROVE  LedgerMove
  BY <1>7 DEF DueDatePasses, DueMove, LedgerMove
<1>8. ASSUME UNCHANGED <<invoices, evidence>>
      PROVE  LedgerMove
  BY <1>8 DEF LedgerMove
<1>9. CASE MemberStep
  BY <1>1, <1>4, <1>5, <1>6, <1>8, <1>9
     DEF MemberStep, Enrol, SignIn, ReplayEnrolment, SessionExpires
<1>10. ASSUME NEW j \in Jobs, JobStep(j) \/ JobDies(j)
       PROVE  LedgerMove
  BY <1>3, <1>8, <1>10 DEF JobStep, JobDies, StartJob, FindOverdue, GraceOverdue, RestrictLapsed
<1>11. CASE \E f \in 1..MaxFee : SetFee(f)
  BY <1>8, <1>11 DEF SetFee
<1>12. CASE \E m \in Employees : Sponsor(m)
  BY <1>8, <1>12 DEF Sponsor
<1>13. CASE \E m \in Members : GraceEnds(m)
  BY <1>8, <1>13 DEF GraceEnds
<1>14. CASE NewYear \/ UNCHANGED vars
  BY <1>8, <1>14 DEF NewYear, vars
<1> QED BY <1>2, <1>7, <1>9, <1>10, <1>11, <1>12, <1>13, <1>14 DEF Next

-----------------------------------------------------------------------------
(* Types.                                                                  *)

LEMMA InvoiceTypes ==
  /\ \A amount \in 0..MaxFee : Issued(amount) \in InvoiceRows
  /\ \A r \in InvoiceRows : [r EXCEPT !.due = TRUE] \in InvoiceRows
  /\ \A r \in InvoiceRows, e \in Evidence : Paid(r, e) \in InvoiceRows
BY DEF Issued, Paid, InvoiceRows

LEMMA RowTypes ==
  /\ NoMember \in MemberRows
  /\ NoInvoice \in InvoiceRows
  /\ NoEvidence \in EvidenceRows
  /\ Idle \in JobStates
  /\ \A r \in MemberRows : Restored(r) \in MemberRows
BY DEF NoMember, MemberRows, NoInvoice, InvoiceRows, NoEvidence, EvidenceRows, Idle,
       JobStates, Restored, Years, Amounts

LEMMA LedgerTypes ==
  ASSUME TypeOK, LedgerMove
  PROVE  invoices' \in [Bills -> InvoiceRows] /\ evidence' \in [Evidence -> EvidenceRows]
<1> USE DEF TypeOK
<1>1. CASE UNCHANGED <<invoices, evidence>>
  BY <1>1
<1>2. ASSUME NEW b \in Bills, NEW amount \in 0..MaxFee, IssueMove(b, amount)
      PROVE  invoices' \in [Bills -> InvoiceRows] /\ evidence' = evidence
  BY <1>2, InvoiceTypes DEF IssueMove
<1>3. ASSUME NEW b \in Bills, DueMove(b)
      PROVE  invoices' \in [Bills -> InvoiceRows] /\ evidence' = evidence
  BY <1>3, InvoiceTypes DEF DueMove
<1>4. ASSUME NEW e \in Evidence, NEW b \in Bills, NEW amount \in Amounts,
             ReconcileMove(e, b, amount)
      PROVE  evidence' \in [Evidence -> EvidenceRows] /\ invoices' = invoices
  <2>1. [NoEvidence EXCEPT !.obligation = b, !.amount = amount] \in EvidenceRows
    BY DEF NoEvidence, EvidenceRows
  <2>2. evidence' = [evidence EXCEPT ![e] = [NoEvidence EXCEPT !.obligation = b, !.amount = amount]]
    BY <1>4 DEF ReconcileMove
  <2> QED BY <1>4, <2>1, <2>2 DEF ReconcileMove
<1>5. ASSUME NEW b \in Bills, NEW e \in Evidence, PayMove(b, e)
      PROVE  invoices' \in [Bills -> InvoiceRows] /\ evidence' \in [Evidence -> EvidenceRows]
  <2>1. Paid(invoices[b], e) \in InvoiceRows
    BY InvoiceTypes
  <2>2. invoices[b].amount \in {0} \cup Amounts
    BY DEF InvoiceRows, Amounts
  <2>3. [obligation |-> b, consumer |-> b, amount |-> invoices[b].amount] \in EvidenceRows
    BY <2>2 DEF EvidenceRows
  <2> QED BY <1>5, <2>1, <2>3 DEF PayMove
<1> QED BY <1>1, <1>2, <1>3, <1>4, <1>5 DEF LedgerMove

-----------------------------------------------------------------------------
(* How a step may change a membership row.                                 *)

(* One of the member's invoices is paid, and no other one is overdue if    *)
(* the membership has been active before.                                  *)
Settles(m) ==
  \E y \in Years :
    /\ invoices[<<m, y>>].state = "OPEN" /\ invoices'[<<m, y>>].state = "PAID"
    /\ members[m].state = "ACTIVE" => ~OtherDue(m, y)

MemberMove(m) ==
  \/ members'[m] = members[m]
  \/ members[m] = NoMember /\ members'[m] = [members[m] EXCEPT !.state = "INACTIVE"]
  \/ (m \in Employees \/ Settles(m)) /\ members'[m] = Restored(members[m])
  \/ /\ members[m].standing = "ACTIVE"
     /\ members'[m] = [members[m] EXCEPT !.standing = "GRACE", !.lapsed = FALSE]
  \/ /\ members[m].standing = "GRACE" /\ members[m].lapsed
     /\ members'[m] = [members[m] EXCEPT !.standing = "RESTRICTED"]
  \/ members[m].standing = "GRACE" /\ members'[m] = [members[m] EXCEPT !.lapsed = TRUE]
  \/ m \in Employees /\ members'[m] = [members[m] EXCEPT !.standing = "INITIAL_FEE_DUE"]

MembersMove ==
  \/ UNCHANGED members
  \/ /\ \E f \in [Members -> MemberRows] : members' = f
     /\ \A m \in Members : MemberMove(m)

LEMMA MemberTypes ==
  ASSUME NEW r \in MemberRows
  PROVE  /\ [r EXCEPT !.state = "INACTIVE"] \in MemberRows
         /\ Restored(r) \in MemberRows
         /\ [r EXCEPT !.standing = "GRACE", !.lapsed = FALSE] \in MemberRows
         /\ [r EXCEPT !.standing = "RESTRICTED"] \in MemberRows
         /\ [r EXCEPT !.lapsed = TRUE] \in MemberRows
         /\ [r EXCEPT !.standing = "INITIAL_FEE_DUE"] \in MemberRows
BY DEF MemberRows, Restored

LEMMA OneMemberMoves ==
  ASSUME TypeOK, NEW m \in Members, NEW r \in MemberRows,
         members' = [members EXCEPT ![m] = r], MemberMove(m)
  PROVE  MembersMove
<1>1. members' \in [Members -> MemberRows]
  BY DEF TypeOK
<1>2. \A n \in Members : n # m => members'[n] = members[n]
  BY DEF TypeOK
<1> QED BY <1>1, <1>2 DEF MembersMove, MemberMove

LEMMA SettledMembers ==
  ASSUME TypeOK, NEW m \in Applicants, NEW y \in Years, NEW e, Settleable(m, y), Allocate(m, y, e)
  PROVE  MembersMove
<1>1. m \in Members /\ <<m, y>> \in Bills
  BY BillOf, ApplicantsAreMembers
<1>2. invoices'[<<m, y>>] = Paid(invoices[<<m, y>>], e) /\ invoices[<<m, y>>] \in InvoiceRows
  BY <1>1 DEF TypeOK, Allocate
<1>3. invoices'[<<m, y>>].state = "PAID"
  BY <1>2 DEF Paid, InvoiceRows
<1>4. Settles(m)
  BY <1>3 DEF Settles, Settleable, IsInitial, IsRenewal, Standing
<1>5. members' = [members EXCEPT ![m] = Restored(members[m])]
  BY DEF Allocate
<1>6. members'[m] = Restored(members[m]) /\ Restored(members[m]) \in MemberRows
  BY <1>1, <1>5, MemberTypes DEF TypeOK
<1> QED BY <1>1, <1>4, <1>5, <1>6, OneMemberMoves DEF MemberMove

LEMMA StepsMoveMembers ==
  ASSUME TypeOK, [Next]_vars
  PROVE  MembersMove
<1>1. ASSUME UNCHANGED members
      PROVE  MembersMove
  BY <1>1 DEF MembersMove
<1>2. ASSUME NEW m \in Applicants, Enrol(m)
      PROVE  MembersMove
  <2>1. m \in Members /\ members' = [members EXCEPT ![m] = [members[m] EXCEPT !.state = "INACTIVE"]]
    BY <1>2, ApplicantsAreMembers DEF Enrol
  <2>2. members'[m] = [members[m] EXCEPT !.state = "INACTIVE"]
    BY <2>1 DEF TypeOK
  <2>3. MemberMove(m)
    BY <1>2, <2>2 DEF MemberMove, Enrol
  <2> QED BY <2>1, <2>3, MemberTypes, OneMemberMoves DEF TypeOK
<1>3. ASSUME NEW m \in Employees, Sponsor(m)
      PROVE  MembersMove
  <2>1. m \in Members /\ members' = [members EXCEPT ![m] = Restored(members[m])]
    BY <1>3, ApplicantsAreMembers DEF Sponsor
  <2>2. MemberMove(m)
    BY <2>1 DEF MemberMove, TypeOK
  <2> QED BY <2>1, <2>2, MemberTypes, OneMemberMoves DEF TypeOK
<1>4. ASSUME NEW m \in Employees, EndSponsorship(m)
      PROVE  MembersMove
  <2>1. m \in Members
    BY ApplicantsAreMembers
  <2>2. members' = [members EXCEPT ![m] = [members[m] EXCEPT !.standing = "INITIAL_FEE_DUE"]]
    BY <1>4 DEF EndSponsorship
  <2>3. MemberMove(m)
    BY <2>1, <2>2 DEF MemberMove, TypeOK
  <2> QED BY <2>1, <2>2, <2>3, MemberTypes, OneMemberMoves DEF TypeOK
<1>5. ASSUME NEW m \in Members, GraceEnds(m)
      PROVE  MembersMove
  <2>1. members' = [members EXCEPT ![m] = [members[m] EXCEPT !.lapsed = TRUE]]
    BY <1>5 DEF GraceEnds
  <2>2. MemberMove(m)
    BY <1>5, <2>1 DEF MemberMove, TypeOK, GraceEnds
  <2> QED BY <2>1, <2>2, MemberTypes, OneMemberMoves DEF TypeOK
<1>6. ASSUME NEW j \in Jobs, GraceOverdue(j)
      PROVE  MembersMove
  <2>1. members' \in [Members -> MemberRows]
    BY <1>6, MemberTypes DEF GraceOverdue, TypeOK
  <2>2. \A m \in Members : MemberMove(m)
    BY <1>6 DEF GraceOverdue, MemberMove
  <2> QED BY <2>1, <2>2 DEF MembersMove
<1>7. ASSUME NEW j \in Jobs, RestrictLapsed(j)
      PROVE  MembersMove
  <2>1. members' \in [Members -> MemberRows]
    BY <1>7, MemberTypes DEF RestrictLapsed, TypeOK
  <2>2. \A m \in Members : MemberMove(m)
    BY <1>7 DEF RestrictLapsed, MemberMove
  <2> QED BY <2>1, <2>2 DEF MembersMove
<1>8. CASE MemberStep
  <2>1. ASSUME NEW m \in Applicants, NEW y \in Years, NEW r \in Requests, PaySandbox(r, m, y)
        PROVE  MembersMove
    BY <2>1, SettledMembers DEF PaySandbox
  <2>2. ASSUME NEW m \in Applicants, NEW y \in Years, NEW e \in Receipts, SettleReceipt(e, m, y)
        PROVE  MembersMove
    BY <2>2, SettledMembers DEF SettleReceipt
  <2> QED BY <1>1, <1>2, <1>8, <2>1, <2>2
         DEF MemberStep, SignIn, ReplayEnrolment, IssueInvoice, SessionExpires, Reconcile
<1>9. ASSUME NEW j \in Jobs, JobStep(j) \/ JobDies(j)
      PROVE  MembersMove
  BY <1>1, <1>6, <1>7, <1>9 DEF JobStep, JobDies, StartJob, FindOverdue, BillNext
<1>10. CASE \/ \E f \in 1..MaxFee : SetFee(f)
            \/ \E b \in Bills : DueDatePasses(b)
            \/ NewYear
            \/ UNCHANGED vars
  BY <1>1, <1>10 DEF SetFee, DueDatePasses, NewYear, vars
<1> QED BY <1>3, <1>4, <1>5, <1>8, <1>9, <1>10 DEF Next

-----------------------------------------------------------------------------
(* The other variables: sessions, sponsorships, the fee, the jobs, time.   *)

(* Who writes which of them. *)
LEMMA MembersWriteSessions ==
  ASSUME MemberStep
  PROVE  /\ UNCHANGED <<sponsor, fee, jobs, year>>
         /\ \/ UNCHANGED session
            \/ \E m \in Applicants : session' = session \cup {m} \/ session' = session \ {m}
<1>1. ASSUME NEW m \in Applicants,
             Enrol(m) \/ SignIn(m) \/ ReplayEnrolment(m) \/ IssueInvoice(m) \/ SessionExpires(m)
      PROVE  /\ UNCHANGED <<sponsor, fee, jobs, year>>
             /\ UNCHANGED session \/ session' = session \cup {m} \/ session' = session \ {m}
  BY <1>1 DEF Enrol, SignIn, ReplayEnrolment, IssueInvoice, SessionExpires
<1>2. ASSUME NEW m \in Applicants, NEW y \in Years, NEW r \in Requests, PaySandbox(r, m, y)
      PROVE  UNCHANGED <<session, sponsor, fee, jobs, year>>
  BY <1>2 DEF PaySandbox, Allocate
<1>3. ASSUME NEW m \in Applicants, NEW y \in Years, NEW e \in Receipts, SettleReceipt(e, m, y)
      PROVE  UNCHANGED <<session, sponsor, fee, jobs, year>>
  BY <1>3 DEF SettleReceipt, Allocate
<1>4. ASSUME NEW m \in Applicants, NEW y \in Years, NEW e \in Receipts, NEW amount \in Amounts,
             Reconcile(e, m, y, amount)
      PROVE  UNCHANGED <<session, sponsor, fee, jobs, year>>
  BY <1>4 DEF Reconcile
<1> QED BY <1>1, <1>2, <1>3, <1>4 DEF MemberStep

LEMMA JobsLeaveTheOthers ==
  ASSUME NEW j \in Jobs, JobStep(j) \/ JobDies(j)
  PROVE  UNCHANGED <<session, sponsor, fee, year>>
<1>1. ASSUME NEW m \in Members, BillNext(j, m) PROVE UNCHANGED <<session, sponsor, fee, year>>
  BY <1>1 DEF BillNext
<1>2. CASE StartJob(j) \/ FindOverdue(j) \/ GraceOverdue(j) \/ RestrictLapsed(j) \/ JobDies(j)
  BY <1>2 DEF StartJob, FindOverdue, GraceOverdue, RestrictLapsed, JobDies
<1> QED BY <1>1, <1>2 DEF JobStep

LEMMA OthersWrite ==
  ASSUME [Next]_vars, ~MemberStep, ~\E j \in Jobs : JobStep(j) \/ JobDies(j)
  PROVE  /\ UNCHANGED <<session, jobs>>
         /\ UNCHANGED fee \/ fee' \in 1..MaxFee
         /\ UNCHANGED year \/ NewYear
         /\ \/ UNCHANGED sponsor
            \/ \E m \in Employees, s \in {"GRANTED", "ENDED"} : sponsor' = [sponsor EXCEPT ![m] = s]
<1>1. ASSUME NEW m \in Employees, Sponsor(m) \/ EndSponsorship(m)
      PROVE  /\ UNCHANGED <<session, jobs, fee, year>>
             /\ \E s \in {"GRANTED", "ENDED"} : sponsor' = [sponsor EXCEPT ![m] = s]
  BY <1>1 DEF Sponsor, EndSponsorship
<1>2. ASSUME NEW f \in 1..MaxFee, SetFee(f)
      PROVE  UNCHANGED <<session, jobs, sponsor, year>> /\ fee' \in 1..MaxFee
  BY <1>2 DEF SetFee
<1>3. CASE \/ \E b \in Bills : DueDatePasses(b)
           \/ \E m \in Members : GraceEnds(m)
           \/ UNCHANGED vars
  BY <1>3 DEF DueDatePasses, GraceEnds, vars
<1>4. NewYear => UNCHANGED <<session, jobs, sponsor, fee>>
  BY DEF NewYear
<1> QED BY <1>1, <1>2, <1>3, <1>4 DEF Next

LEMMA SessionTypes ==
  ASSUME TypeOK, [Next]_vars
  PROVE  session' \subseteq Applicants
<1>1. session \subseteq Applicants
  BY DEF TypeOK
<1> QED BY <1>1, MembersWriteSessions, JobsLeaveTheOthers, OthersWrite

LEMMA SponsorTypes ==
  ASSUME TypeOK, [Next]_vars
  PROVE  sponsor' \in [Employees -> {"NONE", "GRANTED", "ENDED"}]
<1>1. sponsor \in [Employees -> {"NONE", "GRANTED", "ENDED"}]
  BY DEF TypeOK
<1> QED BY <1>1, MembersWriteSessions, JobsLeaveTheOthers, OthersWrite

LEMMA FeeAndYearTypes ==
  ASSUME TypeOK, [Next]_vars
  PROVE  fee' \in 0..MaxFee /\ year' \in Years
<1>1. fee' = fee \/ fee' \in 1..MaxFee
  BY MembersWriteSessions, JobsLeaveTheOthers, OthersWrite
<1>2. year' = year \/ NewYear
  BY MembersWriteSessions, JobsLeaveTheOthers, OthersWrite
<1>3. NewYear => year' = year + 1 /\ year < MaxYear
  BY DEF NewYear
<1>4. year \in 1..MaxYear /\ fee \in 0..MaxFee /\ MaxFee \in Nat /\ MaxYear \in Nat
  BY DEF TypeOK, Years
<1>5. year' \in 1..MaxYear
  BY <1>2, <1>3, <1>4
<1> QED BY <1>1, <1>4, <1>5 DEF Years

LEMMA JobTypes ==
  ASSUME TypeOK, [Next]_vars
  PROVE  jobs' \in [Jobs -> JobStates]
<1>1. \A r \in JobStates, m \in Members : [r EXCEPT !.todo = @ \ {m}] \in JobStates
  BY DEF JobStates
<1>2. \A r \in JobStates : [r EXCEPT !.at = "restrict", !.todo = {}] \in JobStates
  BY DEF JobStates
<1>3. \A r \in JobStates, s \in SUBSET Members :
        [r EXCEPT !.at = "grace", !.todo = s] \in JobStates
  BY DEF JobStates
<1>4. \A s \in SUBSET Members, y \in Years, f \in 0..MaxFee :
        [at |-> "bill", todo |-> s, year |-> y, fee |-> f] \in JobStates
  BY DEF JobStates
<1>5. \A y \in Years : Candidates(y) \in SUBSET Members
  BY DEF Candidates
<1>6. ASSUME NEW j \in Jobs, JobStep(j) \/ JobDies(j)
      PROVE  jobs' \in [Jobs -> JobStates]
  <2>1. CASE StartJob(j)
    BY <2>1, <1>4, <1>5 DEF StartJob, TypeOK
  <2>2. CASE FindOverdue(j)
    BY <2>2, <1>3, RowTypes DEF FindOverdue, TypeOK
  <2>3. CASE GraceOverdue(j)
    <3>1. jobs' = [jobs EXCEPT ![j] = [jobs[j] EXCEPT !.at = "restrict", !.todo = {}]]
      BY <2>3 DEF GraceOverdue
    <3> QED BY <3>1, <1>2 DEF TypeOK
  <2>4. CASE RestrictLapsed(j) \/ JobDies(j)
    BY <2>4, RowTypes DEF RestrictLapsed, JobDies, TypeOK
  <2>5. ASSUME NEW m \in Members, BillNext(j, m)
        PROVE  jobs' \in [Jobs -> JobStates]
    <3>1. \/ jobs' = [jobs EXCEPT ![j] = [jobs[j] EXCEPT !.todo = @ \ {m}]]
          \/ jobs' = [jobs EXCEPT ![j] = Idle]
      BY <2>5 DEF BillNext
    <3>2. jobs \in [Jobs -> JobStates] /\ jobs[j] \in JobStates
      BY DEF TypeOK
    <3>3. [jobs[j] EXCEPT !.todo = @ \ {m}] \in JobStates /\ Idle \in JobStates
      BY <3>2, <1>1, RowTypes
    <3> QED BY <3>1, <3>2, <3>3
  <2> QED BY <1>6, <2>1, <2>2, <2>3, <2>4, <2>5 DEF JobStep
<1>7. ASSUME UNCHANGED jobs
      PROVE  jobs' \in [Jobs -> JobStates]
  BY <1>7 DEF TypeOK
<1> QED BY <1>6, <1>7, MembersWriteSessions, OthersWrite

(* Every row stays a row of its table, every job where a job can be.       *)
THEOREM MembershipTypes == Spec => []TypeOK
<1>1. Init => TypeOK
  BY RowTypes DEF Init, TypeOK, Years
<1>2. TypeOK /\ [Next]_vars => TypeOK'
  <2> SUFFICES ASSUME TypeOK, [Next]_vars PROVE TypeOK'
    OBVIOUS
  <2>1. members' \in [Members -> MemberRows]
    BY StepsMoveMembers DEF MembersMove, TypeOK
  <2> QED BY <2>1, StepsMoveLedgers, LedgerTypes, SessionTypes, SponsorTypes, FeeAndYearTypes,
             JobTypes DEF TypeOK
<1> QED BY <1>1, <1>2, PTL DEF Spec

-----------------------------------------------------------------------------
(* Lineage.                                                                *)

ConsumedFor(b) == {e \in Evidence : evidence[e].consumer = b}

LEMMA RowValues ==
  /\ \A amount : /\ Issued(amount).state = "OPEN"
                 /\ Issued(amount).amount = amount
                 /\ Issued(amount).paidBy = None
  /\ \A r \in InvoiceRows :
       /\ [r EXCEPT !.due = TRUE].state = r.state
       /\ [r EXCEPT !.due = TRUE].amount = r.amount
       /\ [r EXCEPT !.due = TRUE].paidBy = r.paidBy
  /\ \A r \in InvoiceRows : \A e : /\ Paid(r, e).state = "PAID"
                                  /\ Paid(r, e).amount = r.amount
                                  /\ Paid(r, e).paidBy = e
  /\ NoInvoice.state = "NONE" /\ NoInvoice.paidBy = None
  /\ NoEvidence.consumer = None /\ NoEvidence.obligation = None
BY DEF Issued, InvoiceRows, Paid, NoInvoice, NoEvidence

(* A step that leaves what was consumed and who paid what keeps lineage.   *)
LEMMA LineageOfInvoices ==
  ASSUME TypeOK, LineageCoherent, UNCHANGED evidence,
         \A b \in Bills : /\ invoices'[b].paidBy = invoices[b].paidBy
                          /\ (invoices'[b].state = "PAID") <=> (invoices[b].state = "PAID")
                          /\ invoices[b].state = "PAID" => invoices'[b].amount = invoices[b].amount
  PROVE  LineageCoherent'
<1>1. \A e \in Evidence : evidence[e].consumer # None =>
        evidence[e].consumer \in Bills /\ invoices[evidence[e].consumer].state = "PAID"
  BY DEF TypeOK, EvidenceRows, LineageCoherent
<1>2. \A b \in Bills :
        IF invoices'[b].state = "PAID" THEN ConsumedFor(b)' = {invoices'[b].paidBy}
                                       ELSE ConsumedFor(b)' = {} /\ invoices'[b].paidBy = None
  <2>1. \A b \in Bills : ConsumedFor(b)' = ConsumedFor(b)
    BY DEF ConsumedFor
  <2> QED BY <2>1 DEF LineageCoherent, ConsumedFor
<1> QED BY <1>1, <1>2 DEF LineageCoherent, ConsumedFor

LEMMA LineageOfReconcile ==
  ASSUME TypeOK, LineageCoherent, NEW e \in Evidence, NEW b \in Bills, NEW amount \in Amounts,
         ReconcileMove(e, b, amount)
  PROVE  LineageCoherent'
<1>1. evidence'[e].consumer = None /\ evidence[e].consumer = None
  BY RowValues DEF ReconcileMove, TypeOK, NoEvidence
<1>2. \A o \in Evidence : o # e => evidence'[o] = evidence[o]
  BY DEF ReconcileMove, TypeOK
<1>3. \A x \in Bills : ConsumedFor(x)' = ConsumedFor(x)
  BY <1>1, <1>2 DEF ConsumedFor
<1>4. e \notin Requests /\ invoices' = invoices
  BY DEF ReconcileMove
<1>5. \A x \in Bills :
        IF invoices'[x].state = "PAID" THEN ConsumedFor(x)' = {invoices'[x].paidBy}
                                       ELSE ConsumedFor(x)' = {} /\ invoices'[x].paidBy = None
  BY <1>3, <1>4 DEF LineageCoherent, ConsumedFor
<1>6. \A o \in Evidence : evidence'[o].consumer # None =>
        /\ evidence'[o].obligation = evidence'[o].consumer
        /\ evidence'[o].amount = invoices'[evidence'[o].consumer].amount
  BY <1>1, <1>2, <1>4 DEF LineageCoherent
<1>7. \A r \in Requests : evidence'[r].consumer = evidence'[r].obligation
  BY <1>2, <1>4 DEF LineageCoherent, Evidence
<1> QED BY <1>5, <1>6, <1>7 DEF LineageCoherent, ConsumedFor

LEMMA LineageOfPayment ==
  ASSUME TypeOK, LineageCoherent, NEW b \in Bills, NEW e \in Evidence, PayMove(b, e)
  PROVE  LineageCoherent'
<1>1. /\ invoices'[b].state = "PAID" /\ invoices'[b].amount = invoices[b].amount
      /\ invoices'[b].paidBy = e
  BY RowValues DEF PayMove, TypeOK
<1>2. /\ evidence'[e].obligation = b /\ evidence'[e].consumer = b
      /\ evidence'[e].amount = invoices[b].amount
  BY DEF PayMove, TypeOK
<1>3. \A x \in Bills : x # b => invoices'[x] = invoices[x]
  BY DEF PayMove, TypeOK
<1>4. \A o \in Evidence : o # e => evidence'[o] = evidence[o]
  BY DEF PayMove, TypeOK
<1>5. ConsumedFor(b) = {} /\ evidence[e].consumer = None
  BY DEF PayMove, LineageCoherent, ConsumedFor
<1>6. ConsumedFor(b)' = {e}
  BY <1>2, <1>4, <1>5 DEF ConsumedFor
<1>7. \A x \in Bills : x # b => ConsumedFor(x)' = ConsumedFor(x)
  BY <1>2, <1>4, <1>5, NoneIsNobody DEF ConsumedFor
<1>8. \A x \in Bills :
        IF invoices'[x].state = "PAID" THEN ConsumedFor(x)' = {invoices'[x].paidBy}
                                       ELSE ConsumedFor(x)' = {} /\ invoices'[x].paidBy = None
  BY <1>1, <1>3, <1>6, <1>7 DEF LineageCoherent, ConsumedFor
<1>9. \A o \in Evidence : evidence'[o].consumer # None =>
        /\ evidence'[o].obligation = evidence'[o].consumer
        /\ evidence'[o].amount = invoices'[evidence'[o].consumer].amount
  <2>1. \A o \in Evidence : o # e => evidence'[o].consumer # b
    BY <1>4, <1>5 DEF ConsumedFor
  <2>2. \A o \in Evidence : evidence[o].consumer \in Bills \cup {None}
    BY DEF TypeOK, EvidenceRows
  <2> QED BY <1>1, <1>2, <1>3, <1>4, <2>1, <2>2 DEF LineageCoherent
<1>10. \A r \in Requests : evidence'[r].consumer = evidence'[r].obligation
  BY <1>2, <1>4 DEF LineageCoherent, Evidence
<1> QED BY <1>8, <1>9, <1>10 DEF LineageCoherent, ConsumedFor

(* LineageCoherent is inductive once every step is a move of the ledgers:  *)
(* money and invoices agree row for row, in every reachable state, for any *)
(* number of members, requests, receipts, overlapping jobs and years.      *)
THEOREM LineageHolds == Spec => []LineageCoherent
<1>1. Init => LineageCoherent
  <2> SUFFICES ASSUME Init PROVE LineageCoherent
    OBVIOUS
  <2>1. \A b \in Bills : invoices[b] = NoInvoice
    BY DEF Init
  <2>2. \A e \in Evidence : evidence[e] = NoEvidence
    BY DEF Init
  <2> QED BY <2>1, <2>2, RowValues, NoneIsNobody DEF LineageCoherent, Evidence
<1>2. TypeOK /\ LineageCoherent /\ [Next]_vars => LineageCoherent'
  <2> SUFFICES ASSUME TypeOK, LineageCoherent, [Next]_vars PROVE LineageCoherent'
    OBVIOUS
  <2>1. CASE UNCHANGED <<invoices, evidence>>
    BY <2>1, LineageOfInvoices
  <2>2. ASSUME NEW b \in Bills, NEW amount \in 0..MaxFee, IssueMove(b, amount)
        PROVE  LineageCoherent'
    <3>1. /\ invoices'[b].state = "OPEN" /\ invoices'[b].paidBy = None
          /\ \A x \in Bills : x # b => invoices'[x] = invoices[x]
      BY <2>2, RowValues DEF IssueMove, TypeOK
    <3>2. invoices[b].paidBy = None /\ UNCHANGED evidence
      BY <2>2 DEF IssueMove, LineageCoherent
    <3> QED BY <2>2, <3>1, <3>2, LineageOfInvoices DEF IssueMove
  <2>3. ASSUME NEW b \in Bills, DueMove(b)
        PROVE  LineageCoherent'
    <3>1. invoices[b] \in InvoiceRows /\ invoices'[b] = [invoices[b] EXCEPT !.due = TRUE]
      BY <2>3 DEF DueMove, TypeOK
    <3>2. \A x \in Bills : x # b => invoices'[x] = invoices[x]
      BY <2>3 DEF DueMove, TypeOK
    <3>3. /\ invoices'[b].state = invoices[b].state
          /\ invoices'[b].amount = invoices[b].amount
          /\ invoices'[b].paidBy = invoices[b].paidBy
      BY <3>1, RowValues
    <3>4. UNCHANGED evidence
      BY <2>3 DEF DueMove
    <3> QED BY <3>2, <3>3, <3>4, LineageOfInvoices
  <2> QED BY <2>1, <2>2, <2>3, StepsMoveLedgers, LineageOfReconcile, LineageOfPayment DEF LedgerMove
<1> QED BY <1>1, <1>2, MembershipTypes, PTL DEF Spec

(* A year is billed once and a payment stands, whatever job, request or    *)
(* fee change comes after it.                                              *)
THEOREM PaymentsStand == Spec => PaymentStands
<1> DEFINE Stands ==
      /\ \A b \in Bills :
           /\ invoices[b].state # "NONE" => invoices'[b].amount = invoices[b].amount
           /\ invoices[b].state = "PAID" => invoices'[b] = invoices[b]
      /\ \A e \in Evidence : evidence[e].consumer # None => evidence'[e] = evidence[e]
<1>1. TypeOK /\ [Next]_vars => [Stands]_vars
  <2> SUFFICES ASSUME TypeOK, [Next]_vars PROVE Stands
    OBVIOUS
  <2>1. CASE UNCHANGED <<invoices, evidence>>
    BY <2>1
  <2>2. ASSUME NEW b \in Bills, NEW amount \in 0..MaxFee, IssueMove(b, amount)
        PROVE  Stands
    BY <2>2 DEF IssueMove, TypeOK
  <2>3. ASSUME NEW b \in Bills, DueMove(b)
        PROVE  Stands
    <3>1. invoices[b] \in InvoiceRows /\ invoices'[b] = [invoices[b] EXCEPT !.due = TRUE]
      BY <2>3 DEF DueMove, TypeOK
    <3>2. \A x \in Bills : x # b => invoices'[x] = invoices[x]
      BY <2>3 DEF DueMove, TypeOK
    <3> QED BY <2>3, <3>1, <3>2, RowValues DEF DueMove
  <2>4. ASSUME NEW e \in Evidence, NEW b \in Bills, NEW amount \in Amounts,
               ReconcileMove(e, b, amount)
        PROVE  Stands
    BY <2>4, RowValues DEF ReconcileMove, TypeOK
  <2>5. ASSUME NEW b \in Bills, NEW e \in Evidence, PayMove(b, e)
        PROVE  Stands
    BY <2>5, RowValues DEF PayMove, TypeOK
  <2> HIDE DEF Stands
  <2> QED BY <2>1, <2>2, <2>3, <2>4, <2>5, StepsMoveLedgers DEF LedgerMove
<1> QED BY <1>1, MembershipTypes, PTL DEF Spec, PaymentStands

(* Standing is bought, and lost only through a grace period that ran out:  *)
(* no interleaving of jobs, settlements and deaths of jobs is a way round. *)
THEOREM PaymentRestores == Spec => OnlyPaymentRestores
<1> DEFINE Bought ==
      \A m \in Applicants :
       /\ (members'[m].standing = "ACTIVE" /\ members[m].standing # "ACTIVE") =>
            /\ \E y \in Years : /\ invoices[<<m, y>>].state = "OPEN"
                                /\ invoices'[<<m, y>>].state = "PAID"
            /\ members[m].state = "ACTIVE" =>
                 \A y \in Years : Overdue(<<m, y>>) => invoices'[<<m, y>>].state = "PAID"
       /\ (members'[m].standing = "RESTRICTED" /\ members[m].standing # "RESTRICTED") =>
            members[m].standing = "GRACE" /\ members[m].lapsed
<1>1. TypeOK /\ [Next]_vars => [Bought]_vars
  <2> SUFFICES ASSUME TypeOK, [Next]_vars, NEW m \in Applicants
               PROVE  /\ (members'[m].standing = "ACTIVE" /\ members[m].standing # "ACTIVE") =>
                            Settles(m)
                      /\ (members'[m].standing = "RESTRICTED"
                            /\ members[m].standing # "RESTRICTED") =>
                            members[m].standing = "GRACE" /\ members[m].lapsed
    BY DEF Settles, OtherDue
  <2>1. members'[m] = members[m] \/ MemberMove(m)
    BY StepsMoveMembers, ApplicantsAreMembers DEF MembersMove
  <2>2. members[m] \in MemberRows /\ m \notin Employees
    BY ApplicantsAreMembers DEF TypeOK
  <2>3. \A r \in MemberRows :
          /\ [r EXCEPT !.state = "INACTIVE"].standing = r.standing
          /\ Restored(r).standing = "ACTIVE"
          /\ [r EXCEPT !.standing = "GRACE", !.lapsed = FALSE].standing = "GRACE"
          /\ [r EXCEPT !.standing = "RESTRICTED"].standing = "RESTRICTED"
          /\ [r EXCEPT !.lapsed = TRUE].standing = r.standing
    BY DEF MemberRows, Restored
  <2> QED BY <2>1, <2>2, <2>3 DEF MemberMove
<1> QED BY <1>1, MembershipTypes, PTL DEF Spec, OnlyPaymentRestores
=============================================================================
