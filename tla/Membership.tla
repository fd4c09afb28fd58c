----------------------------- MODULE Membership -----------------------------
(***************************************************************************)
(* What a member owes and what that does to the membership: the annual     *)
(* invoice, its settlement, the daily renewal job that moves an overdue    *)
(* member through GRACE to RESTRICTED, and the sponsorship of employees.   *)
(*                                                                         *)
(* A settlement is one transaction under the invoice and membership row    *)
(* locks, so it is one action.  The renewal job is a sequence of           *)
(* autocommitted statements and each is an action; any may be its last.    *)
(* Its grace statement joins two tables and locks the rows of one of them: *)
(* it is two actions, what its snapshot selects and what it then updates.  *)
(*                                                                         *)
(* An invoice is named by its membership and year, an evidence row by the  *)
(* request or the provider's receipt it comes from.  The consumption and   *)
(* allocation rows are inserted together and are immutable: "consumer" is  *)
(* both.  Clocks are abstracted to what they decide: "due" (due_at has     *)
(* passed), "lapsed" (grace_ends_at has passed), a session, the year.      *)
(* Left out: audit rows, VOID invoices and the SUSPENDED and ENDED         *)
(* standings (no code sets them), household members (Enrolment).           *)
(***************************************************************************)
EXTENDS Naturals, FiniteSets

CONSTANTS
  Applicants, \* memberships provisioned through enrolment: with a member number
  Employees,  \* memberships created by employee-membership-sync: without one
  Requests,   \* request ids of the sandbox payment endpoint
  Receipts,   \* provider evidence recorded by somebody else
  Jobs,       \* invocations of the renewal job that may overlap
  MaxYear,    \* bound: the years are 1..MaxYear
  MaxFee,     \* bound: the fees an Owner may configure are 1..MaxFee
  None        \* NULL

ASSUME MembershipAssumption ==
  /\ Applicants \cap Employees = {}
  /\ Requests \cap Receipts = {}
  /\ MaxYear \in Nat \ {0}
  /\ MaxFee \in Nat \ {0}
  /\ None \notin Requests \cup Receipts \cup (Applicants \cup Employees) \X (1..MaxYear)

VARIABLES
  members,  \* application_membership
  invoices, \* membership_subscription_invoice
  evidence, \* electronic_payment_evidence with its consumption and allocation
  session,  \* the members with an ACTIVE, unexpired member_session
  sponsor,  \* employee_employment and employee_membership_entitlement
  fee,      \* the active membership_fee_configuration; 0 when there is none
  jobs,     \* where each invocation of the renewal job is
  year

vars == <<members, invoices, evidence, session, sponsor, fee, jobs, year>>

Members == Applicants \cup Employees
Years == 1..MaxYear
Bills == Members \X Years
Evidence == Requests \cup Receipts

MemberRows == [state : {"NONE", "INACTIVE", "ACTIVE"}, lapsed : BOOLEAN,
               standing : {"INITIAL_FEE_DUE", "ACTIVE", "GRACE", "RESTRICTED"}]
InvoiceRows == [state : {"NONE", "OPEN", "PAID"}, amount : 0..MaxFee, due : BOOLEAN,
                paidBy : Evidence \cup {None}]
Amounts == 1..(MaxFee + 1) \* an amount of evidence may not be any fee's
EvidenceRows == [obligation : Bills \cup {None}, amount : {0} \cup Amounts,
                 consumer : Bills \cup {None}]
JobStates == [at : {"idle", "bill", "overdue", "grace", "restrict"}, todo : SUBSET Members,
              year : Years, fee : 0..MaxFee]

NoMember == [state |-> "NONE", standing |-> "INITIAL_FEE_DUE", lapsed |-> FALSE]
NoInvoice == [state |-> "NONE", amount |-> 0, due |-> FALSE, paidBy |-> None]
NoEvidence == [obligation |-> None, amount |-> 0, consumer |-> None]
Idle == [at |-> "idle", todo |-> {}, year |-> 1, fee |-> 0]

TypeOK ==
  /\ members \in [Members -> MemberRows]
  /\ invoices \in [Bills -> InvoiceRows]
  /\ evidence \in [Evidence -> EvidenceRows]
  /\ session \subseteq Applicants
  /\ sponsor \in [Employees -> {"NONE", "GRANTED", "ENDED"}]
  /\ fee \in 0..MaxFee
  /\ jobs \in [Jobs -> JobStates]
  /\ year \in Years

Init ==
  /\ members = [m \in Members |-> NoMember]
  /\ invoices = [b \in Bills |-> NoInvoice]
  /\ evidence = [e \in Evidence |-> NoEvidence]
  /\ session = {}
  /\ sponsor = [m \in Employees |-> "NONE"]
  /\ fee \in 0..MaxFee
  /\ jobs = [j \in Jobs |-> Idle]
  /\ year = 1

Standing(m, states, standings) ==
  members[m].state \in states /\ members[m].standing \in standings
(* Mutation: the fee is taken to be in cedis, not pesewas. *)
IssuedInCedis(amount) == [NoInvoice EXCEPT !.state = "OPEN", !.amount = 100 * amount]
Issued(amount) == [state |-> "OPEN", amount |-> amount, due |-> FALSE, paidBy |-> None]
Overdue(b) == invoices[b].state = "OPEN" /\ invoices[b].due

-----------------------------------------------------------------------------
(* Members: provisioned by enrolment, signing in, and the annual invoice.  *)

Enrol(m) ==
  /\ m \in Applicants
  /\ members[m] = NoMember
  /\ members' = [members EXCEPT ![m].state = "INACTIVE"]
  /\ session' = session \cup {m}
  /\ UNCHANGED <<invoices, evidence, sponsor, fee, jobs, year>>

(* member-auth-challenge asks for the member number and checks the         *)
(* standing; verify_member_auth_challenge checks the standing again.       *)
CanSignIn(m) ==
  /\ m \in Applicants
  /\ \/ Standing(m, {"INACTIVE"}, {"INITIAL_FEE_DUE"})
     \/ Standing(m, {"ACTIVE"}, {"ACTIVE", "GRACE"})

SignIn(m) ==
  /\ CanSignIn(m)
  /\ session' = session \cup {m}
  /\ UNCHANGED <<members, invoices, evidence, sponsor, fee, jobs, year>>

(* The code of the enrolment, sent again, opens one whatever the standing  *)
(* (Enrolment, ReplayEnrolment).                                           *)
ReplayEnrolment(m) ==
  /\ m \in Applicants
  /\ members[m].state # "NONE"
  /\ session' = session \cup {m}
  /\ UNCHANGED <<members, invoices, evidence, sponsor, fee, jobs, year>>

(* ensureAnnualMembershipInvoice, from enrolment, an approval or the       *)
(* billing-recovery endpoint: no member number or no fee is an error.      *)
IssueInvoice(m) ==
  /\ m \in Applicants
  /\ members[m].state # "NONE"
  /\ fee > 0
  /\ invoices[<<m, year>>].state = "NONE"
  /\ invoices' = [invoices EXCEPT ![<<m, year>>] = Issued(fee)]
  /\ UNCHANGED <<members, evidence, session, sponsor, fee, jobs, year>>

SetFee(f) ==
  /\ f # fee
  /\ fee' = f
  /\ UNCHANGED <<members, invoices, evidence, session, sponsor, jobs, year>>

-----------------------------------------------------------------------------
(* Settlement.                                                             *)

IsInitial(m) == Standing(m, {"INACTIVE"}, {"INITIAL_FEE_DUE"})
IsRenewal(m) == Standing(m, {"ACTIVE"}, {"GRACE", "RESTRICTED"})
(* Mutation: the other invoices are not looked at. *)
OtherDueIgnored(m, y) == FALSE
OtherDue(m, y) == \E z \in Years \ {y} : Overdue(<<m, z>>)

(* settle_membership_subscription up to the evidence it is given.          *)
Settleable(m, y) ==
  /\ m \in session
  /\ invoices[<<m, y>>].state = "OPEN"
  /\ IsInitial(m) \/ (IsRenewal(m) /\ ~OtherDue(m, y))

Paid(invoice, e) == [invoice EXCEPT !.state = "PAID", !.paidBy = e]
Restored(member) == [state |-> "ACTIVE", standing |-> "ACTIVE", lapsed |-> FALSE]

Allocate(m, y, e) ==
  /\ invoices' = [invoices EXCEPT ![<<m, y>>] = Paid(@, e)]
  /\ members' = [members EXCEPT ![m] = Restored(@)]
  /\ UNCHANGED <<session, sponsor, fee, jobs, year>>

(* The sandbox endpoint: request, evidence and settlement in one           *)
(* transaction.  A refused settlement would leave the request INVALID,     *)
(* which its CHECK constraint does not allow: everything is rolled back.   *)
PaySandbox(r, m, y) ==
  /\ r \in Requests
  /\ evidence[r] = NoEvidence
  /\ Settleable(m, y)
  /\ evidence' = [evidence EXCEPT ![r] = [obligation |-> <<m, y>>, consumer |-> <<m, y>>,
                                          amount |-> invoices[<<m, y>>].amount]]
  /\ Allocate(m, y, r)

(* Reconciled evidence appears in the table; nothing in the repository     *)
(* writes it but the sandbox.                                              *)
Reconcile(e, m, y, amount) ==
  /\ e \in Receipts
  /\ evidence[e] = NoEvidence
  /\ invoices[<<m, y>>].state # "NONE"
  /\ evidence' = [evidence EXCEPT ![e].obligation = <<m, y>>, ![e].amount = amount]
  /\ UNCHANGED <<members, invoices, session, sponsor, fee, jobs, year>>

(* Mutation: the reconciled amount is not compared with the invoice's. *)
MatchesAnyAmount(e, m, y) == evidence[e].obligation = <<m, y>> /\ evidence[e].consumer = None
Matches(e, m, y) ==
  /\ evidence[e].obligation = <<m, y>>
  /\ evidence[e].amount = invoices[<<m, y>>].amount
  /\ evidence[e].consumer = None

SettleReceipt(e, m, y) ==
  /\ e \in Receipts
  /\ Settleable(m, y)
  /\ Matches(e, m, y)
  /\ evidence' = [evidence EXCEPT ![e].consumer = <<m, y>>]
  /\ Allocate(m, y, e)

-----------------------------------------------------------------------------
(* The renewal job.                                                        *)

Candidates(y) ==
  {m \in Members : /\ Standing(m, {"ACTIVE"}, {"ACTIVE", "GRACE"})
                   /\ invoices[<<m, y>>].state = "NONE"}

StartJob(j) ==
  /\ jobs[j].at = "idle"
  /\ jobs' = [jobs EXCEPT ![j] = [at |-> "bill", todo |-> Candidates(year),
                                  year |-> year, fee |-> fee]]
  /\ UNCHANGED <<members, invoices, evidence, session, sponsor, fee, year>>

(* INSERT ... ON CONFLICT (membership_id, subscription_year) DO NOTHING.    *)
(* Mutation: DO UPDATE. *)
BilledAgain(bill, amount) == [invoices EXCEPT ![bill] = Issued(amount)]
Billed(bill, amount) ==
  IF invoices[bill].state # "NONE" THEN invoices
                                   ELSE [invoices EXCEPT ![bill] = Issued(amount)]

(* One candidate of the loop.  An error ends the invocation: no fee, no    *)
(* member number, or an invoice inserted so late that the statement        *)
(* neither inserts nor sees it.                                            *)
BillNext(j, m) ==
  LET bill == <<m, jobs[j].year>>
      fails == jobs[j].fee = 0 \/ (m \notin Applicants /\ invoices[bill].state = "NONE")
  IN /\ jobs[j].at = "bill"
     /\ m \in jobs[j].todo
     /\ \/ /\ ~fails
           /\ invoices' = Billed(bill, jobs[j].fee)
           /\ jobs' = [jobs EXCEPT ![j].todo = @ \ {m}]
        \/ /\ fails \/ invoices[bill].state # "NONE"
           /\ jobs' = [jobs EXCEPT ![j] = Idle]
           /\ UNCHANGED invoices
     /\ UNCHANGED <<members, evidence, session, sponsor, fee, year>>

(* UPDATE application_membership ... FROM membership_subscription_invoice: *)
(* the snapshot selects pairs of rows; the update waits for the membership *)
(* row and evaluates its condition again on that row alone.                *)
(* Mutation: only this year's invoice is joined. *)
HasOverdueThisYear(m) == Overdue(<<m, year>>)
HasOverdue(m) == \E y \in Years : Overdue(<<m, y>>)

FindOverdue(j) ==
  /\ jobs[j].at = "bill"
  /\ jobs[j].todo = {}
  /\ jobs' = [jobs EXCEPT ![j] = [Idle EXCEPT !.at = "grace", !.todo =
       {m \in Members : members[m].standing = "ACTIVE" /\ HasOverdue(m)}]]
  /\ UNCHANGED <<members, invoices, evidence, session, sponsor, fee, year>>

GraceOverdue(j) ==
  /\ jobs[j].at = "grace"
  /\ members' = [m \in Members |->
       IF m \in jobs[j].todo /\ members[m].standing = "ACTIVE"
       THEN [members[m] EXCEPT !.standing = "GRACE", !.lapsed = FALSE]
       ELSE members[m]]
  /\ jobs' = [jobs EXCEPT ![j].at = "restrict", ![j].todo = {}]
  /\ UNCHANGED <<invoices, evidence, session, sponsor, fee, year>>

RestrictLapsed(j) ==
  /\ jobs[j].at = "restrict"
  /\ members' = [m \in Members |->
       IF members[m].standing = "GRACE" /\ members[m].lapsed
       THEN [members[m] EXCEPT !.standing = "RESTRICTED"]
       ELSE members[m]]
  /\ jobs' = [jobs EXCEPT ![j] = Idle]
  /\ UNCHANGED <<invoices, evidence, session, sponsor, fee, year>>

JobDies(j) ==
  /\ jobs[j].at # "idle"
  /\ jobs' = [jobs EXCEPT ![j] = Idle]
  /\ UNCHANGED <<members, invoices, evidence, session, sponsor, fee, year>>

-----------------------------------------------------------------------------
(* Employees: a sponsored membership pays no fee while it lasts.  Whether  *)
(* somebody is employed or leaving is recorded elsewhere, at any time.     *)

Sponsor(m) ==
  /\ sponsor[m] = "NONE"
  /\ sponsor' = [sponsor EXCEPT ![m] = "GRANTED"]
  /\ members' = [members EXCEPT ![m] = Restored(@)]
  /\ UNCHANGED <<invoices, evidence, session, fee, jobs, year>>

(* employee-membership-end: entitlement, standing and continuation invoice *)
(* in one statement; an invoice of that year makes all of it fail.         *)
EndSponsorship(m) ==
  /\ sponsor[m] = "GRANTED"
  /\ fee > 0
  /\ invoices[<<m, year>>].state = "NONE"
  /\ sponsor' = [sponsor EXCEPT ![m] = "ENDED"]
  /\ members' = [members EXCEPT ![m].standing = "INITIAL_FEE_DUE"]
  /\ invoices' = [invoices EXCEPT ![<<m, year>>] = Issued(fee)]
  /\ UNCHANGED <<evidence, session, fee, jobs, year>>

-----------------------------------------------------------------------------
(* Time.                                                                   *)

DueDatePasses(b) ==
  /\ invoices[b].state = "OPEN"
  /\ ~invoices[b].due
  /\ invoices' = [invoices EXCEPT ![b].due = TRUE]
  /\ UNCHANGED <<members, evidence, session, sponsor, fee, jobs, year>>

GraceEnds(m) ==
  /\ members[m].standing = "GRACE"
  /\ ~members[m].lapsed
  /\ members' = [members EXCEPT ![m].lapsed = TRUE]
  /\ UNCHANGED <<invoices, evidence, session, sponsor, fee, jobs, year>>

SessionExpires(m) ==
  /\ m \in session
  /\ session' = session \ {m}
  /\ UNCHANGED <<members, invoices, evidence, sponsor, fee, jobs, year>>

NewYear ==
  /\ year < MaxYear
  /\ \A b \in Bills : invoices[b].state = "OPEN" => invoices[b].due
  /\ year' = year + 1
  /\ UNCHANGED <<members, invoices, evidence, session, sponsor, fee, jobs>>

-----------------------------------------------------------------------------
MemberStep ==
  \E m \in Applicants :
    \/ Enrol(m) \/ SignIn(m) \/ ReplayEnrolment(m) \/ IssueInvoice(m) \/ SessionExpires(m)
    \/ \E y \in Years :
         \/ \E r \in Requests : PaySandbox(r, m, y)
         \/ \E e \in Receipts : SettleReceipt(e, m, y)
         \/ \E e \in Receipts, amount \in Amounts : Reconcile(e, m, y, amount)

JobStep(j) ==
  \/ StartJob(j) \/ FindOverdue(j) \/ GraceOverdue(j) \/ RestrictLapsed(j)
  \/ \E m \in Members : BillNext(j, m)

Next ==
  \/ MemberStep
  \/ \E f \in 1..MaxFee : SetFee(f)
  \/ \E j \in Jobs : JobStep(j) \/ JobDies(j)
  \/ \E m \in Employees : Sponsor(m) \/ EndSponsorship(m)
  \/ \E b \in Bills : DueDatePasses(b)
  \/ \E m \in Members : GraceEnds(m)
  \/ NewYear

Spec == Init /\ [][Next]_vars

(* The job is started every day, its invocations do not always die at the  *)
(* same point, and grace periods end.                                      *)
JobFairness ==
  /\ SF_vars(\E j \in Jobs : StartJob(j))
  /\ SF_vars(\E j \in Jobs, m \in Members : BillNext(j, m))
  /\ SF_vars(\E j \in Jobs : FindOverdue(j))
  /\ SF_vars(\E j \in Jobs : GraceOverdue(j))
  /\ SF_vars(\E j \in Jobs : RestrictLapsed(j))
  /\ \A m \in Applicants : WF_vars(GraceEnds(m))

FairSpec == Spec /\ JobFairness

(* A member who signs in whenever the code allows it and pays whatever can *)
(* be paid.                                                                *)
EagerSpec ==
  /\ FairSpec
  /\ \A m \in Applicants :
       /\ SF_vars(SignIn(m) /\ m \notin session)
       /\ SF_vars(\E r \in Requests, y \in Years : PaySandbox(r, m, y))
=============================================================================
