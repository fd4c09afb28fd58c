------------------------ MODULE MembershipProperties ------------------------
(***************************************************************************)
(* What must hold of invoices, evidence and standing while members pay,    *)
(* renewal jobs overlap and die, and the fee changes.                      *)
(***************************************************************************)
EXTENDS Membership

(* Money and invoices agree row for row: an invoice is PAID exactly when   *)
(* one evidence row was consumed for it, that row was reconciled for this  *)
(* very invoice and its amount, and the row is the one the invoice names.  *)
(* The sandbox leaves no evidence that paid nothing (its header promises   *)
(* that "either both land or neither does").                               *)
LineageCoherent ==
  /\ \A b \in Bills :
       LET consumed == {e \in Evidence : evidence[e].consumer = b}
       IN IF invoices[b].state = "PAID" THEN consumed = {invoices[b].paidBy}
                                        ELSE consumed = {} /\ invoices[b].paidBy = None
  /\ \A e \in Evidence : evidence[e].consumer # None =>
       /\ evidence[e].obligation = evidence[e].consumer
       /\ evidence[e].amount = invoices[evidence[e].consumer].amount
  /\ \A r \in Requests : evidence[r].consumer = evidence[r].obligation

(* A year is billed once and a payment stands: no job, request or fee      *)
(* change alters an issued invoice's amount, reopens a PAID one or lets    *)
(* its evidence pay again.                                                 *)
PaymentStands ==
  [][/\ \A b \in Bills :
          /\ invoices[b].state # "NONE" => invoices'[b].amount = invoices[b].amount
          /\ invoices[b].state = "PAID" => invoices'[b] = invoices[b]
     /\ \A e \in Evidence :
          evidence[e].consumer # None => evidence'[e] = evidence[e]]_vars

(* Standing is bought: a membership enters or returns to ACTIVE only in    *)
(* the step that pays one of its invoices, and never while another of its  *)
(* invoices is overdue once it has been active before; and it is           *)
(* RESTRICTED only out of a grace period that has run out.                 *)
OnlyPaymentRestores ==
  [][\A m \in Applicants :
       /\ (members'[m].standing = "ACTIVE" /\ members[m].standing # "ACTIVE") =>
            /\ \E y \in Years : /\ invoices[<<m, y>>].state = "OPEN"
                                /\ invoices'[<<m, y>>].state = "PAID"
            /\ members[m].state = "ACTIVE" =>
                 \A y \in Years : Overdue(<<m, y>>) => invoices'[<<m, y>>].state = "PAID"
       /\ (members'[m].standing = "RESTRICTED" /\ members[m].standing # "RESTRICTED") =>
            members[m].standing = "GRACE" /\ members[m].lapsed]_vars

(* An overdue invoice has consequences: unless the job keeps failing on a  *)
(* member it cannot bill (no fee is configured, or an employee has no      *)
(* member number), an ACTIVE member with an overdue invoice enters GRACE,  *)
(* and GRACE ends in payment or in RESTRICTED, whatever races or dies.     *)
JobCanBill == fee > 0 /\ \A m \in Employees : m \notin Candidates(year)
OverdueHasConsequences ==
  <>[]JobCanBill =>
    \A m \in Applicants :
      /\ (members[m].standing = "ACTIVE" /\ \E y \in Years : Overdue(<<m, y>>))
           ~> members[m].standing = "GRACE"
      /\ members[m].standing = "GRACE" ~> members[m].standing \in {"ACTIVE", "RESTRICTED"}

(* "a job that can move a member into RESTRICTED needs a working path back *)
(* out" (036_membership_renewal_grace_settlement.sql): a RESTRICTED member *)
(* who signs in when allowed and pays what can be paid is ACTIVE again.    *)
RestrictedCanReturn ==
  \A m \in Applicants :
    members[m].standing = "RESTRICTED" ~> members[m].standing = "ACTIVE"
=============================================================================
