CONSTANTS
  Applicants = {m1}
  Employees = {e1}
  Requests = {r1}
  Receipts = {p1}
  Jobs = {j1, j2}
  MaxYear = 3
  MaxFee = 1
  None = None
SYMMETRY SymmetricJobs
SPECIFICATION Spec
INVARIANTS LineageCoherent
PROPERTIES PaymentStands OnlyPaymentRestores
CHECK_DEADLOCK FALSE
