CONSTANTS
  Applicants = {m1}
  Employees = {}
  Requests = {r1}
  Receipts = {p1}
  Jobs = {j1, j2}
  MaxYear = 2
  MaxFee = 1
  None = None
SPECIFICATION FairSpec
PROPERTIES OverdueHasConsequences
CHECK_DEADLOCK FALSE
