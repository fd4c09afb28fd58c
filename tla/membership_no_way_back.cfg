CONSTANTS
  Applicants = {m1}
  Employees = {}
  Requests = {r1, r2}
  Receipts = {}
  Jobs = {j1}
  MaxYear = 2
  MaxFee = 1
  None = None
SPECIFICATION EagerSpec
PROPERTIES RestrictedCanReturn
CHECK_DEADLOCK FALSE
