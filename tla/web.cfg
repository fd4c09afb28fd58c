CONSTANTS
  Credentials = {g1, g2, g3}
  StatusAnswers = {"active", "due", "suspended", "pending", "none", "other"}
  MayElevate = TRUE
  MaxClicks = 2
  Sessions = {s1, s2}
  Invoices = {i1, i2}
  Tasks = {t1, t2}
  MaxRequests = 3
  None = None
SYMMETRY InterchangeableCredentials
SPECIFICATION WebSpec
INVARIANTS SessionOfOneCredential MixedOnlyByOverlap StepUpsSpentOnce InvoicePaidUnderOneRequest
CHECK_DEADLOCK FALSE
