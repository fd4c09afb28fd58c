CONSTANTS
  Contacts = {c1, c2}
  MaxApplications = 2
  Challenges = {k1, k2}
  Calls = {v1, v2}
  MaxAttempts = 1
  MaxSends = 1
  CampaignMax = 1
SYMMETRY SymmetricIds
SPECIFICATION Spec
INVARIANTS EnrolmentsSound
PROPERTIES CodesDecideOnce
CHECK_DEADLOCK FALSE
