CONSTANTS
  Contacts = {c1, c2}
  MaxApplications = 2
  Challenges = {k1}
  Calls = {v1, v2}
  MaxAttempts = 2
  MaxSends = 1
  CampaignMax = 1
SYMMETRY SymmetricIds
SPECIFICATION Spec
PROPERTIES TokenOpensSession
CHECK_DEADLOCK FALSE
