CONSTANTS
  email = email
  sms = sms
  InApp = InApp
  Nobody = Nobody
  Offered <- PaymentAndDeal
  Channels = {InApp, email, sms}
  Adapters = {email}
  Profiles <- TwoProfiles
  Workers = {w1, w2}
  Cap = 1
  BatchLimit = 2
  MaxVersion = 2
  MaxClaims = 3
SYMMETRY SymmetricWorkers
SPECIFICATION Spec
INVARIANTS DuplicatesAccounted ConsentOnRecord
PROPERTIES ImplementsLife
CHECK_DEADLOCK FALSE
