CONSTANTS
  w1 = w1
  w2 = w2
  k1 = k1
  k2 = k2
  k3 = k3
  k4 = k4
  k5 = k5
  Obligations = {o1}
  Workers = {w1, w2}
  PayIds = {p1, p2}
  Requests = {k1, k2, k3, k4, k5}
  IdsOf <- MCIdsOf
  Amounts = {2, 5}
  OfferTerms <- EditedOffer
  NoCapacity = NoCapacity
SYMMETRY Symmetric
SPECIFICATION Spec
INVARIANTS EventLogGapless LogTellsTheRows OneEffectPerRequest QualificationEarned
  DispositionCoherent RefundBacked
PROPERTIES DeadlineDecidesOnce AcceptanceFinal ImplementsLifecycle
CHECK_DEADLOCK FALSE
