CONSTANTS
  w1 = w1
  w2 = w2
  k1 = k1
  k2 = k2
  k3 = k3
  k4 = k4
  k5 = k5
  Obligations = {o1}
  Workers = {w1}
  PayIds = {p1}
  Requests = {k1, k2, k3, k4, k5}
  IdsOf <- MCIdsOf
  Amounts = {2}
  OfferTerms <- OneOffer
  NoCapacity = NoCapacity
SPECIFICATION Spec
INVARIANT NoDoubleCompensation
CHECK_DEADLOCK FALSE
