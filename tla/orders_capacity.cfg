CONSTANTS
  w1 = w1
  w2 = w2
  k1 = k1
  k2 = k2
  k3 = k3
  k4 = k4
  k5 = k5
  Obligations = {o1, o2}
  Workers = {w1, w2}
  PayIds = {p1}
  Requests = {k1, k2, k3, k4, k5}
  IdsOf <- CommitIdsOnly
  Amounts = {5}
  OfferTerms <- ScarceOffer
  NoCapacity = NoCapacity
SPECIFICATION Spec
PROPERTY CommitWithinCapacity
CHECK_DEADLOCK FALSE
