CONSTANTS
  e1 = e1
  e2 = e2
  e3 = e3
  s1 = s1
  s2 = s2
  s3 = s3
  shared = shared
  own = own
  a1 = a1
  c1 = c1
  c2 = c2
  k1 = k1
  k2 = k2
  Requests <- MCRequests
  Keys = {k1, k2}
  Commands = {c1, c2}
  Executions = {e1, e2, e3}
  Stores = {s1, s2}
  Owners = {shared, own}
  Aggregates = {a1}
  StoreOf <- MixedStoreOf
  OwnerOf <- MixedOwnerOf
  Target <- OneTarget
  Batch <- TwoAndOne
SPECIFICATION FairSpec
INVARIANTS LogMatchesResults AnswersAgree
PROPERTIES ImplementsExactlyOnce StaleOwnersNeverCommit WaitingClientDecided
CHECK_DEADLOCK FALSE
