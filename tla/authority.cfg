CONSTANTS
  b1 = b1
  b2 = b2
  m1 = m1
  m2 = m2
  i1 = i1
  r1 = r1
  f1 = f1
  e1 = e1
  v1 = v1
  v2 = v2
  Calls = {b1, m1, i1, r1, f1, e1}
  KindsOf <- MCKindsOf
  MaxDeaths = 2
  Subjects = {s1, s2}
  System = System
  NoId = NoId
SYMMETRY Symmetric
SPECIFICATION Spec
INVARIANTS DelegationRooted InvitationGrantsOnce RevokersOutrank
  GrantsUsable
PROPERTIES DecisionsFinal
CHECK_DEADLOCK FALSE
