CONSTANTS
  b1 = b1
  b2 = b2
  m1 = m1
  m2 = m2
  i1 = i1
  r1 = r1
  f1 = f1
  e1 = e1
  v1 = v1
  v2 = v2
  Calls = {b1, b2, m1, m2, v1, v2}
  KindsOf <- MCKindsOf
  MaxDeaths = 0
  Subjects = {s1, s2}
  System = System
  NoId = NoId
SYMMETRY SymmetricOwners
SPECIFICATION Spec
PROPERTIES LastOwnerProtected
CHECK_DEADLOCK FALSE
