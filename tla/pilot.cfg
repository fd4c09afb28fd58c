CONSTANTS
  Requests = {q1, q2, q3}
  Bodies = {b1, b2}
  MaxAudit = 4
  Nothing = Nothing
  k1 = k1
  k2 = k2
  m1 = m1
  m2 = m2
  m3 = m3
  Commands = {m1, m2, m3}
  KeyOf <- TwoKeys
  Executions = {q1, q2}
  Carts = {b1, b2}
  Obligations = {o1, o2}
  Checkouts = {a1, a2}
  MaxHandled = 2
SYMMETRY Interchangeable
SPECIFICATION PilotSpec
INVARIANTS EffectsAccounted AuditTellsRequests ProofsAgree BoughtOnce
CHECK_DEADLOCK FALSE
