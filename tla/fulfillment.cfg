CONSTANTS
  Lots = {l1, l2, l3}
  Orders = {o1}
  Allocations = {a1, a2}
  Exceptions = {e1, e2}
  Remedies = {r1, r2}
  Ordered <- TwoOfEach
  MaxLot = 2
  Undefined = Undefined
SYMMETRY Interchangeable
SPECIFICATION FulfillmentSpec
INVARIANTS GoodsConserved ResolutionSound
CHECK_DEADLOCK FALSE
