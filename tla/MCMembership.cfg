SPECIFICATION Spec
CONSTANTS
  s1 = s1
  s2 = s2
  p1 = p1
  p2 = p2
  f1 = f1
  a1 = a1
  a2 = a2
  Sessions = {s1, s2}
  Purchases <- McPurchases
  Forced = {f1}
  Sales = {a1, a2}
  Cost <- McCost
  Paid <- McPaid
  Life = 1
  MaxCards = 2
  NoOne = NoOne
  MaxNow = 1
SYMMETRY Symmetry
INVARIANTS
  DepositFollowsCharges
PROPERTIES
  DepositSpec
CHECK_DEADLOCK FALSE
