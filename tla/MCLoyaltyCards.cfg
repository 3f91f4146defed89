SPECIFICATION Spec
CONSTANTS
  a = a
  b = b
  g = g
  f = f
  r1 = r1
  r2 = r2
  s1 = s1
  s2 = s2
  Sessions = {s1, s2}
  Purchases = {a, b}
  StampGrants = {}
  FreeGrants = {f}
  Redeems = {r1}
  Units <- MCUnits
  MaxCards = 3
  Required = 2
  Life = 1
  Cooldown = 1
  Job = Job
  NoOne = NoOne
  MaxNow = 1
SYMMETRY Symmetry
INVARIANTS
  CompleteIsFull
  StampsFollowLedger
  StampsOnce
  OneOpenCard
CHECK_DEADLOCK FALSE
