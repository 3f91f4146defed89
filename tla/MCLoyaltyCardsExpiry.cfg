SPECIFICATION Spec
CONSTANTS
  a = a
  b = b
  g = g
  f = f
  r1 = r1
  r2 = r2
  s1 = s1
  s2 = s2
  Sessions = {s1, s2}
  Purchases = {b}
  StampGrants = {g}
  FreeGrants = {}
  Redeems = {r1, r2}
  Units <- MCUnits
  MaxCards = 3
  Required = 2
  Life = 1
  Cooldown = 1
  Job = Job
  NoOne = NoOne
  MaxNow = 2
SYMMETRY Symmetry
INVARIANT OneCardPerCoffee
PROPERTIES
  ClosedForGood
  BookSpec
CHECK_DEADLOCK FALSE
