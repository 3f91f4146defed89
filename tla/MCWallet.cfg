SPECIFICATION Spec
CONSTANTS
  s1 = s1
  s2 = s2
  p1 = p1
  p2 = p2
  p3 = p3
  Sessions = {s1, s2}
  Sales = {p1, p2, p3}
  Job = Job
  NoOne = NoOne
  Plans <- MCPlans
  MaxNow = 2
  JobLimit = 2
SYMMETRY Symmetry
INVARIANTS
  SpentWithinAmount
  BalanceIsBacked
  SpendsOldestFirst
  OneRowPerKey
  OnlyKnownCircles
  WalletInv
PROPERTIES
  AppendOnly
  AccountSpec
CHECK_DEADLOCK FALSE
