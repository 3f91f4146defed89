SPECIFICATION Spec
CONSTANTS
  t1 = t1
  t2 = t2
  s1 = s1
  b1 = b1
  ann = ann
  bob = bob
  coffee1 = coffee1
  pack1 = pack1
  bill1 = bill1
  Tasks = {t1, t2}
  Staff = {s1}
  Branches = {b1}
  BranchesOf <- McBranchesOf
  Customers = {ann, bob}
  Coffees = {coffee1}
  Packages = {pack1}
  OwnerOf <- McOwnerOf
  Members = {ann}
  Bills = {bill1}
  NoOne = NoOne
SYMMETRY Symmetry
INVARIANTS
  OwnGoods
CHECK_DEADLOCK FALSE
