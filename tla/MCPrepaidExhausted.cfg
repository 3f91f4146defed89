SPECIFICATION Spec
CONSTANTS
  s1 = s1
  s2 = s2
  p1 = p1
  p2 = p2
  o1 = o1
  o2 = o2
  u1 = u1
  u2 = u2
  Sessions = {s1, s2}
  Opens = {o1, o2}
  Uses = {u1, u2}
  Packages = {p1, p2}
  Bundles <- Cups
  Job = Job
  NoOne = NoOne
  MaxNow = 2
SYMMETRY Symmetry
INVARIANT ExhaustedIsEmpty
CHECK_DEADLOCK FALSE
