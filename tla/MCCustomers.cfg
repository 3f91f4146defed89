SPECIFICATION Spec
CONSTANTS
  p1 = p1
  p2 = p2
  g1 = g1
  g2 = g2
  c1 = c1
  r1 = r1
  r2 = r2
  b1 = b1
  Phones = {p1, p2}
  Chats = {g1, g2}
  Codes = {c1}
  MaxUsers = 2
  Requests = {r1, r2}
  None = None
  Posts = {b1}
  Step = 2
SYMMETRY Symmetry
INVARIANTS
  OneRowEach
  CodesNameTheirCustomer
  OncePerAccount
  CountsAddUp
  SendingIsOnRecord
CHECK_DEADLOCK FALSE
