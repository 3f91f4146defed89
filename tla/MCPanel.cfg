SPECIFICATION Spec
CONSTANTS
  n1 = n1
  n2 = n2
  pin1 = pin1
  g1 = g1
  r1 = r1
  r2 = r2
  f1 = f1
  f2 = f2
  f3 = f3
  Names = {n1, n2}
  Pins = {pin1}
  Chats = {g1}
  MaxStaff = 2
  Requests = {r1, r2}
  None = None
  Erased = Erased
  Forms = {f1, f2, f3}
  Kind <- McKind
  MaxClicks = 2
SYMMETRY Symmetry
INVARIANTS
  LoginFindsOne
  AuthorsStay
  OncePerForm
  LogsAddUp
CHECK_DEADLOCK FALSE
