SPECIFICATION FairSpec
CONSTANTS
  c1 = c1
  Events = {1, 2}
  Contents = {c1}
  ContentOf <- MCContentOf
  Poison = {1}
  Silent = {}
  Batch = 2
  MaxAttempts = 3
  Day = 3
  QuietFrom = 2
  QuietTo = 1
  Drains = {d1, d2}
  Senders = {s1, s2}
INVARIANTS EventHasJob WakesInTime
PROPERTIES SettledStaysSettled EventsPublished JobsLeaveQueue
CHECK_DEADLOCK FALSE
