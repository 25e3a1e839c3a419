SPECIFICATION Spec
CONSTANTS
  u1 = u1
  r1 = r1
  r2 = r2
  Notification = {1, 2}
  User = {u1}
  UserOf <- MCUserOf
  Run = {r1}
  MaxAttempts = 2
  MaxDeaths = 1
  MaxLost = 0
  MaxChanges = 0
INVARIANT OneDuplicatePerDeath
CHECK_DEADLOCK FALSE
