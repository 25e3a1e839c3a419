SPECIFICATION FairSpec
CONSTANTS
  u1 = u1
  r1 = r1
  r2 = r2
  Notification = {1, 2}
  User = {u1}
  UserOf <- MCUserOf
  Run = {r1}
  MaxAttempts = 2
  MaxDeaths = 1
  MaxLost = 0
  MaxChanges = 1
PROPERTY NoticesSettle
CHECK_DEADLOCK FALSE
