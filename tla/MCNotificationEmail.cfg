SPECIFICATION Spec
CONSTANTS
  u1 = u1
  r1 = r1
  r2 = r2
  Notification = {1, 2}
  User = {u1}
  UserOf <- MCUserOf
  Run = {r1, r2}
  MaxAttempts = 2
  MaxDeaths = 1
  MaxLost = 1
  MaxChanges = 1
INVARIANTS TypeOK ClaimsAreExclusive SentMeansDelivered DuplicatesNeedMishaps DayClaimIsEarned
SYMMETRY MCSymmetry
CHECK_DEADLOCK FALSE
