SPECIFICATION Spec
CONSTANTS
  d1 = d1
  d2 = d2
  r1 = r1
  r2 = r2
  r3 = r3
  f1 = f1
  f2 = f2
  None = None
  Document = {d1}
  Siblings = {}
  Request = {r1}
  Finisher = {f1}
  Deleter = {}
  MaxFaults = 1
INVARIANT StaleClaimNeverReachedProvider
CHECK_DEADLOCK FALSE
