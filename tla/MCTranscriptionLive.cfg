SPECIFICATION FairSpec
CONSTANTS
  d1 = d1
  d2 = d2
  r1 = r1
  r2 = r2
  r3 = r3
  f1 = f1
  f2 = f2
  None = None
  Document = {d1}
  Siblings = {}
  Request = {r1, r2}
  Finisher = {f1}
  Deleter = {}
  MaxFaults = 1
PROPERTIES RunsSettle CopiesAreDeleted
CHECK_DEADLOCK FALSE
