SPECIFICATION Spec
CONSTANTS
  Process = {p1, p2}
  Request = {r1}
  Task = {t1}
  Fees = {1}
  Asked = {"sent"}
  None = None
  p1 = p1
  p2 = p2
  r1 = r1
  t1 = t1
INVARIANT LeadFeesReachTheMatter
CHECK_DEADLOCK FALSE
