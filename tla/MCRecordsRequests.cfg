SPECIFICATION Spec
CONSTANTS
  Process = {p1, p2}
  Request = {r1}
  Task = {t1, t2, t3}
  Fees = {1, 2}
  Asked = {"sent", "withdrawn", "open", "done"}
  None = None
  p1 = p1
  p2 = p2
  r1 = r1
  t1 = t1
  t2 = t2
  t3 = t3
SYMMETRY Symmetric
INVARIANTS TypeOK OneFollowUpPerRequest ClosedRequestsAreNotChased OneRollPerCompletion PaidFeeIsBookedOnce
CHECK_DEADLOCK FALSE
