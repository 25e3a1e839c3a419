SPECIFICATION Spec
CONSTANTS
  Process = {p1}
  Request = {r1}
  Task = {t1, t2}
  Fees = {1}
  Asked = {"sent", "withdrawn", "open", "in_review", "done"}
  None = None
  p1 = p1
  r1 = r1
  t1 = t1
  t2 = t2
SYMMETRY Symmetric
INVARIANT AtMostOneOpenTask
CHECK_DEADLOCK FALSE
