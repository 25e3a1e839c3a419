SPECIFICATION Spec
CONSTANTS
  p1 = p1
  p2 = p2
  Request = {p1, p2}
  MaxDocs = 3
  MaxKeys = 4
  MaxFaults = 0
INVARIANT RowsHaveBytes
SYMMETRY MCSymmetry
CHECK_DEADLOCK FALSE
