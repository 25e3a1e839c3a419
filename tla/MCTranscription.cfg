SPECIFICATION Spec
CONSTANTS
  d1 = d1
  d2 = d2
  r1 = r1
  r2 = r2
  r3 = r3
  f1 = f1
  f2 = f2
  None = None
  Document = {d1, d2}
  Siblings <- MCSiblings
  Request = {r1, r2}
  Finisher = {f1, f2}
  Deleter = {"x"}
  MaxFaults = 0
SYMMETRY MCSymmetry
INVARIANTS TypeOK EveryCopyIsTracked CompletedShowsLatestRun AttachedRunsSettleThemselves
CHECK_DEADLOCK FALSE
