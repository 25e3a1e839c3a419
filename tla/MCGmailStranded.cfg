CONSTANTS
  Pass = {p1}
  Click = {c1}
  Thread = {t1, t2, t3}
  Old = 1
  MaxHistory = 4
  FullCap = 3
  CatchUpCap = 3
  BackfillCap = 3
  IncrementalMax = 3
  AllFailedMin = 2
  MaxMishaps = 0
  Calendar = FALSE
SPECIFICATION Spec
INVARIANT LeftOutBelongsToBackfill
SYMMETRY Threads
CHECK_DEADLOCK FALSE
