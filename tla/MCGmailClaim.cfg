CONSTANTS
  Pass = {p1}
  Click = {}
  Thread = {t1, t2}
  Old = 1
  MaxHistory = 2
  FullCap = 2
  CatchUpCap = 1
  BackfillCap = 1
  IncrementalMax = 2
  AllFailedMin = 2
  MaxMishaps = 1
  Calendar = TRUE
SPECIFICATION Spec
PROPERTY CatchesUp
CHECK_DEADLOCK FALSE
