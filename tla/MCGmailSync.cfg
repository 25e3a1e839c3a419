CONSTANTS
  Pass = {p1, p2}
  Click = {p2}
  Thread = {t1, t2}
  Old = 0
  MaxHistory = 3
  FullCap = 2
  CatchUpCap = 1
  BackfillCap = 1
  IncrementalMax = 2
  AllFailedMin = 2
  MaxMishaps = 1
  Calendar = TRUE
SPECIFICATION Spec
INVARIANTS TypeOK NothingFallsBetween
PROPERTY DisconnectedStays
SYMMETRY Threads
CHECK_DEADLOCK FALSE
