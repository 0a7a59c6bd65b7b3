SPECIFICATION Spec
CONSTANTS
  Documents = {d1, d2}
  Requests = {q1, q2}
  MaxGenerations = 3
  MaxConsecutiveFailures = 3
SYMMETRY ScreenSymmetry
INVARIANTS
  TypeOK
  WatchedOrSaid
PROPERTIES
  RemovedStaysRemoved
CHECK_DEADLOCK FALSE
