SPECIFICATION Spec
CONSTANTS
  Workers = {w1, w2}
  Limit <- SmallQuotas
  DaysPerMonth = 2
  LastDay = 2
  MaxOutages = 1
  MaxQueries = 3
  Faults = {"cache", "retrieval", "accounting", "model", "worker"}
SYMMETRY WorkerSymmetry
INVARIANTS
  TypeOK
  OvershootBounded
  CountsKept
  LedgerBalances
PROPERTIES
  DeniedOnlyWhenUsed
CHECK_DEADLOCK FALSE
