SPECIFICATION Spec
CONSTANTS
  Tenants = {a, b}
  WebThreads = {web}
  Workers = {worker1, worker2}
  Requests = {r1, r2, r3}
  Nests = FALSE
  None = None
SYMMETRY TenancySymmetry
INVARIANTS
  TypeOK
  ActsForItsTenant
  NothingLeft
  LinesNameTheirWork
CHECK_DEADLOCK FALSE
