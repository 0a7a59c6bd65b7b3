SPECIFICATION Spec
CONSTANTS
  Docs = {d1}
  Tasks = {t1, t2, t3}
  Commands = {}
  MaxRetries = 1
  SoftTimeLimit = 1
  TimeLimit = 2
  ReapAfter = 5
  MaxQueueWait = 1
  MaxPieces = 1
  Faults = {"publish", "worker", "storage"}
SYMMETRY Symmetry
INVARIANTS
  SingleFlight
  ErrorOnlyWhenFailed
PROPERTIES
  EveryAttemptCounted
  ImplementsLifecycle
