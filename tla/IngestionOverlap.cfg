SPECIFICATION Spec
CONSTANTS
  Docs = {d1}
  Tasks = {t1, t2}
  Commands = {c1}
  MaxRetries = 0
  SoftTimeLimit = 1
  TimeLimit = 1
  ReapAfter = 2
  MaxQueueWait = 0
  MaxPieces = 2
  Faults = {"publish", "redeliver", "worker", "database", "storage"}
SYMMETRY Symmetry
INVARIANTS
  TypeOK
  OneWholeChunkSet
  ReadyIsSearchable
  NoOrphanChunks
  ListedHasFile
PROPERTY DeletedIsFinal
