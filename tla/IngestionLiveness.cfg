SPECIFICATION FairSpec
CONSTANTS
  Docs = {d1}
  Tasks = {t1, t2}
  Commands = {}
  MaxRetries = 1
  SoftTimeLimit = 1
  TimeLimit = 1
  ReapAfter = 2
  MaxQueueWait = 3
  MaxPieces = 1
  Faults = {"publish", "redeliver", "worker", "database"}
INVARIANT NoLiveAttemptStuck
PROPERTY ProcessingEnds
