SPECIFICATION Spec
CONSTANTS
  Documents = {1, 2}
  InCorpus = 2
  OutOfCorpus = 1
  K = 2
  Floor = 2
  Similarities = {1, 3}
  OutSimilarities = {0, 1, 2}
  MarkersIn <- MCMarkersIn
  Sentences <- MCSentences
  MaxSentences = 2
  FailUnders <- MCFailUnders
  MaxRuns = 2
INVARIANTS
  TypeOK
  NothingLeftBehind
  ReportIsSound
  ExitTellsOutcome
CHECK_DEADLOCK FALSE
