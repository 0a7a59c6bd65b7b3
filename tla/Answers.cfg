SPECIFICATION Spec
CONSTANTS
  Documents = {d1, d2}
  Questions = {q}
  Models = {m1, m2}
  TopK = 2
  MaxChunks = 1
  MaxVersions = 2
  MaxMentions = 2
  None = None
SYMMETRY AnswersSymmetry
INVARIANTS
  TypeOK
  OpensItsPassage
PROPERTIES
  OneSpace
CHECK_DEADLOCK FALSE
