SPECIFICATION Spec
CONSTANTS
  Logins = {l1, l2}
  Requests = {r1, r2}
  Nil = Nil
  Rotation = FALSE
  MaxRefresh = 1
  Faults = {"unreachable", "lost", "upstream"}
SYMMETRY Symmetry
INVARIANTS
  TypeOK
  VerifierGone
PROPERTIES
  EndedStaysEnded
  OnlyOverSessionsEnd
