CONSTANTS
  Users = {u1, u2}
  Rids = {x1, x2}
  Endpoints = {e1, e2}
  Spellings = {"canonical", "variant"}
  Workers = {w1, w2}
  MayFail = TRUE
  TTL = 1
  MaxTime = 2
  MaxExecs = 2
  None = None
SYMMETRY Symmetry
SPECIFICATION Spec
INVARIANTS
  TypeOK
  RecordedKept
  ReplayIsOwn
PROPERTIES
  NoReexecution
  ImplementsRegister
