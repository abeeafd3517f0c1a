CONSTANTS
  Users = {u1, u2}
  Rids = {x1}
  Endpoints = {e1}
  Spellings = {"canonical"}
  Workers = {w1, w2}
  MayFail = FALSE
  TTL = 2
  MaxTime = 4
  MaxExecs = 2
  None = None
SYMMETRY Symmetry
SPECIFICATION Spec
PROPERTIES
  OwnerNotRefused
