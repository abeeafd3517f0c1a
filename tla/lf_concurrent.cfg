CONSTANTS
  Items = {i1}
  Rids = {x1}
  Texts = {t1}
  Workers = {w1, w2}
  MayFail = TRUE
  MaxRequests = 4
  None = None
SYMMETRY Symmetry
SPECIFICATION Spec
INVARIANTS
  TypeOK
  LifecycleOrder
  AuditTruthful
