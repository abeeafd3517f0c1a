CONSTANTS
  Items = {i1, i2}
  Rids = {x1, x2}
  Texts = {t1, t2}
  Workers = {w1}
  MayFail = FALSE
  MaxRequests = 5
  None = None
SYMMETRY Symmetry
SPECIFICATION Spec
INVARIANTS
  AuditChain
  AppliedOnce
PROPERTIES
  ImplementsWorkflow
