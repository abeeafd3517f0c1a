CONSTANTS
  Assets = {a1, a2}
  Begin <- Some
  Rids = {x1, x2}
  Ops = {"create", "transition", "bulk", "maintain"}
  Targets = {"ASSIGNMENT", "INVENTORY_COUNT", "DISPOSAL", "LOST"}
  Workers = {w1}
  MayFail = FALSE
  MaxBulk = 2
  MaxRequests = 4
  None = None
SYMMETRY Symmetry
SPECIFICATION Spec
INVARIANTS
  TrailsAgree
  UpkeepOnce
PROPERTIES
  ImplementsLifecycle
  RetryIsReplayed
