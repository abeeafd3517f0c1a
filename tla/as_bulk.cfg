CONSTANTS
  Assets = {a1, a2}
  Begin <- TakenIn
  Rids = {x1}
  Ops = {"bulk"}
  Targets = {"INVENTORY_COUNT", "ASSIGNMENT", "LOAN"}
  Workers = {w1, w2}
  MayFail = TRUE
  MaxBulk = 2
  MaxRequests = 3
  None = None
SPECIFICATION FairSpec
INVARIANTS
  TypeOK
  HistoryConnected
  HistoryEndsAtStatus
PROPERTIES
  EveryRequestEnds
