CONSTANTS
  Deliveries = {d1}
  Users = {u1}
  To <- ToOne
  Workers = {w1, w2}
  MaxAttempts = 3
  MaxStops = 3
  MaxSends = 4
  MaxBatches = 10
  None = None
SPECIFICATION FairSpec
INVARIANTS
  TypeOK
  OptOutSilences
  CountsExactly
  TriedWithinReason
PROPERTIES
  EveryDeliveryEnds
