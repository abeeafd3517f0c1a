CONSTANTS
  Users = {u1, u2}
  Rids = {x1}
  Endpoints = {e1, e2}
  Spellings = {"canonical", "variant"}
  Workers = {w1}
  MayFail = TRUE
  TTL = 2
  MaxTime = 4
  MaxExecs = 3
  None = None
SPECIFICATION FairSpec
PROPERTIES
  OnceWhileRecorded
  ExpiredIsReaped
