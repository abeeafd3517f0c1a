CONSTANTS
  ann = ann
  bob = bob
  clerk = clerk
  read = read
  edit = edit
  Users = {ann, bob}
  Rids = {x1}
  Workers = {w1, w2}
  Threshold = 2
  Window = 1
  TTL = 3
  Idle8h = 1
  MaxTime = 4
  Budgets <- Traffic
  Roles = {clerk}
  Perms = {read, edit}
  Granted <- Started
  Updates <- Asked
SYMMETRY Symmetry
SPECIFICATION Spec
INVARIANTS
  TypeOK
  GuessBound
  MintedPerLogin
  UseWithinLimits
  NothingExtra
