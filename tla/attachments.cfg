CONSTANTS
  photo = photo
  scan = scan
  Items = {i1,i2}
  Contents = {photo, scan}
  Size <- Sizes
  Workers = {w1, w2}
  MaxFiles = 2
  MaxBytes = 3
  Budgets <- Traffic
  None = None
SYMMETRY Symmetry
SPECIFICATION Spec
INVARIANTS
  TypeOK
  FilesCap
  StorageKept
  Reclaimed
