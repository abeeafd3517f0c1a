CONSTANTS
  Details = {d1, d2}
  Keys = {k1, k2, k3}
  Places = {"none", "here", "elsewhere"}
  Workers = {w1, w2}
  MaxVariants = 1
  Budgets <- Traffic
  None = None
SYMMETRY Symmetry
SPECIFICATION Spec
INVARIANTS
  TypeOK
  VariantCap
  PublishedAsValidated
  RetryAnswered
PROPERTIES
  StatusMoves
