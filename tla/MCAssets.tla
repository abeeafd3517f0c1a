------------------------------ MODULE MCAssets ------------------------------
(***************************************************************************)
(* Small instances of Assets.tla for TLC.                                  *)
(***************************************************************************)
EXTENDS Assets, TLC

Row(status, prior) == [status |-> status, prior |-> prior]

\* Assets just taken in, on the way to disposal, in a count, and not there yet.
TakenIn == {Row("INTAKE", None)}
Some == {None, Row("REPAIR", None), Row("INVENTORY_COUNT", "ASSIGNMENT")}

\* Assets, request ids and workers are interchangeable.
Symmetry ==
  Permutations(Assets) \cup Permutations(Rids) \cup Permutations(Workers)
=============================================================================
