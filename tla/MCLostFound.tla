----------------------------- MODULE MCLostFound -----------------------------
(***************************************************************************)
(* Small instances of LostFound.tla for TLC.                               *)
(***************************************************************************)
EXTENDS LostFound, TLC

\* Items, request ids, texts and workers are interchangeable.
Symmetry ==
  Permutations(Items) \cup Permutations(Rids) \cup Permutations(Texts)
    \cup Permutations(Workers)
=============================================================================
