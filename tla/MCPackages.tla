------------------------------ MODULE MCPackages ------------------------------
(***************************************************************************)
(* A small instance of Packages.tla for TLC.                               *)
(***************************************************************************)
EXTENDS Packages, TLC

Budget(c, e, m, v, r, f) ==
  [create |-> c, edit |-> e, move |-> m, variant |-> v, retry |-> r, fail |-> f]

\* Publications among edits of the package, among edits of its variants, and
\* repeated; variants up to the cap and beyond.
Traffic == {Budget(1, 1, 2, 0, 1, 1), Budget(1, 0, 2, 2, 0, 0),
            Budget(1, 1, 1, 1, 0, 1), Budget(1, 0, 2, 1, 1, 0),
            Budget(1, 0, 0, 3, 0, 0)}

\* Details, combination keys and workers are interchangeable.
Symmetry ==
  Permutations(Details) \cup Permutations(Keys) \cup Permutations(Workers)
=============================================================================
