---------------------------- MODULE MCIdempotency ----------------------------
(***************************************************************************)
(* Small instances of Idempotency.tla for TLC.                             *)
(***************************************************************************)
EXTENDS Idempotency, TLC

\* Users, request ids, endpoints and workers are interchangeable.
Symmetry ==
  Permutations(Users) \cup Permutations(Rids) \cup Permutations(Endpoints)
    \cup Permutations(Workers)
=============================================================================
