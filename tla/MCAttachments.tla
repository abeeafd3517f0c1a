----------------------------- MODULE MCAttachments -----------------------------
(***************************************************************************)
(* A small instance of Attachments.tla for TLC.                            *)
(***************************************************************************)
EXTENDS Attachments, TLC

CONSTANTS photo, scan

\* One content is larger than the other.
Sizes == photo :> 1 @@ scan :> 2

Budget(u, d, r, f) == [upload |-> u, delete |-> d, retry |-> r, fail |-> f]

\* Uploads up to the caps and beyond; contents shared and left again; an
\* upload among deletions; retries.
Traffic == {Budget(4, 0, 0, 0), Budget(2, 2, 0, 1), Budget(3, 1, 0, 1),
            Budget(2, 1, 1, 1), Budget(1, 2, 1, 1)}

\* Items and workers are interchangeable.
Symmetry == Permutations(Items) \cup Permutations(Workers)
=============================================================================
