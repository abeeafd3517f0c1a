------------------------------ MODULE MCSessions ------------------------------
(***************************************************************************)
(* A small instance of Sessions.tla for TLC.                               *)
(***************************************************************************)
EXTENDS Sessions, TLC

CONSTANTS ann, bob, clerk, read, edit

Started == ann :> {clerk} @@ bob :> {clerk} @@ clerk :> {read}

OfAnn(active, names, set) ==
  [of |-> ann, active |-> active, names |-> names, set |-> set]

OfClerks(set) == [of |-> clerk, active |-> "kept", names |-> TRUE, set |-> set]

\* Deactivated, activated or renamed; taken out of the role and put back; the
\* role's permissions replaced.
Asked ==
  {OfAnn("no", FALSE, {}), OfAnn("yes", FALSE, {}), OfAnn("kept", FALSE, {}),
   OfAnn("kept", TRUE, {}), OfAnn("kept", TRUE, {clerk}),
   OfClerks({edit}), OfClerks({read, edit})}

Budget(right, wrong, use, logout, unlock, admin, fail, tick) ==
  [right |-> right, wrong |-> wrong, use |-> use, logout |-> logout,
   unlock |-> unlock, admin |-> admin, fail |-> fail, tick |-> tick]

\* Guessing, around an unlock and over the window's end; one request id sent
\* again and again; sessions used until they end; a session used among updates.
Traffic ==
  {Budget(0, 5, 0, 0, 0, 0, 0, 2), Budget(1, 3, 0, 0, 1, 0, 1, 1),
   Budget(4, 0, 0, 0, 0, 0, 1, 0),
   Budget(1, 0, 3, 1, 0, 0, 0, 4),
   Budget(1, 0, 1, 0, 0, 3, 1, 0), Budget(1, 0, 2, 0, 0, 2, 0, 0),
   Budget(1, 1, 1, 0, 0, 1, 0, 1)}

Symmetry == Permutations(Workers)
=============================================================================
