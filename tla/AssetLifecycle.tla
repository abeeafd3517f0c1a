---------------------------- MODULE AssetLifecycle ----------------------------
(***************************************************************************)
(* The asset lifecycle as its users are told of it: eight states, a table  *)
(* of allowed moves, a stock count that an asset leaves only for where it  *)
(* came from, and requests that move any number of assets at once.         *)
(* Assets.tla implements it as long as requests do not overlap.            *)
(***************************************************************************)
CONSTANTS
  Assets,
  Begin,     \* the rows to start from
  None       \* no such row; no prior state

VARIABLE asset   \* asset[a]: the row of assets, or None

Statuses ==
  {"INTAKE", "ASSIGNMENT", "LOAN", "TRANSFER", "MAINTENANCE", "REPAIR",
   "INVENTORY_COUNT", "DISPOSAL"}

\* Where an asset goes from each state, other than back from a count.
Onward ==
  [INTAKE          |-> {"ASSIGNMENT", "INVENTORY_COUNT"},
   ASSIGNMENT      |-> {"LOAN", "TRANSFER", "MAINTENANCE", "INVENTORY_COUNT"},
   LOAN            |-> {"ASSIGNMENT", "MAINTENANCE"},
   TRANSFER        |-> {"ASSIGNMENT"},
   MAINTENANCE     |-> {"REPAIR", "ASSIGNMENT"},
   REPAIR          |-> {"ASSIGNMENT", "DISPOSAL"},
   INVENTORY_COUNT |-> {},
   DISPOSAL        |-> {}]

Countable == {"INTAKE", "ASSIGNMENT"}

\* A row remembers where a count found it, and nothing otherwise.
Rows ==
  [status : Statuses \ {"INVENTORY_COUNT"}, prior : {None}]
  \cup [status : {"INVENTORY_COUNT"}, prior : Countable]

Legal(row, to) ==
  \/ to \in Onward[row.status]
  \/ row.status = "INVENTORY_COUNT" /\ row.prior = to

Moved(row, to) ==
  [status |-> to, prior |-> IF to = "INVENTORY_COUNT" THEN row.status ELSE None]

Init == asset \in [Assets -> Begin]

Create(a) ==
  /\ asset[a] = None
  /\ asset' = [asset EXCEPT ![a] = [status |-> "INTAKE", prior |-> None]]

\* One request: every asset it moves goes to the same state.
Move(as, to) ==
  /\ \A a \in as : asset[a] # None /\ Legal(asset[a], to)
  /\ asset' = [a \in Assets |-> IF a \in as THEN Moved(asset[a], to) ELSE asset[a]]

Next ==
  \/ \E a \in Assets : Create(a)
  \/ \E as \in SUBSET Assets, to \in Statuses : Move(as, to)

Spec == Init /\ [][Next]_asset
=============================================================================
