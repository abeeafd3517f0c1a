-------------------------------- MODULE Assets --------------------------------
(***************************************************************************)
(* The asset handlers (handlers/assets.rs), a database statement at a      *)
(* time.  A single transition validates the row it loaded, then updates    *)
(* the row, inserts the asset_events row, reloads and audits, each         *)
(* statement committing by itself.  A bulk transition validates the rows   *)
(* it fetched and then makes its updates and event rows in one             *)
(* transaction, which locks each row it updates until it ends, in an order *)
(* the database chose; PostgreSQL breaks a deadlock by aborting one of the *)
(* transactions in it.                                                     *)
(*                                                                         *)
(* An asset stands for its (facility, label) pair, which the table's       *)
(* unique index keeps to one row.  Callers hold the permissions and the    *)
(* facility scope that are asked for.                                      *)
(***************************************************************************)
EXTENDS Naturals, Sequences, FiniteSets

CONSTANTS
  Assets,
  Begin,        \* the rows to start from: what earlier requests left
  Rids,         \* X-Request-Id values of one caller, within their lifetime
  Ops,          \* the routes in use, of those in AllOps
  Targets,      \* the states requests ask for
  Workers,
  MayFail,      \* whether a statement can fail or the process can stop
  MaxBulk,      \* MAX_BULK_IDS
  MaxRequests,  \* bound: requests that reach the gate
  None          \* no row, no prior state, no asset

VARIABLES
  asset,     \* asset[a]: the row of assets, or None
  events,    \* events[a]: its rows of asset_events, in order, from the last
             \* one before the model starts
  audit,     \* audit[a]: its rows of audit_logs since, in order
  upkeep,    \* upkeep[a]: how many maintenance_records it got since
  recorded,  \* keys with a stored response in idempotency_keys
  work,      \* work[w]: the request worker w handles and how far it is
  begun      \* requests that reached the gate, for the bound

vars == <<asset, events, audit, upkeep, recorded, work, begun>>

Lifecycle == INSTANCE AssetLifecycle

Statuses == Lifecycle!Statuses
Rows     == Lifecycle!Rows
Onward   == Lifecycle!Onward

AllOps == {"create", "transition", "bulk", "maintain"}

ASSUME ConstantsAssumption ==
  /\ Begin \subseteq Rows \cup {None}
  /\ Ops \subseteq AllOps
  /\ MayFail \in BOOLEAN
  /\ MaxBulk \in Nat
  /\ MaxRequests \in Nat
  /\ None \notin Rows \cup Statuses \cup Assets

\* Only the transitions name a state, only a bulk one several assets.
Requests ==
  {r \in [op : Ops, on : SUBSET Assets, to : Targets \cup {None}, rid : Rids] :
     /\ r.op # "bulk" => \E a \in Assets : r.on = {a}
     /\ r.to = None <=> r.op \in {"create", "maintain"}}

\* The idempotency key: request id, method and path.  The path of a creation
\* or a bulk transition names no asset.
Key(r) == <<r.rid, r.op, IF r.op \in {"create", "bulk"} THEN {} ELSE r.on>>
Keys == Rids \X Ops \X SUBSET Assets

Event == [from : Statuses \cup {None}, to : Statuses]
Entry == [before : Rows \cup {None}, after : Statuses]

Steps == {"arrived", "gated", "tx", "updated", "logged", "reloaded"}

Idle(answer) ==
  [pc |-> "idle", req |-> None, seen |-> None, left |-> {}, next |-> None,
   after |-> None, answer |-> answer]

\* seen: the rows loaded, of the assets the request is to change; left: those
\* of them still to lock, later to audit; next: the one to lock now.
Works ==
  [pc : {"idle"}, req : {None}, seen : {None}, left : {{}}, next : {None},
   after : {None}, answer : {"none", "ok", "replay", "rejected", "error"}]
  \cup
  [pc : Steps, req : Requests,
   seen : UNION {[as -> Rows \cup {None}] : as \in SUBSET Assets},
   left : SUBSET Assets, next : Assets \cup {None},
   after : Statuses \cup {None}, answer : {"none"}]

TypeOK ==
  /\ asset \in [Assets -> Rows \cup {None}]
  /\ events \in [Assets -> Seq(Event)]
  /\ audit \in [Assets -> Seq(Entry)]
  /\ upkeep \in [Assets -> Nat]
  /\ recorded \subseteq Keys
  /\ work \in [Workers -> Works]
  /\ begun \in 0 .. MaxRequests

\* A state the row can have come from.
Before(row) ==
  IF row.status = "INTAKE" THEN None
  ELSE IF row.prior # None THEN row.prior
  ELSE CHOOSE s \in Statuses : row.status \in Onward[s]

\* The last event an earlier request left: the one that made the row.
Past(row) ==
  IF row = None THEN <<>> ELSE <<[from |-> Before(row), to |-> row.status]>>

Init ==
  /\ asset \in [Assets -> Begin]
  /\ events = [a \in Assets |-> Past(asset[a])]
  /\ audit = [a \in Assets |-> <<>>]
  /\ upkeep = [a \in Assets |-> 0]
  /\ recorded = {}
  /\ work = [w \in Workers |-> Idle("none")]
  /\ begun = 0

-----------------------------------------------------------------------------
(* Validation of a row as it was loaded *)

\* Bug: a count is left for any state that counts are entered from, not for
\* the one this count was entered from.
LegalFromCount(row, to) ==
  IF row.status = "INVENTORY_COUNT" THEN to \in Lifecycle!Countable
                                    ELSE to \in Onward[row.status]

\* validate_transition, and the way back from a count.
Legal(row, to) ==
  IF row.status = "INVENTORY_COUNT" THEN row.prior = to
                                    ELSE to \in Onward[row.status]

\* Bug: the state before a count is not kept.
MovedForgetful(row, to) == [status |-> to, prior |-> None]

\* What the UPDATE sets, whatever the row is by then.
Moved(row, to) ==
  [status |-> to, prior |-> IF to = "INVENTORY_COUNT" THEN row.status ELSE None]

EventOf(row, to) ==
  [from |-> IF row = None THEN None ELSE row.status, to |-> to]

-----------------------------------------------------------------------------
(* A request up to the gate *)

At(w, pc) == work[w].pc = pc

Answer(w, answer) == work' = [work EXCEPT ![w] = Idle(answer)]

Op(w) == work[w].req.op

Subject(w) == CHOOSE a \in Assets : work[w].req.on = {a}

\* Single transitions and maintenance load their asset before the gate.
Loads(r) == r.op \in {"transition", "maintain"}

Exists(r) == \A a \in r.on : asset[a] # None

\* The size and the target of a bulk request are looked at first of all.
WellFormed(r) ==
  r.op = "bulk" => Cardinality(r.on) <= MaxBulk /\ r.to \in Statuses

Arrive(w, r) ==
  /\ At(w, "idle")
  /\ begun < MaxRequests
  /\ WellFormed(r)
  /\ Loads(r) => Exists(r)
  /\ work' = [work EXCEPT ![w] =
                [pc |-> "arrived", req |-> r,
                 seen |-> [a \in IF r.op = "bulk" THEN {} ELSE r.on |->
                             IF Loads(r) THEN asset[a] ELSE None],
                 left |-> {}, next |-> None, after |-> None,
                 answer |-> "none"]]
  /\ begun' = begun + 1
  /\ UNCHANGED <<asset, events, audit, upkeep, recorded>>

\* 404, or a validation error.
TurnAway(w, r) ==
  /\ At(w, "idle")
  /\ WellFormed(r) => Loads(r) /\ ~ Exists(r)
  /\ Answer(w, "rejected")
  /\ UNCHANGED <<asset, events, audit, upkeep, recorded, begun>>

\* check_before.
Replay(w) ==
  /\ At(w, "arrived")
  /\ Key(work[w].req) \in recorded
  /\ Answer(w, "replay")
  /\ UNCHANGED <<asset, events, audit, upkeep, recorded, begun>>

\* Bug: the stored response is looked up and then ignored.
GateOpen(w) ==
  /\ At(w, "arrived")
  /\ work' = [work EXCEPT ![w].pc = "gated"]
  /\ UNCHANGED <<asset, events, audit, upkeep, recorded, begun>>

Gate(w) ==
  /\ At(w, "arrived")
  /\ Key(work[w].req) \notin recorded
  /\ work' = [work EXCEPT ![w].pc = "gated"]
  /\ UNCHANGED <<asset, events, audit, upkeep, recorded, begun>>

-----------------------------------------------------------------------------
(* Row locks *)

\* The bulk transactions that have updated a and not ended.
Holders(a) ==
  {v \in Workers : At(v, "tx") /\ a \in DOMAIN work[v].seen \ work[v].left}

\* The transactions that wait for one another.
Deadlocked(ws) ==
  /\ ws # {}
  /\ \A w \in ws : /\ At(w, "tx")
                   /\ work[w].next # None
                   /\ Holders(work[w].next) \cap ws # {}

-----------------------------------------------------------------------------
(* Creation, single transitions, maintenance: each statement for itself *)

\* The unique index refuses a second row for the label.
Duplicate(w) ==
  /\ At(w, "gated")
  /\ Op(w) = "create"
  /\ ~ \A a \in work[w].req.on : asset[a] = None
  /\ Answer(w, "rejected")
  /\ UNCHANGED <<asset, events, audit, upkeep, recorded, begun>>

Insert(w) ==
  LET a == Subject(w)
  IN  /\ At(w, "gated")
      /\ Op(w) = "create"
      /\ asset[a] = None
      /\ asset' = [asset EXCEPT ![a] = [status |-> "INTAKE", prior |-> None]]
      /\ work' = [work EXCEPT ![w].pc = "updated", ![w].left = {a}]
      /\ UNCHANGED <<events, audit, upkeep, recorded, begun>>

\* create_asset looks the facility up, and apply_transition validates, after the
\* gate.
Refuse(w) ==
  /\ At(w, "gated")
  /\ \/ Op(w) = "create"
     \/ /\ Op(w) = "transition"
        /\ ~ Legal(work[w].seen[Subject(w)], work[w].req.to)
  /\ Answer(w, "rejected")
  /\ UNCHANGED <<asset, events, audit, upkeep, recorded, begun>>

\* The UPDATE waits for a transaction that has locked the row.
Update(w) ==
  LET a   == Subject(w)
      row == work[w].seen[a]
  IN  /\ At(w, "gated")
      /\ Op(w) = "transition"
      /\ Legal(row, work[w].req.to)
      /\ Holders(a) = {}
      /\ asset' = [asset EXCEPT ![a] = Moved(row, work[w].req.to)]
      /\ work' = [work EXCEPT ![w].pc = "updated", ![w].left = {a}]
      /\ UNCHANGED <<events, audit, upkeep, recorded, begun>>

\* Bug: the event says where the row is, not where it was loaded.
LogCurrent(w) ==
  LET a      == Subject(w)
      create == Op(w) = "create"
      to     == IF create THEN "INTAKE" ELSE work[w].req.to
  IN  /\ At(w, "updated")
      /\ events' = [events EXCEPT ![a] = Append(@, EventOf(asset[a], to))]
      /\ work' = [work EXCEPT
                    ![w].pc = IF create THEN "reloaded" ELSE "logged",
                    ![w].after = IF create THEN "INTAKE" ELSE None]
      /\ UNCHANGED <<asset, audit, upkeep, recorded, begun>>

\* The asset_events row.  A creation already has the row it will audit.
Log(w) ==
  LET a      == Subject(w)
      create == Op(w) = "create"
      to     == IF create THEN "INTAKE" ELSE work[w].req.to
  IN  /\ At(w, "updated")
      /\ events' = [events EXCEPT ![a] = Append(@, EventOf(work[w].seen[a], to))]
      /\ work' = [work EXCEPT
                    ![w].pc = IF create THEN "reloaded" ELSE "logged",
                    ![w].after = IF create THEN "INTAKE" ELSE None]
      /\ UNCHANGED <<asset, audit, upkeep, recorded, begun>>

Reload(w) ==
  /\ At(w, "logged")
  /\ work' = [work EXCEPT ![w].pc = "reloaded",
                          ![w].after = asset[Subject(w)].status]
  /\ UNCHANGED <<asset, events, audit, upkeep, recorded, begun>>

\* create_maintenance inserts its record and audits nothing.
Maintain(w) ==
  /\ At(w, "gated")
  /\ Op(w) = "maintain"
  /\ upkeep' = [upkeep EXCEPT ![Subject(w)] = @ + 1]
  /\ work' = [work EXCEPT ![w].pc = "reloaded"]
  /\ UNCHANGED <<asset, events, audit, recorded, begun>>

-----------------------------------------------------------------------------
(* The bulk transition *)

\* Bug: the rows are not validated.
ChosenAll(r) == {a \in r.on : asset[a] # None}

\* The rows that exist and may move.  The others are listed as rejected.
Chosen(r) == {a \in r.on : asset[a] # None /\ Legal(asset[a], r.to)}

\* One of as to lock next, if there is one.
Among(as) == IF as = {} THEN {None} ELSE as

Fetch(w) ==
  LET as == Chosen(work[w].req)
  IN  /\ At(w, "gated")
      /\ Op(w) = "bulk"
      /\ \E a \in Among(as) :
           work' = [work EXCEPT ![w].pc = "tx",
                                ![w].seen = [b \in as |-> asset[b]],
                                ![w].left = as,
                                ![w].next = a]
      /\ UNCHANGED <<asset, events, audit, upkeep, recorded, begun>>

\* Bug: the loop runs outside a transaction, each UPDATE commits at once.
InTxCommitted(w) ==
  LET a == work[w].next
  IN  /\ At(w, "tx")
      /\ a # None
      /\ asset' = [asset EXCEPT ![a] = Moved(work[w].seen[a], work[w].req.to)]
      /\ \E b \in Among(work[w].left \ {a}) :
           work' = [work EXCEPT ![w].left = @ \ {a}, ![w].next = b]
      /\ UNCHANGED <<events, audit, upkeep, recorded, begun>>

\* Bug: an asset that has been updated is not ticked off.
InTxStuck(w) ==
  LET a == work[w].next
  IN  /\ At(w, "tx")
      /\ a # None
      /\ Holders(a) = {}
      /\ \E b \in work[w].left : work' = [work EXCEPT ![w].next = b]
      /\ UNCHANGED <<asset, events, audit, upkeep, recorded, begun>>

\* The next UPDATE and its event row, in the transaction: a lock is all that
\* others notice of it.
InTx(w) ==
  LET a == work[w].next
  IN  /\ At(w, "tx")
      /\ a # None
      /\ Holders(a) = {}
      /\ \E b \in Among(work[w].left \ {a}) :
           work' = [work EXCEPT ![w].left = @ \ {a}, ![w].next = b]
      /\ UNCHANGED <<asset, events, audit, upkeep, recorded, begun>>

Commit(w) ==
  LET as == DOMAIN work[w].seen
      to == work[w].req.to
  IN  /\ At(w, "tx")
      /\ work[w].next = None
      /\ asset' = [a \in Assets |-> IF a \in as THEN Moved(work[w].seen[a], to)
                                    ELSE asset[a]]
      /\ events' = [a \in Assets |->
                      IF a \in as
                        THEN Append(events[a], EventOf(work[w].seen[a], to))
                        ELSE events[a]]
      /\ work' = [work EXCEPT ![w].pc = "reloaded", ![w].left = as,
                              ![w].after = to]
      /\ UNCHANGED <<audit, upkeep, recorded, begun>>

\* PostgreSQL aborts a transaction that is in a deadlock.
Abort(w) ==
  /\ \E ws \in SUBSET Workers : w \in ws /\ Deadlocked(ws)
  /\ Answer(w, "error")
  /\ UNCHANGED <<asset, events, audit, upkeep, recorded, begun>>

-----------------------------------------------------------------------------
(* The end of a request *)

\* The audit entries, one asset after the other.
Audit(w) ==
  /\ At(w, "reloaded")
  /\ \E a \in work[w].left :
       /\ audit' = [audit EXCEPT ![a] =
                      Append(@, [before |-> work[w].seen[a],
                                 after |-> work[w].after])]
       /\ work' = [work EXCEPT ![w].left = @ \ {a}]
  /\ UNCHANGED <<asset, events, upkeep, recorded, begun>>

\* Bug: create_maintenance does not store its response.
RecordNoUpkeep(w) ==
  /\ At(w, "reloaded")
  /\ work[w].left = {}
  /\ recorded' = IF Op(w) = "maintain" THEN recorded
                 ELSE recorded \cup {Key(work[w].req)}
  /\ Answer(w, "ok")
  /\ UNCHANGED <<asset, events, audit, upkeep, begun>>

\* record_after, and the response.
Record(w) ==
  /\ At(w, "reloaded")
  /\ work[w].left = {}
  /\ recorded' = recorded \cup {Key(work[w].req)}
  /\ Answer(w, "ok")
  /\ UNCHANGED <<asset, events, audit, upkeep, begun>>

\* A statement fails or the process stops: a transaction is rolled back, what
\* was committed stays.
Stop(w) ==
  /\ MayFail
  /\ ~ At(w, "idle")
  /\ Answer(w, "error")
  /\ UNCHANGED <<asset, events, audit, upkeep, recorded, begun>>

Proceed(w) ==
  \/ Replay(w) \/ Gate(w)
  \/ Duplicate(w) \/ Insert(w) \/ Refuse(w) \/ Update(w) \/ Log(w) \/ Reload(w)
  \/ Maintain(w)
  \/ Fetch(w) \/ InTx(w) \/ Commit(w) \/ Abort(w)
  \/ Audit(w) \/ Record(w)

\* The bound is reached and every request answered.
Rest ==
  /\ begun = MaxRequests
  /\ \A w \in Workers : At(w, "idle")
  /\ UNCHANGED vars

Next ==
  \/ \E w \in Workers :
        \/ \E r \in Requests : Arrive(w, r) \/ TurnAway(w, r)
        \/ Proceed(w)
        \/ Stop(w)
  \/ Rest

Spec == Init /\ [][Next]_vars

\* A worker's thread runs its handler to the end, and the database ends every
\* wait that is a deadlock.
FairSpec == Spec /\ \A w \in Workers : WF_vars(Proceed(w))

-----------------------------------------------------------------------------
(* Properties that hold under every interleaving *)

\* The row an event says it left the asset in.
RowOf(event) ==
  [status |-> event.to,
   prior  |-> IF event.to = "INVENTORY_COUNT" THEN event.from ELSE None]

\* However bulk transitions overlap, fail or abort each other, and however old
\* the rows are that they were validated on, an asset's history hangs together:
\* each move after the first is one the lifecycle has from a row that an earlier
\* event left it in, so that a stock count is left only for a state an earlier
\* event entered a count from; and the row the asset is in, with the state it is
\* to go back to from a count, is one of those its history tells of.  The asset
\* may have left the row a move starts from by then, for good even: a disposal
\* is undone by a transition validated before it.
HistoryConnected ==
  \A a \in Assets :
     /\ asset[a] # None =>
          \E m \in DOMAIN events[a] : asset[a] = RowOf(events[a][m])
     /\ \A n \in DOMAIN events[a] \ {1} :
          \E m \in 1 .. n - 1 :
             /\ events[a][m].to = events[a][n].from
             /\ Lifecycle!Legal(RowOf(events[a][m]), events[a][n].to)

\* However bulk transitions overlap, fail or abort each other, the history of
\* an asset ends at the state the asset is in.
HistoryEndsAtStatus ==
  \A a \in Assets : asset[a] # None =>
     /\ events[a] # <<>>
     /\ events[a][Len(events[a])].to = asset[a].status

\* Every request is answered, transactions that block each other included.
EveryRequestEnds == \A w \in Workers : ~ At(w, "idle") ~> At(w, "idle")

\* Each row of asset_events by itself is a move of the lifecycle, whatever
\* routes are in use.
Sound(event) ==
  CASE event.from = None              -> event.to = "INTAKE"
    [] event.from = "INVENTORY_COUNT" -> event.to \in Lifecycle!Countable
    [] OTHER                          -> event.to \in Onward[event.from]

MovesLegal ==
  \A a \in Assets : \A n \in DOMAIN events[a] : Sound(events[a][n])

\* What makes it inductive: the rows a worker holds are rows, and the moves it
\* has made or is to make are legal from them.
Ready(w) ==
  LET r    == work[w].req
      seen == work[w].seen
  IN  ~ At(w, "idle") =>
        /\ work[w].left \subseteq DOMAIN seen
        /\ r.op # "bulk" => DOMAIN seen = r.on
        /\ r.op = "create" => \A a \in r.on : seen[a] = None
        /\ Loads(r) => \A a \in r.on : seen[a] \in Rows
        /\ r.op = "bulk" => \A a \in DOMAIN seen :
                              seen[a] \in Rows /\ Legal(seen[a], r.to)
        /\ At(w, "updated") =>
             /\ r.op \in {"create", "transition"}
             /\ r.op = "transition" => \A a \in r.on : Legal(seen[a], r.to)
        /\ At(w, "logged") => r.op = "transition"
        /\ At(w, "updated") \/ At(w, "logged") => Exists(r)
        /\ At(w, "tx") => r.op = "bulk" /\ r.to \in Statuses
        /\ At(w, "reloaded") /\ work[w].left # {} => work[w].after \in Statuses
        /\ At(w, "arrived") \/ At(w, "gated") => WellFormed(r) /\ work[w].left = {}

IInv == TypeOK /\ MovesLegal /\ \A w \in Workers : Ready(w)

-----------------------------------------------------------------------------
(* Properties of requests that do not overlap *)

\* The handlers implement the lifecycle.
ImplementsLifecycle == Lifecycle!Spec

\* Whenever no request is in progress, the history and the audit trail of an
\* asset tell the same chain of moves.
TrailsAgree ==
  (\A w \in Workers : At(w, "idle")) =>
     \A a \in Assets :
        LET old == Len(events[a]) - Len(audit[a])
        IN  /\ old \in {0, 1}
            /\ \A n \in DOMAIN audit[a] :
                 /\ audit[a][n].after = events[a][n + old].to
                 /\ audit[a][n].before = None <=> events[a][n + old].from = None
                 /\ audit[a][n].before # None =>
                      audit[a][n].before.status = events[a][n + old].from
                 /\ n + old > 1 =>
                      events[a][n + old].from = events[a][n + old - 1].to

\* A request whose response is on record is never refused: it is replayed.
RetryIsReplayed ==
  [][\A w \in Workers :
       Refuse(w) \/ Duplicate(w) => Key(work[w].req) \notin recorded]_vars

\* However often a maintenance request is retried, its record is inserted once:
\* between requests an asset has as many records as request ids stored for it.
UpkeepOnce ==
  (\A w \in Workers : At(w, "idle")) =>
     \A a \in Assets :
        upkeep[a] = Cardinality({k \in recorded : k[2] = "maintain" /\ k[3] = {a}})
=============================================================================
