------------------------------ MODULE LostFound ------------------------------
(***************************************************************************)
(* The lost-and-found handlers (handlers/lost_found.rs), a database        *)
(* statement at a time.  A handler loads the row, validates what it        *)
(* loaded, asks the idempotency gate, writes with an UPDATE that names     *)
(* nothing but the id, loads the row again, writes the audit entry and     *)
(* records the response.  Every statement commits by itself, so other      *)
(* workers write between any two of them.                                  *)
(*                                                                         *)
(* Callers hold the permissions and the facility scope the handler asks    *)
(* for: without them no handler reaches a statement that writes.           *)
(* Notifications are Outbox.tla's; attachments do not touch the row.       *)
(***************************************************************************)
EXTENDS Naturals, Sequences, FiniteSets

CONSTANTS
  Items,
  Rids,         \* X-Request-Id values of one caller, within their lifetime
  Texts,        \* contents of the fields nothing depends on
  Workers,
  MayFail,      \* whether a statement can fail or the process can stop
  MaxRequests,  \* bound: requests that get past validation
  None          \* no row; a field the request leaves alone

VARIABLES
  item,      \* item[i]: the row of lost_found_items, or None
  audit,     \* audit[i]: the item's rows of audit_logs, in order
  recorded,  \* keys with a stored response in idempotency_keys
  work,      \* work[w]: the request worker w handles and how far it is
  begun,     \* requests that got past validation, for the bound
  held       \* history: held[i] is every row the item ever was

vars == <<item, audit, recorded, work, begun, held>>

Workflow == INSTANCE LostFoundWorkflow

Rows  == Workflow!Rows
Whens == Workflow!Whens

ASSUME ConstantsAssumption ==
  /\ MayFail \in BOOLEAN
  /\ MaxRequests \in Nat
  /\ None \notin Rows

Moves  == {"submit", "approve", "bounce", "unpublish", "republish"}
Ops    == Moves \cup {"create", "update", "delete"}

\* The fields a PUT or POST body carries; None leaves a field alone.
Patches == [when : Whens \cup {None}, text : Texts \cup {None}]

Requests == [op : Ops, item : Items, rid : Rids, patch : Patches]

\* The idempotency key: request id, method and path.  The path of a creation
\* names no item.
Key(r) == <<r.rid, r.op, IF r.op = "create" THEN None ELSE r.item>>
Keys == Rids \X Ops \X (Items \cup {None})

Entries == [action : Ops, before : Rows \cup {None}, after : Rows]

Steps == {"loaded", "gated", "written", "reloaded", "audited"}
Answers == {"none", "ok", "replay", "rejected", "error"}

Idle(answer) ==
  [pc |-> "idle", req |-> None, seen |-> None, after |-> None,
   answer |-> answer]

Works ==
  [pc : {"idle"}, req : {None}, seen : {None}, after : {None},
   answer : Answers]
  \cup
  [pc : Steps, req : Requests, seen : Rows \cup {None},
   after : Rows \cup {None}, answer : {"none"}]

TypeOK ==
  /\ item \in [Items -> Rows \cup {None}]
  /\ audit \in [Items -> Seq(Entries)]
  /\ recorded \subseteq Keys
  /\ work \in [Workers -> Works]
  /\ begun \in 0 .. MaxRequests
  /\ held \in [Items -> SUBSET Rows]

Init ==
  /\ item = [i \in Items |-> None]
  /\ audit = [i \in Items |-> <<>>]
  /\ recorded = {}
  /\ work = [w \in Workers |-> Idle("none")]
  /\ begun = 0
  /\ held = [i \in Items |-> {}]

-----------------------------------------------------------------------------
(* Validation, on the row as it was loaded *)

\* The status each transition starts from, and the one it sets.
From(op) ==
  CASE op = "submit"    -> "DRAFT"
    [] op = "approve"   -> "IN_REVIEW"
    [] op = "bounce"    -> "IN_REVIEW"
    [] op = "unpublish" -> "PUBLISHED"
    [] op = "republish" -> "UNPUBLISHED"

To(op) ==
  CASE op = "submit"    -> "IN_REVIEW"
    [] op = "approve"   -> "PUBLISHED"
    [] op = "bounce"    -> "DRAFT"
    [] op = "unpublish" -> "UNPUBLISHED"
    [] op = "republish" -> "PUBLISHED"

\* Bug: the transitions do not look at the status they start from.
ValidFromAnywhere(op, row) ==
  /\ row # None
  /\ \/ op \in Moves /\ (op = "submit" => row.when = "valid")
     \/ op = "update" /\ row.status = "DRAFT"
     \/ op = "delete" /\ row.status # "DELETED"

\* A row that load_item finds and the handler accepts.
Valid(op, row) ==
  /\ row # None
  /\ \/ /\ op \in Moves
        /\ row.status = From(op)
        /\ op = "submit" => row.when = "valid"
     \/ op = "update" /\ row.status = "DRAFT"
     \/ op = "delete" /\ row.status # "DELETED"

\* create_item loads nothing: the row's id is chosen by the INSERT.
Fresh(op, i) ==
  /\ op = "create"
  /\ item[i] = None
  /\ \A w \in Workers : work[w].pc # "idle" => work[w].req.item # i

\* Bug: a creation may leave fields out.
WellFormedPartly(r) ==
  r.op \notin {"create", "update"} => r.patch = [when |-> None, text |-> None]

\* A body of a kind the route takes; a new item has all its fields.
WellFormed(r) ==
  /\ r.op \notin {"create", "update"} => r.patch = [when |-> None, text |-> None]
  /\ r.op = "create" => r.patch.when # None /\ r.patch.text # None

-----------------------------------------------------------------------------
(* The handler, a statement at a time *)

At(w, pc) == work[w].pc = pc

Goto(w, pc) == work' = [work EXCEPT ![w].pc = pc]

Answer(w, answer) == work' = [work EXCEPT ![w] = Idle(answer)]

\* load_item and the checks on what it returned.
Load(w, r) ==
  /\ At(w, "idle")
  /\ begun < MaxRequests
  /\ WellFormed(r)
  /\ Fresh(r.op, r.item) \/ Valid(r.op, item[r.item])
  /\ work' = [work EXCEPT ![w] =
                [pc |-> "loaded", req |-> r, seen |-> item[r.item],
                 after |-> None, answer |-> "none"]]
  /\ begun' = begun + 1
  /\ UNCHANGED <<item, audit, recorded, held>>

\* 404, 409 or a validation error, before the gate is asked.
Reject(w, r) ==
  /\ At(w, "idle")
  /\ WellFormed(r)
  /\ r.op # "create"
  /\ ~ Valid(r.op, item[r.item])
  /\ Answer(w, "rejected")
  /\ UNCHANGED <<item, audit, recorded, begun, held>>

\* check_before: a key on record answers without running the handler.
Replay(w) ==
  /\ At(w, "loaded")
  /\ Key(work[w].req) \in recorded
  /\ Answer(w, "replay")
  /\ UNCHANGED <<item, audit, recorded, begun, held>>

\* Bug: only creations are asked for at the gate.
GateForCreations(w) ==
  /\ At(w, "loaded")
  /\ work[w].req.op = "create" => Key(work[w].req) \notin recorded
  /\ Goto(w, "gated")
  /\ UNCHANGED <<item, audit, recorded, begun, held>>

Gate(w) ==
  /\ At(w, "loaded")
  /\ Key(work[w].req) \notin recorded
  /\ Goto(w, "gated")
  /\ UNCHANGED <<item, audit, recorded, begun, held>>

Field(new, old) == IF new = None THEN old ELSE new

\* The columns each statement sets, in a row as it is when the statement runs.
Inserted(r) ==
  [status |-> "DRAFT", when |-> r.patch.when, text |-> r.patch.text,
   bounced |-> FALSE]

\* Every content column, those the body leaves alone from the loaded row.
Edited(row, r, seen) ==
  [row EXCEPT !.when = Field(r.patch.when, seen.when),
              !.text = Field(r.patch.text, seen.text)]

\* Bug: a transition leaves the bounce reason of an earlier one in place.
MovedKeepingReason(row, r) ==
  [row EXCEPT !.status = To(r.op), !.bounced = @ \/ r.op = "bounce"]

Moved(row, r) ==
  [row EXCEPT !.status = To(r.op), !.bounced = r.op = "bounce"]

Result(row, r, seen) ==
  CASE r.op = "create" -> Inserted(r)
    [] r.op = "update" -> Edited(row, r, seen)
    [] r.op = "delete" -> [row EXCEPT !.status = "DELETED"]
    [] r.op \in Moves  -> Moved(row, r)

\* The INSERT or the UPDATE.  The INSERT returns the row it made.
Write(w) ==
  LET r   == work[w].req
      row == Result(item[r.item], r, work[w].seen)
  IN  /\ At(w, "gated")
      /\ item' = [item EXCEPT ![r.item] = row]
      /\ held' = [held EXCEPT ![r.item] = @ \cup {row}]
      /\ work' = [work EXCEPT
                    ![w].pc = IF r.op = "create" THEN "reloaded" ELSE "written",
                    ![w].after = IF r.op = "create" THEN row ELSE None]
      /\ UNCHANGED <<audit, recorded, begun>>

\* load_item again, for the audit entry and the response.
Reload(w) ==
  /\ At(w, "written")
  /\ work' = [work EXCEPT ![w].pc = "reloaded",
                          ![w].after = item[work[w].req.item]]
  /\ UNCHANGED <<item, audit, recorded, begun, held>>

\* Bug: the entry says what the write should have made of the row first loaded.
AuditPredicted(w) ==
  LET r == work[w].req
  IN  /\ At(w, "reloaded")
      /\ audit' = [audit EXCEPT ![r.item] =
                     Append(@, [action |-> r.op, before |-> work[w].seen,
                                after |-> Result(work[w].seen, r, work[w].seen)])]
      /\ Goto(w, "audited")
      /\ UNCHANGED <<item, recorded, begun, held>>

\* Bug: deletions are not audited.
AuditNoDeletion(w) ==
  LET r == work[w].req
  IN  /\ At(w, "reloaded")
      /\ audit' = IF r.op = "delete" THEN audit
                  ELSE [audit EXCEPT ![r.item] =
                          Append(@, [action |-> r.op, before |-> work[w].seen,
                                     after |-> work[w].after])]
      /\ Goto(w, "audited")
      /\ UNCHANGED <<item, recorded, begun, held>>

\* The audit entry: the row as first loaded, the row as reloaded.
Audit(w) ==
  LET r == work[w].req
  IN  /\ At(w, "reloaded")
      /\ audit' = [audit EXCEPT ![r.item] =
                     Append(@, [action |-> r.op, before |-> work[w].seen,
                                after |-> work[w].after])]
      /\ Goto(w, "audited")
      /\ UNCHANGED <<item, recorded, begun, held>>

\* record_after, and the response.
Record(w) ==
  /\ At(w, "audited")
  /\ recorded' = recorded \cup {Key(work[w].req)}
  /\ Answer(w, "ok")
  /\ UNCHANGED <<item, audit, begun, held>>

\* Some checks come after the gate: update_item parses the event date there,
\* create_item looks for the facility.
Refuse(w) ==
  /\ At(w, "gated")
  /\ work[w].req.op \in {"create", "update"}
  /\ Answer(w, "error")
  /\ UNCHANGED <<item, audit, recorded, begun, held>>

\* A statement fails or the process stops: what is committed stays.
Stop(w) ==
  /\ MayFail
  /\ ~ At(w, "idle")
  /\ Answer(w, "error")
  /\ UNCHANGED <<item, audit, recorded, begun, held>>

Advance(w) ==
  \/ Replay(w) \/ Gate(w) \/ Write(w) \/ Reload(w) \/ Audit(w) \/ Record(w)
  \/ Refuse(w) \/ Stop(w)

Next ==
  \E w \in Workers :
     (\E r \in Requests : Load(w, r) \/ Reject(w, r)) \/ Advance(w)

Spec == Init /\ [][Next]_vars

-----------------------------------------------------------------------------
(* Properties that hold under every interleaving *)

Held(i, status) == \E row \in held[i] : row.status = status

\* However requests overlap, fail and are retried, no item was ever published
\* without having been in review, in review without having been a complete
\* draft, or unpublished without having been published; and a bounce reason is
\* only ever found on an item that was in review.
LifecycleOrder ==
  \A i \in Items :
     /\ Held(i, "IN_REVIEW") =>
          \E row \in held[i] : row.status = "DRAFT" /\ row.when = "valid"
     /\ Held(i, "PUBLISHED") => Held(i, "IN_REVIEW")
     /\ Held(i, "UNPUBLISHED") => Held(i, "PUBLISHED")
     /\ (\E row \in held[i] : row.bounced) => Held(i, "IN_REVIEW")

\* The audit trail invents nothing: both snapshots of every entry are rows
\* the item really was, whoever wrote in between.
AuditTruthful ==
  \A i \in Items : \A n \in DOMAIN audit[i] :
     /\ audit[i][n].before \in held[i] \cup {None}
     /\ audit[i][n].after \in held[i]

\* What makes the two inductive.  A row is history once it is there; what a
\* worker loaded passed validation when it was the row, and stays history, as
\* does what it loads after its write.
RowsHeld == \A i \in Items : item[i] # None => item[i] \in held[i]

WorkSound(w) ==
  LET r == work[w].req
  IN  ~ At(w, "idle") =>
        /\ WellFormed(r)
        /\ IF r.op = "create"
             THEN work[w].seen = None
             ELSE /\ work[w].seen \in held[r.item]
                  /\ Valid(r.op, work[w].seen)
                  /\ item[r.item] # None
        /\ At(w, "written") => r.op # "create"
        /\ At(w, "reloaded") \/ At(w, "audited") =>
             work[w].after \in held[r.item]

IInv ==
  /\ TypeOK
  /\ RowsHeld
  /\ \A w \in Workers : WorkSound(w)
  /\ LifecycleOrder
  /\ AuditTruthful

-----------------------------------------------------------------------------
(* Properties of requests that do not overlap *)

\* With one worker, what a request loaded is still the row when it writes.
SeenIsCurrent ==
  \A w \in Workers :
     At(w, "loaded") \/ At(w, "gated") =>
        work[w].seen = item[work[w].req.item]

\* The handlers implement the workflow.
ImplementsWorkflow == Workflow!Spec

\* The entries of an item form a chain that starts with its creation and ends,
\* whenever no request is in progress, with the row as it is.
AuditChain ==
  \A i \in Items :
     /\ \A n \in DOMAIN audit[i] :
           audit[i][n].before = IF n = 1 THEN None ELSE audit[i][n - 1].after
     /\ (\A w \in Workers : At(w, "idle")) /\ item[i] # None =>
          audit[i] # <<>> /\ audit[i][Len(audit[i])].after = item[i]

Entered(op, i) == {n \in DOMAIN audit[i] : audit[i][n].action = op}

Answered(op, i) == {k \in recorded : k[2] = op /\ k[3] = i}

\* A request that is sent again may be replayed, or refused for the status its
\* own first execution left; it is never applied again.  Whenever no request is
\* in progress, an item has one audit entry for each request on record, and
\* there is one item for each creation on record.
AppliedOnce ==
  (\A w \in Workers : At(w, "idle")) =>
     /\ \A i \in Items, op \in Ops \ {"create"} :
           Cardinality(Entered(op, i)) = Cardinality(Answered(op, i))
     /\ Cardinality({i \in Items : item[i] # None})
          = Cardinality(Answered("create", None))

-----------------------------------------------------------------------------
(* What the documentation says of any requests *)

\* Every change of status is one of the workflow's.
LegalMoves ==
  [][\A i \in Items :
       item[i] # None /\ item'[i].status # item[i].status =>
         \/ item'[i].status = "DELETED"
         \/ \E op \in Moves :
              item[i].status = From(op) /\ item'[i].status = To(op)]_vars
=============================================================================
