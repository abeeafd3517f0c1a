--------------------------- MODULE LostFoundProofs ---------------------------
(***************************************************************************)
(* Proofs about LostFound.tla, for any sets of items, request ids, texts   *)
(* and workers.  The inductive invariant is IInv; what requests do when    *)
(* they do not overlap rests on SeenIsCurrent besides.                     *)
(***************************************************************************)
EXTENDS LostFound, FiniteSetTheorems, SequenceTheorems, TLAPS

-----------------------------------------------------------------------------
(* Rows *)

\* The rows, spelt out.
LEMMA RowsDef ==
  /\ Rows = [status : {"DRAFT", "IN_REVIEW", "PUBLISHED", "UNPUBLISHED",
                       "DELETED"},
             when : {"blank", "valid"}, text : Texts, bounced : BOOLEAN]
  /\ Whens = {"blank", "valid"}
  BY DEF Rows, Whens, Workflow!Rows, Workflow!Whens, Workflow!Statuses

\* A validated row is a row.
LEMMA ValidIsRow ==
  ASSUME NEW op, NEW row \in Rows \cup {None}, Valid(op, row)
  PROVE  row \in Rows
  BY DEF Valid

\* What an update leaves is a row with the status it found.
LEMMA EditedIsRow ==
  ASSUME NEW row \in Rows, NEW seen \in Rows, NEW r \in Requests
  PROVE  /\ Edited(row, r, seen) \in Rows
         /\ Edited(row, r, seen).status = row.status
         /\ Edited(row, r, seen).bounced = row.bounced
<1>1. r.patch \in Patches
  BY DEF Requests
<1>2. /\ Field(r.patch.when, seen.when) \in Whens
      /\ Field(r.patch.text, seen.text) \in Texts
  BY <1>1, RowsDef DEF Field, Patches
<1> QED
  BY <1>2, RowsDef DEF Edited

\* What the statement of a request leaves is a row.
LEMMA ResultIsRow ==
  ASSUME NEW r \in Requests, NEW row \in Rows \cup {None},
         NEW seen \in Rows \cup {None}, WellFormed(r),
         r.op # "create" => row \in Rows /\ seen \in Rows
  PROVE  Result(row, r, seen) \in Rows
<1>1. r.op \in Ops /\ r.patch \in Patches
  BY DEF Requests
<1>2. CASE r.op = "create"
  <2>1. r.patch.when \in Whens /\ r.patch.text \in Texts
    BY <1>1, <1>2 DEF WellFormed, Patches
  <2>2. Result(row, r, seen) = Inserted(r)
    BY <1>2 DEF Result, Moves
  <2> QED
    BY <2>1, <2>2, RowsDef DEF Inserted
<1>3. CASE r.op = "update"
  <2>1. Result(row, r, seen) = Edited(row, r, seen)
    BY <1>3 DEF Result, Moves
  <2>2. row \in Rows /\ seen \in Rows
    BY <1>3
  <2> QED
    BY <2>1, <2>2, EditedIsRow
<1>4. CASE r.op = "delete"
  <2>1. Result(row, r, seen) = [row EXCEPT !.status = "DELETED"]
    BY <1>4 DEF Result, Moves
  <2>2. row \in Rows
    BY <1>4
  <2> QED
    BY <2>1, <2>2, RowsDef
<1>5. CASE r.op \in Moves
  <2>1. To(r.op) \in {"IN_REVIEW", "PUBLISHED", "DRAFT", "UNPUBLISHED"}
    BY <1>5 DEF Moves, To
  <2>2. Moved(row, r) \in Rows
    BY <1>5, <2>1, RowsDef DEF Moved, Moves
  <2>3. Result(row, r, seen) = Moved(row, r)
    BY <1>5 DEF Result, Moves
  <2> QED
    BY <2>2, <2>3
<1> QED
  BY <1>1, <1>2, <1>3, <1>4, <1>5 DEF Ops

-----------------------------------------------------------------------------
(* Type correctness, and a step at a time *)

\* A busy worker's record.
LEMMA Busy ==
  ASSUME TypeOK, NEW w \in Workers, work[w].pc # "idle"
  PROVE  /\ work[w].pc \in Steps
         /\ work[w].req \in Requests
         /\ work[w].seen \in Rows \cup {None}
         /\ work[w].after \in Rows \cup {None}
         /\ work[w].answer = "none"
  BY DEF TypeOK, Works

\* Only workers at work have one.
LEMMA IdleWorks == ASSUME NEW a \in Answers PROVE Idle(a) \in Works
  BY DEF Idle, Works

\* What worker w's request may write.
LEMMA WriteIsRow ==
  ASSUME IInv, NEW w \in Workers, work[w].pc # "idle"
  PROVE  /\ work[w].req.item \in Items
         /\ Result(item[work[w].req.item], work[w].req, work[w].seen) \in Rows
<1>1. work[w].req \in Requests
  BY Busy DEF IInv
<1>2. work[w].req.item \in Items
  BY <1>1 DEF Requests
<1>3. item[work[w].req.item] \in Rows \cup {None}
  BY <1>2 DEF IInv, TypeOK
<1>4. held[work[w].req.item] \subseteq Rows
  BY <1>2 DEF IInv, TypeOK
<1>5. /\ WellFormed(work[w].req)
      /\ work[w].req.op # "create" =>
           item[work[w].req.item] \in Rows /\ work[w].seen \in Rows
  BY <1>3, <1>4 DEF IInv, WorkSound, At
<1>6. work[w].seen \in Rows \cup {None}
  BY Busy DEF IInv
<1> QED
  BY <1>1, <1>2, <1>3, <1>5, <1>6, ResultIsRow

\* The initial states have their types.
LEMMA InitType == Init => TypeOK
<1> SUFFICES ASSUME Init PROVE TypeOK
  OBVIOUS
<1>1. Idle("none") \in Works
  BY IdleWorks DEF Answers
<1>2. audit \in [Items -> Seq(Entries)]
  BY DEF Init
<1>3. 0 \in 0 .. MaxRequests
  BY ConstantsAssumption
<1> QED
  BY <1>1, <1>2, <1>3 DEF Init, TypeOK

\* One step keeps the types.  The audit trail and the rows are the hard cases.
LEMMA StepType == IInv /\ [Next]_vars => TypeOK'
<1> SUFFICES ASSUME IInv, [Next]_vars PROVE TypeOK'
  OBVIOUS
<1> USE DEF IInv, At
<1>1. TypeOK
  OBVIOUS
<1>2. ASSUME NEW w \in Workers, NEW r \in Requests, Load(w, r)
      PROVE  TypeOK'
  <2>1. r.item \in Items
    BY DEF Requests
  <2>2. item[r.item] \in Rows \cup {None}
    BY <1>1, <2>1 DEF TypeOK
  <2>3. [pc |-> "loaded", req |-> r, seen |-> item[r.item], after |-> None,
         answer |-> "none"] \in Works
    BY <2>2 DEF Works, Steps
  <2>4. begun + 1 \in 0 .. MaxRequests
    BY <1>1, <1>2, ConstantsAssumption DEF TypeOK, Load
  <2> QED
    BY <1>1, <1>2, <2>3, <2>4 DEF TypeOK, Load
<1>3. ASSUME NEW w \in Workers, NEW r \in Requests, Reject(w, r)
      PROVE  TypeOK'
  BY <1>1, <1>3, IdleWorks DEF TypeOK, Reject, Answer, Answers
<1>4. ASSUME NEW w \in Workers, Replay(w)
      PROVE  TypeOK'
  BY <1>1, <1>4, IdleWorks DEF TypeOK, Replay, Answer, Answers
<1>5. ASSUME NEW w \in Workers, Gate(w)
      PROVE  TypeOK'
  <2>1. [work[w] EXCEPT !.pc = "gated"] \in Works
    BY <1>1, <1>5, Busy DEF TypeOK, Gate, Works, Steps
  <2> QED
    BY <1>1, <1>5, <2>1 DEF TypeOK, Gate, Goto
<1>6. ASSUME NEW w \in Workers, Write(w)
      PROVE  TypeOK'
  <2>1. PICK r, row : /\ r = work[w].req
                      /\ row = Result(item[r.item], r, work[w].seen)
    OBVIOUS
  <2>2. r.item \in Items /\ row \in Rows
    BY <1>6, <2>1, WriteIsRow DEF Write
  <2>3. item' \in [Items -> Rows \cup {None}]
    BY <1>1, <1>6, <2>1, <2>2 DEF TypeOK, Write
  <2>4. held' \in [Items -> SUBSET Rows]
    BY <1>1, <1>6, <2>1, <2>2 DEF TypeOK, Write
  <2>5. \A pc \in Steps, after \in Rows \cup {None} :
          [work[w] EXCEPT !.pc = pc, !.after = after] \in Works
    BY <1>1, <1>6, Busy DEF TypeOK, Write, Works
  <2>6. work' \in [Workers -> Works]
    BY <1>1, <1>6, <2>1, <2>2, <2>5 DEF TypeOK, Write, Steps
  <2> QED
    BY <1>1, <1>6, <2>3, <2>4, <2>6 DEF TypeOK, Write
<1>7. ASSUME NEW w \in Workers, Reload(w)
      PROVE  TypeOK'
  <2>1. work[w].req.item \in Items
    BY <1>1, <1>7, Busy DEF Reload, Requests
  <2>2. \A after \in Rows \cup {None} :
          [work[w] EXCEPT !.pc = "reloaded", !.after = after] \in Works
    BY <1>1, <1>7, Busy DEF TypeOK, Reload, Works, Steps
  <2>3. work' \in [Workers -> Works]
    BY <1>1, <1>7, <2>1, <2>2 DEF TypeOK, Reload
  <2> QED
    BY <1>1, <1>7, <2>3 DEF TypeOK, Reload
<1>8. ASSUME NEW w \in Workers, Audit(w)
      PROVE  TypeOK'
  <2>1. PICK r, e : /\ r = work[w].req
                    /\ e = [action |-> r.op, before |-> work[w].seen,
                            after |-> work[w].after]
    OBVIOUS
  <2>2. /\ r \in Requests
        /\ r.item \in Items
        /\ r.op \in Ops
    BY <1>1, <1>8, <2>1, Busy DEF Audit, Requests
  <2>3. work[w].after \in Rows
    <3>1. work[w].after \in held[r.item]
      BY <1>8, <2>1 DEF Audit, WorkSound
    <3> QED
      BY <1>1, <2>2, <3>1 DEF TypeOK
  <2>4. work[w].seen \in Rows \cup {None}
    BY <1>1, <1>8, Busy DEF Audit
  <2>5. e \in Entries
    BY <2>1, <2>2, <2>3, <2>4 DEF Entries
  <2>6. Append(audit[r.item], e) \in Seq(Entries)
    <3>1. audit[r.item] \in Seq(Entries)
      BY <1>1, <2>2 DEF TypeOK
    <3> QED
      BY <2>5, <3>1, AppendProperties
  <2>7. audit' \in [Items -> Seq(Entries)]
    BY <1>1, <1>8, <2>1, <2>2, <2>6 DEF TypeOK, Audit
  <2>8. [work[w] EXCEPT !.pc = "audited"] \in Works
    BY <1>1, <1>8, Busy DEF TypeOK, Audit, Works, Steps
  <2> QED
    BY <1>1, <1>8, <2>7, <2>8 DEF TypeOK, Audit, Goto
<1>9. ASSUME NEW w \in Workers, Record(w)
      PROVE  TypeOK'
  <2>1. Key(work[w].req) \in Keys
    BY <1>1, <1>9, Busy DEF Record, Key, Keys, Requests
  <2> QED
    BY <1>1, <1>9, <2>1, IdleWorks DEF TypeOK, Record, Answer, Answers
<1>10. ASSUME NEW w \in Workers, Refuse(w) \/ Stop(w)
       PROVE  TypeOK'
  BY <1>1, <1>10, IdleWorks DEF TypeOK, Refuse, Stop, Answer, Answers
<1>11. CASE UNCHANGED vars
  BY <1>1, <1>11 DEF TypeOK, vars
<1> QED
  BY <1>2, <1>3, <1>4, <1>5, <1>6, <1>7, <1>8, <1>9, <1>10, <1>11
  DEF Next, Advance

-----------------------------------------------------------------------------
(* History only grows, and a step of one worker is no step of another *)

\* No row leaves the history, and no row is taken away.
LEMMA HistoryGrows ==
  IInv /\ [Next]_vars =>
    \A i \in Items : /\ held[i] \subseteq held'[i]
                     /\ item[i] # None => item'[i] # None
<1> SUFFICES ASSUME IInv, [Next]_vars, NEW i \in Items
             PROVE  /\ held[i] \subseteq held'[i]
                    /\ item[i] # None => item'[i] # None
  OBVIOUS
<1>1. held \in [Items -> SUBSET Rows] /\ item \in [Items -> Rows \cup {None}]
  BY DEF IInv, TypeOK
<1>2. ASSUME NEW w \in Workers, Write(w)
      PROVE  /\ held[i] \subseteq held'[i]
             /\ item[i] # None => item'[i] # None
  <2>1. PICK r, row : /\ r = work[w].req
                      /\ row = Result(item[r.item], r, work[w].seen)
    OBVIOUS
  <2>2. r.item \in Items /\ row \in Rows
    BY <1>2, <2>1, WriteIsRow DEF Write, At
  <2>3. row # None
    BY <2>2, ConstantsAssumption
  <2>4. /\ held' = [held EXCEPT ![r.item] = @ \cup {row}]
        /\ item' = [item EXCEPT ![r.item] = row]
    BY <1>2, <2>1 DEF Write
  <2> QED
    BY <1>1, <2>2, <2>3, <2>4
<1>3. CASE UNCHANGED <<item, held>>
  BY <1>3
<1> QED
  BY <1>2, <1>3
  DEF Next, Advance, vars, Load, Reject, Replay, Gate, Reload, Audit, Record,
      Refuse, Stop

\* A worker whose record a step leaves alone stays sound.
LEMMA OthersSound ==
  ASSUME IInv, [Next]_vars, NEW w \in Workers, work'[w] = work[w]
  PROVE  WorkSound(w)'
<1>1. CASE At(w, "idle")
  BY <1>1 DEF WorkSound, At
<1>2. CASE ~ At(w, "idle")
  <2>1. work[w].req.item \in Items
    BY <1>2, WriteIsRow DEF At
  <2>2. /\ held[work[w].req.item] \subseteq held'[work[w].req.item]
        /\ item[work[w].req.item] # None => item'[work[w].req.item] # None
    BY <2>1, HistoryGrows
  <2>3. WorkSound(w)
    BY DEF IInv
  <2> QED
    BY <1>2, <2>2, <2>3 DEF WorkSound, At
<1> QED
  BY <1>1, <1>2

\* Only worker w's record may change.
Only(w) == \A v \in Workers : v # w => work'[v] = work[v]

\* Rows are history, and so is what a worker loaded, after a step.
LEMMA StepSound ==
  IInv /\ [Next]_vars => RowsHeld' /\ \A w \in Workers : WorkSound(w)'
<1> SUFFICES ASSUME IInv, [Next]_vars
             PROVE  RowsHeld' /\ \A w \in Workers : WorkSound(w)'
  OBVIOUS
<1>1. /\ TypeOK
      /\ RowsHeld
      /\ \A w \in Workers : WorkSound(w)
  BY DEF IInv
<1>2. work \in [Workers -> Works] /\ item \in [Items -> Rows \cup {None}]
      /\ held \in [Items -> SUBSET Rows]
  BY <1>1 DEF TypeOK
<1>3. ASSUME NEW w \in Workers, WorkSound(w)', Only(w)
      PROVE  \A v \in Workers : WorkSound(v)'
  BY <1>3, OthersSound DEF Only
<1>4. ASSUME NEW w \in Workers, NEW r \in Requests, Load(w, r)
      PROVE  RowsHeld' /\ WorkSound(w)' /\ Only(w)
  <2>1. /\ work'[w] = [pc |-> "loaded", req |-> r, seen |-> item[r.item],
                       after |-> None, answer |-> "none"]
        /\ UNCHANGED <<item, held>>
        /\ Only(w)
    BY <1>2, <1>4 DEF Load, Only
  <2>2. RowsHeld'
    BY <1>1, <2>1 DEF RowsHeld
  <2>3. r.item \in Items /\ WellFormed(r)
    BY <1>4 DEF Load, Requests
  <2>4. CASE r.op = "create"
    <3>1. Fresh(r.op, r.item)
      BY <1>4, <2>4 DEF Load, Valid, Moves
    <3> QED
      BY <2>1, <2>2, <2>3, <2>4, <3>1 DEF WorkSound, At, Fresh
  <2>5. CASE r.op # "create"
    <3>1. Valid(r.op, item[r.item])
      BY <1>4, <2>5 DEF Load, Fresh
    <3>2. item[r.item] # None
      BY <3>1 DEF Valid
    <3>3. item[r.item] \in held[r.item]
      BY <1>1, <2>3, <3>2 DEF RowsHeld
    <3> QED
      BY <2>1, <2>2, <2>3, <2>5, <3>1, <3>2, <3>3 DEF WorkSound, At
  <2> QED
    BY <2>4, <2>5
<1>5. ASSUME NEW w \in Workers, NEW a \in Answers, Answer(w, a),
             UNCHANGED <<item, held>>
      PROVE  RowsHeld' /\ WorkSound(w)' /\ Only(w)
  BY <1>1, <1>2, <1>5 DEF RowsHeld, WorkSound, At, Answer, Idle, Only
<1>6. ASSUME NEW w \in Workers, NEW pc, Goto(w, pc), ~ At(w, "idle"),
             pc = "gated" \/ (pc = "audited" /\ At(w, "reloaded")),
             UNCHANGED <<item, held>>
      PROVE  RowsHeld' /\ WorkSound(w)' /\ Only(w)
  <2>1. /\ work'[w].pc = pc
        /\ work'[w].req = work[w].req
        /\ work'[w].seen = work[w].seen
        /\ work'[w].after = work[w].after
        /\ Only(w)
    BY <1>1, <1>2, <1>6 DEF Goto, At, Works, Only
  <2>2. WorkSound(w)
    BY <1>1
  <2> QED
    BY <1>1, <1>6, <2>1, <2>2 DEF RowsHeld, WorkSound, At
<1>7. ASSUME NEW w \in Workers, Write(w)
      PROVE  RowsHeld' /\ WorkSound(w)' /\ Only(w)
  <2>1. PICK r, row : /\ r = work[w].req
                      /\ row = Result(item[r.item], r, work[w].seen)
    OBVIOUS
  <2>2. r.item \in Items /\ row \in Rows
    BY <1>7, <2>1, WriteIsRow DEF Write, At
  <2>3. row # None
    BY <2>2, ConstantsAssumption
  <2>4. /\ held' = [held EXCEPT ![r.item] = @ \cup {row}]
        /\ item' = [item EXCEPT ![r.item] = row]
    BY <1>7, <2>1 DEF Write
  <2>5. RowsHeld'
    BY <1>1, <1>2, <2>2, <2>4 DEF RowsHeld
  <2>6. /\ work'[w].pc = IF r.op = "create" THEN "reloaded" ELSE "written"
        /\ work'[w].req = r
        /\ work'[w].seen = work[w].seen
        /\ work'[w].after = IF r.op = "create" THEN row ELSE None
        /\ Only(w)
    BY <1>1, <1>2, <1>7, <2>1 DEF Write, At, Works, Only
  <2>7. WorkSound(w) /\ ~ At(w, "idle")
    BY <1>1, <1>7 DEF Write, At
  <2>8. /\ item'[r.item] # None
        /\ row \in held'[r.item]
        /\ held[r.item] \subseteq held'[r.item]
    BY <1>2, <2>2, <2>3, <2>4
  <2> QED
    BY <2>1, <2>5, <2>6, <2>7, <2>8 DEF WorkSound, At
<1>8. ASSUME NEW w \in Workers, Reload(w)
      PROVE  RowsHeld' /\ WorkSound(w)' /\ Only(w)
  <2>1. work[w].req.item \in Items /\ ~ At(w, "idle")
    BY <1>8, WriteIsRow DEF Reload, At
  <2>2. WorkSound(w)
    BY <1>1
  <2>3. /\ work'[w].pc = "reloaded"
        /\ work'[w].req = work[w].req
        /\ work'[w].seen = work[w].seen
        /\ work'[w].after = item[work[w].req.item]
        /\ UNCHANGED <<item, held>>
        /\ Only(w)
    BY <1>1, <1>2, <1>8 DEF Reload, At, Works, Only
  <2>4. /\ work[w].req.op # "create"
        /\ item[work[w].req.item] # None
    BY <1>8, <2>1, <2>2 DEF WorkSound, Reload
  <2>5. work'[w].after \in held'[work'[w].req.item]
    BY <1>1, <2>1, <2>3, <2>4 DEF RowsHeld
  <2>6. RowsHeld'
    BY <1>1, <2>3 DEF RowsHeld
  <2> QED
    BY <2>1, <2>2, <2>3, <2>4, <2>5, <2>6 DEF WorkSound, At
<1>9. CASE UNCHANGED vars
  <2>1. UNCHANGED <<item, held, work>>
    BY <1>9 DEF vars
  <2>2. RowsHeld'
    BY <1>1, <2>1 DEF RowsHeld
  <2> QED
    BY <2>1, <2>2, OthersSound
<1>10. ASSUME NEW w \in Workers,
              \/ \E r \in Requests : Load(w, r) \/ Reject(w, r)
              \/ Advance(w)
       PROVE  RowsHeld' /\ WorkSound(w)' /\ Only(w)
  <2>1. ASSUME \/ \E r \in Requests : Reject(w, r)
               \/ Replay(w) \/ Record(w) \/ Refuse(w) \/ Stop(w)
        PROVE  RowsHeld' /\ WorkSound(w)' /\ Only(w)
    <3>1. /\ UNCHANGED <<item, held>>
          /\ \E a \in Answers : Answer(w, a)
      BY <2>1 DEF Reject, Replay, Record, Refuse, Stop, Answers
    <3> QED
      BY <1>5, <3>1
  <2>2. ASSUME Gate(w) \/ Audit(w)
        PROVE  RowsHeld' /\ WorkSound(w)' /\ Only(w)
    <3>1. /\ UNCHANGED <<item, held>>
          /\ ~ At(w, "idle")
          /\ \/ Goto(w, "gated")
             \/ Goto(w, "audited") /\ At(w, "reloaded")
      BY <2>2 DEF Gate, Audit, At
    <3> QED
      BY <1>6, <3>1
  <2> QED
    BY <1>4, <1>7, <1>8, <1>10, <2>1, <2>2 DEF Advance
<1> QED
  BY <1>3, <1>9, <1>10 DEF Next

-----------------------------------------------------------------------------
(* The order of the lifecycle *)

\* The clauses of LifecycleOrder for one item.
Ordered(h) ==
  /\ (\E row \in h : row.status = "IN_REVIEW") =>
       \E row \in h : row.status = "DRAFT" /\ row.when = "valid"
  /\ (\E row \in h : row.status = "PUBLISHED") =>
       \E row \in h : row.status = "IN_REVIEW"
  /\ (\E row \in h : row.status = "UNPUBLISHED") =>
       \E row \in h : row.status = "PUBLISHED"
  /\ (\E row \in h : row.bounced) => \E row \in h : row.status = "IN_REVIEW"

\* The order of life cycles is a matter of each item.
LEMMA OrderedItems == LifecycleOrder <=> \A i \in Items : Ordered(held[i])
  BY DEF LifecycleOrder, Ordered, Held

\* A transition adds a row whose predecessor, the row it loaded, is history.
LEMMA MoveOrdered ==
  ASSUME NEW h \in SUBSET Rows, Ordered(h), NEW seen \in h,
         NEW row \in Rows \cup {None}, NEW r \in Requests, r.op \in Moves,
         Valid(r.op, seen), Moved(row, r) \in Rows, row \in Rows
  PROVE  Ordered(h \cup {Moved(row, r)})
<1>1. /\ Moved(row, r).status = To(r.op)
      /\ Moved(row, r).bounced = (r.op = "bounce")
  BY RowsDef DEF Moved
<1>2. seen.status = From(r.op) /\ (r.op = "submit" => seen.when = "valid")
  BY DEF Valid, Moves
<1>3. CASE r.op = "submit"
  BY <1>1, <1>2, <1>3 DEF Ordered, To, From
<1>4. CASE r.op = "approve"
  BY <1>1, <1>2, <1>4 DEF Ordered, To, From
<1>5. CASE r.op = "bounce"
  BY <1>1, <1>2, <1>5 DEF Ordered, To, From
<1>6. CASE r.op = "unpublish"
  BY <1>1, <1>2, <1>6 DEF Ordered, To, From
<1>7. CASE r.op = "republish"
  BY <1>1, <1>2, <1>7 DEF Ordered, To, From
<1> QED
  BY <1>3, <1>4, <1>5, <1>6, <1>7 DEF Moves

\* A row with the status and the bounce mark of one that is history adds
\* nothing to explain.
LEMMA SameOrdered ==
  ASSUME NEW h \in SUBSET Rows, Ordered(h), NEW old \in h, NEW row \in Rows,
         row.status = old.status \/ row.status = "DELETED",
         row.bounced = old.bounced
  PROVE  Ordered(h \cup {row})
  BY DEF Ordered

\* One step keeps the order.
LEMMA StepOrder == IInv /\ [Next]_vars => LifecycleOrder'
<1> SUFFICES ASSUME IInv, [Next]_vars, NEW i \in Items
             PROVE  Ordered(held[i])'
  BY DEF LifecycleOrder, Ordered, Held
<1>1. /\ Ordered(held[i])
      /\ item \in [Items -> Rows \cup {None}]
      /\ held \in [Items -> SUBSET Rows]
      /\ RowsHeld
  BY OrderedItems DEF IInv, TypeOK
<1>2. ASSUME NEW w \in Workers, Write(w)
      PROVE  Ordered(held[i])'
  <2>1. PICK r, row, seen : /\ r = work[w].req
                            /\ seen = work[w].seen
                            /\ row = Result(item[r.item], r, seen)
    OBVIOUS
  <2>2. /\ r.item \in Items
        /\ row \in Rows
        /\ r \in Requests
    BY <1>2, <2>1, WriteIsRow, Busy DEF Write, At, IInv
  <2>3. held' = [held EXCEPT ![r.item] = @ \cup {row}]
    BY <1>2, <2>1 DEF Write
  <2>4. CASE r.item # i
    BY <1>1, <2>2, <2>3, <2>4
  <2>5. CASE r.item = i
    <3>1. held'[i] = held[i] \cup {row}
      BY <1>1, <2>2, <2>3, <2>5
    <3>2. r.op # "create" => /\ seen \in held[i]
                             /\ Valid(r.op, seen)
                             /\ item[i] \in held[i]
                             /\ item[i] \in Rows
      <4>1. r.op # "create" => /\ seen \in held[i]
                               /\ Valid(r.op, seen)
                               /\ item[i] # None
        BY <1>2, <2>1, <2>5 DEF IInv, WorkSound, Write, At
      <4> QED
        BY <1>1, <4>1 DEF RowsHeld
    <3>3. CASE r.op = "create"
      <4>1. row.status = "DRAFT" /\ row.bounced = FALSE
        BY <2>1, <3>3 DEF Result, Inserted, Moves
      <4> QED
        BY <1>1, <3>1, <4>1 DEF Ordered
    <3>4. CASE r.op = "update"
      <4>1. row = Edited(item[i], r, seen)
        BY <2>1, <2>5, <3>4 DEF Result, Moves
      <4>2. row.status = item[i].status /\ row.bounced = item[i].bounced
        BY <1>1, <2>2, <3>2, <3>4, <4>1, EditedIsRow
      <4> QED
        BY <1>1, <2>2, <3>1, <3>2, <3>4, <4>2, SameOrdered
    <3>5. CASE r.op = "delete"
      <4>1. row = [item[i] EXCEPT !.status = "DELETED"]
        BY <2>1, <2>5, <3>5 DEF Result, Moves
      <4>2. row.status = "DELETED" /\ row.bounced = item[i].bounced
        BY <3>2, <3>5, <4>1, RowsDef
      <4> QED
        BY <1>1, <2>2, <3>1, <3>2, <3>5, <4>2, SameOrdered
    <3>6. CASE r.op \in Moves
      <4>1. row = Moved(item[i], r)
        BY <2>1, <2>5, <3>6 DEF Result, Moves
      <4>2. r.op # "create"
        BY <3>6 DEF Moves
      <4> QED
        BY <1>1, <2>2, <3>1, <3>2, <3>6, <4>1, <4>2, MoveOrdered
    <3>7. r.op \in Ops
      BY <2>2 DEF Requests
    <3> QED
      BY <3>3, <3>4, <3>5, <3>6, <3>7 DEF Ops
  <2> QED
    BY <2>4, <2>5
<1>3. CASE UNCHANGED held
  BY <1>1, <1>3
<1> QED
  BY <1>2, <1>3
  DEF Next, Advance, vars, Load, Reject, Replay, Gate, Reload, Audit, Record,
      Refuse, Stop

-----------------------------------------------------------------------------
(* The truth of the audit trail *)

\* One step keeps it.
LEMMA StepTruth == IInv /\ [Next]_vars => AuditTruthful'
<1> SUFFICES ASSUME IInv, [Next]_vars, NEW i \in Items,
                    NEW n \in DOMAIN audit'[i]
             PROVE  /\ audit'[i][n].before \in held'[i] \cup {None}
                    /\ audit'[i][n].after \in held'[i]
  BY DEF AuditTruthful
<1>1. /\ AuditTruthful
      /\ audit \in [Items -> Seq(Entries)]
      /\ held[i] \subseteq held'[i]
  BY HistoryGrows DEF IInv, TypeOK
<1>2. ASSUME NEW w \in Workers, Audit(w)
      PROVE  /\ audit'[i][n].before \in held'[i] \cup {None}
             /\ audit'[i][n].after \in held'[i]
  <2>1. PICK r, e : /\ r = work[w].req
                    /\ e = [action |-> r.op, before |-> work[w].seen,
                            after |-> work[w].after]
    OBVIOUS
  <2>2. /\ r.item \in Items
        /\ audit' = [audit EXCEPT ![r.item] = Append(@, e)]
        /\ WorkSound(w)
    BY <1>2, <2>1, WriteIsRow DEF Audit, At, IInv
  <2>3. CASE r.item # i \/ n \in DOMAIN audit[i]
    <3>1. n \in DOMAIN audit[i] /\ audit'[i][n] = audit[i][n]
      <4>1. audit[i] \in Seq(Entries)
        BY <1>1
      <4>2. audit'[i] = IF r.item = i THEN Append(audit[i], e) ELSE audit[i]
        BY <1>1, <2>2
      <4> QED
        BY <2>3, <4>1, <4>2
    <3> QED
      BY <1>1, <3>1 DEF AuditTruthful
  <2>4. CASE r.item = i /\ n \notin DOMAIN audit[i]
    <3>1. audit[i] \in Seq(Entries) /\ audit'[i] = Append(audit[i], e)
      BY <1>1, <2>2, <2>4
    <3>2. audit'[i][n] = e
      BY <2>4, <3>1
    <3>3. e.before \in held[i] \cup {None} /\ e.after \in held[i]
      BY <1>2, <2>1, <2>2, <2>4 DEF WorkSound, Audit, At
    <3> QED
      BY <1>1, <3>2, <3>3
  <2> QED
    BY <2>3, <2>4
<1>3. CASE UNCHANGED audit
  BY <1>1, <1>3 DEF AuditTruthful
<1> QED
  BY <1>2, <1>3
  DEF Next, Advance, vars, Load, Reject, Replay, Gate, Write, Reload, Record,
      Refuse, Stop

-----------------------------------------------------------------------------
(* The invariant, and what follows from it *)

\* The strengthened invariant holds at first.
LEMMA InitIInv == Init => IInv
<1> SUFFICES ASSUME Init PROVE IInv
  OBVIOUS
<1>1. TypeOK
  BY InitType
<1>2. \A w \in Workers : WorkSound(w)
  BY DEF Init, WorkSound, At, Idle
<1>3. RowsHeld /\ LifecycleOrder /\ AuditTruthful
  BY DEF Init, RowsHeld, LifecycleOrder, AuditTruthful, Held
<1> QED
  BY <1>1, <1>2, <1>3 DEF IInv

\* And always.
LEMMA Invariance == Spec => []IInv
<1>1. IInv /\ [Next]_vars => IInv'
  BY StepType, StepSound, StepOrder, StepTruth DEF IInv
<1> QED
  BY InitIInv, <1>1, PTL DEF Spec

\* The state stays of its type, whatever the workers do.
THEOREM TypeCorrect == Spec => []TypeOK
<1>1. IInv => TypeOK
  BY DEF IInv
<1> QED
  BY Invariance, <1>1, PTL

\* For any number of workers, requests and failures: nothing was published
\* that was not in review, nothing in review that was not a complete draft.
THEOREM LifecycleOrderHolds == Spec => []LifecycleOrder
<1>1. IInv => LifecycleOrder
  BY DEF IInv
<1> QED
  BY Invariance, <1>1, PTL

\* Nor does the audit trail ever show a row the item never was.
THEOREM AuditTruthfulHolds == Spec => []AuditTruthful
<1>1. IInv => AuditTruthful
  BY DEF IInv
<1> QED
  BY Invariance, <1>1, PTL

-----------------------------------------------------------------------------
(* Requests that do not overlap *)

OneAtATime == \A v, w \in Workers : v = w

\* What the one worker loaded is the row until it writes.
LEMMA StepCurrent ==
  ASSUME OneAtATime
  PROVE  IInv /\ SeenIsCurrent /\ [Next]_vars => SeenIsCurrent'
<1> SUFFICES ASSUME IInv, SeenIsCurrent, [Next]_vars, NEW w \in Workers,
                    At(w, "loaded")' \/ At(w, "gated")'
             PROVE  work'[w].seen = item'[work'[w].req.item]
  BY DEF SeenIsCurrent
<1>1. work \in [Workers -> Works]
  BY DEF IInv, TypeOK
<1>2. CASE UNCHANGED vars
  BY <1>2 DEF vars, SeenIsCurrent, At
<1>3. CASE \E r \in Requests : Load(w, r)
  BY <1>1, <1>3 DEF Load
<1>4. CASE Gate(w)
  BY <1>1, <1>4 DEF Gate, Goto, SeenIsCurrent, At, Works
<1>5. ~ Write(w)
  BY <1>1 DEF Write, At, Works
<1>6. ~ Audit(w) /\ ~ Reload(w)
  BY <1>1 DEF Audit, Reload, Goto, At, Works
<1>7. ~ \E a \in Answers : Answer(w, a)
  BY <1>1 DEF Answer, Idle, At
<1>8. \A r \in Requests : ~ Reject(w, r)
  BY <1>7 DEF Reject, Answers
<1>9. ~ (Replay(w) \/ Record(w) \/ Refuse(w) \/ Stop(w))
  BY <1>7 DEF Replay, Record, Refuse, Stop, Answers
<1>10. \A v \in Workers : v = w
  BY DEF OneAtATime
<1> QED
  BY <1>2, <1>3, <1>4, <1>5, <1>6, <1>8, <1>9, <1>10 DEF Next, Advance

\* The write of a request that saw the row as it is, is a step of the
\* workflow.
LEMMA WriteIsStep ==
  ASSUME IInv, SeenIsCurrent, NEW w \in Workers, Write(w),
         OneAtATime
  PROVE  Workflow!Next \/ UNCHANGED item
<1>1. PICK r, seen, i : /\ r = work[w].req
                        /\ seen = work[w].seen
                        /\ i = r.item
  OBVIOUS
<1>2. /\ i \in Items
      /\ r \in Requests
      /\ r.op \in Ops
      /\ r.patch \in Patches
      /\ Result(item[i], r, seen) \in Rows
  BY <1>1, WriteIsRow, Busy DEF Write, At, IInv, Requests
<1>3. /\ seen = item[i]
      /\ WellFormed(r)
      /\ r.op = "create" => seen = None
      /\ r.op # "create" => Valid(r.op, seen) /\ seen \in Rows
  <2>1. seen = item[i]
    BY <1>1 DEF Write, At, SeenIsCurrent
  <2>2. WorkSound(w) /\ ~ At(w, "idle") /\ held[i] \in SUBSET Rows
    BY <1>2 DEF Write, At, IInv, TypeOK
  <2> QED
    BY <1>1, <2>1, <2>2 DEF WorkSound
<1>4. item' = [item EXCEPT ![i] = Result(item[i], r, seen)]
  BY <1>1 DEF Write
<1>5. item[i] # None /\ r.op # "create" => Valid(r.op, item[i]) /\ item[i] \in Rows
  BY <1>3
<1> USE DEF Workflow!Next, Workflow!Set, Workflow!In, Workflow!Move
<1>6. CASE r.op = "create"
  <2>1. r.patch.when \in Whens /\ r.patch.text \in Texts
    BY <1>2, <1>3, <1>6 DEF WellFormed, Patches
  <2>2. Result(item[i], r, seen) = Inserted(r)
    BY <1>6 DEF Result, Moves
  <2>3. item[i] = None
    BY <1>3, <1>6
  <2>4. Workflow!Create(i)
    BY <1>4, <2>1, <2>2, <2>3 DEF Workflow!Create, Inserted, Whens
  <2> QED
    BY <1>2, <2>4
<1>7. CASE r.op = "update"
  <2>1. Result(item[i], r, seen) = Edited(item[i], r, item[i])
    BY <1>3, <1>7 DEF Result, Moves
  <2>2. /\ item[i] # None
        /\ item[i].status = "DRAFT"
    BY <1>3, <1>7 DEF Valid, Moves
  <2>3. item[i] \in Rows
    BY <1>3, <1>7
  <2>4. PICK x, t : /\ x = Field(r.patch.when, item[i].when)
                    /\ t = Field(r.patch.text, item[i].text)
    OBVIOUS
  <2>5. x \in Whens /\ t \in Texts
    BY <1>2, <2>3, <2>4, RowsDef DEF Field, Patches
  <2>6. item' = [item EXCEPT ![i] = [item[i] EXCEPT !.when = x, !.text = t]]
    BY <1>4, <2>1, <2>4 DEF Edited
  <2>7. Workflow!Edit(i)
    BY <2>2, <2>5, <2>6 DEF Workflow!Edit, Whens
  <2> QED
    BY <1>2, <2>7
<1>8. CASE r.op = "delete"
  <2>1. Result(item[i], r, seen) = [item[i] EXCEPT !.status = "DELETED"]
    BY <1>8 DEF Result, Moves
  <2>2. item[i] # None /\ item[i].status # "DELETED"
    BY <1>3, <1>8 DEF Valid, Moves
  <2>3. Workflow!Delete(i)
    BY <1>4, <2>1, <2>2 DEF Workflow!Delete
  <2> QED
    BY <1>2, <2>3
<1>9. CASE r.op \in Moves
  <2>1. Result(item[i], r, seen)
          = [item[i] EXCEPT !.status = To(r.op), !.bounced = r.op = "bounce"]
    BY <1>9 DEF Result, Moved, Moves
  <2>2. /\ item[i] # None
        /\ item[i].status = From(r.op)
        /\ r.op = "submit" => item[i].when = "valid"
    BY <1>3, <1>9 DEF Valid, Moves
  <2>3. \/ Workflow!In(i, "DRAFT") /\ Workflow!Submit(i)
        \/ Workflow!Approve(i) \/ Workflow!Bounce(i)
        \/ Workflow!Unpublish(i) \/ Workflow!Republish(i)
    BY <1>4, <1>9, <2>1, <2>2
    DEF Moves, From, To, Workflow!Submit, Workflow!Approve, Workflow!Bounce,
        Workflow!Unpublish, Workflow!Republish
  <2> QED
    BY <1>2, <2>3
<1> QED
  BY <1>2, <1>6, <1>7, <1>8, <1>9 DEF Ops

\* As long as requests do not overlap, the handlers implement the workflow
\* their users are told of, failures included.
THEOREM WorkflowImplemented ==
  ASSUME OneAtATime
  PROVE  Spec => ImplementsWorkflow
<1>1. Init => Workflow!Init
  BY DEF Init, Workflow!Init
<1>2. Init => SeenIsCurrent
  BY DEF Init, SeenIsCurrent, At, Idle
<1>3. IInv /\ SeenIsCurrent /\ [Next]_vars => SeenIsCurrent'
  BY StepCurrent
<1>4. IInv /\ SeenIsCurrent /\ [Next]_vars => [Workflow!Next]_item
  <2> SUFFICES ASSUME IInv, SeenIsCurrent, [Next]_vars
               PROVE  Workflow!Next \/ UNCHANGED item
    OBVIOUS
  <2>1. ASSUME NEW w \in Workers, Write(w)
        PROVE  Workflow!Next \/ UNCHANGED item
    BY <2>1, WriteIsStep
  <2> QED
    BY <2>1
    DEF Next, Advance, vars, Load, Reject, Replay, Gate, Reload, Audit,
        Record, Refuse, Stop
<1> QED
  BY <1>1, <1>2, <1>3, <1>4, Invariance, PTL
  DEF Spec, ImplementsWorkflow, Workflow!Spec

-----------------------------------------------------------------------------
(* The audit trail of requests that do not overlap *)

\* The row the last entry of an item leaves it with.
LastRow(i) ==
  IF audit[i] = <<>> THEN None ELSE audit[i][Len(audit[i])].after

\* A worker that has written and not audited yet.
Owing(w) == At(w, "written") \/ At(w, "reloaded")

\* The entries form a chain, and an item is the row its last entry tells unless
\* a worker is to audit the change from that row.
Chained ==
  \A i \in Items : \A n \in DOMAIN audit[i] :
     audit[i][n].before = IF n = 1 THEN None ELSE audit[i][n - 1].after

Told ==
  /\ \A i \in Items :
        LastRow(i) = item[i] \/ \E w \in Workers : Owing(w) /\ work[w].req.item = i
  /\ \A w \in Workers : Owing(w) =>
        /\ work[w].seen = LastRow(work[w].req.item)
        /\ At(w, "reloaded") => work[w].after = item[work[w].req.item]

\* A step that neither writes a row nor an entry, by a worker with nothing to
\* audit.
LEMMA QuietStep ==
  ASSUME OneAtATime, Chained, Told, NEW w \in Workers,
         ~ Owing(w), ~ Owing(w)', UNCHANGED <<item, audit>>
  PROVE  Chained' /\ Told'
<1>1. \A v \in Workers : v = w
  BY DEF OneAtATime
<1>2. \A v \in Workers : ~ Owing(v) /\ ~ Owing(v)'
  BY <1>1
<1>3. \A i \in Items : LastRow(i)' = LastRow(i)
  BY DEF LastRow
<1>4. Told'
  BY <1>2, <1>3 DEF Told
<1> QED
  BY <1>4 DEF Chained

\* The write of what was found leaves a change to be audited.
LEMMA WriteTold ==
  ASSUME OneAtATime, IInv, SeenIsCurrent, Chained, Told, NEW w \in Workers,
         Write(w)
  PROVE  Chained' /\ Told'
<1>1. \A v \in Workers : v = w
  BY DEF OneAtATime
<1>2. At(w, "gated") /\ ~ Owing(w)
  BY DEF Write, At, Owing
<1>3. PICK r, i, row : /\ r = work[w].req
                       /\ i = r.item
                       /\ row = Result(item[i], r, work[w].seen)
  OBVIOUS
<1>4. /\ i \in Items
      /\ work[w].seen = item[i]
      /\ LastRow(i) = item[i]
  BY <1>1, <1>2, <1>3, WriteIsRow DEF SeenIsCurrent, Told, At
<1>5. /\ item' = [item EXCEPT ![i] = row]
      /\ audit' = audit
  BY <1>3 DEF Write
<1>6. PICK pc, after :
        /\ work' = [work EXCEPT ![w].pc = pc, ![w].after = after]
        /\ pc = IF r.op = "create" THEN "reloaded" ELSE "written"
        /\ after = IF r.op = "create" THEN row ELSE None
  BY <1>3 DEF Write
<1>7. /\ work \in [Workers -> Works]
      /\ item \in [Items -> Rows \cup {None}]
  BY DEF IInv, TypeOK
<1>8. /\ work'[w].pc = pc
      /\ work'[w].req = r
      /\ work'[w].seen = work[w].seen
      /\ work'[w].after = after
  <2>1. work[w] \in Works /\ work[w].pc # "idle"
    BY <1>2, <1>7 DEF At
  <2>2. work[w] \in [pc : Steps, req : Requests, seen : Rows \cup {None},
                     after : Rows \cup {None}, answer : {"none"}]
    BY <2>1 DEF Works
  <2>3. work'[w] = [work[w] EXCEPT !.pc = pc, !.after = after]
    BY <1>6, <1>7
  <2> QED
    BY <1>3, <2>2, <2>3
<1>9. \A j \in Items : LastRow(j)' = LastRow(j)
  BY <1>5 DEF LastRow
<1>10. /\ item'[i] = row
       /\ \A j \in Items \ {i} : item'[j] = item[j]
  BY <1>4, <1>5, <1>7
<1>11. Owing(w)' /\ (At(w, "reloaded")' => after = row)
  <2>1. /\ pc \in {"written", "reloaded"}
        /\ pc = "reloaded" => after = row
    BY <1>6
  <2> QED
    BY <1>8, <2>1 DEF Owing, At
<1>12. ASSUME NEW j \in Items
       PROVE  LastRow(j)' = item'[j]
              \/ \E v \in Workers : Owing(v)' /\ work'[v].req.item = j
  <2>1. CASE j = i
    BY <1>3, <1>8, <1>11, <2>1
  <2>2. CASE j # i
    <3>1. LastRow(j) = item[j]
      BY <1>1, <1>2 DEF Told
    <3> QED
      BY <1>9, <1>10, <2>2, <3>1
  <2> QED
    BY <2>1, <2>2
<1>13. /\ work'[w].seen = LastRow(i)'
       /\ At(w, "reloaded")' => work'[w].after = item'[i]
  BY <1>4, <1>8, <1>9, <1>10, <1>11
<1>14. work'[w].req.item = i
  BY <1>3, <1>8
<1>15. (\A v \in Workers : Owing(v) =>
          /\ work[v].seen = LastRow(work[v].req.item)
          /\ At(v, "reloaded") => work[v].after = item[work[v].req.item])'
  BY <1>1, <1>13, <1>14
<1> QED
  BY <1>5, <1>12, <1>15 DEF Told, Chained

\* What is loaded after the write is the row as the audit will tell it.
LEMMA ReloadTold ==
  ASSUME OneAtATime, IInv, Chained, Told, NEW w \in Workers, Reload(w)
  PROVE  Chained' /\ Told'
<1>1. \A v \in Workers : v = w
  BY DEF OneAtATime
<1>2. At(w, "written") /\ Owing(w)
  BY DEF Reload, Owing
<1>3. PICK r, i : r = work[w].req /\ i = r.item
  OBVIOUS
<1>4. PICK row : row = item[i]
  OBVIOUS
<1>5. work' = [work EXCEPT ![w].pc = "reloaded", ![w].after = row]
  BY <1>3, <1>4 DEF Reload
<1>6. /\ work'[w].req = r
      /\ work'[w].seen = work[w].seen
      /\ work'[w].after = row
      /\ work'[w].pc = "reloaded"
  <2>1. work[w] \in Works /\ work[w].pc # "idle" /\ work \in [Workers -> Works]
    BY <1>2 DEF At, IInv, TypeOK
  <2>2. work[w] \in [pc : Steps, req : Requests, seen : Rows \cup {None},
                     after : Rows \cup {None}, answer : {"none"}]
    BY <2>1 DEF Works
  <2>3. work'[w] = [work[w] EXCEPT !.pc = "reloaded", !.after = row]
    BY <1>5, <2>1
  <2> QED
    BY <1>3, <2>2, <2>3
<1>7. item' = item /\ audit' = audit
  BY DEF Reload
<1>8. \A j \in Items : LastRow(j)' = LastRow(j)
  BY <1>7 DEF LastRow
<1>9. i \in Items
  BY <1>2, <1>3, WriteIsRow DEF At
<1>10. Owing(w)' /\ work'[w].req.item = i
  BY <1>3, <1>6 DEF Owing, At
<1>11. work'[w].seen = LastRow(i)' /\ work'[w].after = item'[i]
  BY <1>2, <1>3, <1>4, <1>6, <1>7, <1>8, <1>9 DEF Told
<1>12. \A j \in Items : LastRow(j)' = item'[j]
         \/ \E v \in Workers : Owing(v)' /\ work'[v].req.item = j
  BY <1>1, <1>3, <1>7, <1>8, <1>10 DEF Told
<1>13. (\A v \in Workers : Owing(v) =>
          /\ work[v].seen = LastRow(work[v].req.item)
          /\ At(v, "reloaded") => work[v].after = item[work[v].req.item])'
  BY <1>1, <1>10, <1>11
<1> QED
  BY <1>7, <1>12, <1>13 DEF Told, Chained

\* The entry goes on where the last one ended.
LEMMA AuditTold ==
  ASSUME OneAtATime, IInv, Chained, Told, NEW w \in Workers, Audit(w)
  PROVE  Chained' /\ Told'
<1>1. \A v \in Workers : v = w
  BY DEF OneAtATime
<1>2. At(w, "reloaded") /\ Owing(w)
  BY DEF Audit, Owing
<1>3. PICK r, i, e : /\ r = work[w].req
                     /\ i = r.item
                     /\ e = [action |-> r.op, before |-> work[w].seen,
                             after |-> work[w].after]
  OBVIOUS
<1>4. i \in Items
  BY <1>2, <1>3, WriteIsRow DEF At
<1>5. PICK q : q = audit[i]
  OBVIOUS
<1>6. /\ audit \in [Items -> Seq(Entries)]
      /\ q \in Seq(Entries)
      /\ audit' = [audit EXCEPT ![i] = Append(q, e)]
      /\ item' = item
  BY <1>3, <1>4, <1>5 DEF Audit, IInv, TypeOK
<1>7. /\ audit'[i] = Append(q, e)
      /\ \A j \in Items \ {i} : audit'[j] = audit[j]
  BY <1>4, <1>6
<1>8. /\ e.before = LastRow(i)
      /\ e.after = item[i]
  BY <1>2, <1>3 DEF Told
<1>9. /\ Len(q) \in Nat
      /\ DOMAIN q = 1 .. Len(q)
      /\ DOMAIN Append(q, e) = 1 .. Len(q) + 1
      /\ Len(Append(q, e)) = Len(q) + 1
      /\ \A n \in 1 .. Len(q) : Append(q, e)[n] = q[n]
      /\ Append(q, e)[Len(q) + 1] = e
      /\ q = <<>> <=> Len(q) = 0
      /\ Append(q, e) # <<>>
  BY <1>6
<1>10. LastRow(i)' = item'[i]
  BY <1>6, <1>7, <1>8, <1>9 DEF LastRow
<1>11. \A j \in Items \ {i} : LastRow(j)' = LastRow(j)
  BY <1>7 DEF LastRow
<1>12. \A j \in Items \ {i} : LastRow(j) = item[j]
  BY <1>1, <1>3 DEF Told
<1>13. ~ Owing(w)'
  <2>1. work' = [work EXCEPT ![w].pc = "audited"] /\ work \in [Workers -> Works]
    BY DEF Audit, Goto, IInv, TypeOK
  <2>2. work[w] \in Works /\ work[w].pc # "idle"
    BY <1>2, <2>1 DEF At
  <2>3. work[w] \in [pc : Steps, req : Requests, seen : Rows \cup {None},
                     after : Rows \cup {None}, answer : {"none"}]
    BY <2>2 DEF Works
  <2>4. work'[w].pc = "audited"
    BY <2>1, <2>3
  <2> QED
    BY <2>4 DEF Owing, At
<1>14. Told'
  BY <1>1, <1>6, <1>10, <1>11, <1>12, <1>13 DEF Told
<1>15. ASSUME NEW n \in 1 .. Len(q) + 1
       PROVE  Append(q, e)[n].before =
                IF n = 1 THEN None ELSE Append(q, e)[n - 1].after
  <2>1. CASE n \in 1 .. Len(q)
    <3>1. q[n].before = IF n = 1 THEN None ELSE q[n - 1].after
      BY <1>4, <1>5, <1>9, <2>1 DEF Chained
    <3>2. n # 1 => n - 1 \in 1 .. Len(q)
      BY <1>9, <2>1
    <3> QED
      BY <1>9, <2>1, <3>1, <3>2
  <2>2. CASE n = Len(q) + 1
    <3>1. e.before = IF q = <<>> THEN None ELSE q[Len(q)].after
      BY <1>5, <1>8 DEF LastRow
    <3>2. n # 1 => n - 1 = Len(q) /\ Len(q) \in 1 .. Len(q) /\ q # <<>>
      BY <1>9, <2>2
    <3>3. n = 1 => q = <<>>
      BY <1>9, <2>2
    <3> QED
      BY <1>9, <2>2, <3>1, <3>2, <3>3
  <2> QED
    BY <1>9, <1>15, <2>1, <2>2
<1>16. Chained'
  <2>1. ASSUME NEW j \in Items, NEW n \in DOMAIN audit'[j]
        PROVE  audit'[j][n].before =
                 IF n = 1 THEN None ELSE audit'[j][n - 1].after
    <3>1. CASE j = i
      BY <1>7, <1>9, <1>15, <2>1, <3>1
    <3>2. CASE j # i
      <4>1. audit'[j] = audit[j]
        BY <1>7, <3>2
      <4> QED
        BY <2>1, <4>1 DEF Chained
    <3> QED
      BY <3>1, <3>2
  <2> QED
    BY <2>1 DEF Chained
<1> QED
  BY <1>14, <1>16

\* As long as requests do not overlap and nothing fails, the entries of an item
\* are a chain without a gap from its creation to the row as it is: the audit
\* entry is written after the row and by a statement of its own (lost_found.rs).
THEOREM AuditChainHolds ==
  ASSUME OneAtATime, MayFail = FALSE
  PROVE  Spec => []AuditChain
<1>1. Init => SeenIsCurrent /\ Chained /\ Told
  BY DEF Init, SeenIsCurrent, Chained, Told, LastRow, Owing, At, Idle
<1>2. IInv /\ SeenIsCurrent /\ Chained /\ Told /\ [Next]_vars
        => (Chained /\ Told)'
  <2> SUFFICES ASSUME IInv, SeenIsCurrent, Chained, Told, [Next]_vars
               PROVE  Chained' /\ Told'
    OBVIOUS
  <2>1. CASE UNCHANGED vars
    BY <2>1 DEF vars, Chained, Told, LastRow, Owing, At
  <2>2. work \in [Workers -> Works]
    BY DEF IInv, TypeOK
  <2>3. ASSUME NEW w \in Workers, NEW a \in Answers, Answer(w, a)
        PROVE  ~ Owing(w)'
    BY <2>2, <2>3 DEF Answer, Idle, Owing, At
  <2>4. ASSUME NEW w \in Workers, NEW r \in Requests, Load(w, r) \/ Reject(w, r)
        PROVE  Chained' /\ Told'
    <3>1. ~ Owing(w) /\ ~ Owing(w)'
      BY <2>2, <2>3, <2>4 DEF Load, Reject, Owing, At, Answers
    <3> QED
      BY <2>4, <3>1, QuietStep DEF Load, Reject
  <2>5. ASSUME NEW w \in Workers,
               Replay(w) \/ Gate(w) \/ Record(w) \/ Refuse(w)
        PROVE  Chained' /\ Told'
    <3>1. ~ Owing(w)
      BY <2>5 DEF Replay, Gate, Record, Refuse, Owing, At
    <3>2. ~ Owing(w)'
      <4>1. CASE Gate(w)
        <5>1. work[w] \in [pc : Steps, req : Requests, seen : Rows \cup {None},
                           after : Rows \cup {None}, answer : {"none"}]
          BY <2>2, <4>1 DEF Works, Gate, At
        <5>2. work'[w].pc = "gated"
          BY <2>2, <4>1, <5>1 DEF Gate, Goto
        <5> QED
          BY <5>2 DEF Owing, At
      <4> QED
        BY <2>3, <2>5, <4>1 DEF Replay, Record, Refuse, Answers
    <3> QED
      BY <2>5, <3>1, <3>2, QuietStep DEF Replay, Gate, Record, Refuse
  <2>6. ASSUME NEW w \in Workers, Write(w) \/ Reload(w) \/ Audit(w)
        PROVE  Chained' /\ Told'
    BY <2>6, WriteTold, ReloadTold, AuditTold
  <2>7. \A w \in Workers : ~ Stop(w)
    BY DEF Stop
  <2> QED
    BY <2>1, <2>4, <2>5, <2>6, <2>7 DEF Next, Advance
<1>3. IInv /\ SeenIsCurrent /\ [Next]_vars => SeenIsCurrent'
  BY StepCurrent
<1>4. IInv /\ Chained /\ Told => AuditChain
  <2> SUFFICES ASSUME IInv, Chained, Told PROVE AuditChain
    OBVIOUS
  <2>1. ASSUME NEW i \in Items, \A w \in Workers : At(w, "idle"), item[i] # None
        PROVE  audit[i] # <<>> /\ audit[i][Len(audit[i])].after = item[i]
    <3>1. \A w \in Workers : ~ Owing(w)
      BY <2>1 DEF Owing, At
    <3>2. LastRow(i) = item[i]
      BY <3>1 DEF Told
    <3> QED
      BY <2>1, <3>2 DEF LastRow
  <2> QED
    BY <2>1 DEF AuditChain, Chained
<1> QED
  BY <1>1, <1>2, <1>3, <1>4, Invariance, PTL DEF Spec

-----------------------------------------------------------------------------
(* Requests that do not overlap: each is applied once *)

\* A worker past the gate.
Through(w) ==
  At(w, "gated") \/ At(w, "written") \/ At(w, "reloaded") \/ At(w, "audited")

\* Its request is not on record.
Unanswered == \A w \in Workers : Through(w) => Key(work[w].req) \notin recorded

\* Workers whose entry is written, or whose item is created, and whose request
\* is not on record yet.
Entering(w, op, i) ==
  At(w, "audited") /\ work[w].req.op = op /\ work[w].req.item = i

Creating(w) == (At(w, "reloaded") \/ At(w, "audited")) /\ work[w].req.op = "create"

One(some) == IF some THEN 1 ELSE 0

Tally(op, i) ==
  /\ IsFiniteSet(Entered(op, i))
  /\ Cardinality(Entered(op, i))
       = Cardinality(Answered(op, i)) + One(\E w \in Workers : Entering(w, op, i))

Created == {i \in Items : item[i] # None}

CreationTally ==
  /\ IsFiniteSet(Created)
  /\ Cardinality(Created)
       = Cardinality(Answered("create", None)) + One(\E w \in Workers : Creating(w))

Tallied ==
  /\ IsFiniteSet(recorded)
  /\ \A i \in Items, op \in Ops \ {"create"} : Tally(op, i)
  /\ CreationTally

\* Where a request is after a step, and that it is the same request.
LEMMA Stays ==
  ASSUME IInv, NEW w \in Workers, Gate(w) \/ Write(w) \/ Reload(w) \/ Audit(w)
  PROVE  /\ work'[w].req = work[w].req
         /\ Gate(w) => work'[w].pc = "gated"
         /\ Write(w) => work'[w].pc = IF work[w].req.op = "create" THEN "reloaded"
                                                                   ELSE "written"
         /\ Reload(w) => work'[w].pc = "reloaded"
         /\ Audit(w) => work'[w].pc = "audited"
<1>1. work \in [Workers -> Works] /\ work[w].pc # "idle"
  BY DEF IInv, TypeOK, Gate, Write, Reload, Audit, At
<1>2. work[w] \in [pc : Steps, req : Requests, seen : Rows \cup {None},
                   after : Rows \cup {None}, answer : {"none"}]
  BY <1>1 DEF Works
<1>3. CASE Gate(w)
  BY <1>1, <1>2, <1>3 DEF Gate, Write, Reload, Audit, At, Goto
<1>4. CASE Write(w)
  <2>1. PICK pc, after :
          /\ work' = [work EXCEPT ![w].pc = pc, ![w].after = after]
          /\ pc = IF work[w].req.op = "create" THEN "reloaded" ELSE "written"
    BY <1>4 DEF Write
  <2>2. work'[w] = [work[w] EXCEPT !.pc = pc, !.after = after]
    BY <1>1, <2>1
  <2>3. work'[w].req = work[w].req /\ work'[w].pc = pc
    BY <1>2, <2>2
  <2> QED
    BY <1>4, <2>1, <2>3 DEF Gate, Write, Reload, Audit, At
<1>5. CASE Reload(w)
  <2>1. PICK after : work' = [work EXCEPT ![w].pc = "reloaded", ![w].after = after]
    BY <1>5 DEF Reload
  <2>2. work'[w] = [work[w] EXCEPT !.pc = "reloaded", !.after = after]
    BY <1>1, <2>1
  <2>3. work'[w].req = work[w].req /\ work'[w].pc = "reloaded"
    BY <1>2, <2>2
  <2> QED
    BY <1>5, <2>3 DEF Gate, Write, Reload, Audit, At
<1>6. CASE Audit(w)
  <2>1. work' = [work EXCEPT ![w].pc = "audited"]
    BY <1>6 DEF Audit, Goto
  <2>2. work'[w].req = work[w].req /\ work'[w].pc = "audited"
    BY <1>1, <1>2, <2>1
  <2> QED
    BY <1>6, <2>2 DEF Gate, Write, Reload, Audit, At
<1> QED
  BY <1>3, <1>4, <1>5, <1>6

\* Steps after which a worker is not past the gate.
LEMMA NotThrough ==
  ASSUME IInv, NEW w \in Workers,
         \/ \E r \in Requests : Load(w, r) \/ Reject(w, r)
         \/ Replay(w) \/ Record(w) \/ Refuse(w)
  PROVE  work'[w].pc \in {"idle", "loaded"}
<1>1. work \in [Workers -> Works]
  BY DEF IInv, TypeOK
<1> QED
  BY <1>1 DEF Load, Reject, Replay, Record, Refuse, Answer, Idle

LEMMA StepUnanswered ==
  ASSUME OneAtATime, IInv, Unanswered, [Next]_vars, MayFail = FALSE
  PROVE  Unanswered'
<1>1. CASE UNCHANGED vars
  BY <1>1 DEF vars, Unanswered, Through, At
<1>2. ASSUME NEW w \in Workers, (\E r \in Requests : Load(w, r) \/ Reject(w, r)) \/ Advance(w)
      PROVE  Unanswered'
  <2>1. \A v \in Workers : v = w
    BY DEF OneAtATime
  <2>2. CASE Gate(w) \/ Write(w) \/ Reload(w) \/ Audit(w)
    <3>1. work'[w].req = work[w].req /\ recorded' = recorded
      BY <2>2, Stays DEF Gate, Write, Reload, Audit
    <3>2. Key(work[w].req) \notin recorded
      BY <2>2 DEF Unanswered, Through, Gate, Write, Reload, Audit
    <3>3. Key(work'[w].req) \notin recorded'
      BY <3>1, <3>2
    <3> QED
      BY <2>1, <3>3 DEF Unanswered
  <2>3. CASE ~ (Gate(w) \/ Write(w) \/ Reload(w) \/ Audit(w))
    <3>1. work'[w].pc \in {"idle", "loaded"}
      BY <1>2, <2>3, NotThrough DEF Advance, Stop
    <3> QED
      BY <2>1, <3>1 DEF Unanswered, Through, At
  <2> QED
    BY <2>2, <2>3
<1> QED
  BY <1>1, <1>2 DEF Next

\* A step that writes no entry, creates no item and records nothing.
LEMMA QuietTally ==
  ASSUME OneAtATime, Tallied, NEW w \in Workers, UNCHANGED <<audit, recorded>>,
         \A i \in Items : item'[i] = None <=> item[i] = None,
         \A op \in Ops, i \in Items : Entering(w, op, i)' <=> Entering(w, op, i),
         Creating(w)' <=> Creating(w)
  PROVE  Tallied'
<1>1. \A v \in Workers : v = w
  BY DEF OneAtATime
<1>2. ASSUME NEW op \in Ops, NEW i \in Items
      PROVE  (\E v \in Workers : Entering(v, op, i))' <=> \E v \in Workers : Entering(v, op, i)
  BY <1>1
<1>3. (\E v \in Workers : Creating(v))' <=> \E v \in Workers : Creating(v)
  BY <1>1
<1>4. Created' = Created
  BY DEF Created
<1>5. \A op, i : Entered(op, i)' = Entered(op, i) /\ Answered(op, i)' = Answered(op, i)
  BY DEF Entered, Answered
<1>6. ASSUME NEW i \in Items, NEW op \in Ops \ {"create"}
      PROVE  Tally(op, i)'
  BY <1>2, <1>5, <1>6 DEF Tallied, Tally, One
<1>7. CreationTally'
  BY <1>3, <1>4, <1>5 DEF Tallied, CreationTally, One
<1> QED
  BY <1>6, <1>7 DEF Tallied

\* A creation makes one item more.
LEMMA WriteTally ==
  ASSUME OneAtATime, IInv, SeenIsCurrent, Tallied, NEW w \in Workers, Write(w)
  PROVE  Tallied'
<1> DEFINE r == work[w].req
           i == r.item
           row == Result(item[i], r, work[w].seen)
<1>1. /\ \A v \in Workers : v = w
      /\ work[w].pc = "gated" /\ UNCHANGED <<audit, recorded>>
      /\ item \in [Items -> Rows \cup {None}]
  BY DEF OneAtATime, Write, At, IInv, TypeOK
<1>2. i \in Items /\ row \in Rows /\ row # None
  BY <1>1, WriteIsRow, ConstantsAssumption
<1>3. /\ item'[i] = row
      /\ \A j \in Items \ {i} : item'[j] = item[j]
  BY <1>1, <1>2 DEF Write
<1>4. /\ work'[w].pc = IF r.op = "create" THEN "reloaded" ELSE "written"
      /\ work'[w].req = r
  BY Stays
<1>5. \A op, j : ~ Entering(w, op, j) /\ ~ Entering(w, op, j)'
  BY <1>1, <1>4 DEF Entering, At
<1>6. CASE r.op # "create"
  <2>1. item[i] # None
    BY <1>1, <1>6 DEF IInv, WorkSound, At
  <2>2. \A j \in Items : item'[j] = None <=> item[j] = None
    BY <1>2, <1>3, <2>1
  <2>3. ~ Creating(w) /\ ~ Creating(w)'
    BY <1>1, <1>4, <1>6 DEF Creating, At
  <2> QED
    BY <1>1, <1>5, <2>2, <2>3, QuietTally
<1>7. CASE r.op = "create"
  <2>1. item[i] = None
    BY <1>1, <1>7 DEF IInv, WorkSound, SeenIsCurrent, At
  <2>2. Created' = Created \cup {i} /\ i \notin Created
    BY <1>2, <1>3, <2>1 DEF Created
  <2>3. ~ (\E v \in Workers : Creating(v)) /\ (\E v \in Workers : Creating(v))'
    BY <1>1, <1>4, <1>7 DEF Creating, At
  <2>4. \A op, j : Entered(op, j)' = Entered(op, j) /\ Answered(op, j)' = Answered(op, j)
    BY <1>1 DEF Entered, Answered
  <2>5. CreationTally'
    <3>1. /\ IsFiniteSet(Created)
          /\ Cardinality(Created) = Cardinality(Answered("create", None)) + 0
      BY <2>3 DEF Tallied, CreationTally, One
    <3>2. IsFiniteSet(Created \cup {i}) /\ Cardinality(Created \cup {i}) = Cardinality(Created) + 1
      BY <2>2, <3>1, FS_AddElement
    <3>3. Cardinality(Answered("create", None)) \in Nat
      BY FS_Subset, FS_CardinalityType DEF Tallied, Answered
    <3>4. Cardinality(Created') = Cardinality(Answered("create", None)') + 1
      BY <2>2, <2>4, <3>1, <3>2, <3>3
    <3> QED
      BY <2>2, <2>3, <3>2, <3>4 DEF CreationTally, One
  <2>6. ASSUME NEW op \in Ops \ {"create"}, NEW j \in Items
        PROVE  Tally(op, j)'
    <3>1. /\ ~ \E v \in Workers : Entering(v, op, j)
          /\ ~ (\E v \in Workers : Entering(v, op, j))'
      BY <1>1, <1>5
    <3> QED
      BY <2>4, <3>1 DEF Tallied, Tally, One
  <2> QED
    BY <1>1, <2>5, <2>6 DEF Tallied
<1> QED
  BY <1>6, <1>7

\* An entry is written.
LEMMA AuditTally ==
  ASSUME OneAtATime, IInv, Tallied, NEW w \in Workers, Audit(w)
  PROVE  Tallied'
<1>1. PICK r, i, q, e :
        /\ r = work[w].req /\ i = r.item /\ q = audit[i]
        /\ e = [action |-> r.op, before |-> work[w].seen, after |-> work[w].after]
  OBVIOUS
<1>2. /\ \A v \in Workers : v = w
      /\ work[w].pc = "reloaded" /\ UNCHANGED <<item, recorded>>
      /\ audit' = [audit EXCEPT ![i] = Append(q, e)]
      /\ audit \in [Items -> Seq(Entries)]
  BY <1>1 DEF OneAtATime, Audit, At, IInv, TypeOK
<1>3. i \in Items /\ r.op \in Ops
  BY <1>1, <1>2, Busy DEF IInv, Requests
<1>4. work'[w].pc = "audited" /\ work'[w].req = r
  BY <1>1, Stays
<1>5. /\ DOMAIN q = 1 .. Len(q) /\ Len(q) \in Nat
      /\ audit'[i] = Append(q, e)
      /\ DOMAIN Append(q, e) = 1 .. Len(q) + 1
      /\ \A n \in 1 .. Len(q) : Append(q, e)[n] = q[n]
      /\ Append(q, e)[Len(q) + 1] = e
      /\ e.action = r.op
  BY <1>1, <1>2, <1>3
<1>6. \A op, j : Answered(op, j)' = Answered(op, j)
  BY <1>2 DEF Answered
<1> DEFINE new(op) == {n \in 1 .. Len(q) + 1 : Append(q, e)[n].action = op}
           old(op) == {n \in 1 .. Len(q) : q[n].action = op}
<1>10. ASSUME NEW op
       PROVE  new(op) = IF op = r.op THEN old(op) \cup {Len(q) + 1} ELSE old(op)
  <2>1. Len(q) + 1 \notin 1 .. Len(q) /\ 1 .. Len(q) + 1 = (1 .. Len(q)) \cup {Len(q) + 1}
    BY <1>5
  <2>2. \A n \in 1 .. Len(q) : n \in new(op) <=> n \in old(op)
    BY <1>5, <2>1
  <2>3. Len(q) + 1 \in new(op) <=> op = r.op
    BY <1>5, <2>1
  <2> QED
    BY <2>1, <2>2, <2>3
<1>11. ASSUME NEW op
       PROVE  Entered(op, i) = old(op) /\ Entered(op, i)' = new(op) /\ Len(q) + 1 \notin old(op)
  <2>1. Entered(op, i) = {n \in DOMAIN q : q[n].action = op}
    BY <1>1 DEF Entered
  <2>2. Entered(op, i)' = {n \in DOMAIN audit'[i] : audit'[i][n].action = op}
    BY DEF Entered
  <2>3. Entered(op, i)' = {n \in DOMAIN Append(q, e) : Append(q, e)[n].action = op}
    BY <1>5, <2>2
  <2>4. Len(q) + 1 \notin 1 .. Len(q)
    BY <1>5
  <2> QED
    BY <1>5, <2>1, <2>3, <2>4
<1> HIDE DEF new, old
<1>7. ASSUME NEW op \in Ops \ {"create"}, NEW j \in Items
      PROVE  Tally(op, j)'
  <2>1. /\ IsFiniteSet(Entered(op, j))
        /\ Cardinality(Entered(op, j)) = Cardinality(Answered(op, j)) + 0
    <3>1. ~ \E v \in Workers : Entering(v, op, j)
      BY <1>2 DEF Entering, At
    <3> QED
      BY <3>1 DEF Tallied, Tally, One
  <2>2. Cardinality(Answered(op, j)) \in Nat
    BY FS_Subset, FS_CardinalityType DEF Tallied, Answered
  <2>3. CASE op = r.op /\ j = i
    <3>1. /\ Entered(op, j)' = Entered(op, j) \cup {Len(q) + 1}
          /\ Len(q) + 1 \notin Entered(op, j)
      BY <1>10, <1>11, <2>3
    <3>2. /\ IsFiniteSet(Entered(op, j) \cup {Len(q) + 1})
          /\ Cardinality(Entered(op, j) \cup {Len(q) + 1}) = Cardinality(Entered(op, j)) + 1
      BY <2>1, <3>1, FS_AddElement
    <3>3. (\E v \in Workers : Entering(v, op, j))'
      BY <1>4, <1>1, <2>3 DEF Entering, At
    <3>4. Cardinality(Entered(op, j)') = Cardinality(Answered(op, j)') + 1
      BY <1>6, <2>1, <2>2, <3>1, <3>2
    <3> QED
      BY <3>1, <3>2, <3>3, <3>4 DEF Tally, One
  <2>4. CASE ~ (op = r.op /\ j = i)
    <3>1. Entered(op, j)' = Entered(op, j)
      <4>1. CASE j = i
        BY <1>10, <1>11, <2>4, <4>1
      <4>2. CASE j # i
        <5>1. audit'[j] = audit[j]
          BY <1>2, <4>2
        <5> QED
          BY <5>1 DEF Entered
      <4> QED
        BY <4>1, <4>2
    <3>2. ~ (\E v \in Workers : Entering(v, op, j))'
      BY <1>1, <1>2, <1>4, <2>4 DEF Entering
    <3> QED
      BY <1>6, <2>1, <3>1, <3>2 DEF Tally, One
  <2> QED
    BY <2>3, <2>4
<1>8. CreationTally'
  <2>1. Created' = Created
    BY <1>2 DEF Created
  <2>2. (\E v \in Workers : Creating(v))' <=> \E v \in Workers : Creating(v)
    BY <1>1, <1>2, <1>4 DEF Creating, At
  <2> QED
    BY <1>6, <2>1, <2>2 DEF Tallied, CreationTally, One
<1> QED
  BY <1>2, <1>7, <1>8 DEF Tallied

\* The response is put on record, where it was not.
LEMMA RecordTally ==
  ASSUME OneAtATime, IInv, Unanswered, Tallied, NEW w \in Workers, Record(w)
  PROVE  Tallied'
<1>1. PICK r, k : r = work[w].req /\ k = Key(r)
  OBVIOUS
<1>2. /\ \A v \in Workers : v = w
      /\ work[w].pc = "audited" /\ UNCHANGED <<item, audit>>
      /\ recorded' = recorded \cup {k} /\ k \notin recorded
  BY <1>1 DEF OneAtATime, Record, At, Unanswered, Through
<1>3. r \in Requests
  BY <1>1, <1>2, Busy DEF IInv
<1>4. /\ k[2] = r.op
      /\ k[3] = IF r.op = "create" THEN None ELSE r.item
  BY <1>1 DEF Key
<1>5. work'[w].pc \in {"idle", "loaded"}
  BY NotThrough
<1>6. IsFiniteSet(recorded')
  BY <1>2, FS_AddElement DEF Tallied
<1>7. \A op, j : Entered(op, j)' = Entered(op, j)
  BY <1>2 DEF Entered
<1>8. ASSUME NEW op, NEW j
      PROVE  /\ IsFiniteSet(Answered(op, j)) /\ Cardinality(Answered(op, j)) \in Nat
             /\ op = k[2] /\ j = k[3] =>
                  Cardinality(Answered(op, j)') = Cardinality(Answered(op, j)) + 1
             /\ ~ (op = k[2] /\ j = k[3]) => Answered(op, j)' = Answered(op, j)
  <2>1. IsFiniteSet(Answered(op, j)) /\ Cardinality(Answered(op, j)) \in Nat
    BY FS_Subset, FS_CardinalityType DEF Tallied, Answered
  <2>2. k \notin Answered(op, j)
    BY <1>2 DEF Answered
  <2>3. Cardinality(Answered(op, j) \cup {k}) = Cardinality(Answered(op, j)) + 1
    BY <2>1, <2>2, FS_AddElement
  <2>4. op = k[2] /\ j = k[3] => Answered(op, j)' = Answered(op, j) \cup {k}
    BY <1>2 DEF Answered
  <2>5. ~ (op = k[2] /\ j = k[3]) => Answered(op, j)' = Answered(op, j)
    BY <1>2 DEF Answered
  <2> QED
    BY <2>1, <2>3, <2>4, <2>5
<1>9. ASSUME NEW op \in Ops \ {"create"}, NEW j \in Items
      PROVE  Tally(op, j)'
  <2>1. ~ (\E v \in Workers : Entering(v, op, j))'
    BY <1>2, <1>5 DEF Entering, At
  <2>2. (\E v \in Workers : Entering(v, op, j)) <=> op = k[2] /\ j = k[3]
    BY <1>1, <1>2, <1>4 DEF Entering, At
  <2>3. /\ IsFiniteSet(Entered(op, j))
        /\ Cardinality(Entered(op, j))
             = Cardinality(Answered(op, j)) + One(op = k[2] /\ j = k[3])
    BY <2>2 DEF Tallied, Tally, One
  <2>4. Cardinality(Entered(op, j)) = Cardinality(Answered(op, j)') + 0
    BY <1>8, <2>3 DEF One
  <2> QED
    BY <1>7, <2>1, <2>3, <2>4 DEF Tally, One
<1>10. CreationTally'
  <2>1. Created' = Created
    BY <1>2 DEF Created
  <2>2. ~ (\E v \in Workers : Creating(v))'
    BY <1>2, <1>5 DEF Creating, At
  <2>3. (\E v \in Workers : Creating(v)) <=> "create" = k[2] /\ None = k[3]
    BY <1>1, <1>2, <1>4 DEF Creating, At
  <2>4. /\ IsFiniteSet(Created)
        /\ Cardinality(Created)
             = Cardinality(Answered("create", None)) + One("create" = k[2] /\ None = k[3])
    BY <2>3 DEF Tallied, CreationTally, One
  <2>5. Cardinality(Created) = Cardinality(Answered("create", None)') + 0
    BY <1>8, <2>4 DEF One
  <2> QED
    BY <2>1, <2>2, <2>4, <2>5 DEF CreationTally, One
<1> QED
  BY <1>6, <1>9, <1>10 DEF Tallied

\* As long as requests do not overlap and nothing fails, no request is applied
\* twice, however often it is sent: the gate replays what is on record, and a
\* transition whose status check refuses the retry before the gate is asked does
\* not reach the write either (lost_found.rs, submit_item and the others).
THEOREM AppliedOnceHolds ==
  ASSUME OneAtATime, MayFail = FALSE
  PROVE  Spec => []AppliedOnce
<1>1. Init => SeenIsCurrent /\ Unanswered /\ Tallied
  <2> SUFFICES ASSUME Init PROVE SeenIsCurrent /\ Unanswered /\ Tallied
    OBVIOUS
  <2>1. SeenIsCurrent /\ Unanswered
    BY DEF Init, SeenIsCurrent, Unanswered, Through, At, Idle
  <2>2. recorded = {} /\ Created = {} /\ \A i \in Items : audit[i] = <<>>
    BY DEF Init, Created
  <2>3. ASSUME NEW op, NEW i
        PROVE  Answered(op, i) = {} /\ (i \in Items => Entered(op, i) = {})
    BY <2>2 DEF Answered, Entered
  <2>4. \A w \in Workers : ~ Creating(w) /\ \A op, i : ~ Entering(w, op, i)
    BY DEF Init, Creating, Entering, At, Idle
  <2>5. ASSUME NEW op \in Ops \ {"create"}, NEW i \in Items
        PROVE  Tally(op, i)
    <3>1. Entered(op, i) = {} /\ Answered(op, i) = {}
      BY <2>3
    <3>2. /\ IsFiniteSet(Entered(op, i)) /\ Cardinality(Entered(op, i)) = 0
          /\ Cardinality(Answered(op, i)) = 0
      BY <3>1, FS_EmptySet
    <3>3. ~ \E w \in Workers : Entering(w, op, i)
      BY <2>4
    <3> QED
      BY <3>2, <3>3 DEF Tally, One
  <2>6. CreationTally
    <3>1. /\ IsFiniteSet(Created) /\ Cardinality(Created) = 0
          /\ Cardinality(Answered("create", None)) = 0
      BY <2>2, <2>3, FS_EmptySet
    <3>2. ~ \E w \in Workers : Creating(w)
      BY <2>4
    <3> QED
      BY <3>1, <3>2 DEF CreationTally, One
  <2> QED
    BY <2>1, <2>2, <2>5, <2>6, FS_EmptySet DEF Tallied
<1>2. IInv /\ SeenIsCurrent /\ [Next]_vars => SeenIsCurrent'
  BY StepCurrent
<1>3. IInv /\ Unanswered /\ [Next]_vars => Unanswered'
  BY StepUnanswered
<1>4. IInv /\ SeenIsCurrent /\ Unanswered /\ Tallied /\ [Next]_vars => Tallied'
  <2> SUFFICES ASSUME IInv, SeenIsCurrent, Unanswered, Tallied, [Next]_vars
               PROVE  Tallied'
    OBVIOUS
  <2>1. CASE UNCHANGED vars
    <3>1. /\ Created' = Created /\ recorded' = recorded
          /\ \A op, i : Entered(op, i)' = Entered(op, i) /\ Answered(op, i)' = Answered(op, i)
      BY <2>1 DEF vars, Created, Entered, Answered
    <3>2. (\E w \in Workers : Creating(w))' <=> \E w \in Workers : Creating(w)
      BY <2>1 DEF vars, Creating, At
    <3>3. ASSUME NEW op, NEW i
          PROVE  (\E w \in Workers : Entering(w, op, i))'
                   <=> \E w \in Workers : Entering(w, op, i)
      BY <2>1 DEF vars, Entering, At
    <3>4. \A i \in Items, op \in Ops \ {"create"} : Tally(op, i)'
      BY <3>1, <3>3 DEF Tallied, Tally, One
    <3>5. CreationTally'
      BY <3>1, <3>2 DEF Tallied, CreationTally, One
    <3> QED
      BY <3>1, <3>4, <3>5 DEF Tallied
  <2>2. ASSUME NEW w \in Workers,
               \/ \E r \in Requests : Load(w, r) \/ Reject(w, r)
               \/ Replay(w) \/ Gate(w) \/ Refuse(w) \/ Reload(w)
        PROVE  Tallied'
    <3>1. UNCHANGED <<item, audit, recorded>>
      BY <2>2 DEF Load, Reject, Replay, Gate, Refuse, Reload
    <3>2. CASE Reload(w)
      <4>1. work'[w].pc = "reloaded" /\ work'[w].req = work[w].req /\ work[w].pc = "written"
        BY <3>2, Stays DEF Reload, At
      <4>2. work[w].req.op # "create"
        BY <4>1 DEF IInv, WorkSound, At
      <4> QED
        BY <3>1, <4>1, <4>2, QuietTally DEF Entering, Creating, At
    <3>3. CASE ~ Reload(w)
      <4>1. work[w].pc \in {"idle", "loaded", "gated"}
        BY <2>2, <3>3 DEF Load, Reject, Replay, Gate, Refuse, At
      <4>2. work'[w].pc \in {"idle", "loaded", "gated"}
        BY <2>2, <3>3, NotThrough, Stays
      <4> QED
        BY <3>1, <4>1, <4>2, QuietTally DEF Entering, Creating, At
    <3> QED
      BY <3>2, <3>3
  <2>3. ASSUME NEW w \in Workers, Write(w) \/ Audit(w) \/ Record(w)
        PROVE  Tallied'
    BY <2>3, WriteTally, AuditTally, RecordTally
  <2>4. \A w \in Workers : ~ Stop(w)
    BY DEF Stop
  <2> QED
    BY <2>1, <2>2, <2>3, <2>4 DEF Next, Advance
<1>5. Tallied => AppliedOnce
  <2> SUFFICES ASSUME Tallied, \A w \in Workers : At(w, "idle")
               PROVE  /\ \A i \in Items, op \in Ops \ {"create"} :
                            Cardinality(Entered(op, i)) = Cardinality(Answered(op, i))
                      /\ Cardinality(Created) = Cardinality(Answered("create", None))
    BY DEF AppliedOnce, Created
  <2>1. \A w \in Workers : ~ Creating(w) /\ \A op, i : ~ Entering(w, op, i)
    BY DEF Creating, Entering, At
  <2>2. \A op, i : Cardinality(Answered(op, i)) \in Nat
    BY FS_Subset, FS_CardinalityType DEF Tallied, Answered
  <2> QED
    BY <2>1, <2>2 DEF Tallied, Tally, CreationTally, One
<1> QED
  BY <1>1, <1>2, <1>3, <1>4, <1>5, Invariance, PTL DEF Spec
=============================================================================
