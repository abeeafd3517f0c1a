---------------------------- MODULE AssetsProofs ----------------------------
(***************************************************************************)
(* Proofs about Assets.tla, for any sets of assets, request ids, targets   *)
(* and workers.  Types, and that each event by itself is a legal move,     *)
(* hold with overlapping requests and failures, on every route; that the   *)
(* history hangs together and ends at the asset's state, where bulk        *)
(* transitions are the only route that writes it.  What follows them is    *)
(* about requests that do not overlap (OneAtATime) and, where said, none   *)
(* of which fails (MayFail).                                               *)
(***************************************************************************)
EXTENDS Assets, FiniteSetTheorems, SequenceTheorems, TLAPS

-----------------------------------------------------------------------------
(* The lifecycle's table *)

\* The definitions of the lifecycle this module works with.
LEMMA LifecycleDefs ==
  /\ Statuses = {"INTAKE", "ASSIGNMENT", "LOAN", "TRANSFER", "MAINTENANCE",
                 "REPAIR", "INVENTORY_COUNT", "DISPOSAL"}
  /\ Lifecycle!Countable = {"INTAKE", "ASSIGNMENT"}
  /\ Rows = [status : Statuses \ {"INVENTORY_COUNT"}, prior : {None}]
            \cup [status : {"INVENTORY_COUNT"}, prior : {"INTAKE", "ASSIGNMENT"}]
  BY DEF Statuses, Rows, Lifecycle!Statuses, Lifecycle!Rows, Lifecycle!Countable

\* Every state leads to states, counts are entered from countable ones only,
\* and left by no entry of the table.
LEMMA Table ==
  ASSUME NEW s \in Statuses
  PROVE  /\ Onward[s] \subseteq Statuses
         /\ "INVENTORY_COUNT" \in Onward[s] => s \in Lifecycle!Countable
         /\ s = "INVENTORY_COUNT" => Onward[s] = {}
  BY LifecycleDefs DEF Onward, Lifecycle!Onward

\* Every state but the first is one that some state leads to.
LEMMA Reachable ==
  ASSUME NEW s \in Statuses, s # "INTAKE"
  PROVE  \E q \in Statuses : s \in Onward[q]
<1>1. /\ "LOAN" \in Onward["ASSIGNMENT"]
      /\ "TRANSFER" \in Onward["ASSIGNMENT"]
      /\ "MAINTENANCE" \in Onward["ASSIGNMENT"]
      /\ "INVENTORY_COUNT" \in Onward["ASSIGNMENT"]
      /\ "ASSIGNMENT" \in Onward["INTAKE"]
      /\ "REPAIR" \in Onward["MAINTENANCE"]
      /\ "DISPOSAL" \in Onward["REPAIR"]
  BY DEF Onward, Lifecycle!Onward
<1> QED
  BY <1>1, LifecycleDefs

\* A move that the handlers find legal is one of the lifecycle.
LEMMA LegalIsLegal ==
  ASSUME NEW row \in Rows, NEW to, Legal(row, to)
  PROVE  /\ Lifecycle!Legal(row, to)
         /\ Moved(row, to) = Lifecycle!Moved(row, to)
  BY DEF Legal, Lifecycle!Legal, Moved, Lifecycle!Moved, Onward

\* A legal move makes a row out of a row.
LEMMA MovedIsRow ==
  ASSUME NEW row \in Rows, NEW to, Legal(row, to)
  PROVE  /\ to \in Statuses
         /\ Moved(row, to) \in Rows
<1>1. row.status \in Statuses
  BY LifecycleDefs
<1>2. CASE row.status = "INVENTORY_COUNT"
  <2>1. to \in {"INTAKE", "ASSIGNMENT"}
    BY <1>2, LifecycleDefs DEF Legal
  <2> QED
    BY <2>1, LifecycleDefs DEF Moved
<1>3. CASE row.status # "INVENTORY_COUNT"
  <2>1. to \in Onward[row.status]
    BY <1>3 DEF Legal
  <2>2. /\ to \in Statuses
        /\ to = "INVENTORY_COUNT" => row.status \in {"INTAKE", "ASSIGNMENT"}
    BY <1>1, <2>1, Table, LifecycleDefs
  <2> QED
    BY <2>2, LifecycleDefs DEF Moved
<1> QED
  BY <1>2, <1>3

\* The event of a legal move is one.
LEMMA EventIsSound ==
  ASSUME NEW row \in Rows, NEW to, Legal(row, to)
  PROVE  EventOf(row, to) \in Event /\ Sound(EventOf(row, to))
<1>1. row # None /\ None \notin Statuses
  BY ConstantsAssumption
<1>2. row.status \in Statuses /\ to \in Statuses
  BY MovedIsRow, LifecycleDefs
<1>3. EventOf(row, to) = [from |-> row.status, to |-> to]
  BY <1>1 DEF EventOf
<1>4. CASE row.status = "INVENTORY_COUNT"
  <2>1. to \in Lifecycle!Countable
    BY <1>4, LifecycleDefs DEF Legal
  <2> QED
    BY <1>1, <1>2, <1>3, <1>4, <2>1 DEF Event, Sound
<1>5. CASE row.status # "INVENTORY_COUNT"
  <2>1. to \in Onward[row.status]
    BY <1>5 DEF Legal
  <2> QED
    BY <1>1, <1>2, <1>3, <1>5, <2>1 DEF Event, Sound
<1> QED
  BY <1>4, <1>5

\* So is that of a creation.
LEMMA CreationIsSound ==
  EventOf(None, "INTAKE") \in Event /\ Sound(EventOf(None, "INTAKE"))
  BY ConstantsAssumption, LifecycleDefs DEF EventOf, Event, Sound

\* And the last event before the model starts.
LEMMA PastIsSound ==
  ASSUME NEW row \in Rows \cup {None}
  PROVE  /\ Past(row) \in Seq(Event)
         /\ \A n \in DOMAIN Past(row) : Sound(Past(row)[n])
<1>1. CASE row = None
  BY <1>1 DEF Past
<1>2. CASE row # None
  <2>1. /\ row \in Rows
        /\ row.status \in Statuses
    BY <1>2, LifecycleDefs
  <2>2. PICK e : e = [from |-> Before(row), to |-> row.status]
    OBVIOUS
  <2>3. ASSUME row.status = "INTAKE"
        PROVE  e \in Event /\ Sound(e)
    <3>1. Before(row) = None
      BY <2>3 DEF Before
    <3>2. e.from = None /\ e.to = "INTAKE"
      BY <2>2, <2>3, <3>1
    <3>3. e \in Event
      BY <2>1, <2>2, <3>1 DEF Event
    <3> QED
      BY <3>2, <3>3, ConstantsAssumption, LifecycleDefs DEF Sound
  <2>4. ASSUME row.status # "INTAKE"
        PROVE  e \in Event /\ Sound(e)
    <3>1. Before(row) \in Statuses /\ row.status \in Onward[Before(row)]
      <4>1. CASE row.prior # None
        <5>1. /\ row.status = "INVENTORY_COUNT"
              /\ Before(row) \in {"INTAKE", "ASSIGNMENT"}
          BY <2>1, <2>4, <4>1, LifecycleDefs DEF Before
        <5>2. /\ "INVENTORY_COUNT" \in Onward["INTAKE"]
              /\ "INVENTORY_COUNT" \in Onward["ASSIGNMENT"]
          BY DEF Onward, Lifecycle!Onward
        <5> QED
          BY <5>1, <5>2, LifecycleDefs
      <4>2. CASE row.prior = None
        BY <2>1, <2>4, <4>2, Reachable DEF Before
      <4> QED
        BY <4>1, <4>2
    <3>2. Before(row) # None /\ Before(row) # "INVENTORY_COUNT"
      BY <3>1, Table, ConstantsAssumption
    <3> QED
      BY <2>1, <2>2, <3>1, <3>2 DEF Event, Sound
  <2>5. e \in Event /\ Sound(e)
    BY <2>2, <2>3, <2>4
  <2>6. <<e>> \in Seq(Event) /\ \A n \in DOMAIN <<e>> : <<e>>[n] = e
    BY <2>5
  <2>7. Past(row) = <<e>>
    BY <1>2, <2>2 DEF Past
  <2> QED
    BY <2>5, <2>6, <2>7
<1> QED
  BY <1>1, <1>2

-----------------------------------------------------------------------------
(* Requests and their assets *)

\* A request that is not bulk is about the one asset that Subject names.
LEMMA SubjectIs ==
  ASSUME NEW w \in Workers, work[w].req \in Requests, Op(w) # "bulk"
  PROVE  Subject(w) \in Assets /\ work[w].req.on = {Subject(w)}
<1>1. \E a \in Assets : work[w].req.on = {a}
  BY DEF Requests, Op
<1> QED
  BY <1>1 DEF Subject

\* The record of a busy worker.
LEMMA Busy ==
  ASSUME TypeOK, NEW w \in Workers, ~ At(w, "idle")
  PROVE  /\ work[w].pc \in Steps
         /\ work[w].req \in Requests
         /\ work[w].req.on \in SUBSET Assets
         /\ \E as \in SUBSET Assets : work[w].seen \in [as -> Rows \cup {None}]
         /\ work[w].left \in SUBSET Assets
         /\ work[w].next \in Assets \cup {None}
         /\ work[w].after \in Statuses \cup {None}
         /\ work[w].answer = "none"
         /\ work[w] = [pc |-> work[w].pc, req |-> work[w].req,
                       seen |-> work[w].seen, left |-> work[w].left,
                       next |-> work[w].next, after |-> work[w].after,
                       answer |-> "none"]
<1>1. work[w] \in Works /\ work[w].pc # "idle"
  BY DEF TypeOK, At
<1> QED
  BY <1>1 DEF Works, Requests

\* Any such record is one.
LEMMA BusyWorks ==
  ASSUME NEW pc \in Steps, NEW r \in Requests, NEW as \in SUBSET Assets,
         NEW seen \in [as -> Rows \cup {None}], NEW left \in SUBSET Assets,
         NEW next \in Assets \cup {None}, NEW after \in Statuses \cup {None}
  PROVE  [pc |-> pc, req |-> r, seen |-> seen, left |-> left, next |-> next,
          after |-> after, answer |-> "none"] \in Works
  BY DEF Works

\* So is that of an idle one.
LEMMA IdleWorks ==
  ASSUME NEW a \in {"none", "ok", "replay", "rejected", "error"}
  PROVE  Idle(a) \in Works
  BY DEF Idle, Works

\* The record of worker w, further on.
Turned(w, pc, left, next, after) ==
  [pc |-> pc, req |-> work[w].req, seen |-> work[w].seen, left |-> left,
   next |-> next, after |-> after, answer |-> "none"]

\* One field of a worker's record is replaced.
LEMMA OneField ==
  ASSUME NEW p, NEW r, NEW s, NEW l, NEW n, NEW a, NEW rec, NEW v,
         rec = [pc |-> p, req |-> r, seen |-> s, left |-> l, next |-> n,
                after |-> a, answer |-> "none"]
  PROVE  /\ [rec EXCEPT !.pc = v] =
              [pc |-> v, req |-> r, seen |-> s, left |-> l, next |-> n,
               after |-> a, answer |-> "none"]
         /\ [rec EXCEPT !.left = v] =
              [pc |-> p, req |-> r, seen |-> s, left |-> v, next |-> n,
               after |-> a, answer |-> "none"]
         /\ [rec EXCEPT !.next = v] =
              [pc |-> p, req |-> r, seen |-> s, left |-> l, next |-> v,
               after |-> a, answer |-> "none"]
         /\ [rec EXCEPT !.after = v] =
              [pc |-> p, req |-> r, seen |-> s, left |-> l, next |-> n,
               after |-> v, answer |-> "none"]
<1>1. [rec EXCEPT !.pc = v] =
        [pc |-> v, req |-> r, seen |-> s, left |-> l, next |-> n,
         after |-> a, answer |-> "none"]
  OBVIOUS
<1>2. [rec EXCEPT !.left = v] =
        [pc |-> p, req |-> r, seen |-> s, left |-> v, next |-> n,
         after |-> a, answer |-> "none"]
  OBVIOUS
<1>3. [rec EXCEPT !.next = v] =
        [pc |-> p, req |-> r, seen |-> s, left |-> l, next |-> v,
         after |-> a, answer |-> "none"]
  OBVIOUS
<1>4. [rec EXCEPT !.after = v] =
        [pc |-> p, req |-> r, seen |-> s, left |-> l, next |-> n,
         after |-> v, answer |-> "none"]
  OBVIOUS
<1> QED
  BY <1>1, <1>2, <1>3, <1>4

\* What the updates that the steps make do to the record of a busy worker.
LEMMA Turning ==
  ASSUME TypeOK, NEW w \in Workers, ~ At(w, "idle"), NEW pc, NEW left, NEW next
  PROVE  /\ [work[w] EXCEPT !.pc = pc] =
              Turned(w, pc, work[w].left, work[w].next, work[w].after)
         /\ [work[w] EXCEPT !.pc = pc, !.left = left] =
              Turned(w, pc, left, work[w].next, work[w].after)
         /\ [work[w] EXCEPT !.left = left] =
              Turned(w, work[w].pc, left, work[w].next, work[w].after)
         /\ [work[w] EXCEPT !.left = left, !.next = next] =
              Turned(w, work[w].pc, left, next, work[w].after)
<1>1. PICK p, r, s, l, n, a :
        /\ p = work[w].pc /\ r = work[w].req /\ s = work[w].seen
        /\ l = work[w].left /\ n = work[w].next /\ a = work[w].after
  OBVIOUS
<1>2. PICK rec : rec = work[w]
  OBVIOUS
<1>3. rec = [pc |-> p, req |-> r, seen |-> s, left |-> l, next |-> n,
             after |-> a, answer |-> "none"]
  BY <1>1, <1>2, Busy
<1>4. PICK x : x = [rec EXCEPT !.pc = pc]
  OBVIOUS
<1>5. x = [pc |-> pc, req |-> r, seen |-> s, left |-> l, next |-> n,
           after |-> a, answer |-> "none"]
  BY <1>3, <1>4, OneField
<1>6. PICK y : y = [x EXCEPT !.left = left]
  OBVIOUS
<1>7. y = [pc |-> pc, req |-> r, seen |-> s, left |-> left, next |-> n,
           after |-> a, answer |-> "none"]
  BY <1>5, <1>6, OneField
<1>8. PICK z : z = [rec EXCEPT !.left = left]
  OBVIOUS
<1>9. z = [pc |-> p, req |-> r, seen |-> s, left |-> left, next |-> n,
           after |-> a, answer |-> "none"]
  BY <1>3, <1>8, OneField
<1>10. PICK t : t = [z EXCEPT !.next = next]
  OBVIOUS
<1>11. t = [pc |-> p, req |-> r, seen |-> s, left |-> left, next |-> next,
            after |-> a, answer |-> "none"]
  BY <1>9, <1>10, OneField
<1>12. /\ [rec EXCEPT !.pc = pc, !.left = left] = y
       /\ [rec EXCEPT !.left = left, !.next = next] = t
  BY <1>4, <1>6, <1>8, <1>10
<1> QED
  BY <1>1, <1>2, <1>4, <1>5, <1>7, <1>8, <1>9, <1>11, <1>12 DEF Turned

\* The same where the state after the move is noted too.
LEMMA TurningPcAfter ==
  ASSUME TypeOK, NEW w \in Workers, ~ At(w, "idle"), NEW pc, NEW after
  PROVE  [work[w] EXCEPT !.pc = pc, !.after = after] =
           Turned(w, pc, work[w].left, work[w].next, after)
<1>1. PICK p, r, s, l, n, a :
        /\ p = work[w].pc /\ r = work[w].req /\ s = work[w].seen
        /\ l = work[w].left /\ n = work[w].next /\ a = work[w].after
  OBVIOUS
<1>2. PICK rec : rec = work[w]
  OBVIOUS
<1>3. rec = [pc |-> p, req |-> r, seen |-> s, left |-> l, next |-> n,
             after |-> a, answer |-> "none"]
  BY <1>1, <1>2, Busy
<1>4. PICK x : x = [rec EXCEPT !.pc = pc]
  OBVIOUS
<1>5. x = [pc |-> pc, req |-> r, seen |-> s, left |-> l, next |-> n,
           after |-> a, answer |-> "none"]
  BY <1>3, <1>4, OneField
<1>6. PICK y : y = [x EXCEPT !.after = after]
  OBVIOUS
<1>7. y = [pc |-> pc, req |-> r, seen |-> s, left |-> l, next |-> n,
           after |-> after, answer |-> "none"]
  BY <1>5, <1>6, OneField
<1>8. [rec EXCEPT !.pc = pc, !.after = after] = y
  BY <1>4, <1>6
<1> QED
  BY <1>1, <1>2, <1>7, <1>8 DEF Turned

\* A worker's record is replaced as a whole.
LEMMA Replaced ==
  ASSUME TypeOK, NEW w \in Workers, NEW pc, NEW left, NEW next, NEW after
  PROVE /\ [work EXCEPT ![w].pc = pc, ![w].left = left] =
             [work EXCEPT ![w] = [work[w] EXCEPT !.pc = pc, !.left = left]]
        /\ [work EXCEPT ![w].pc = pc, ![w].after = after] =
             [work EXCEPT ![w] = [work[w] EXCEPT !.pc = pc, !.after = after]]
        /\ [work EXCEPT ![w].pc = pc, ![w].left = left, ![w].after = after] =
             [work EXCEPT ![w] = [work[w] EXCEPT !.pc = pc, !.left = left,
                                                 !.after = after]]
        /\ [work EXCEPT ![w].left = left, ![w].next = next] =
             [work EXCEPT ![w] = [work[w] EXCEPT !.left = left, !.next = next]]
<1>1. work \in [Workers -> Works]
  BY DEF TypeOK
<1>2. [work EXCEPT ![w].pc = pc, ![w].left = left] =
        [work EXCEPT ![w] = [work[w] EXCEPT !.pc = pc, !.left = left]]
  BY <1>1
<1>3. [work EXCEPT ![w].pc = pc, ![w].after = after] =
        [work EXCEPT ![w] = [work[w] EXCEPT !.pc = pc, !.after = after]]
  BY <1>1
<1>4. [work EXCEPT ![w].pc = pc, ![w].left = left, ![w].after = after] =
        [work EXCEPT ![w] = [work[w] EXCEPT !.pc = pc, !.left = left,
                                            !.after = after]]
  BY <1>1
<1>5. [work EXCEPT ![w].left = left, ![w].next = next] =
        [work EXCEPT ![w] = [work[w] EXCEPT !.left = left, !.next = next]]
  BY <1>1
<1> QED
  BY <1>2, <1>3, <1>4, <1>5

-----------------------------------------------------------------------------
(* One step at a time *)

\* A step of worker w keeps the invariant if what it writes is of its type,
\* the history stays legal and its own record stays sound.
LEMMA Frame ==
  ASSUME IInv, NEW w \in Workers, NEW new \in Works,
         work' = [work EXCEPT ![w] = new],
         asset' \in [Assets -> Rows \cup {None}],
         events' \in [Assets -> Seq(Event)],
         audit' \in [Assets -> Seq(Entry)],
         upkeep' \in [Assets -> Nat],
         recorded' \subseteq Keys,
         begun' \in 0 .. MaxRequests,
         MovesLegal',
         \A a \in Assets : asset[a] # None => asset'[a] # None,
         Ready(w)'
  PROVE  IInv'
<1>1. work \in [Workers -> Works]
  BY DEF IInv, TypeOK
<1>2. TypeOK'
  BY <1>1 DEF TypeOK
<1>3. ASSUME NEW v \in Workers, v # w
      PROVE  Ready(v)'
  <2>1. work'[v] = work[v]
    BY <1>1, <1>3
  <2>2. Ready(v)
    BY DEF IInv
  <2>3. ~ At(v, "idle") => work[v].req.on \in SUBSET Assets
    BY Busy DEF IInv
  <2>4. ~ At(v, "idle") /\ Exists(work[v].req) => Exists(work[v].req)'
    BY <2>1, <2>3 DEF Exists
  <2> QED
    BY <2>1, <2>2, <2>4 DEF Ready, At, Exists
<1> QED
  BY <1>2, <1>3 DEF IInv

\* The answer to a request, whatever is put on record with it.
LEMMA AnswerStep ==
  ASSUME IInv, NEW w \in Workers,
         NEW a \in {"none", "ok", "replay", "rejected", "error"},
         Answer(w, a), UNCHANGED <<asset, events, audit, upkeep, begun>>,
         recorded' \subseteq Keys
  PROVE  IInv'
<1>1. TypeOK /\ MovesLegal
  BY DEF IInv
<1>2. Idle(a) \in Works /\ work' = [work EXCEPT ![w] = Idle(a)]
  BY IdleWorks DEF Answer
<1>3. work'[w].pc = "idle"
  BY <1>1, <1>2 DEF TypeOK, Idle
<1>4. Ready(w)'
  BY <1>3 DEF Ready, At
<1>5. MovesLegal'
  BY <1>1 DEF MovesLegal
<1> QED
  BY <1>1, <1>2, <1>4, <1>5, Frame DEF TypeOK

\* It stays of its type.
LEMMA TurnedWorks ==
  ASSUME TypeOK, NEW w \in Workers, ~ At(w, "idle"), NEW pc \in Steps,
         NEW left \in SUBSET Assets, NEW next \in Assets \cup {None},
         NEW after \in Statuses \cup {None}
  PROVE  Turned(w, pc, left, next, after) \in Works
<1>1. PICK as \in SUBSET Assets : work[w].seen \in [as -> Rows \cup {None}]
  BY Busy
<1> QED
  BY <1>1, Busy, BusyWorks DEF Turned

\* A request that arrives.
LEMMA ArriveStep ==
  ASSUME IInv, NEW w \in Workers, NEW r \in Requests, Arrive(w, r)
  PROVE  IInv'
<1>1. TypeOK /\ MovesLegal
  BY DEF IInv
<1>2. r.on \in SUBSET Assets
  BY DEF Requests
<1>3. \E as \in SUBSET Assets : \E seen \in [as -> Rows \cup {None}] :
        /\ as = IF r.op = "bulk" THEN {} ELSE r.on
        /\ seen = [a \in as |-> IF Loads(r) THEN asset[a] ELSE None]
  <2>1. PICK as \in SUBSET Assets : as = IF r.op = "bulk" THEN {} ELSE r.on
    BY <1>2
  <2>2. [a \in as |-> IF Loads(r) THEN asset[a] ELSE None]
          \in [as -> Rows \cup {None}]
    BY <1>1, <2>1 DEF TypeOK
  <2> QED
    BY <2>1, <2>2
<1>13. PICK as \in SUBSET Assets : \E seen \in [as -> Rows \cup {None}] :
        /\ as = IF r.op = "bulk" THEN {} ELSE r.on
        /\ seen = [a \in as |-> IF Loads(r) THEN asset[a] ELSE None]
  BY <1>3
<1>14. PICK seen \in [as -> Rows \cup {None}] :
        /\ as = IF r.op = "bulk" THEN {} ELSE r.on
        /\ seen = [a \in as |-> IF Loads(r) THEN asset[a] ELSE None]
  BY <1>13
<1>4. PICK new : new = [pc |-> "arrived", req |-> r, seen |-> seen, left |-> {},
                        next |-> None, after |-> None, answer |-> "none"]
  OBVIOUS
<1>5. new \in Works
  BY <1>4, BusyWorks DEF Steps
<1>6. work' = [work EXCEPT ![w] = new]
  BY <1>14, <1>4 DEF Arrive
<1>7. work'[w] = new
  BY <1>1, <1>6 DEF TypeOK
<1>8. Loads(r) => \A a \in r.on : asset[a] \in Rows
  BY <1>1, <1>2 DEF Arrive, Exists, TypeOK
<1>9. Ready(w)'
  BY <1>14, <1>4, <1>7, <1>8 DEF Ready, At, Arrive, Loads
<1>10. MovesLegal'
  BY <1>1 DEF Arrive, MovesLegal
<1>11. begun' \in 0 .. MaxRequests
  BY <1>1, ConstantsAssumption DEF Arrive, TypeOK
<1> QED
  BY <1>1, <1>5, <1>6, <1>9, <1>10, <1>11, Frame DEF TypeOK, Arrive

\* The steps that only move the worker on.
LEMMA GateStep ==
  ASSUME IInv, NEW w \in Workers, Gate(w)
  PROVE  IInv'
<1>1. TypeOK /\ MovesLegal /\ Ready(w) /\ ~ At(w, "idle")
  BY DEF IInv, Gate, At
<1>2. PICK new :
        new = Turned(w, "gated", work[w].left, work[w].next, work[w].after)
  OBVIOUS
<1>3. new \in Works
  BY <1>1, <1>2, Busy, TurnedWorks DEF Steps
<1>4. work' = [work EXCEPT ![w] = new]
  <2>1. new = [work[w] EXCEPT !.pc = "gated"]
    BY <1>1, <1>2, Turning
  <2> QED
    BY <1>2, <2>1 DEF Gate
<1>5. work'[w] = new
  BY <1>1, <1>4 DEF TypeOK
<1>6. /\ new.pc = "gated"
      /\ new.req = work[w].req
      /\ new.seen = work[w].seen
      /\ new.left = work[w].left
  BY <1>2 DEF Turned
<1>7. Ready(w)'
  BY <1>1, <1>5, <1>6 DEF Ready, At, Gate
<1>8. MovesLegal'
  BY <1>1 DEF Gate, MovesLegal
<1> QED
  BY <1>1, <1>3, <1>4, <1>7, <1>8, Frame DEF TypeOK, Gate

\* The insert of a new asset.
LEMMA InsertStep ==
  ASSUME IInv, NEW w \in Workers, Insert(w)
  PROVE  IInv'
<1>1. TypeOK /\ MovesLegal /\ Ready(w) /\ ~ At(w, "idle")
  BY DEF IInv, Insert, At
<1>2. PICK a \in Assets : a = Subject(w) /\ work[w].req.on = {a}
  BY <1>1, Busy, SubjectIs DEF Insert, Op
<1>3. PICK new : new = Turned(w, "updated", {a}, work[w].next, work[w].after)
  OBVIOUS
<1>4. new \in Works
  BY <1>1, <1>3, Busy, TurnedWorks DEF Steps
<1>5. work' = [work EXCEPT ![w] = new]
  <2>1. work' = [work EXCEPT ![w].pc = "updated", ![w].left = {a}]
    BY <1>2 DEF Insert
  <2>2. new = [work[w] EXCEPT !.pc = "updated", !.left = {a}]
    BY <1>1, <1>3, Turning
  <2> QED
    BY <1>1, <2>1, <2>2, Replaced
<1>6. work'[w] = new
  BY <1>1, <1>5 DEF TypeOK
<1>7. /\ new.pc = "updated"
      /\ new.req = work[w].req
      /\ new.seen = work[w].seen
      /\ new.left = {a}
  BY <1>3 DEF Turned
<1>8. /\ asset' \in [Assets -> Rows \cup {None}]
      /\ asset'[a] # None
      /\ \A b \in Assets : asset[b] # None => asset'[b] # None
  <2>1. PICK row \in Rows : row = [status |-> "INTAKE", prior |-> None]
    BY LifecycleDefs
  <2>2. row # None
    BY ConstantsAssumption
  <2>3. asset' = [asset EXCEPT ![a] = row]
    BY <1>2, <2>1 DEF Insert
  <2> QED
    BY <1>1, <2>2, <2>3 DEF TypeOK
<1>9. MovesLegal'
  BY <1>1 DEF Insert, MovesLegal
<1>10. Ready(w)'
  BY <1>1, <1>2, <1>6, <1>7, <1>8 DEF Ready, At, Insert, Op, Exists
<1> QED
  BY <1>1, <1>4, <1>5, <1>8, <1>9, <1>10, Frame DEF TypeOK, Insert

\* The update of a single transition.
LEMMA UpdateStep ==
  ASSUME IInv, NEW w \in Workers, Update(w)
  PROVE  IInv'
<1>1. TypeOK /\ MovesLegal /\ Ready(w) /\ ~ At(w, "idle")
  BY DEF IInv, Update, At
<1>2. PICK a \in Assets : a = Subject(w) /\ work[w].req.on = {a}
  BY <1>1, Busy, SubjectIs DEF Update, Op
<1>3. PICK new : new = Turned(w, "updated", {a}, work[w].next, work[w].after)
  OBVIOUS
<1>4. new \in Works
  BY <1>1, <1>3, Busy, TurnedWorks DEF Steps
<1>5. work' = [work EXCEPT ![w] = new]
  <2>1. work' = [work EXCEPT ![w].pc = "updated", ![w].left = {a}]
    BY <1>2 DEF Update
  <2>2. new = [work[w] EXCEPT !.pc = "updated", !.left = {a}]
    BY <1>1, <1>3, Turning
  <2> QED
    BY <1>1, <2>1, <2>2, Replaced
<1>6. work'[w] = new
  BY <1>1, <1>5 DEF TypeOK
<1>7. /\ new.pc = "updated"
      /\ new.req = work[w].req
      /\ new.seen = work[w].seen
      /\ new.left = {a}
  BY <1>3 DEF Turned
<1>8. work[w].seen[a] \in Rows /\ Legal(work[w].seen[a], work[w].req.to)
  BY <1>1, <1>2 DEF Ready, Update, Op, Loads
<1>9. /\ asset' \in [Assets -> Rows \cup {None}]
      /\ asset'[a] # None
      /\ \A b \in Assets : asset[b] # None => asset'[b] # None
  <2>1. PICK row \in Rows : row = Moved(work[w].seen[a], work[w].req.to)
    BY <1>8, MovedIsRow
  <2>2. row # None
    BY ConstantsAssumption
  <2>3. asset' = [asset EXCEPT ![a] = row]
    BY <1>2, <2>1 DEF Update
  <2> QED
    BY <1>1, <2>2, <2>3 DEF TypeOK
<1>10. MovesLegal'
  BY <1>1 DEF Update, MovesLegal
<1>11. Ready(w)'
  BY <1>1, <1>2, <1>6, <1>7, <1>8, <1>9
     DEF Ready, At, Update, Op, Loads, Exists
<1> QED
  BY <1>1, <1>4, <1>5, <1>9, <1>10, <1>11, Frame DEF TypeOK, Update

\* A history grows by a sound event.
LEMMA AppendedIsLegal ==
  ASSUME NEW q \in Seq(Event), NEW e \in Event, Sound(e),
         \A n \in DOMAIN q : Sound(q[n])
  PROVE  /\ Append(q, e) \in Seq(Event)
         /\ \A n \in DOMAIN Append(q, e) : Sound(Append(q, e)[n])
<1>1. /\ Append(q, e) \in Seq(Event)
      /\ Len(Append(q, e)) = Len(q) + 1
      /\ \A n \in 1 .. Len(q) : Append(q, e)[n] = q[n]
      /\ Append(q, e)[Len(q) + 1] = e
  BY AppendProperties
<1>2. /\ DOMAIN q = 1 .. Len(q)
      /\ DOMAIN Append(q, e) = 1 .. Len(q) + 1
      /\ Len(q) \in Nat
  BY <1>1, LenProperties
<1>3. ASSUME NEW n \in DOMAIN Append(q, e)
      PROVE  Sound(Append(q, e)[n])
  <2>1. n \in 1 .. Len(q) \/ n = Len(q) + 1
    BY <1>2, <1>3
  <2> QED
    BY <1>1, <1>2, <2>1
<1> QED
  BY <1>1, <1>3

\* The history stays legal when some of the assets' histories grow so.
LEMMA LoggedIsLegal ==
  ASSUME IInv, NEW as \in SUBSET Assets, NEW f, NEW g,
         \A a \in as : f[a] \in Event /\ Sound(f[a]),
         g = [a \in Assets |-> IF a \in as THEN Append(events[a], f[a])
                               ELSE events[a]]
  PROVE  /\ g \in [Assets -> Seq(Event)]
         /\ \A a \in Assets : \A n \in DOMAIN g[a] : Sound(g[a][n])
<1>1. ASSUME NEW a \in Assets
      PROVE  g[a] \in Seq(Event) /\ \A n \in DOMAIN g[a] : Sound(g[a][n])
  <2>1. events[a] \in Seq(Event) /\ \A n \in DOMAIN events[a] : Sound(events[a][n])
    BY DEF IInv, TypeOK, MovesLegal
  <2>2. CASE a \in as
    <3>1. g[a] = Append(events[a], f[a])
      BY <2>2
    <3> QED
      BY <2>1, <2>2, <3>1, AppendedIsLegal
  <2>3. CASE a \notin as
    BY <2>1, <2>3
  <2> QED
    BY <2>2, <2>3
<1> QED
  BY <1>1

\* The event of a creation or of a single transition.
LEMMA LogStep ==
  ASSUME IInv, NEW w \in Workers, Log(w)
  PROVE  IInv'
<1>1. TypeOK /\ MovesLegal /\ Ready(w) /\ ~ At(w, "idle")
  BY DEF IInv, Log, At
<1>2. work[w].req.op \in {"create", "transition"}
  BY <1>1 DEF Ready, Log
<1>3. PICK a \in Assets : a = Subject(w) /\ work[w].req.on = {a}
  BY <1>1, <1>2, Busy, SubjectIs DEF Op
<1>4. PICK to, p, f, e :
        /\ to = IF work[w].req.op = "create" THEN "INTAKE" ELSE work[w].req.to
        /\ p = IF work[w].req.op = "create" THEN "reloaded" ELSE "logged"
        /\ f = IF work[w].req.op = "create" THEN "INTAKE" ELSE None
        /\ e = EventOf(work[w].seen[a], to)
  OBVIOUS
<1>5. PICK new : new = Turned(w, p, work[w].left, work[w].next, f)
  OBVIOUS
<1>6. new \in Works
  <2>1. p \in Steps /\ f \in Statuses \cup {None}
    BY <1>4, LifecycleDefs DEF Steps
  <2> QED
    BY <1>1, <1>5, <2>1, Busy, TurnedWorks
<1>7. work' = [work EXCEPT ![w] = new]
  <2>1. work' = [work EXCEPT ![w].pc = p, ![w].after = f]
    BY <1>3, <1>4 DEF Log, Op
  <2>2. new = [work[w] EXCEPT !.pc = p, !.after = f]
    BY <1>1, <1>5, TurningPcAfter
  <2> QED
    BY <1>1, <2>1, <2>2, Replaced
<1>8. work'[w] = new
  BY <1>1, <1>7 DEF TypeOK
<1>9. /\ new.pc = p
      /\ new.req = work[w].req
      /\ new.seen = work[w].seen
      /\ new.left = work[w].left
      /\ new.after = f
  BY <1>5 DEF Turned
<1>10. Ready(w)'
  <2>1. p = "reloaded" => f \in Statuses
    BY <1>4, LifecycleDefs
  <2>2. p = "logged" => work[w].req.op = "transition"
    BY <1>2, <1>4
  <2>3. p \in {"logged", "reloaded"}
    BY <1>4
  <2> QED
    BY <1>1, <1>8, <1>9, <2>1, <2>2, <2>3 DEF Ready, At, Log, Exists
<1>11. e \in Event /\ Sound(e)
  <2>1. CASE work[w].req.op = "create"
    BY <1>1, <1>3, <1>4, <2>1, CreationIsSound DEF Ready
  <2>2. CASE work[w].req.op = "transition"
    <3>1. work[w].seen[a] \in Rows /\ Legal(work[w].seen[a], work[w].req.to)
      BY <1>1, <1>3, <2>2 DEF Ready, Loads, Log
    <3> QED
      BY <1>4, <2>2, <3>1, EventIsSound
  <2> QED
    BY <1>2, <2>1, <2>2
<1>12. events' = [b \in Assets |-> IF b \in {a} THEN Append(events[b], e)
                                   ELSE events[b]]
  BY <1>1, <1>3, <1>4 DEF Log, TypeOK, Op
<1>13. /\ events' \in [Assets -> Seq(Event)]
       /\ MovesLegal'
  <2>1. PICK h : h = [b \in {a} |-> e]
    OBVIOUS
  <2>2. \A b \in {a} : h[b] \in Event /\ Sound(h[b])
    BY <1>11, <2>1
  <2>3. events' = [b \in Assets |-> IF b \in {a} THEN Append(events[b], h[b])
                                    ELSE events[b]]
    BY <1>12, <2>1
  <2>4. PICK g : g = events'
    OBVIOUS
  <2>5. {a} \in SUBSET Assets
    OBVIOUS
  <2> QED
    BY <2>2, <2>3, <2>4, <2>5, LoggedIsLegal DEF MovesLegal
<1> QED
  BY <1>1, <1>6, <1>7, <1>10, <1>13, Frame DEF TypeOK, Log

\* The row is read again.
LEMMA ReloadStep ==
  ASSUME IInv, NEW w \in Workers, Reload(w)
  PROVE  IInv'
<1>1. TypeOK /\ MovesLegal /\ Ready(w) /\ ~ At(w, "idle")
  BY DEF IInv, Reload, At
<1>2. work[w].req.op = "transition" /\ Exists(work[w].req)
  BY <1>1 DEF Ready, Reload
<1>3. PICK a \in Assets : a = Subject(w) /\ work[w].req.on = {a}
  BY <1>1, <1>2, Busy, SubjectIs DEF Op
<1>4. PICK f : f = asset[a].status
  OBVIOUS
<1>5. PICK new : new = Turned(w, "reloaded", work[w].left, work[w].next, f)
  OBVIOUS
<1>6. f \in Statuses
  <2>1. asset[a] \in Rows
    BY <1>1, <1>2, <1>3 DEF TypeOK, Exists
  <2> QED
    BY <1>4, <2>1, LifecycleDefs
<1>7. new \in Works
  BY <1>1, <1>5, <1>6, Busy, TurnedWorks DEF Steps
<1>8. work' = [work EXCEPT ![w] = new]
  <2>1. work' = [work EXCEPT ![w].pc = "reloaded", ![w].after = f]
    BY <1>3, <1>4 DEF Reload
  <2>2. new = [work[w] EXCEPT !.pc = "reloaded", !.after = f]
    BY <1>1, <1>5, TurningPcAfter
  <2> QED
    BY <1>1, <2>1, <2>2, Replaced
<1>9. work'[w] = new
  BY <1>1, <1>8 DEF TypeOK
<1>10. /\ new.pc = "reloaded"
       /\ new.req = work[w].req
       /\ new.seen = work[w].seen
       /\ new.left = work[w].left
       /\ new.after = f
  BY <1>5 DEF Turned
<1>11. Ready(w)'
  BY <1>1, <1>6, <1>9, <1>10 DEF Ready, At, Reload
<1>12. MovesLegal'
  BY <1>1 DEF Reload, MovesLegal
<1> QED
  BY <1>1, <1>7, <1>8, <1>11, <1>12, Frame DEF TypeOK, Reload

\* A maintenance record is inserted.
LEMMA MaintainStep ==
  ASSUME IInv, NEW w \in Workers, Maintain(w)
  PROVE  IInv'
<1>1. TypeOK /\ MovesLegal /\ Ready(w) /\ ~ At(w, "idle")
  BY DEF IInv, Maintain, At
<1>2. PICK new : new = Turned(w, "reloaded", work[w].left, work[w].next, work[w].after)
  OBVIOUS
<1>3. new \in Works
  BY <1>1, <1>2, Busy, TurnedWorks DEF Steps
<1>4. work' = [work EXCEPT ![w] = new]
  <2>1. new = [work[w] EXCEPT !.pc = "reloaded"]
    BY <1>1, <1>2, Turning
  <2> QED
    BY <1>2, <2>1 DEF Maintain
<1>5. work'[w] = new
  BY <1>1, <1>4 DEF TypeOK
<1>6. /\ new.pc = "reloaded"
      /\ new.req = work[w].req
      /\ new.seen = work[w].seen
      /\ new.left = work[w].left
  BY <1>2 DEF Turned
<1>7. work[w].left = {}
  BY <1>1 DEF Ready, Maintain
<1>8. Ready(w)'
  BY <1>1, <1>5, <1>6, <1>7 DEF Ready, At, Maintain
<1>9. MovesLegal'
  BY <1>1 DEF Maintain, MovesLegal
<1>10. upkeep' \in [Assets -> Nat]
  <2>1. PICK a \in Assets : a = Subject(w)
    BY <1>1, Busy, SubjectIs DEF Maintain, Op
  <2> QED
    BY <1>1, <2>1 DEF Maintain, TypeOK
<1> QED
  BY <1>1, <1>3, <1>4, <1>8, <1>9, <1>10, Frame DEF TypeOK, Maintain

\* The rows of a bulk transition are read and validated.
LEMMA FetchStep ==
  ASSUME IInv, NEW w \in Workers, Fetch(w)
  PROVE  IInv'
<1>1. TypeOK /\ MovesLegal /\ Ready(w) /\ ~ At(w, "idle")
  BY DEF IInv, Fetch, At
<1>2. PICK r \in Requests : r = work[w].req /\ r.op = "bulk"
  BY <1>1, Busy DEF Fetch, Op
<1>3. r.on \in SUBSET Assets
  BY DEF Requests
<1>4. PICK as \in SUBSET Assets : as = Chosen(r)
  BY <1>3 DEF Chosen
<1>5. PICK a \in Among(as) :
        work' = [work EXCEPT ![w].pc = "tx", ![w].seen = [b \in as |-> asset[b]],
                             ![w].left = as, ![w].next = a]
  BY <1>2, <1>4 DEF Fetch
<1>6. PICK seen \in [as -> Rows \cup {None}] : seen = [b \in as |-> asset[b]]
  <2>1. [b \in as |-> asset[b]] \in [as -> Rows \cup {None}]
    BY <1>1 DEF TypeOK
  <2> QED
    BY <2>1
<1>7. PICK new : new = [pc |-> "tx", req |-> r, seen |-> seen, left |-> as,
                        next |-> a, after |-> work[w].after, answer |-> "none"]
  OBVIOUS
<1>8. a \in Assets \cup {None}
  BY <1>5 DEF Among
<1>9. new \in Works
  BY <1>1, <1>7, <1>8, Busy, BusyWorks DEF Steps
<1>10. work' = [work EXCEPT ![w] = new]
  <2>1. PICK p, s, l, n, f :
          /\ p = work[w].pc /\ s = work[w].seen /\ l = work[w].left
          /\ n = work[w].next /\ f = work[w].after
    OBVIOUS
  <2>2. work' = [work EXCEPT ![w] = [work[w] EXCEPT !.pc = "tx", !.seen = seen,
                                                    !.left = as, !.next = a]]
    BY <1>1, <1>5, <1>6 DEF TypeOK
  <2>3. PICK rec : rec = work[w]
    OBVIOUS
  <2>13. rec = [pc |-> p, req |-> r, seen |-> s, left |-> l, next |-> n,
                after |-> f, answer |-> "none"]
    BY <1>1, <1>2, <2>1, <2>3, Busy
  <2>4. PICK x : x = [rec EXCEPT !.pc = "tx"]
    OBVIOUS
  <2>5. x = [pc |-> "tx", req |-> r, seen |-> s, left |-> l,
             next |-> n, after |-> f, answer |-> "none"]
    BY <2>4, <2>13
  <2>6. PICK y : y = [x EXCEPT !.seen = seen]
    OBVIOUS
  <2>7. y = [pc |-> "tx", req |-> r, seen |-> seen, left |-> l,
             next |-> n, after |-> f, answer |-> "none"]
    BY <2>5, <2>6
  <2>8. PICK z : z = [y EXCEPT !.left = as]
    OBVIOUS
  <2>9. z = [pc |-> "tx", req |-> r, seen |-> seen, left |-> as,
             next |-> n, after |-> f, answer |-> "none"]
    BY <2>7, <2>8
  <2>10. PICK t : t = [z EXCEPT !.next = a]
    OBVIOUS
  <2>11. t = [pc |-> "tx", req |-> r, seen |-> seen, left |-> as,
              next |-> a, after |-> f, answer |-> "none"]
    BY <2>9, <2>10
  <2>12. t = [rec EXCEPT !.pc = "tx", !.seen = seen, !.left = as, !.next = a]
    BY <2>4, <2>6, <2>8, <2>10
  <2> QED
    BY <1>7, <2>1, <2>2, <2>3, <2>11, <2>12
<1>11. work'[w] = new
  BY <1>1, <1>10 DEF TypeOK
<1>12. /\ new.pc = "tx" /\ new.req = r /\ new.seen = seen /\ new.left = as
  BY <1>7
<1>13. \A b \in as : seen[b] \in Rows /\ Legal(seen[b], r.to)
  BY <1>1, <1>4, <1>6 DEF Chosen, TypeOK
<1>14. r.to \in Statuses
  BY <1>1, <1>2 DEF Ready, Fetch, WellFormed
<1>15. DOMAIN seen = as
  BY <1>6
<1>16. Ready(w)'
  BY <1>2, <1>11, <1>12, <1>13, <1>14, <1>15 DEF Ready, At, Loads
<1>17. MovesLegal'
  BY <1>1 DEF Fetch, MovesLegal
<1> QED
  BY <1>1, <1>9, <1>10, <1>16, <1>17, Frame DEF TypeOK, Fetch

\* One asset's update and event, in the transaction.
LEMMA InTxStep ==
  ASSUME IInv, NEW w \in Workers, InTx(w)
  PROVE  IInv'
<1>1. TypeOK /\ MovesLegal /\ Ready(w) /\ ~ At(w, "idle")
  BY DEF IInv, InTx, At
<1>2. PICK l \in SUBSET Assets : l = work[w].left \ {work[w].next}
  BY <1>1, Busy
<1>3. PICK b \in Among(l) : work' = [work EXCEPT ![w].left = @ \ {work[w].next},
                                                 ![w].next = b]
  BY <1>2 DEF InTx
<1>4. b \in Assets \cup {None}
  BY <1>2, <1>3 DEF Among
<1>5. PICK new : new = Turned(w, "tx", l, b, work[w].after)
  OBVIOUS
<1>6. new \in Works
  BY <1>1, <1>4, <1>5, Busy, TurnedWorks DEF Steps
<1>7. work' = [work EXCEPT ![w] = new]
  <2>1. work' = [work EXCEPT ![w].left = l, ![w].next = b]
    BY <1>2, <1>3
  <2>2. work[w].pc = "tx"
    BY DEF InTx, At
  <2>3. new = [work[w] EXCEPT !.left = l, !.next = b]
    <3>1. Turned(w, work[w].pc, l, b, work[w].after) =
            [work[w] EXCEPT !.left = l, !.next = b]
      BY <1>1, Turning
    <3> QED
      BY <1>5, <2>2, <3>1
  <2> QED
    BY <1>1, <2>1, <2>3, Replaced
<1>8. work'[w] = new
  BY <1>1, <1>7 DEF TypeOK
<1>9. /\ new.pc = "tx"
      /\ new.req = work[w].req
      /\ new.seen = work[w].seen
      /\ new.left = l
  BY <1>5 DEF Turned
<1>10. Ready(w)'
  BY <1>1, <1>2, <1>8, <1>9 DEF Ready, At, InTx
<1>11. MovesLegal'
  BY <1>1 DEF InTx, MovesLegal
<1> QED
  BY <1>1, <1>6, <1>7, <1>10, <1>11, Frame DEF TypeOK, InTx

\* The transaction commits all its updates and events.
LEMMA CommitStep ==
  ASSUME IInv, NEW w \in Workers, Commit(w)
  PROVE  IInv'
<1>1. TypeOK /\ MovesLegal /\ Ready(w) /\ ~ At(w, "idle")
  BY DEF IInv, Commit, At
<1>2. PICK as \in SUBSET Assets :
        as = DOMAIN work[w].seen /\ work[w].seen \in [as -> Rows \cup {None}]
  BY <1>1, Busy
<1>3. PICK to \in Statuses : to = work[w].req.to /\ work[w].req.op = "bulk"
  BY <1>1 DEF Ready, Commit
<1>4. \A a \in as : work[w].seen[a] \in Rows /\ Legal(work[w].seen[a], to)
  BY <1>1, <1>2, <1>3 DEF Ready
<1>5. PICK new : new = Turned(w, "reloaded", as, work[w].next, to)
  OBVIOUS
<1>6. new \in Works
  BY <1>1, <1>5, Busy, TurnedWorks DEF Steps
<1>7. work' = [work EXCEPT ![w] = new]
  <2>1. work' = [work EXCEPT ![w].pc = "reloaded", ![w].left = as, ![w].after = to]
    BY <1>2, <1>3 DEF Commit
  <2>2. new = [work[w] EXCEPT !.pc = "reloaded", !.left = as, !.after = to]
    <3>1. PICK y : y = [work[w] EXCEPT !.pc = "reloaded", !.left = as]
      OBVIOUS
    <3>2. y = Turned(w, "reloaded", as, work[w].next, work[w].after)
      BY <1>1, <3>1, Turning
    <3>3. PICK z : z = [y EXCEPT !.after = to]
      OBVIOUS
    <3>4. z = new
      <4>1. PICK r, s, n, f :
              /\ r = work[w].req /\ s = work[w].seen
              /\ n = work[w].next /\ f = work[w].after
        OBVIOUS
      <4>2. y = [pc |-> "reloaded", req |-> r, seen |-> s, left |-> as,
                 next |-> n, after |-> f, answer |-> "none"]
        BY <3>2, <4>1 DEF Turned
      <4>3. z = [pc |-> "reloaded", req |-> r, seen |-> s, left |-> as,
                 next |-> n, after |-> to, answer |-> "none"]
        BY <3>3, <4>2, OneField
      <4> QED
        BY <1>5, <4>1, <4>3 DEF Turned
    <3> QED
      BY <3>1, <3>3, <3>4
  <2> QED
    BY <1>1, <2>1, <2>2, Replaced
<1>8. work'[w] = new
  BY <1>1, <1>7 DEF TypeOK
<1>9. /\ new.pc = "reloaded"
      /\ new.req = work[w].req
      /\ new.seen = work[w].seen
      /\ new.left = as
      /\ new.after = to
  BY <1>5 DEF Turned
<1>10. Ready(w)'
  BY <1>1, <1>2, <1>3, <1>4, <1>8, <1>9 DEF Ready, At, Commit, Loads
<1>11. /\ asset' \in [Assets -> Rows \cup {None}]
       /\ \A a \in Assets : asset[a] # None => asset'[a] # None
  <2>1. asset' = [a \in Assets |-> IF a \in as THEN Moved(work[w].seen[a], to)
                                   ELSE asset[a]]
    BY <1>2, <1>3 DEF Commit
  <2>2. \A a \in as : Moved(work[w].seen[a], to) \in Rows
    BY <1>4, MovedIsRow
  <2>3. None \notin Rows
    BY ConstantsAssumption
  <2> QED
    BY <1>1, <2>1, <2>2, <2>3 DEF TypeOK
<1>12. /\ events' \in [Assets -> Seq(Event)]
       /\ MovesLegal'
  <2>1. PICK h : h = [a \in as |-> EventOf(work[w].seen[a], to)]
    OBVIOUS
  <2>2. \A a \in as : h[a] \in Event /\ Sound(h[a])
    BY <1>4, <2>1, EventIsSound
  <2>3. events' = [a \in Assets |-> IF a \in as THEN Append(events[a], h[a])
                                    ELSE events[a]]
    BY <1>2, <1>3, <2>1 DEF Commit
  <2>4. PICK g : g = events'
    OBVIOUS
  <2> QED
    BY <2>2, <2>3, <2>4, LoggedIsLegal DEF MovesLegal
<1> QED
  BY <1>1, <1>6, <1>7, <1>10, <1>11, <1>12, Frame DEF TypeOK, Commit

\* An audit entry.
LEMMA AuditStep ==
  ASSUME IInv, NEW w \in Workers, Audit(w)
  PROVE  IInv'
<1>1. TypeOK /\ MovesLegal /\ Ready(w) /\ ~ At(w, "idle")
  BY DEF IInv, Audit, At
<1>2. PICK a \in work[w].left :
        /\ audit' = [audit EXCEPT ![a] = Append(@, [before |-> work[w].seen[a],
                                                    after |-> work[w].after])]
        /\ work' = [work EXCEPT ![w].left = @ \ {a}]
  BY DEF Audit
<1>3. PICK l \in SUBSET Assets : l = work[w].left \ {a}
  BY <1>1, Busy
<1>4. PICK new : new = Turned(w, "reloaded", l, work[w].next, work[w].after)
  OBVIOUS
<1>5. new \in Works
  BY <1>1, <1>4, Busy, TurnedWorks DEF Steps
<1>6. work' = [work EXCEPT ![w] = new]
  <2>1. work[w].pc = "reloaded"
    BY DEF Audit, At
  <2>2. new = [work[w] EXCEPT !.left = l]
    BY <1>1, <1>4, <2>1, Turning
  <2> QED
    BY <1>2, <1>3, <2>2
<1>7. work'[w] = new
  BY <1>1, <1>6 DEF TypeOK
<1>8. /\ new.pc = "reloaded"
      /\ new.req = work[w].req
      /\ new.seen = work[w].seen
      /\ new.left = l
      /\ new.after = work[w].after
  BY <1>4 DEF Turned
<1>9. Ready(w)'
  BY <1>1, <1>2, <1>3, <1>7, <1>8 DEF Ready, At, Audit
<1>10. MovesLegal'
  BY <1>1 DEF Audit, MovesLegal
<1>11. audit' \in [Assets -> Seq(Entry)]
  <2>1. PICK as \in SUBSET Assets : work[w].seen \in [as -> Rows \cup {None}]
    BY <1>1, Busy
  <2>2. a \in as
    BY <1>1, <1>2, <2>1 DEF Ready
  <2>3. work[w].after \in Statuses
    BY <1>1, <1>2 DEF Ready, Audit
  <2>4. PICK e \in Entry : e = [before |-> work[w].seen[a], after |-> work[w].after]
    BY <2>1, <2>2, <2>3 DEF Entry
  <2>5. a \in Assets /\ audit[a] \in Seq(Entry)
    BY <1>1, <2>2 DEF TypeOK
  <2>6. Append(audit[a], e) \in Seq(Entry)
    BY <2>5, AppendProperties
  <2>7. audit' = [audit EXCEPT ![a] = Append(audit[a], e)]
    BY <1>2, <2>4
  <2> QED
    BY <1>1, <2>5, <2>6, <2>7 DEF TypeOK
<1> QED
  BY <1>1, <1>5, <1>6, <1>9, <1>10, <1>11, Frame DEF TypeOK, Audit

-----------------------------------------------------------------------------
(* All steps, and the theorems *)

\* A step of a worker.
LEMMA WorkerStep ==
  ASSUME IInv, NEW w \in Workers,
         \/ \E r \in Requests : Arrive(w, r) \/ TurnAway(w, r)
         \/ Proceed(w)
         \/ Stop(w)
  PROVE  IInv'
<1>1. TypeOK
  BY DEF IInv
<1>2. ASSUME NEW r \in Requests, Arrive(w, r)
      PROVE  IInv'
  BY <1>2, ArriveStep
<1>3. ASSUME NEW r \in Requests, TurnAway(w, r)
      PROVE  IInv'
  BY <1>1, <1>3, AnswerStep DEF TurnAway, TypeOK
<1>4. CASE Replay(w)
  BY <1>1, <1>4, AnswerStep DEF Replay, TypeOK
<1>5. CASE Gate(w)
  BY <1>5, GateStep
<1>6. CASE Duplicate(w)
  BY <1>1, <1>6, AnswerStep DEF Duplicate, TypeOK
<1>7. CASE Insert(w)
  BY <1>7, InsertStep
<1>8. CASE Refuse(w)
  BY <1>1, <1>8, AnswerStep DEF Refuse, TypeOK
<1>9. CASE Update(w)
  BY <1>9, UpdateStep
<1>10. CASE Log(w)
  BY <1>10, LogStep
<1>11. CASE Reload(w)
  BY <1>11, ReloadStep
<1>12. CASE Maintain(w)
  BY <1>12, MaintainStep
<1>13. CASE Fetch(w)
  BY <1>13, FetchStep
<1>14. CASE InTx(w)
  BY <1>14, InTxStep
<1>15. CASE Commit(w)
  BY <1>15, CommitStep
<1>16. CASE Abort(w)
  BY <1>1, <1>16, AnswerStep DEF Abort, TypeOK
<1>17. CASE Audit(w)
  BY <1>17, AuditStep
<1>18. CASE Record(w)
  <2>1. Key(work[w].req) \in Keys
    <3>1. work[w].req \in Requests
      BY <1>1, <1>18, Busy DEF Record, At
    <3> QED
      BY <3>1 DEF Requests, Key, Keys
  <2>2. recorded' \subseteq Keys
    BY <1>1, <1>18, <2>1 DEF Record, TypeOK
  <2> QED
    BY <1>18, <2>2, AnswerStep DEF Record
<1>19. CASE Stop(w)
  BY <1>1, <1>19, AnswerStep DEF Stop, TypeOK
<1> QED
  BY <1>2, <1>3, <1>4, <1>5, <1>6, <1>7, <1>8, <1>9, <1>10, <1>11, <1>12, <1>13,
     <1>14, <1>15, <1>16, <1>17, <1>18, <1>19 DEF Proceed

\* Where nothing changes the invariant stays.
LEMMA StutterStep ==
  ASSUME IInv, UNCHANGED vars
  PROVE  IInv'
<1>1. TypeOK' /\ MovesLegal'
  BY DEF IInv, vars, TypeOK, MovesLegal
<1>2. \A w \in Workers : Ready(w)'
  BY DEF IInv, vars, Ready, At, Exists
<1> QED
  BY <1>1, <1>2 DEF IInv

\* The invariant holds at first.
LEMMA InitIInv == Init => IInv
<1> SUFFICES ASSUME Init
             PROVE  IInv
  OBVIOUS
<1>1. asset \in [Assets -> Rows \cup {None}]
  BY ConstantsAssumption DEF Init
<1>2. \A a \in Assets : events[a] \in Seq(Event)
                        /\ \A n \in DOMAIN events[a] : Sound(events[a][n])
  <2>1. ASSUME NEW a \in Assets
        PROVE  events[a] \in Seq(Event)
               /\ \A n \in DOMAIN events[a] : Sound(events[a][n])
    <3>1. asset[a] \in Rows \cup {None} /\ events[a] = Past(asset[a])
      BY <1>1 DEF Init
    <3> QED
      BY <3>1, PastIsSound
  <2> QED
    BY <2>1
<1>3. events \in [Assets -> Seq(Event)] /\ MovesLegal
  BY <1>2 DEF Init, MovesLegal
<1>4. work \in [Workers -> Works] /\ \A w \in Workers : work[w] = Idle("none")
  BY IdleWorks DEF Init
<1>5. \A w \in Workers : At(w, "idle")
  BY <1>4 DEF Idle, At
<1>6. /\ audit \in [Assets -> Seq(Entry)]
      /\ upkeep \in [Assets -> Nat]
      /\ recorded \subseteq Keys
      /\ begun \in 0 .. MaxRequests
  BY ConstantsAssumption DEF Init
<1>7. TypeOK
  BY <1>1, <1>3, <1>4, <1>6 DEF TypeOK
<1> QED
  BY <1>3, <1>5, <1>7 DEF IInv, Ready

\* Every step keeps it.
LEMMA InductiveIInv ==
  ASSUME IInv, [Next]_vars
  PROVE  IInv'
<1>1. CASE Next
  <2>1. CASE Rest
    BY <2>1, StutterStep DEF Rest
  <2>2. ASSUME NEW w \in Workers,
               \/ \E r \in Requests : Arrive(w, r) \/ TurnAway(w, r)
               \/ Proceed(w)
               \/ Stop(w)
        PROVE  IInv'
    BY <2>2, WorkerStep
  <2> QED
    BY <1>1, <2>1, <2>2 DEF Next
<1>2. CASE UNCHANGED vars
  BY <1>2, StutterStep
<1> QED
  BY <1>1, <1>2

\* The invariant is inductive.
THEOREM Invariance == Spec => []IInv
<1>1. IInv /\ [Next]_vars => IInv'
  BY InductiveIInv
<1> QED
  BY <1>1, InitIInv, PTL DEF Spec

\* Rows, histories, audit trails and requests in progress keep their types,
\* for any number of assets, workers and requests.
THEOREM TypeCorrect == Spec => []TypeOK
<1>1. IInv => TypeOK
  BY DEF IInv
<1> QED
  BY <1>1, Invariance, PTL

\* No interleaving of single and bulk transitions, creations, failures and
\* deadlocks puts an event in the history that is, by itself, no move of the
\* lifecycle.
THEOREM MovesLegalHold == Spec => []MovesLegal
<1>1. IInv => MovesLegal
  BY DEF IInv
<1> QED
  BY <1>1, Invariance, PTL

-----------------------------------------------------------------------------
(* Bulk transitions only *)

\* Creations and single transitions are then not among the requests at work.
LEMMA BulkOnly ==
  ASSUME Ops \cap {"create", "transition"} = {}, IInv, NEW w \in Workers
  PROVE  ~ Insert(w) /\ ~ Update(w) /\ ~ Log(w)
<1>1. ~ At(w, "idle") => work[w].req \in Requests /\ Ready(w)
  BY Busy DEF IInv
<1>2. ~ At(w, "idle") => Op(w) \in Ops
  BY <1>1 DEF Requests, Op
<1> QED
  BY <1>1, <1>2 DEF Insert, Update, Log, Ready, Op, At

\* The last state a history tells of.
EndsAt(a, status) == events[a] # <<>> /\ events[a][Len(events[a])].to = status

\* What a transaction commits for an asset, the row and the event, agrees.
LEMMA CommitEnds ==
  ASSUME IInv, HistoryEndsAtStatus, NEW w \in Workers, Commit(w)
  PROVE  HistoryEndsAtStatus'
<1>1. PICK as, to : /\ as = DOMAIN work[w].seen
                    /\ to = work[w].req.to
  OBVIOUS
<1>2. /\ asset' = [a \in Assets |-> IF a \in as THEN Moved(work[w].seen[a], to)
                                    ELSE asset[a]]
      /\ events' = [a \in Assets |->
                      IF a \in as
                        THEN Append(events[a], EventOf(work[w].seen[a], to))
                        ELSE events[a]]
  BY <1>1 DEF Commit
<1>3. ASSUME NEW a \in Assets, asset'[a] # None
      PROVE  /\ events'[a] # <<>>
             /\ events'[a][Len(events'[a])].to = asset'[a].status
  <2>1. CASE a \in as
    <3>1. PICK q, e : q = events[a] /\ e = EventOf(work[w].seen[a], to)
      OBVIOUS
    <3>2. q \in Seq(Event)
      BY <3>1 DEF IInv, TypeOK
    <3>3. events'[a] = Append(q, e)
      BY <1>2, <2>1, <3>1
    <3>4. /\ Append(q, e) # <<>>
          /\ Len(Append(q, e)) = Len(q) + 1
          /\ Append(q, e)[Len(q) + 1] = e
      BY <3>2
    <3>5. e.to = to
      BY <3>1 DEF EventOf
    <3>6. asset'[a].status = to
      BY <1>2, <2>1 DEF Moved
    <3> QED
      BY <3>3, <3>4, <3>5, <3>6
  <2>2. CASE a \notin as
    BY <1>2, <1>3, <2>2 DEF HistoryEndsAtStatus
  <2> QED
    BY <2>1, <2>2
<1> QED
  BY <1>3 DEF HistoryEndsAtStatus

\* However bulk transitions overlap, fail, or abort one another in a deadlock,
\* the history of an asset ends at the state it is in: rows and events of a bulk
\* transition are written in one transaction.  Creations and single transitions,
\* which write them one after the other, are not among the routes here.
THEOREM HistoryEndsHolds ==
  ASSUME Ops \cap {"create", "transition"} = {}
  PROVE  Spec => []HistoryEndsAtStatus
<1>1. Init => HistoryEndsAtStatus
  BY DEF Init, HistoryEndsAtStatus, Past
<1>2. IInv /\ HistoryEndsAtStatus /\ [Next]_vars => HistoryEndsAtStatus'
  <2> SUFFICES ASSUME IInv, HistoryEndsAtStatus, [Next]_vars
               PROVE  HistoryEndsAtStatus'
    OBVIOUS
  <2>1. CASE UNCHANGED <<asset, events>>
    BY <2>1 DEF HistoryEndsAtStatus
  <2>2. ASSUME NEW w \in Workers, Commit(w)
        PROVE  HistoryEndsAtStatus'
    BY <2>2, CommitEnds
  <2>3. ASSUME NEW w \in Workers
        PROVE  ~ Insert(w) /\ ~ Update(w) /\ ~ Log(w)
    BY <2>3, BulkOnly
  <2> QED
    BY <2>1, <2>2, <2>3
    DEF Next, Proceed, Rest, vars, Arrive, TurnAway, Replay, Gate, Duplicate,
        Refuse, Reload, Maintain, Fetch, InTx, Abort, Audit, Record, Stop
<1> QED
  BY <1>1, <1>2, Invariance, PTL DEF Spec

-----------------------------------------------------------------------------
(* Requests that do not overlap: what a step makes of the worker's record *)

OneAtATime == \A v, w \in Workers : v = w

\* A worker that is done, or turned away.
LEMMA AnsweredIsIdle ==
  ASSUME TypeOK, NEW w \in Workers, NEW a, Answer(w, a)
  PROVE  At(w, "idle")'
  BY DEF TypeOK, Answer, Idle, At

\* A request that has come.
LEMMA ArriveWork ==
  ASSUME TypeOK, NEW w \in Workers, NEW r \in Requests, Arrive(w, r)
  PROVE  /\ work'[w].pc = "arrived"
         /\ work'[w].req = r
         /\ work'[w].seen = [a \in IF r.op = "bulk" THEN {} ELSE r.on |->
                               IF Loads(r) THEN asset[a] ELSE None]
         /\ work'[w].left = {}
<1>1. PICK s : s = [a \in IF r.op = "bulk" THEN {} ELSE r.on |->
                      IF Loads(r) THEN asset[a] ELSE None]
  OBVIOUS
<1>2. work'[w] = [pc |-> "arrived", req |-> r, seen |-> s, left |-> {},
                  next |-> None, after |-> None, answer |-> "none"]
  BY <1>1 DEF Arrive, TypeOK
<1> QED
  BY <1>1, <1>2

\* The rows a bulk transition has read.
LEMMA FetchWork ==
  ASSUME TypeOK, NEW w \in Workers, Fetch(w)
  PROVE  /\ work'[w].pc = "tx"
         /\ work'[w].req = work[w].req
         /\ work'[w].seen = [b \in Chosen(work[w].req) |-> asset[b]]
<1>1. PICK as, s : /\ as = Chosen(work[w].req)
                   /\ s = [b \in as |-> asset[b]]
  OBVIOUS
<1>2. PICK a : work' = [work EXCEPT ![w].pc = "tx", ![w].seen = s,
                                    ![w].left = as, ![w].next = a]
  BY <1>1 DEF Fetch
<1>3. PICK rec : rec = work[w]
  OBVIOUS
<1>4. PICK p, r, q, l, n, f :
        /\ p = work[w].pc /\ r = work[w].req /\ q = work[w].seen
        /\ l = work[w].left /\ n = work[w].next /\ f = work[w].after
  OBVIOUS
<1>5. rec = [pc |-> p, req |-> r, seen |-> q, left |-> l, next |-> n,
             after |-> f, answer |-> "none"]
  BY <1>3, <1>4, Busy DEF Fetch, At
<1>6. work'[w] = [rec EXCEPT !.pc = "tx", !.seen = s, !.left = as, !.next = a]
  BY <1>2, <1>3 DEF TypeOK
<1>7. PICK x : x = [rec EXCEPT !.pc = "tx"]
  OBVIOUS
<1>8. x = [pc |-> "tx", req |-> r, seen |-> q, left |-> l, next |-> n,
           after |-> f, answer |-> "none"]
  BY <1>5, <1>7
<1>9. PICK y : y = [x EXCEPT !.seen = s]
  OBVIOUS
<1>10. y = [pc |-> "tx", req |-> r, seen |-> s, left |-> l, next |-> n,
            after |-> f, answer |-> "none"]
  BY <1>8, <1>9
<1>11. PICK z : z = [y EXCEPT !.left = as]
  OBVIOUS
<1>12. z = [pc |-> "tx", req |-> r, seen |-> s, left |-> as, next |-> n,
            after |-> f, answer |-> "none"]
  BY <1>10, <1>11
<1>13. PICK t : t = [z EXCEPT !.next = a]
  OBVIOUS
<1>14. t = [pc |-> "tx", req |-> r, seen |-> s, left |-> as, next |-> a,
            after |-> f, answer |-> "none"]
  BY <1>12, <1>13
<1>15. work'[w] = t
  BY <1>6, <1>7, <1>9, <1>11, <1>13
<1> QED
  BY <1>1, <1>4, <1>14, <1>15

\* The other steps of a request on its way.
LEMMA TurnedWork ==
  ASSUME TypeOK, NEW w \in Workers, ~ At(w, "idle")
  PROVE  /\ Gate(w) =>
              work'[w] = Turned(w, "gated", work[w].left, work[w].next,
                                work[w].after)
         /\ Insert(w) \/ Update(w) =>
              work'[w] = Turned(w, "updated", {Subject(w)}, work[w].next,
                                work[w].after)
         /\ Log(w) =>
              work'[w] =
                IF Op(w) = "create"
                  THEN Turned(w, "reloaded", work[w].left, work[w].next, "INTAKE")
                  ELSE Turned(w, "logged", work[w].left, work[w].next, None)
         /\ Reload(w) =>
              work'[w] = Turned(w, "reloaded", work[w].left, work[w].next,
                                asset[Subject(w)].status)
         /\ Maintain(w) =>
              work'[w] = Turned(w, "reloaded", work[w].left, work[w].next,
                                work[w].after)
         /\ InTx(w) =>
              \E b : work'[w] = Turned(w, "tx", work[w].left \ {work[w].next}, b,
                                       work[w].after)
         /\ Commit(w) =>
              work'[w] = Turned(w, "reloaded", DOMAIN work[w].seen, work[w].next,
                                work[w].req.to)
<1>1. work \in [Workers -> Works]
  BY DEF TypeOK
<1>2. ASSUME NEW new, work' = [work EXCEPT ![w] = new]
      PROVE  work'[w] = new
  BY <1>1, <1>2
<1>3. ASSUME Gate(w)
      PROVE  work'[w] = Turned(w, "gated", work[w].left, work[w].next, work[w].after)
  <2>1. work'[w] = [work[w] EXCEPT !.pc = "gated"]
    BY <1>1, <1>3 DEF Gate
  <2> QED
    BY <2>1, Turning
<1>4. ASSUME Insert(w) \/ Update(w)
      PROVE  work'[w] = Turned(w, "updated", {Subject(w)}, work[w].next,
                               work[w].after)
  <2>1. PICK l : l = {Subject(w)}
    OBVIOUS
  <2>2. work'[w] = [work[w] EXCEPT !.pc = "updated", !.left = l]
    BY <1>1, <1>4, <2>1 DEF Insert, Update
  <2> QED
    BY <2>1, <2>2, Turning
<1>5. ASSUME Log(w)
      PROVE  work'[w] =
               IF Op(w) = "create"
                 THEN Turned(w, "reloaded", work[w].left, work[w].next, "INTAKE")
                 ELSE Turned(w, "logged", work[w].left, work[w].next, None)
  <2>1. PICK p, f : /\ p = IF Op(w) = "create" THEN "reloaded" ELSE "logged"
                    /\ f = IF Op(w) = "create" THEN "INTAKE" ELSE None
    OBVIOUS
  <2>2. work' = [work EXCEPT ![w].pc = p, ![w].after = f]
    BY <1>5, <2>1 DEF Log
  <2>3. work'[w] = [work[w] EXCEPT !.pc = p, !.after = f]
    BY <1>1, <2>2
  <2>4. work'[w] = Turned(w, p, work[w].left, work[w].next, f)
    BY <2>3, TurningPcAfter
  <2> QED
    BY <2>1, <2>4
<1>6. ASSUME Reload(w)
      PROVE  work'[w] = Turned(w, "reloaded", work[w].left, work[w].next,
                               asset[Subject(w)].status)
  <2>1. PICK f : f = asset[Subject(w)].status
    OBVIOUS
  <2>2. work'[w] = [work[w] EXCEPT !.pc = "reloaded", !.after = f]
    BY <1>1, <1>6, <2>1 DEF Reload
  <2> QED
    BY <2>1, <2>2, TurningPcAfter
<1>7. ASSUME Maintain(w)
      PROVE  work'[w] = Turned(w, "reloaded", work[w].left, work[w].next,
                               work[w].after)
  <2>1. work'[w] = [work[w] EXCEPT !.pc = "reloaded"]
    BY <1>1, <1>7 DEF Maintain
  <2> QED
    BY <2>1, Turning
<1>8. ASSUME InTx(w)
      PROVE  \E b : work'[w] = Turned(w, "tx", work[w].left \ {work[w].next}, b,
                                      work[w].after)
  <2>1. PICK l : l = work[w].left \ {work[w].next}
    OBVIOUS
  <2>2. PICK b : work' = [work EXCEPT ![w].left = l, ![w].next = b]
    BY <1>8, <2>1 DEF InTx
  <2>3. work'[w] = [work[w] EXCEPT !.left = l, !.next = b]
    BY <1>1, <2>2
  <2>4. work'[w] = Turned(w, work[w].pc, l, b, work[w].after)
    BY <2>3, Turning
  <2> QED
    BY <1>8, <2>1, <2>4 DEF InTx, At
<1>9. ASSUME Commit(w)
      PROVE  work'[w] = Turned(w, "reloaded", DOMAIN work[w].seen, work[w].next,
                               work[w].req.to)
  <2>1. PICK p, r, s, n, a, l, t :
          /\ p = work[w].pc /\ r = work[w].req /\ s = work[w].seen
          /\ n = work[w].next /\ a = work[w].after
          /\ l = DOMAIN work[w].seen /\ t = work[w].req.to
    OBVIOUS
  <2>2. PICK x : x = [work[w] EXCEPT !.pc = "reloaded", !.left = l]
    OBVIOUS
  <2>3. x = [pc |-> "reloaded", req |-> r, seen |-> s, left |-> l, next |-> n,
             after |-> a, answer |-> "none"]
    BY <2>1, <2>2, Turning DEF Turned
  <2>4. work'[w] = [work[w] EXCEPT !.pc = "reloaded", !.left = l, !.after = t]
    BY <1>1, <1>9, <2>1 DEF Commit
  <2>5. work'[w] = [x EXCEPT !.after = t]
    BY <2>2, <2>4
  <2>6. [x EXCEPT !.after = t] =
          [pc |-> "reloaded", req |-> r, seen |-> s, left |-> l, next |-> n,
           after |-> t, answer |-> "none"]
    BY <2>3
  <2> QED
    BY <2>1, <2>5, <2>6 DEF Turned
<1> QED
  BY <1>3, <1>4, <1>5, <1>6, <1>7, <1>8, <1>9

\* Such a record's fields.
LEMMA TurnedFields ==
  ASSUME NEW w, NEW pc, NEW left, NEW next, NEW after
  PROVE  /\ Turned(w, pc, left, next, after).pc = pc
         /\ Turned(w, pc, left, next, after).req = work[w].req
         /\ Turned(w, pc, left, next, after).seen = work[w].seen
         /\ Turned(w, pc, left, next, after).left = left
         /\ Turned(w, pc, left, next, after).after = after
  BY DEF Turned

\* An audit entry takes one asset off the list.
LEMMA AuditWork ==
  ASSUME TypeOK, NEW w \in Workers, Audit(w)
  PROVE  \E a \in work[w].left :
           /\ audit' = [audit EXCEPT ![a] =
                          Append(@, [before |-> work[w].seen[a],
                                     after |-> work[w].after])]
           /\ work'[w] = Turned(w, "reloaded", work[w].left \ {a}, work[w].next,
                                work[w].after)
<1>1. PICK a \in work[w].left :
        /\ audit' = [audit EXCEPT ![a] = Append(@, [before |-> work[w].seen[a],
                                                    after |-> work[w].after])]
        /\ work' = [work EXCEPT ![w].left = @ \ {a}]
  BY DEF Audit
<1>2. PICK l : l = work[w].left \ {a}
  OBVIOUS
<1>3. work'[w] = [work[w] EXCEPT !.left = l]
  BY <1>1, <1>2 DEF TypeOK
<1>4. work'[w] = Turned(w, work[w].pc, l, work[w].next, work[w].after)
  BY <1>3, Turning DEF Audit, At
<1> QED
  BY <1>1, <1>2, <1>4 DEF Audit, At

-----------------------------------------------------------------------------
(* Bulk transitions only: the history hangs together *)

\* Whether a history tells of a row.
KnownIn(q, row) == \E m \in DOMAIN q : row = RowOf(q[m])

\* Whether every move in it starts from a row told of before.
Connected(q) ==
  \A n \in DOMAIN q \ {1} :
     \E m \in 1 .. n - 1 : /\ q[m].to = q[n].from
                           /\ Lifecycle!Legal(RowOf(q[m]), q[n].to)

\* The rows a transaction has been validated on are in the histories, even when
\* the assets have left them.
HeldKnown ==
  \A w \in Workers : At(w, "tx") =>
     \A a \in DOMAIN work[w].seen : KnownIn(events[a], work[w].seen[a])

ConnInv == IInv /\ HistoryConnected /\ HeldKnown

\* A history that tells of the row an event starts from can take the event, and
\* then tells of the row the move makes.
LEMMA GrowsConnected ==
  ASSUME NEW q \in Seq(Event), Connected(q), NEW row \in Rows, KnownIn(q, row),
         NEW to, Legal(row, to)
  PROVE  /\ Connected(Append(q, EventOf(row, to)))
         /\ KnownIn(Append(q, EventOf(row, to)), Moved(row, to))
         /\ \A old : KnownIn(q, old) => KnownIn(Append(q, EventOf(row, to)), old)
<1>1. PICK e, p : e = EventOf(row, to) /\ p = Append(q, e)
  OBVIOUS
<1>2. /\ e.from = row.status
      /\ e.to = to
      /\ RowOf(e) = Moved(row, to)
      /\ e \in Event
  <2>1. row # None
    BY ConstantsAssumption
  <2>2. e = [from |-> row.status, to |-> to]
    BY <1>1, <2>1 DEF EventOf
  <2>3. e \in Event
    BY <1>1, EventIsSound
  <2> QED
    BY <2>2, <2>3 DEF RowOf, Moved
<1>3. /\ Len(q) \in Nat
      /\ DOMAIN q = 1 .. Len(q)
      /\ DOMAIN p = 1 .. Len(q) + 1
      /\ p[Len(q) + 1] = e
      /\ \A n \in 1 .. Len(q) : p[n] = q[n]
  BY <1>1, <1>2, AppendProperties, LenProperties
<1>4. PICK k \in DOMAIN q : row = RowOf(q[k])
  BY DEF KnownIn
<1>5. q[k].to = row.status
  BY <1>4 DEF RowOf
<1>6. Connected(p)
  <2> SUFFICES ASSUME NEW n \in DOMAIN p \ {1}
               PROVE  \E m \in 1 .. n - 1 :
                         /\ p[m].to = p[n].from
                         /\ Lifecycle!Legal(RowOf(p[m]), p[n].to)
    BY DEF Connected
  <2>1. CASE n = Len(q) + 1
    <3>1. k \in 1 .. n - 1 /\ p[k] = q[k] /\ p[n] = e
      BY <1>3, <2>1
    <3>2. Lifecycle!Legal(row, to)
      BY LegalIsLegal
    <3>3. p[k].to = p[n].from
      BY <1>2, <1>5, <3>1
    <3>4. Lifecycle!Legal(RowOf(p[k]), p[n].to)
      BY <1>2, <1>4, <3>1, <3>2
    <3> QED
      BY <3>1, <3>3, <3>4
  <2>2. CASE n # Len(q) + 1
    <3>1. n \in DOMAIN q \ {1} /\ p[n] = q[n]
      BY <1>3, <2>2
    <3>2. PICK m \in 1 .. n - 1 : /\ q[m].to = q[n].from
                                  /\ Lifecycle!Legal(RowOf(q[m]), q[n].to)
      BY <3>1 DEF Connected
    <3>3. p[m] = q[m]
      BY <1>3, <3>1
    <3> QED
      BY <3>1, <3>2, <3>3
  <2> QED
    BY <2>1, <2>2
<1>7. KnownIn(p, Moved(row, to))
  BY <1>2, <1>3 DEF KnownIn
<1>8. \A old : KnownIn(q, old) => KnownIn(p, old)
  BY <1>3 DEF KnownIn
<1> QED
  BY <1>1, <1>6, <1>7, <1>8

\* Only the fetch puts rows into a transaction, and only its worker turns.
LEMMA IntoTx ==
  ASSUME TypeOK, NEW w \in Workers,
         \/ \E r \in Requests : Arrive(w, r) \/ TurnAway(w, r)
         \/ Proceed(w)
         \/ Stop(w)
  PROVE  /\ \A v \in Workers \ {w} : work'[v] = work[v]
         /\ work'[w].pc = "tx" =>
              \/ Fetch(w)
              \/ At(w, "tx") /\ work'[w].seen = work[w].seen
<1>1. work \in [Workers -> Works]
  BY DEF TypeOK
<1>2. \A v \in Workers \ {w} : work'[v] = work[v]
  BY <1>1 DEF Arrive, TurnAway, Proceed, Stop, Replay, Gate, Duplicate, Insert,
     Refuse, Update, Log, Reload, Maintain, Fetch, InTx, Commit, Abort, Audit,
     Record, Answer
<1>3. CASE \E r \in Requests : Arrive(w, r)
  BY <1>2, <1>3, ArriveWork
<1>4. ASSUME NEW x, Answer(w, x)
      PROVE  work'[w].pc = "idle"
  BY <1>4, AnsweredIsIdle DEF At
<1>5. CASE \/ \E r \in Requests : TurnAway(w, r)
           \/ Replay(w) \/ Duplicate(w) \/ Refuse(w) \/ Abort(w) \/ Record(w)
           \/ Stop(w)
  <2>1. work'[w].pc = "idle"
    BY <1>4, <1>5 DEF TurnAway, Replay, Duplicate, Refuse, Abort, Record, Stop
  <2> QED
    BY <1>2, <2>1
<1>6. CASE Gate(w) \/ Insert(w) \/ Update(w) \/ Reload(w) \/ Maintain(w) \/ Commit(w)
  <2>1. ~ At(w, "idle")
    BY <1>6 DEF Gate, Insert, Update, Reload, Maintain, Commit, At
  <2>2. CASE Gate(w)
    <3>1. work'[w] = Turned(w, "gated", work[w].left, work[w].next, work[w].after)
      BY <2>1, <2>2, TurnedWork
    <3> QED
      BY <1>2, <3>1, TurnedFields
  <2>3. CASE Insert(w) \/ Update(w)
    <3>1. work'[w] = Turned(w, "updated", {Subject(w)}, work[w].next, work[w].after)
      BY <2>1, <2>3, TurnedWork
    <3> QED
      BY <1>2, <3>1, TurnedFields
  <2>4. CASE Reload(w)
    <3>1. work'[w] = Turned(w, "reloaded", work[w].left, work[w].next,
                            asset[Subject(w)].status)
      BY <2>1, <2>4, TurnedWork
    <3> QED
      BY <1>2, <3>1, TurnedFields
  <2>5. CASE Maintain(w)
    <3>1. work'[w] = Turned(w, "reloaded", work[w].left, work[w].next, work[w].after)
      BY <2>1, <2>5, TurnedWork
    <3> QED
      BY <1>2, <3>1, TurnedFields
  <2>6. CASE Commit(w)
    <3>1. work'[w] = Turned(w, "reloaded", DOMAIN work[w].seen, work[w].next,
                            work[w].req.to)
      BY <2>1, <2>6, TurnedWork
    <3> QED
      BY <1>2, <3>1, TurnedFields
  <2> QED
    BY <1>6, <2>2, <2>3, <2>4, <2>5, <2>6
<1>7. CASE Log(w)
  <2>1. ~ At(w, "idle")
    BY <1>7 DEF Log, At
  <2>2. work'[w] =
          IF Op(w) = "create"
            THEN Turned(w, "reloaded", work[w].left, work[w].next, "INTAKE")
            ELSE Turned(w, "logged", work[w].left, work[w].next, None)
    BY <1>7, <2>1, TurnedWork
  <2>3. work'[w].pc # "tx"
    BY <2>2, TurnedFields
  <2> QED
    BY <1>2, <2>3
<1>8. CASE Audit(w)
  <2>1. PICK a : work'[w] = Turned(w, "reloaded", work[w].left \ {a}, work[w].next,
                                   work[w].after)
    BY <1>8, AuditWork
  <2>2. work'[w].pc # "tx"
    BY <2>1, TurnedFields
  <2> QED
    BY <1>2, <2>2
<1>9. CASE InTx(w)
  <2>1. At(w, "tx") /\ ~ At(w, "idle")
    BY <1>9 DEF InTx, At
  <2>2. PICK b : work'[w] = Turned(w, "tx", work[w].left \ {work[w].next}, b,
                                   work[w].after)
    BY <1>9, <2>1, TurnedWork
  <2>3. work'[w].seen = work[w].seen
    BY <2>2, TurnedFields
  <2> QED
    BY <1>2, <2>1, <2>3
<1>10. CASE Fetch(w)
  BY <1>2, <1>10
<1> QED
  BY <1>3, <1>5, <1>6, <1>7, <1>8, <1>9, <1>10 DEF Proceed

\* A commit adds to each of its assets' histories the event it was validated
\* for, and makes the row of it.
LEMMA CommitConnects ==
  ASSUME ConnInv, NEW w \in Workers, Commit(w)
  PROVE  /\ HistoryConnected'
         /\ \A a \in Assets : \A row :
              KnownIn(events[a], row) => KnownIn(events'[a], row)
<1>1. TypeOK /\ Ready(w) /\ At(w, "tx") /\ ~ At(w, "idle")
  BY DEF ConnInv, IInv, Commit, At
<1>2. PICK as, to, seen : /\ as = DOMAIN work[w].seen
                          /\ to = work[w].req.to
                          /\ seen = work[w].seen
  OBVIOUS
<1>3. /\ asset' = [a \in Assets |-> IF a \in as THEN Moved(seen[a], to)
                                    ELSE asset[a]]
      /\ events' = [a \in Assets |->
                      IF a \in as THEN Append(events[a], EventOf(seen[a], to))
                                  ELSE events[a]]
  BY <1>2 DEF Commit
<1>4. \A a \in as : seen[a] \in Rows /\ Legal(seen[a], to)
  BY <1>1, <1>2 DEF Ready
<1>5. \A a \in as : KnownIn(events[a], seen[a])
  BY <1>1, <1>2 DEF ConnInv, HeldKnown
<1>6. ASSUME NEW a \in Assets
      PROVE  /\ asset'[a] # None => KnownIn(events'[a], asset'[a])
             /\ Connected(events'[a])
             /\ \A row : KnownIn(events[a], row) => KnownIn(events'[a], row)
  <2>1. /\ asset[a] # None => KnownIn(events[a], asset[a])
        /\ Connected(events[a])
    BY DEF ConnInv, HistoryConnected, Connected, KnownIn
  <2>2. CASE a \in as
    <3>1. /\ asset'[a] = Moved(seen[a], to)
          /\ events'[a] = Append(events[a], EventOf(seen[a], to))
      BY <1>3, <2>2
    <3>2. events[a] \in Seq(Event)
      BY <1>1 DEF TypeOK
    <3> QED
      BY <1>4, <1>5, <2>1, <2>2, <3>1, <3>2, GrowsConnected
  <2>3. CASE a \notin as
    BY <1>3, <2>1, <2>3
  <2> QED
    BY <2>2, <2>3
<1>7. HistoryConnected'
  BY <1>6 DEF HistoryConnected, Connected, KnownIn
<1> QED
  BY <1>6, <1>7

\* However bulk transitions overlap, fail, or abort one another in a deadlock,
\* and however old the rows they were validated on, every move in an asset's
\* history starts from a row an earlier event left it in, and the asset's row,
\* with the state it goes back to from a count, is one its history tells of.
THEOREM HistoryConnectedHolds ==
  ASSUME Ops \cap {"create", "transition"} = {}
  PROVE  Spec => []HistoryConnected
<1>1. Init => ConnInv
  <2> SUFFICES ASSUME Init
               PROVE  ConnInv
    OBVIOUS
  <2>1. IInv
    BY InitIInv
  <2>2. HeldKnown
    BY DEF Init, Idle, HeldKnown, At
  <2>3. ASSUME NEW a \in Assets
        PROVE  /\ asset[a] # None => KnownIn(events[a], asset[a])
               /\ Connected(events[a])
    <3>1. PICK row, e : row = asset[a] /\ e = [from |-> Before(row), to |-> row.status]
      OBVIOUS
    <3>2. row \in Rows \cup {None} /\ events[a] = Past(row)
      BY <2>1, <3>1 DEF Init, IInv, TypeOK
    <3>3. CASE row = None
      BY <3>1, <3>2, <3>3 DEF Past, Connected
    <3>4. CASE row # None
      <4>1. events[a] = <<e>> /\ row \in Rows
        BY <3>1, <3>2, <3>4 DEF Past
      <4>2. row = RowOf(e)
        <5>1. row = [status |-> row.status, prior |-> row.prior]
          BY <4>1, LifecycleDefs
        <5>2. RowOf(e) = [status |-> row.status,
                         prior |-> IF row.status = "INVENTORY_COUNT"
                                     THEN Before(row) ELSE None]
          BY <3>1 DEF RowOf
        <5>3. row.prior = IF row.status = "INVENTORY_COUNT"
                            THEN Before(row) ELSE None
          BY <4>1, LifecycleDefs, ConstantsAssumption DEF Before
        <5> QED
          BY <5>1, <5>2, <5>3
      <4>3. DOMAIN <<e>> = {1} /\ <<e>>[1] = e
        OBVIOUS
      <4> QED
        BY <3>1, <4>1, <4>2, <4>3 DEF KnownIn, Connected
    <3> QED
      BY <3>3, <3>4
  <2>4. HistoryConnected
    BY <2>3 DEF HistoryConnected, Connected, KnownIn
  <2> QED
    BY <2>1, <2>2, <2>4 DEF ConnInv
<1>2. ConnInv /\ [Next]_vars => ConnInv'
  <2> SUFFICES ASSUME ConnInv, [Next]_vars
               PROVE  ConnInv'
    OBVIOUS
  <2>1. IInv /\ IInv' /\ TypeOK
    BY InductiveIInv DEF ConnInv, IInv
  <2>2. CASE UNCHANGED vars
    BY <2>1, <2>2 DEF vars, ConnInv, HistoryConnected, HeldKnown, At
  <2>3. CASE Rest
    BY <2>1, <2>3 DEF Rest, vars, ConnInv, HistoryConnected, HeldKnown, At
  <2>4. ASSUME NEW w \in Workers,
               \/ \E r \in Requests : Arrive(w, r) \/ TurnAway(w, r)
               \/ Proceed(w)
               \/ Stop(w)
        PROVE  ConnInv'
    <3>1. /\ HistoryConnected'
          /\ \A a \in Assets : \A row :
               KnownIn(events[a], row) => KnownIn(events'[a], row)
      <4>1. CASE UNCHANGED <<asset, events>>
        BY <4>1 DEF ConnInv, HistoryConnected
      <4>2. CASE Commit(w)
        BY <4>2, CommitConnects
      <4>3. ~ Insert(w) /\ ~ Update(w) /\ ~ Log(w)
        BY <2>1, BulkOnly
      <4> QED
        BY <2>4, <4>1, <4>2, <4>3
        DEF Proceed, Arrive, TurnAway, Replay, Gate, Duplicate, Refuse, Reload,
            Maintain, Fetch, InTx, Abort, Audit, Record, Stop
    <3>2. ASSUME NEW v \in Workers, At(v, "tx")',
                 NEW a \in DOMAIN work'[v].seen
          PROVE  KnownIn(events'[a], work'[v].seen[a])
      <4>1. CASE At(v, "tx") /\ work'[v].seen = work[v].seen
        <5>1. a \in Assets
          BY <2>1, <3>2, <4>1, Busy DEF At
        <5>2. KnownIn(events[a], work[v].seen[a])
          BY <3>2, <4>1 DEF ConnInv, HeldKnown
        <5> QED
          BY <3>1, <4>1, <5>1, <5>2
      <4>2. CASE v = w /\ Fetch(w)
        <5>1. work'[w].seen = [b \in Chosen(work[w].req) |-> asset[b]]
          BY <2>1, <4>2, FetchWork
        <5>2. a \in Chosen(work[w].req)
          BY <3>2, <4>2, <5>1
        <5>3. a \in Assets /\ asset[a] # None
          BY <2>1, <4>2, <5>2, Busy DEF Chosen, Fetch, At
        <5>4. KnownIn(events[a], asset[a])
          BY <5>3 DEF ConnInv, HistoryConnected, KnownIn
        <5> QED
          BY <3>1, <4>2, <5>1, <5>2, <5>3, <5>4
      <4>3. v # w => work'[v] = work[v]
        BY <2>1, <2>4, IntoTx
      <4>4. v = w => Fetch(w) \/ (At(w, "tx") /\ work'[w].seen = work[w].seen)
        BY <2>1, <2>4, <3>2, IntoTx DEF At
      <4> QED
        BY <3>2, <4>1, <4>2, <4>3, <4>4 DEF At
    <3>3. HeldKnown'
      BY <3>2 DEF HeldKnown
    <3> QED
      BY <2>1, <3>1, <3>3 DEF ConnInv
  <2> QED
    BY <2>2, <2>3, <2>4 DEF Next
<1>3. ConnInv => HistoryConnected
  BY DEF ConnInv
<1> QED
  BY <1>1, <1>2, <1>3, PTL DEF Spec

-----------------------------------------------------------------------------
(* Requests that do not overlap: the lifecycle, and retries *)

\* What worker w has loaded is the row until it writes, and what it has found no
\* response for has none until it answers.
Current(w) ==
  LET r    == work[w].req
      seen == work[w].seen
  IN  /\ (At(w, "arrived") \/ At(w, "gated")) /\ Loads(r) =>
           \A a \in r.on : seen[a] = asset[a]
      /\ At(w, "tx") => \A a \in DOMAIN seen : seen[a] = asset[a]
      /\ At(w, "gated") \/ At(w, "tx") \/ At(w, "updated") \/ At(w, "logged")
           \/ At(w, "reloaded") => Key(r) \notin recorded

\* A step of the only worker keeps this so.
LEMMA StepStaysCurrent ==
  ASSUME OneAtATime
  PROVE  IInv /\ (\A w \in Workers : Current(w)) /\ [Next]_vars
           => \A w \in Workers : Current(w)'
<1> SUFFICES ASSUME IInv, \A w \in Workers : Current(w), [Next]_vars,
                    NEW w \in Workers
             PROVE  Current(w)'
  OBVIOUS
<1>1. /\ TypeOK
      /\ Ready(w)
      /\ Current(w)
      /\ \A v \in Workers : v = w
  BY DEF IInv, OneAtATime
<1>2. CASE UNCHANGED vars
  BY <1>1, <1>2 DEF vars, Current, At, Loads
<1>3. ASSUME NEW a, Answer(w, a)
      PROVE  Current(w)'
  BY <1>1, <1>3, AnsweredIsIdle DEF Current, At
<1>4. ASSUME NEW r \in Requests, Arrive(w, r)
      PROVE  Current(w)'
  <2>1. /\ work'[w].pc = "arrived"
        /\ work'[w].req = r
        /\ Loads(r) => work'[w].seen = [a \in r.on |-> asset[a]]
    <3>1. Loads(r) => r.op # "bulk"
      BY DEF Loads
    <3>2. /\ work'[w].pc = "arrived"
          /\ work'[w].req = r
          /\ work'[w].seen = [a \in IF r.op = "bulk" THEN {} ELSE r.on |->
                                IF Loads(r) THEN asset[a] ELSE None]
      BY <1>1, <1>4, ArriveWork
    <3> QED
      BY <3>1, <3>2
  <2>2. asset' = asset
    BY <1>4 DEF Arrive
  <2> QED
    BY <2>1, <2>2 DEF Current, At
<1>5. CASE Fetch(w)
  <2>1. /\ work'[w].pc = "tx"
        /\ work'[w].req = work[w].req
        /\ work'[w].seen = [b \in Chosen(work[w].req) |-> asset[b]]
    BY <1>1, <1>5, FetchWork
  <2>2. asset' = asset /\ recorded' = recorded /\ At(w, "gated")
    BY <1>5 DEF Fetch
  <2> QED
    BY <1>1, <2>1, <2>2 DEF Current, At
<1>6. CASE Gate(w)
  <2>1. /\ work'[w].pc = "gated"
        /\ work'[w].req = work[w].req
        /\ work'[w].seen = work[w].seen
    <3>1. ~ At(w, "idle")
      BY <1>6 DEF Gate, At
    <3>2. work'[w] = Turned(w, "gated", work[w].left, work[w].next, work[w].after)
      BY <1>1, <1>6, <3>1, TurnedWork
    <3> QED
      BY <3>2, TurnedFields
  <2> QED
    BY <1>1, <1>6, <2>1 DEF Current, At, Gate
<1>7. CASE InTx(w)
  <2>1. /\ work'[w].pc = "tx"
        /\ work'[w].req = work[w].req
        /\ work'[w].seen = work[w].seen
    <3>1. ~ At(w, "idle")
      BY <1>7 DEF InTx, At
    <3>2. PICK b : work'[w] = Turned(w, "tx", work[w].left \ {work[w].next}, b,
                                     work[w].after)
      BY <1>1, <1>7, <3>1, TurnedWork
    <3> QED
      BY <3>2, TurnedFields
  <2> QED
    BY <1>1, <1>7, <2>1 DEF Current, At, InTx
<1>8. ASSUME Insert(w) \/ Update(w) \/ Log(w) \/ Reload(w) \/ Maintain(w)
             \/ Commit(w) \/ Audit(w)
      PROVE  Current(w)'
  <2>1. /\ ~ At(w, "idle")
        /\ At(w, "gated") \/ At(w, "tx") \/ At(w, "updated") \/ At(w, "logged")
             \/ At(w, "reloaded")
        /\ recorded' = recorded
    BY <1>8 DEF Insert, Update, Log, Reload, Maintain, Commit, Audit, At
  <2>2. /\ work'[w].pc \in {"updated", "logged", "reloaded"}
        /\ work'[w].req = work[w].req
    <3>1. CASE Insert(w) \/ Update(w)
      <4>1. work'[w] = Turned(w, "updated", {Subject(w)}, work[w].next, work[w].after)
        BY <1>1, <2>1, <3>1, TurnedWork
      <4> QED
        BY <4>1, TurnedFields
    <3>2. CASE Log(w)
      <4>1. \/ work'[w] = Turned(w, "reloaded", work[w].left, work[w].next, "INTAKE")
            \/ work'[w] = Turned(w, "logged", work[w].left, work[w].next, None)
        BY <1>1, <2>1, <3>2, TurnedWork
      <4> QED
        BY <4>1, TurnedFields
    <3>3. CASE Reload(w)
      <4>1. work'[w] = Turned(w, "reloaded", work[w].left, work[w].next,
                               asset[Subject(w)].status)
        BY <1>1, <2>1, <3>3, TurnedWork
      <4> QED
        BY <4>1, TurnedFields
    <3>4. CASE Maintain(w)
      <4>1. work'[w] = Turned(w, "reloaded", work[w].left, work[w].next,
                               work[w].after)
        BY <1>1, <2>1, <3>4, TurnedWork
      <4> QED
        BY <4>1, TurnedFields
    <3>5. CASE Commit(w)
      <4>1. work'[w] = Turned(w, "reloaded", DOMAIN work[w].seen, work[w].next,
                               work[w].req.to)
        BY <1>1, <2>1, <3>5, TurnedWork
      <4> QED
        BY <4>1, TurnedFields
    <3>6. CASE Audit(w)
      <4>1. PICK a : work'[w] = Turned(w, "reloaded", work[w].left \ {a},
                                       work[w].next, work[w].after)
        BY <1>1, <3>6, AuditWork
      <4> QED
        BY <4>1, TurnedFields
    <3> QED
      BY <1>8, <3>1, <3>2, <3>3, <3>4, <3>5, <3>6
  <2> QED
    BY <1>1, <2>1, <2>2 DEF Current, At
<1> QED
  BY <1>1, <1>2, <1>3, <1>4, <1>5, <1>6, <1>7, <1>8
  DEF Next, Proceed, Rest, TurnAway, Replay, Duplicate, Refuse, Abort, Record,
      Stop

\* It holds at first.
LEMMA InitCurrent == Init => \A w \in Workers : Current(w)
  BY DEF Init, Current, At, Idle

\* A creation is one.
LEMMA InsertIsStep ==
  ASSUME IInv, NEW w \in Workers, Insert(w)
  PROVE  Lifecycle!Next
<1>1. PICK a \in Assets : a = Subject(w)
  BY Busy, SubjectIs DEF IInv, Insert, At, Op
<1>2. Lifecycle!Create(a)
  BY <1>1 DEF Insert, Lifecycle!Create
<1> QED
  BY <1>2 DEF Lifecycle!Next

\* So is a single transition of the row that was loaded.
LEMMA UpdateIsStep ==
  ASSUME IInv, NEW w \in Workers, Current(w), Update(w)
  PROVE  Lifecycle!Next
<1>1. /\ TypeOK /\ Ready(w) /\ ~ At(w, "idle")
      /\ At(w, "gated") /\ Op(w) = "transition"
  BY DEF IInv, Update, At
<1>2. PICK a, to : /\ a \in Assets /\ a = Subject(w) /\ work[w].req.on = {a}
                   /\ to = work[w].req.to
  BY <1>1, Busy, SubjectIs
<1>3. work[w].seen[a] = asset[a] /\ asset[a] \in Rows
  BY <1>1, <1>2 DEF Current, Ready, Loads, Op
<1>4. Legal(asset[a], to)
  BY <1>2, <1>3 DEF Update
<1>5. /\ to \in Statuses
      /\ Lifecycle!Legal(asset[a], to)
      /\ asset[a] # None
  BY <1>3, <1>4, MovedIsRow, LegalIsLegal, ConstantsAssumption
<1>6. asset' = [asset EXCEPT ![a] = Moved(asset[a], to)]
  BY <1>2, <1>3 DEF Update
<1>7. asset' = [b \in Assets |-> IF b \in {a} THEN Lifecycle!Moved(asset[b], to)
                                 ELSE asset[b]]
  BY <1>1, <1>3, <1>4, <1>6, LegalIsLegal DEF TypeOK
<1>8. Lifecycle!Move({a}, to)
  BY <1>5, <1>7 DEF Lifecycle!Move
<1> QED
  BY <1>2, <1>5, <1>8 DEF Lifecycle!Next, Statuses

\* And a bulk transition is one request of the lifecycle.
LEMMA CommitIsStep ==
  ASSUME IInv, NEW w \in Workers, Current(w), Commit(w)
  PROVE  Lifecycle!Next
<1>1. /\ TypeOK /\ Ready(w) /\ ~ At(w, "idle")
      /\ At(w, "tx") /\ work[w].req.op = "bulk"
  BY DEF IInv, Commit, At, Ready
<1>2. PICK as, to :
        /\ as \in SUBSET Assets /\ as = DOMAIN work[w].seen
        /\ to = work[w].req.to
  BY <1>1, Busy
<1>3. to \in Statuses
  BY <1>1, <1>2 DEF Ready
<1>4. ASSUME NEW a \in as
      PROVE  /\ work[w].seen[a] = asset[a]
             /\ asset[a] \in Rows
             /\ Legal(asset[a], to)
  BY <1>1, <1>2 DEF Current, Ready
<1>5. ASSUME NEW a \in as
      PROVE  /\ asset[a] # None
             /\ Lifecycle!Legal(asset[a], to)
             /\ Moved(work[w].seen[a], to) = Lifecycle!Moved(asset[a], to)
  BY <1>4, LegalIsLegal, ConstantsAssumption
<1>6. asset' = [a \in Assets |-> IF a \in as THEN Moved(work[w].seen[a], to)
                                 ELSE asset[a]]
  BY <1>2 DEF Commit
<1>7. asset' = [a \in Assets |-> IF a \in as THEN Lifecycle!Moved(asset[a], to)
                                 ELSE asset[a]]
  BY <1>5, <1>6
<1>8. Lifecycle!Move(as, to)
  BY <1>5, <1>7 DEF Lifecycle!Move
<1> QED
  BY <1>2, <1>3, <1>8 DEF Lifecycle!Next, Statuses

\* As long as requests do not overlap, the handlers implement the lifecycle
\* their users are told of, failures included: a row is written from what was
\* loaded of it several statements before (assets.rs, apply_transition and
\* bulk_transition), and with overlaps nothing says it still is that row.
THEOREM LifecycleImplemented ==
  ASSUME OneAtATime
  PROVE  Spec => ImplementsLifecycle
<1>1. Init => Lifecycle!Init
  BY DEF Init, Lifecycle!Init
<1>2. IInv /\ (\A w \in Workers : Current(w)) /\ [Next]_vars
        => (\A w \in Workers : Current(w))'
  BY StepStaysCurrent
<1>3. IInv /\ (\A w \in Workers : Current(w)) /\ [Next]_vars
        => [Lifecycle!Next]_asset
  <2> SUFFICES ASSUME IInv, \A w \in Workers : Current(w), [Next]_vars
               PROVE  Lifecycle!Next \/ UNCHANGED asset
    OBVIOUS
  <2>1. ASSUME NEW w \in Workers, Insert(w) \/ Update(w) \/ Commit(w)
        PROVE  Lifecycle!Next
    BY <2>1, InsertIsStep, UpdateIsStep, CommitIsStep
  <2> QED
    BY <2>1
    DEF Next, Proceed, Rest, vars, Arrive, TurnAway, Replay, Gate, Duplicate,
        Refuse, Log, Reload, Maintain, Fetch, InTx, Abort, Audit, Record, Stop
<1> QED
  BY <1>1, <1>2, <1>3, InitCurrent, Invariance, PTL
  DEF Spec, ImplementsLifecycle, Lifecycle!Spec

\* A request whose response is on record is never refused for the state its own
\* first execution left behind: single transitions and creations look at the
\* row's state after the gate (assets.rs).
THEOREM RetriesReplayed ==
  ASSUME OneAtATime
  PROVE  Spec => RetryIsReplayed
<1>1. IInv /\ (\A w \in Workers : Current(w)) /\ [Next]_vars
        => (\A w \in Workers : Current(w))'
  BY StepStaysCurrent
<1>2. (\A w \in Workers : Current(w)) /\ [Next]_vars
        => [\A w \in Workers :
              Refuse(w) \/ Duplicate(w) => Key(work[w].req) \notin recorded]_vars
  BY DEF Current, Refuse, Duplicate
<1> QED
  BY <1>1, <1>2, InitCurrent, Invariance, PTL DEF Spec, RetryIsReplayed

-----------------------------------------------------------------------------
(* Requests that do not overlap: maintenance *)

\* The keys on record for maintenance of a, and the request that has inserted
\* its record and is to put its key there.
Kept(a) == {k \in recorded : k[2] = "maintain" /\ k[3] = {a}}

Noting(w, a) ==
  At(w, "reloaded") /\ Op(w) = "maintain" /\ work[w].req.on = {a}

Noted(a) == \E w \in Workers : Noting(w, a)

\* Each maintenance record has its key on record, or will have.
Upkept ==
  /\ IsFiniteSet(recorded)
  /\ \A a \in Assets :
        upkeep[a] = Cardinality(Kept(a)) + IF Noted(a) THEN 1 ELSE 0

\* A step that neither inserts such a record nor ends a request of the kind.
LEMMA SameUpkept ==
  ASSUME OneAtATime, Upkept, NEW w \in Workers, UNCHANGED <<upkeep, recorded>>,
         \A a \in Assets : Noting(w, a)' <=> Noting(w, a)
  PROVE  Upkept'
<1>1. \A v \in Workers : v = w
  BY DEF OneAtATime
<1>2. \A a \in Assets : Noted(a)' <=> Noted(a)
  BY <1>1 DEF Noted
<1>3. \A a \in Assets : Kept(a)' = Kept(a)
  BY DEF Kept
<1> QED
  BY <1>2, <1>3 DEF Upkept

\* The record is inserted.
LEMMA MaintainUpkept ==
  ASSUME OneAtATime, IInv, Upkept, NEW w \in Workers, Maintain(w)
  PROVE  Upkept'
<1>1. /\ TypeOK /\ ~ At(w, "idle") /\ At(w, "gated") /\ Op(w) = "maintain"
      /\ \A v \in Workers : v = w
  BY DEF IInv, Maintain, At, OneAtATime
<1>2. PICK a \in Assets : a = Subject(w) /\ work[w].req.on = {a}
  BY <1>1, Busy, SubjectIs
<1>3. work'[w].pc = "reloaded" /\ work'[w].req = work[w].req
  <2>1. work'[w] = Turned(w, "reloaded", work[w].left, work[w].next,
                          work[w].after)
    BY <1>1, TurnedWork
  <2> QED
    BY <2>1, TurnedFields
<1>4. Noting(w, a)' /\ \A b \in Assets : ~ Noting(w, b)
  BY <1>1, <1>2, <1>3 DEF Noting, At, Op
<1>5. \A b \in Assets \ {a} : ~ Noting(w, b)'
  BY <1>2, <1>3 DEF Noting
<1>6. /\ \A b \in Assets : ~ Noted(b)
      /\ Noted(a)'
      /\ \A b \in Assets \ {a} : ~ Noted(b)'
  BY <1>1, <1>4, <1>5 DEF Noted
<1>7. recorded' = recorded /\ \A b \in Assets : Kept(b)' = Kept(b)
  BY DEF Maintain, Kept
<1>8. upkeep' = [upkeep EXCEPT ![a] = @ + 1] /\ upkeep \in [Assets -> Nat]
  BY <1>1, <1>2 DEF Maintain, TypeOK
<1>9. upkeep'[a] = upkeep[a] + 1 /\ \A b \in Assets \ {a} : upkeep'[b] = upkeep[b]
  BY <1>8
<1>10. \A b \in Assets : upkeep[b] = Cardinality(Kept(b))
  <2>1. \A b \in Assets : Cardinality(Kept(b)) \in Nat
    BY FS_Subset, FS_CardinalityType DEF Upkept, Kept
  <2> QED
    BY <1>6, <2>1 DEF Upkept
<1>11. ASSUME NEW b \in Assets
       PROVE  upkeep'[b] = Cardinality(Kept(b)') + IF Noted(b)' THEN 1 ELSE 0
  <2>1. Cardinality(Kept(b)) \in Nat
    BY <1>8, <1>10
  <2>2. CASE b = a
    BY <1>6, <1>7, <1>9, <1>10, <2>1, <2>2
  <2>3. CASE b # a
    BY <1>6, <1>7, <1>9, <1>10, <2>1, <2>3
  <2> QED
    BY <2>2, <2>3
<1> QED
  BY <1>7, <1>11 DEF Upkept

\* A response is stored, under a key that was not on record.
LEMMA RecordUpkept ==
  ASSUME OneAtATime, IInv, Upkept, NEW w \in Workers, Current(w), Record(w)
  PROVE  Upkept'
<1>1. /\ TypeOK /\ ~ At(w, "idle") /\ At(w, "reloaded")
      /\ \A v \in Workers : v = w
  BY DEF IInv, Record, At, OneAtATime
<1>2. PICK r, key : /\ r = work[w].req
                    /\ key = Key(r)
  OBVIOUS
<1>3. /\ recorded' = recorded \cup {key}
      /\ key \notin recorded
      /\ upkeep' = upkeep
      /\ At(w, "idle")'
  BY <1>1, <1>2, AnsweredIsIdle DEF Record, Current
<1>4. IsFiniteSet(recorded) /\ IsFiniteSet(recorded')
  BY <1>3, FS_AddElement DEF Upkept
<1>5. \A a \in Assets : ~ Noted(a)'
  BY <1>1, <1>3 DEF Noted, Noting, At
<1>6. r \in Requests /\ key[2] = r.op
      /\ (r.op = "maintain" => key[3] = r.on)
  BY <1>1, <1>2, Busy DEF Key
<1>7. ASSUME NEW a \in Assets
      PROVE  upkeep'[a] = Cardinality(Kept(a)')
  <2>1. Kept(a)' = {k \in recorded' : k[2] = "maintain" /\ k[3] = {a}}
    BY DEF Kept
  <2>2. IsFiniteSet(Kept(a)) /\ Cardinality(Kept(a)) \in Nat
    BY <1>4, FS_Subset, FS_CardinalityType DEF Kept
  <2>3. CASE r.op = "maintain" /\ r.on = {a}
    <3>1. Kept(a)' = Kept(a) \cup {key} /\ key \notin Kept(a)
      BY <1>3, <1>6, <2>1, <2>3 DEF Kept
    <3>2. Cardinality(Kept(a)') = Cardinality(Kept(a)) + 1
      BY <2>2, <3>1, FS_AddElement
    <3>3. Noting(w, a)
      BY <1>1, <1>2, <2>3 DEF Noting, Op
    <3>4. Noted(a)
      BY <3>3 DEF Noted
    <3> QED
      BY <1>3, <3>2, <3>4 DEF Upkept
  <2>4. CASE ~ (r.op = "maintain" /\ r.on = {a})
    <3>1. Kept(a)' = Kept(a)
      BY <1>3, <1>6, <2>1, <2>4 DEF Kept
    <3>2. ~ Noted(a)
      BY <1>1, <1>2, <2>4 DEF Noted, Noting, Op
    <3> QED
      BY <1>3, <2>2, <3>1, <3>2 DEF Upkept
  <2> QED
    BY <2>3, <2>4
<1>8. \A a \in Assets : Cardinality(Kept(a)') \in Nat
  BY <1>1, <1>3, <1>7 DEF TypeOK
<1> QED
  BY <1>4, <1>5, <1>7, <1>8 DEF Upkept

\* The other steps.
LEMMA NotNoting ==
  ASSUME IInv, NEW w \in Workers, NEW a \in Assets,
         \/ \E r \in Requests : Arrive(w, r) \/ TurnAway(w, r)
         \/ Replay(w) \/ Gate(w) \/ Duplicate(w) \/ Insert(w) \/ Refuse(w)
         \/ Update(w) \/ Log(w) \/ Reload(w) \/ Fetch(w) \/ InTx(w) \/ Commit(w)
         \/ Abort(w)
  PROVE  ~ Noting(w, a) /\ ~ Noting(w, a)'
<1>1. TypeOK /\ Ready(w)
  BY DEF IInv
<1>2. ~ Noting(w, a)
  BY DEF Noting, Arrive, TurnAway, Replay, Gate, Duplicate, Insert, Refuse,
         Update, Log, Reload, Fetch, InTx, Commit, Abort, Deadlocked, At
<1>3. ASSUME NEW x, Answer(w, x)
      PROVE  ~ Noting(w, a)'
  BY <1>1, <1>3, AnsweredIsIdle DEF Noting, At
<1>4. ASSUME NEW r \in Requests, Arrive(w, r)
      PROVE  ~ Noting(w, a)'
  <2>1. work'[w].pc = "arrived"
    BY <1>1, <1>4, ArriveWork
  <2>2. ~ At(w, "reloaded")'
    BY <2>1 DEF At
  <2> QED
    BY <2>2 DEF Noting
<1>5. CASE Fetch(w)
  <2>1. work'[w].pc = "tx"
    BY <1>1, <1>5, FetchWork
  <2> QED
    BY <1>2, <2>1 DEF Noting, At
<1>6. CASE Gate(w)
  <2>1. work'[w] = Turned(w, "gated", work[w].left, work[w].next, work[w].after)
    BY <1>1, <1>6, TurnedWork DEF Gate, At
  <2>2. work'[w].pc # "reloaded"
    BY <2>1, TurnedFields
  <2> QED
    BY <1>2, <2>2 DEF Noting, At
<1>7. CASE Insert(w) \/ Update(w)
  <2>1. work'[w] = Turned(w, "updated", {Subject(w)}, work[w].next, work[w].after)
    BY <1>1, <1>7, TurnedWork DEF Insert, Update, At
  <2>2. work'[w].pc # "reloaded"
    BY <2>1, TurnedFields
  <2> QED
    BY <1>2, <2>2 DEF Noting, At
<1>8. CASE Log(w)
  <2>1. ~ At(w, "idle") /\ work[w].req.op \in {"create", "transition"}
    BY <1>1, <1>8 DEF Log, At, Ready
  <2>2. \/ work'[w] = Turned(w, "reloaded", work[w].left, work[w].next, "INTAKE")
        \/ work'[w] = Turned(w, "logged", work[w].left, work[w].next, None)
    BY <1>1, <1>8, <2>1, TurnedWork
  <2>3. work'[w].req = work[w].req
    BY <2>2, TurnedFields
  <2> QED
    BY <2>1, <2>3 DEF Noting, Op
<1>9. CASE Reload(w)
  <2>1. ~ At(w, "idle") /\ work[w].req.op = "transition"
    BY <1>1, <1>9 DEF Reload, At, Ready
  <2>2. work'[w] = Turned(w, "reloaded", work[w].left, work[w].next,
                          asset[Subject(w)].status)
    BY <1>1, <1>9, <2>1, TurnedWork
  <2>3. work'[w].req = work[w].req
    BY <2>2, TurnedFields
  <2> QED
    BY <2>1, <2>3 DEF Noting, Op
<1>10. CASE InTx(w)
  <2>1. PICK b : work'[w] = Turned(w, "tx", work[w].left \ {work[w].next}, b,
                                   work[w].after)
    BY <1>1, <1>10, TurnedWork DEF InTx, At
  <2>2. work'[w].pc # "reloaded"
    BY <2>1, TurnedFields
  <2> QED
    BY <1>2, <2>2 DEF Noting, At
<1>11. CASE Commit(w)
  <2>1. ~ At(w, "idle") /\ work[w].req.op = "bulk"
    BY <1>1, <1>11 DEF Commit, At, Ready
  <2>2. work'[w] = Turned(w, "reloaded", DOMAIN work[w].seen, work[w].next,
                          work[w].req.to)
    BY <1>1, <1>11, <2>1, TurnedWork
  <2>3. work'[w].req = work[w].req
    BY <2>2, TurnedFields
  <2> QED
    BY <2>1, <2>3 DEF Noting, Op
<1> QED
  BY <1>2, <1>3, <1>4, <1>5, <1>6, <1>7, <1>8, <1>9, <1>10, <1>11
  DEF TurnAway, Replay, Duplicate, Refuse, Abort

\* As long as requests do not overlap and nothing fails, an asset has as many
\* maintenance records as there are maintenance requests on record for it,
\* however often each was retried (assets.rs, create_maintenance).
THEOREM UpkeepHolds ==
  ASSUME OneAtATime, MayFail = FALSE
  PROVE  Spec => []UpkeepOnce
<1>1. Init => Upkept
  <2> SUFFICES ASSUME Init PROVE Upkept
    OBVIOUS
  <2>1. recorded = {} /\ \A a \in Assets : Kept(a) = {} /\ upkeep[a] = 0
    BY DEF Init, Kept
  <2>2. \A a \in Assets : ~ Noted(a)
    BY DEF Init, Noted, Noting, At, Idle
  <2> QED
    BY <2>1, <2>2, FS_EmptySet DEF Upkept
<1>2. IInv /\ (\A w \in Workers : Current(w)) /\ [Next]_vars
        => (\A w \in Workers : Current(w))'
  BY StepStaysCurrent
<1>3. IInv /\ (\A w \in Workers : Current(w)) /\ Upkept /\ [Next]_vars => Upkept'
  <2> SUFFICES ASSUME IInv, \A w \in Workers : Current(w), Upkept, [Next]_vars
               PROVE  Upkept'
    OBVIOUS
  <2>1. CASE UNCHANGED vars
    BY <2>1 DEF vars, Upkept, Kept, Noted, Noting, At, Op
  <2>2. ASSUME NEW w \in Workers, Maintain(w)
        PROVE  Upkept'
    BY <2>2, MaintainUpkept
  <2>3. ASSUME NEW w \in Workers, Record(w)
        PROVE  Upkept'
    BY <2>3, RecordUpkept
  <2>4. ASSUME NEW w \in Workers, Audit(w)
        PROVE  Upkept'
    <3>1. /\ At(w, "reloaded")
          /\ UNCHANGED <<upkeep, recorded>>
      BY <2>4 DEF Audit
    <3>2. PICK a : work'[w] = Turned(w, "reloaded", work[w].left \ {a},
                                     work[w].next, work[w].after)
      BY <2>4, AuditWork DEF IInv
    <3>3. work'[w].pc = "reloaded" /\ work'[w].req = work[w].req
      BY <3>2, TurnedFields
    <3> QED
      BY <3>1, <3>3, SameUpkept DEF Noting, At, Op
  <2>5. ASSUME NEW w \in Workers,
               \/ \E r \in Requests : Arrive(w, r) \/ TurnAway(w, r)
               \/ Replay(w) \/ Gate(w) \/ Duplicate(w) \/ Insert(w) \/ Refuse(w)
               \/ Update(w) \/ Log(w) \/ Reload(w) \/ Fetch(w) \/ InTx(w)
               \/ Commit(w) \/ Abort(w)
        PROVE  Upkept'
    <3>1. UNCHANGED <<upkeep, recorded>>
      BY <2>5
      DEF Arrive, TurnAway, Replay, Gate, Duplicate, Insert, Refuse, Update, Log,
          Reload, Fetch, InTx, Commit, Abort
    <3>2. \A a \in Assets : ~ Noting(w, a) /\ ~ Noting(w, a)'
      BY <2>5, NotNoting
    <3> QED
      BY <3>1, <3>2, SameUpkept
  <2>6. \A w \in Workers : ~ Stop(w)
    BY DEF Stop
  <2> QED
    BY <2>1, <2>2, <2>3, <2>4, <2>5, <2>6 DEF Next, Proceed, Rest
<1>4. IInv /\ Upkept => UpkeepOnce
  <2> SUFFICES ASSUME IInv, Upkept, \A w \in Workers : At(w, "idle"),
                      NEW a \in Assets
               PROVE  upkeep[a] = Cardinality(Kept(a))
    BY DEF UpkeepOnce, Kept
  <2>1. ~ Noted(a)
    BY DEF Noted, Noting, At
  <2>2. Cardinality(Kept(a)) \in Nat
    BY FS_Subset, FS_CardinalityType DEF Upkept, Kept
  <2> QED
    BY <2>1, <2>2 DEF Upkept
<1> QED
  BY <1>1, <1>2, <1>3, <1>4, InitCurrent, Invariance, PTL DEF Spec

-----------------------------------------------------------------------------
(* Requests that do not overlap: history and audit trail *)

\* The audit entry tells of the same move as the event.
Match(entry, event) ==
  /\ entry.after = event.to
  /\ entry.before = None <=> event.from = None
  /\ entry.before # None => entry.before.status = event.from

\* All the entries do, of the events after the first old ones.
Told(evs, entries, old) ==
  \A n \in DOMAIN entries : Match(entries[n], evs[n + old])

\* Each event starts where the one before it ended.
Chain(evs) == \A n \in 2 .. Len(evs) : evs[n].from = evs[n - 1].to

\* This event may come after them.
Follows(e, evs) == evs = <<>> \/ evs[Len(evs)].to = e.from

\* The row is written and its event is not; the event is, and its audit entry
\* is not.
Writing(w, a) == At(w, "updated") /\ a \in work[w].req.on

Owes(w, a) == (At(w, "logged") \/ At(w, "reloaded")) /\ a \in work[w].left

\* What worker w has to write yet fits what it has written.
Fits(w, a) ==
  LET seen == work[w].seen[a]
      last == events[a][Len(events[a])]
  IN  /\ Writing(w, a) =>
           /\ work[w].left = {a}
           /\ asset[a] # None
           /\ asset[a].status = IF Op(w) = "create" THEN "INTAKE"
                                ELSE work[w].req.to
           /\ IF seen = None THEN events[a] = <<>> ELSE EndsAt(a, seen.status)
      /\ Owes(w, a) =>
           /\ asset[a] # None
           /\ events[a] # <<>>
           /\ last = EventOf(seen, asset[a].status)
           /\ At(w, "reloaded") => work[w].after = asset[a].status

\* The events are a chain up to the state of the row, and the audit entries
\* tell of the last of them, but for one still to be written.
Trail(a, old) ==
  /\ Len(events[a]) = Len(audit[a]) + old
                        + IF \E w \in Workers : Owes(w, a) THEN 1 ELSE 0
  /\ Told(events[a], audit[a], old)
  /\ Chain(events[a])
  /\ asset[a] = None => events[a] = <<>>
  /\ asset[a] # None /\ (\A w \in Workers : ~ Writing(w, a)) =>
       EndsAt(a, asset[a].status)
  /\ \A w \in Workers : Fits(w, a)

Trails == \A a \in Assets : \E old \in {0, 1} : Trail(a, old)

\* An event at the end of the chain.
LEMMA AppendEvent ==
  ASSUME NEW evs \in Seq(Event), NEW e, NEW entries \in Seq(Entry),
         NEW old \in {0, 1}, Len(evs) = Len(entries) + old,
         Told(evs, entries, old), Chain(evs),
         Follows(e, evs)
  PROVE  /\ Told(Append(evs, e), entries, old)
         /\ Chain(Append(evs, e))
<1>1. PICK new : new = Append(evs, e)
  OBVIOUS
<1>2. /\ new # <<>> /\ Len(new) = Len(evs) + 1 /\ new[Len(evs) + 1] = e
      /\ \A n \in 1 .. Len(evs) : new[n] = evs[n]
  BY <1>1
<1>3. Len(evs) \in Nat /\ Len(entries) \in Nat /\ DOMAIN entries = 1 .. Len(entries)
  OBVIOUS
<1>4. Told(new, entries, old)
  <2> SUFFICES ASSUME NEW n \in DOMAIN entries
               PROVE  Match(entries[n], new[n + old])
    BY DEF Told
  <2>1. n + old \in 1 .. Len(evs)
    BY <1>3
  <2>2. new[n + old] = evs[n + old]
    BY <1>2, <2>1
  <2> QED
    BY <2>2 DEF Told
<1>5. Chain(new)
  <2> SUFFICES ASSUME NEW n \in 2 .. Len(new)
               PROVE  new[n].from = new[n - 1].to
    BY DEF Chain
  <2>1. CASE n = Len(evs) + 1
    <3>1. evs # <<>> /\ Len(evs) \in 1 .. Len(evs)
      BY <1>3, <2>1
    <3>2. evs[Len(evs)].to = e.from
      BY <3>1 DEF Follows
    <3>3. n - 1 = Len(evs)
      BY <1>3, <2>1
    <3> QED
      BY <1>2, <2>1, <3>1, <3>2, <3>3
  <2>2. CASE n # Len(evs) + 1
    <3>1. n \in 2 .. Len(evs) /\ n \in 1 .. Len(evs) /\ n - 1 \in 1 .. Len(evs)
      BY <1>2, <1>3, <2>2
    <3> QED
      BY <1>2, <3>1 DEF Chain
  <2> QED
    BY <2>1, <2>2
<1> QED
  BY <1>1, <1>4, <1>5

\* An audit entry for the last event.
LEMMA AppendEntry ==
  ASSUME NEW evs \in Seq(Event), NEW entries \in Seq(Entry), NEW entry,
         NEW old \in {0, 1}, Len(evs) = Len(entries) + old + 1,
         Told(evs, entries, old), Match(entry, evs[Len(evs)])
  PROVE  /\ Len(evs) = Len(Append(entries, entry)) + old
         /\ Told(evs, Append(entries, entry), old)
<1>1. PICK new : new = Append(entries, entry)
  OBVIOUS
<1>2. /\ Len(new) = Len(entries) + 1 /\ new[Len(entries) + 1] = entry
      /\ DOMAIN new = 1 .. Len(entries) + 1
      /\ \A n \in 1 .. Len(entries) : new[n] = entries[n]
  BY <1>1
<1>3. Len(entries) \in Nat /\ DOMAIN entries = 1 .. Len(entries)
  OBVIOUS
<1>4. Told(evs, new, old)
  <2> SUFFICES ASSUME NEW n \in DOMAIN new
               PROVE  Match(new[n], evs[n + old])
    BY DEF Told
  <2>1. CASE n = Len(entries) + 1
    <3>1. n + old = Len(evs)
      BY <1>3, <2>1
    <3> QED
      BY <1>2, <2>1, <3>1
  <2>2. CASE n # Len(entries) + 1
    <3>1. n \in 1 .. Len(entries)
      BY <1>2, <1>3, <2>2
    <3> QED
      BY <1>2, <1>3, <3>1 DEF Told
  <2> QED
    BY <2>1, <2>2
<1> QED
  BY <1>1, <1>2, <1>3, <1>4

\* The trail of an asset that a step of the only worker leaves alone, and that
\* this worker has nothing to write for.
LEMMA SameTrail ==
  ASSUME OneAtATime, NEW w \in Workers, NEW a \in Assets, NEW old \in {0, 1},
         Trail(a, old),
         asset'[a] = asset[a], events'[a] = events[a], audit'[a] = audit[a],
         ~ Writing(w, a), ~ Owes(w, a), ~ Writing(w, a)', ~ Owes(w, a)'
  PROVE  Trail(a, old)'
<1>1. \A v \in Workers : v = w
  BY DEF OneAtATime
<1>2. /\ \A v \in Workers : ~ Owes(v, a)
      /\ \A v \in Workers : ~ Writing(v, a)
      /\ \A v \in Workers : ~ Owes(v, a)'
      /\ \A v \in Workers : ~ Writing(v, a)'
  BY <1>1
<1>3. /\ Len(events[a]) = Len(audit[a]) + old + 0
      /\ Told(events[a], audit[a], old)
      /\ Chain(events[a])
      /\ asset[a] = None => events[a] = <<>>
      /\ asset[a] # None => EndsAt(a, asset[a].status)
  BY <1>2 DEF Trail
<1>4. (asset[a] # None => EndsAt(a, asset[a].status))'
  BY <1>3 DEF EndsAt
<1>5. \A v \in Workers : Fits(v, a)'
  BY <1>2 DEF Fits
<1>6. /\ Len(events'[a]) = Len(audit'[a]) + old + 0
      /\ Told(events'[a], audit'[a], old)
      /\ Chain(events'[a])
      /\ asset'[a] = None => events'[a] = <<>>
  BY <1>3
<1>7. ~ \E v \in Workers : Owes(v, a)'
  BY <1>2
<1> QED
  BY <1>2, <1>4, <1>5, <1>6, <1>7 DEF Trail

\* The steps before a request writes, and its answer.
LEMMA QuietTrail ==
  ASSUME IInv, NEW w \in Workers, NEW a \in Assets,
         \/ \E r \in Requests : Arrive(w, r) \/ TurnAway(w, r)
         \/ Replay(w) \/ Gate(w) \/ Duplicate(w) \/ Refuse(w) \/ Maintain(w)
         \/ Fetch(w) \/ InTx(w) \/ Abort(w) \/ Record(w)
  PROVE  /\ UNCHANGED <<asset, events, audit>>
         /\ ~ Writing(w, a) /\ ~ Owes(w, a)
         /\ ~ Writing(w, a)' /\ ~ Owes(w, a)'
<1>1. TypeOK /\ Ready(w)
  BY DEF IInv
<1>2. UNCHANGED <<asset, events, audit>>
  BY DEF Arrive, TurnAway, Replay, Gate, Duplicate, Refuse, Maintain, Fetch, InTx,
         Abort, Record
<1>3. ~ Writing(w, a) /\ ~ Owes(w, a)
  BY DEF Writing, Owes, Arrive, TurnAway, Replay, Gate, Duplicate, Refuse,
         Maintain, Fetch, InTx, Abort, Deadlocked, Record, At
<1>4. ASSUME NEW x, Answer(w, x)
      PROVE  ~ Writing(w, a)' /\ ~ Owes(w, a)'
  BY <1>1, <1>4, AnsweredIsIdle DEF Writing, Owes, At
<1>5. ASSUME work'[w].pc \in {"arrived", "gated", "tx"}
      PROVE  ~ Writing(w, a)' /\ ~ Owes(w, a)'
  BY <1>5 DEF Writing, Owes, At
<1>6. ASSUME NEW r \in Requests, Arrive(w, r)
      PROVE  ~ Writing(w, a)' /\ ~ Owes(w, a)'
  BY <1>1, <1>5, <1>6, ArriveWork
<1>7. ASSUME Fetch(w)
      PROVE  ~ Writing(w, a)' /\ ~ Owes(w, a)'
  BY <1>1, <1>5, <1>7, FetchWork
<1>8. ASSUME Gate(w)
      PROVE  ~ Writing(w, a)' /\ ~ Owes(w, a)'
  <2>1. work'[w] = Turned(w, "gated", work[w].left, work[w].next, work[w].after)
    BY <1>1, <1>8, TurnedWork DEF Gate, At
  <2>2. work'[w].pc = "gated"
    BY <2>1, TurnedFields
  <2> QED
    BY <1>5, <2>2
<1>9. ASSUME InTx(w)
      PROVE  ~ Writing(w, a)' /\ ~ Owes(w, a)'
  <2>1. PICK b : work'[w] = Turned(w, "tx", work[w].left \ {work[w].next}, b,
                                   work[w].after)
    BY <1>1, <1>9, TurnedWork DEF InTx, At
  <2>2. work'[w].pc = "tx"
    BY <2>1, TurnedFields
  <2> QED
    BY <1>5, <2>2
<1>10. ASSUME Maintain(w)
       PROVE  ~ Writing(w, a)' /\ ~ Owes(w, a)'
  <2>1. ~ At(w, "idle") /\ work[w].left = {}
    BY <1>1, <1>10 DEF Maintain, At, Ready
  <2>2. work'[w] = Turned(w, "reloaded", work[w].left, work[w].next,
                          work[w].after)
    BY <1>1, <1>10, <2>1, TurnedWork
  <2>3. work'[w].pc = "reloaded" /\ work'[w].left = {}
    BY <2>1, <2>2, TurnedFields
  <2> QED
    BY <2>3 DEF Writing, Owes, At
<1> QED
  BY <1>2, <1>3, <1>4, <1>6, <1>7, <1>8, <1>9, <1>10
  DEF TurnAway, Replay, Duplicate, Refuse, Abort, Record

\* The row of a new asset, or a row that changes: the event is next.
LEMMA WriteTrails ==
  ASSUME OneAtATime, IInv, Trails, NEW w \in Workers, Current(w),
         Insert(w) \/ Update(w)
  PROVE  Trails'
<1>1. /\ TypeOK /\ Ready(w) /\ ~ At(w, "idle") /\ At(w, "gated")
      /\ work[w].req \in Requests /\ Op(w) \in {"create", "transition"}
      /\ \A v \in Workers : v = w
  BY Busy DEF IInv, Insert, Update, At, OneAtATime
<1>2. PICK a \in Assets : a = Subject(w) /\ work[w].req.on = {a}
  BY <1>1, SubjectIs
<1>3. /\ work'[w].pc = "updated"
      /\ work'[w].req = work[w].req
      /\ work'[w].seen = work[w].seen
      /\ work'[w].left = {a}
  <2>1. work'[w] = Turned(w, "updated", {Subject(w)}, work[w].next, work[w].after)
    BY <1>1, TurnedWork
  <2> QED
    BY <1>2, <2>1, TurnedFields
<1>4. UNCHANGED <<events, audit>>
  BY DEF Insert, Update
<1>5. \A b \in Assets \ {a} : asset'[b] = asset[b]
  BY <1>1, <1>2 DEF Insert, Update, TypeOK
<1>6. PICK row : row = asset'[a]
  OBVIOUS
<1>7. /\ row # None
      /\ row.status = IF Op(w) = "create" THEN "INTAKE" ELSE work[w].req.to
      /\ work[w].seen[a] = asset[a]
  <2>1. CASE Insert(w)
    <3>1. row = [status |-> "INTAKE", prior |-> None]
      BY <1>1, <1>2, <1>6, <2>1 DEF Insert, TypeOK
    <3>2. asset[a] = None /\ work[w].seen[a] = None /\ Op(w) = "create"
      BY <1>1, <1>2, <2>1 DEF Insert, Ready, Op
    <3>3. row \in Rows
      BY <3>1, LifecycleDefs
    <3> QED
      BY <3>1, <3>2, <3>3, ConstantsAssumption
  <2>2. CASE Update(w)
    <3>1. /\ work[w].seen[a] = asset[a] /\ asset[a] \in Rows
          /\ Op(w) = "transition"
      BY <1>1, <1>2, <2>2 DEF Update, Current, Ready, Loads, Op
    <3>2. row = Moved(asset[a], work[w].req.to)
      BY <1>1, <1>2, <1>6, <2>2, <3>1 DEF Update, TypeOK
    <3>3. Legal(asset[a], work[w].req.to)
      BY <1>2, <2>2, <3>1 DEF Update
    <3>4. row \in Rows
      BY <3>1, <3>2, <3>3, MovedIsRow
    <3> QED
      BY <3>1, <3>2, <3>4, ConstantsAssumption DEF Moved
  <2> QED
    BY <2>1, <2>2
<1>8. ASSUME NEW b \in Assets \ {a}
      PROVE  \E old \in {0, 1} : Trail(b, old)'
  <2>1. PICK old \in {0, 1} : Trail(b, old)
    BY DEF Trails
  <2>2. ~ Writing(w, b) /\ ~ Owes(w, b) /\ ~ Writing(w, b)' /\ ~ Owes(w, b)'
    BY <1>1, <1>2, <1>3 DEF Writing, Owes, At
  <2> QED
    BY <1>4, <1>5, <2>1, <2>2, SameTrail
<1>9. \E old \in {0, 1} : Trail(a, old)'
  <2>1. PICK old \in {0, 1} : Trail(a, old)
    BY DEF Trails
  <2>2. /\ \A v \in Workers : ~ Writing(v, a) /\ ~ Owes(v, a)
        /\ Writing(w, a)'
        /\ \A v \in Workers : ~ Owes(v, a)'
    BY <1>1, <1>2, <1>3 DEF Writing, Owes, At
  <2>3. /\ asset[a] = None => events[a] = <<>>
        /\ asset[a] # None => EndsAt(a, asset[a].status)
    BY <2>1, <2>2 DEF Trail
  <2>4. IF work[w].seen[a] = None THEN events[a] = <<>>
                                  ELSE EndsAt(a, work[w].seen[a].status)
    BY <1>7, <2>3
  <2>5. (IF work[w].seen[a] = None THEN events[a] = <<>>
                                   ELSE EndsAt(a, work[w].seen[a].status))'
    BY <1>3, <1>4, <2>4 DEF EndsAt
  <2>6. (asset[a] # None
           /\ asset[a].status = IF Op(w) = "create" THEN "INTAKE"
                                ELSE work[w].req.to)'
    BY <1>3, <1>6, <1>7 DEF Op
  <2>7. Fits(w, a)'
    BY <1>3, <2>2, <2>5, <2>6 DEF Fits
  <2>8. /\ Len(events'[a]) = Len(audit'[a]) + old + 0
        /\ Told(events'[a], audit'[a], old)
        /\ Chain(events'[a])
    BY <1>4, <2>1, <2>2 DEF Trail
  <2>9. Trail(a, old)'
    BY <1>1, <1>6, <1>7, <2>2, <2>7, <2>8 DEF Trail
  <2> QED
    BY <2>9
<1> QED
  BY <1>8, <1>9 DEF Trails

\* The event is written: its audit entry is owed.
LEMMA LogTrails ==
  ASSUME OneAtATime, IInv, Trails, NEW w \in Workers, Log(w)
  PROVE  Trails'
<1>1. /\ TypeOK /\ Ready(w) /\ ~ At(w, "idle") /\ At(w, "updated")
      /\ work[w].req \in Requests /\ Op(w) \in {"create", "transition"}
      /\ \A v \in Workers : v = w
  BY Busy DEF IInv, Log, At, OneAtATime, Ready, Op
<1>2. PICK a \in Assets : a = Subject(w) /\ work[w].req.on = {a}
  BY <1>1, SubjectIs
<1>3. PICK old \in {0, 1} : Trail(a, old)
  BY DEF Trails
<1>4. /\ Writing(w, a)
      /\ \A v \in Workers : ~ Owes(v, a)
  BY <1>1, <1>2 DEF Writing, Owes, At
<1>5. PICK to, seen, e :
        /\ to = IF Op(w) = "create" THEN "INTAKE" ELSE work[w].req.to
        /\ seen = work[w].seen[a]
        /\ e = EventOf(seen, to)
  OBVIOUS
<1>6. /\ work[w].left = {a}
      /\ asset[a] # None
      /\ asset[a].status = to
      /\ IF seen = None THEN events[a] = <<>> ELSE EndsAt(a, seen.status)
  BY <1>3, <1>4, <1>5 DEF Trail, Fits
<1>7. /\ work'[w].pc = IF Op(w) = "create" THEN "reloaded" ELSE "logged"
      /\ work'[w].req = work[w].req
      /\ work'[w].seen = work[w].seen
      /\ work'[w].left = {a}
      /\ Op(w) = "create" => work'[w].after = to
  <2>1. work'[w] =
          IF Op(w) = "create"
            THEN Turned(w, "reloaded", work[w].left, work[w].next, "INTAKE")
            ELSE Turned(w, "logged", work[w].left, work[w].next, None)
    BY <1>1, TurnedWork
  <2>2. CASE Op(w) = "create"
    <3>1. work'[w] = Turned(w, "reloaded", work[w].left, work[w].next, "INTAKE")
      BY <2>1, <2>2
    <3> QED
      BY <1>5, <1>6, <2>2, <3>1, TurnedFields
  <2>3. CASE Op(w) # "create"
    <3>1. work'[w] = Turned(w, "logged", work[w].left, work[w].next, None)
      BY <2>1, <2>3
    <3> QED
      BY <1>6, <2>3, <3>1, TurnedFields
  <2> QED
    BY <2>2, <2>3
<1>8. /\ UNCHANGED <<asset, audit>>
      /\ events' = [events EXCEPT ![a] = Append(@, e)]
  BY <1>2, <1>5 DEF Log
<1>9. /\ events'[a] = Append(events[a], e)
      /\ \A b \in Assets \ {a} : events'[b] = events[b]
  BY <1>1, <1>8 DEF TypeOK
<1>10. ASSUME NEW b \in Assets \ {a}
       PROVE  \E x \in {0, 1} : Trail(b, x)'
  <2>1. PICK x \in {0, 1} : Trail(b, x)
    BY DEF Trails
  <2>2. ~ Writing(w, b) /\ ~ Owes(w, b) /\ ~ Writing(w, b)' /\ ~ Owes(w, b)'
    BY <1>1, <1>2, <1>7 DEF Writing, Owes, At
  <2> QED
    BY <1>8, <1>9, <2>1, <2>2, SameTrail
<1>11. /\ events'[a] # <<>>
       /\ events'[a][Len(events'[a])] = e
       /\ Len(events'[a]) = Len(audit[a]) + old + 1
       /\ Told(events'[a], audit[a], old)
       /\ Chain(events'[a])
  <2>1. events[a] \in Seq(Event) /\ audit[a] \in Seq(Entry)
    BY <1>1 DEF TypeOK
  <2>2. /\ Len(events[a]) = Len(audit[a]) + old + 0
        /\ Told(events[a], audit[a], old)
        /\ Chain(events[a])
    BY <1>3, <1>4 DEF Trail
  <2>3. Len(events[a]) = Len(audit[a]) + old
    BY <2>1, <2>2
  <2>4. Follows(e, events[a])
    BY <1>5, <1>6 DEF EventOf, EndsAt, Follows
  <2>5. /\ Told(Append(events[a], e), audit[a], old)
        /\ Chain(Append(events[a], e))
    BY <2>1, <2>2, <2>3, <2>4, AppendEvent
  <2>6. /\ Append(events[a], e) # <<>>
        /\ Append(events[a], e)[Len(Append(events[a], e))] = e
        /\ Len(Append(events[a], e)) = Len(audit[a]) + old + 1
    BY <2>1, <2>3
  <2> QED
    BY <1>9, <2>5, <2>6
<1>12. ~ Writing(w, a)' /\ Owes(w, a)'
  BY <1>2, <1>7 DEF Writing, Owes, At
<1>13. Fits(w, a)'
  <2>1. /\ asset'[a] # None
        /\ events'[a] # <<>>
        /\ events'[a][Len(events'[a])] = EventOf(work'[w].seen[a], asset'[a].status)
    BY <1>5, <1>6, <1>7, <1>8, <1>11
  <2>2. work'[w].pc = "reloaded" => work'[w].after = asset'[a].status
    BY <1>6, <1>7, <1>8
  <2> QED
    BY <1>12, <2>1, <2>2 DEF Fits, At, EventOf
<1>14. EndsAt(a, asset[a].status)'
  <2>1. events'[a][Len(events'[a])].to = asset'[a].status
    BY <1>5, <1>6, <1>8, <1>11 DEF EventOf
  <2> QED
    BY <1>11, <2>1 DEF EndsAt
<1>15. Trail(a, old)'
  BY <1>1, <1>6, <1>8, <1>11, <1>12, <1>13, <1>14 DEF Trail
<1> QED
  BY <1>10, <1>15 DEF Trails

\* The row is read again for the audit entry, and is as it was written.
LEMMA ReloadTrails ==
  ASSUME OneAtATime, IInv, Trails, NEW w \in Workers, Reload(w)
  PROVE  Trails'
<1>1. /\ TypeOK /\ Ready(w) /\ ~ At(w, "idle") /\ At(w, "logged")
      /\ work[w].req \in Requests /\ Op(w) = "transition"
      /\ \A v \in Workers : v = w
  BY Busy DEF IInv, Reload, At, OneAtATime, Ready, Op
<1>2. PICK s \in Assets : s = Subject(w) /\ work[w].req.on = {s}
  BY <1>1, SubjectIs
<1>3. /\ work'[w].pc = "reloaded"
      /\ work'[w].req = work[w].req
      /\ work'[w].seen = work[w].seen
      /\ work'[w].left = work[w].left
      /\ work'[w].after = asset[s].status
  <2>1. work'[w] = Turned(w, "reloaded", work[w].left, work[w].next,
                          asset[Subject(w)].status)
    BY <1>1, TurnedWork
  <2> QED
    BY <1>2, <2>1, TurnedFields
<1>4. UNCHANGED <<asset, events, audit>>
  BY DEF Reload
<1>5. ASSUME NEW a \in Assets
      PROVE  \E old \in {0, 1} : Trail(a, old)'
  <2>1. PICK old \in {0, 1} : Trail(a, old)
    BY DEF Trails
  <2>2. CASE Owes(w, a)
    <3>1. a = s
      BY <1>1, <1>2, <2>2 DEF Owes, Ready, Op
    <3>2. /\ asset[a] # None
          /\ events[a] # <<>>
          /\ events[a][Len(events[a])] = EventOf(work[w].seen[a], asset[a].status)
      BY <2>1, <2>2 DEF Trail, Fits
    <3>3. Owes(w, a)' /\ \A v \in Workers : ~ Writing(v, a) /\ ~ Writing(v, a)'
      BY <1>1, <1>3, <2>2 DEF Owes, Writing, At
    <3>4. Fits(w, a)'
      BY <1>3, <1>4, <3>1, <3>2, <3>3 DEF Fits, EventOf
    <3>5. EndsAt(a, asset[a].status)
      BY <2>1, <3>2, <3>3 DEF Trail
    <3>6. EndsAt(a, asset[a].status)'
      BY <1>4, <3>5 DEF EndsAt
    <3>7. /\ Len(events'[a]) = Len(audit'[a]) + old + 1
          /\ Told(events'[a], audit'[a], old)
          /\ Chain(events'[a])
      BY <1>4, <2>1, <2>2 DEF Trail
    <3>8. Trail(a, old)'
      BY <1>1, <1>4, <3>2, <3>3, <3>4, <3>6, <3>7 DEF Trail
    <3> QED
      BY <3>8
  <2>3. CASE ~ Owes(w, a)
    <3>1. ~ Writing(w, a) /\ ~ Writing(w, a)' /\ ~ Owes(w, a)'
      BY <1>1, <1>3, <2>3 DEF Owes, Writing, At
    <3> QED
      BY <1>4, <2>1, <2>3, <3>1, SameTrail
  <2> QED
    BY <2>2, <2>3
<1> QED
  BY <1>5 DEF Trails

\* A bulk transition commits its rows and their events together.
LEMMA CommitTrails ==
  ASSUME OneAtATime, IInv, Trails, NEW w \in Workers, Current(w), Commit(w)
  PROVE  Trails'
<1>1. /\ TypeOK /\ Ready(w) /\ ~ At(w, "idle") /\ At(w, "tx")
      /\ work[w].req.op = "bulk"
      /\ \A v \in Workers : v = w
  BY DEF IInv, Commit, At, OneAtATime, Ready
<1>2. PICK as, to :
        /\ as \in SUBSET Assets /\ as = DOMAIN work[w].seen
        /\ to = work[w].req.to
  BY <1>1, Busy
<1>3. /\ work'[w].pc = "reloaded"
      /\ work'[w].seen = work[w].seen
      /\ work'[w].left = as
      /\ work'[w].after = to
  <2>1. work'[w] = Turned(w, "reloaded", DOMAIN work[w].seen, work[w].next,
                          work[w].req.to)
    BY <1>1, TurnedWork
  <2> QED
    BY <1>2, <2>1, TurnedFields
<1>4. /\ audit' = audit
      /\ asset' = [a \in Assets |-> IF a \in as THEN Moved(work[w].seen[a], to)
                                    ELSE asset[a]]
      /\ events' = [a \in Assets |->
                      IF a \in as
                        THEN Append(events[a], EventOf(work[w].seen[a], to))
                        ELSE events[a]]
  BY <1>2 DEF Commit
<1>5. \A a \in Assets : ~ Writing(w, a) /\ ~ Owes(w, a) /\ ~ Writing(w, a)'
  BY <1>1, <1>3 DEF Writing, Owes, At
<1>6. ASSUME NEW a \in Assets \ as
      PROVE  \E old \in {0, 1} : Trail(a, old)'
  <2>1. PICK old \in {0, 1} : Trail(a, old)
    BY DEF Trails
  <2>2. ~ Owes(w, a)'
    BY <1>3 DEF Owes
  <2>3. asset'[a] = asset[a] /\ events'[a] = events[a] /\ audit'[a] = audit[a]
    BY <1>4
  <2> QED
    BY <1>5, <2>1, <2>2, <2>3, SameTrail
<1>7. ASSUME NEW a \in as
      PROVE  \E old \in {0, 1} : Trail(a, old)'
  <2>1. PICK old \in {0, 1} : Trail(a, old)
    BY <1>2 DEF Trails
  <2>2. PICK row, e : row = work[w].seen[a] /\ e = EventOf(row, to)
    OBVIOUS
  <2>3. row = asset[a] /\ row \in Rows /\ Legal(row, to)
    BY <1>1, <1>2, <2>2 DEF Current, Ready
  <2>4. row # None /\ row.status # None /\ Moved(row, to) # None
    BY <2>3, MovedIsRow, LifecycleDefs, ConstantsAssumption
  <2>5. e.from = row.status /\ e.to = to
    BY <2>2, <2>4 DEF EventOf
  <2>6. /\ asset'[a] # None
        /\ asset'[a].status = to
        /\ events'[a] = Append(events[a], e)
    BY <1>2, <1>4, <2>2, <2>4 DEF Moved
  <2>7. /\ events'[a] # <<>>
        /\ events'[a][Len(events'[a])] = e
        /\ Len(events'[a]) = Len(audit[a]) + old + 1
        /\ Told(events'[a], audit[a], old)
        /\ Chain(events'[a])
    <3>1. events[a] \in Seq(Event) /\ audit[a] \in Seq(Entry)
      BY <1>1, <1>2 DEF TypeOK
    <3>2. \A v \in Workers : ~ Writing(v, a) /\ ~ Owes(v, a)
      BY <1>1, <1>2, <1>5
    <3>3. /\ Len(events[a]) = Len(audit[a]) + old + 0
          /\ Told(events[a], audit[a], old)
          /\ Chain(events[a])
          /\ EndsAt(a, row.status)
      BY <2>1, <2>3, <2>4, <3>2 DEF Trail
    <3>4. Len(events[a]) = Len(audit[a]) + old
      BY <3>1, <3>3
    <3>5. Follows(e, events[a])
      BY <2>5, <3>3 DEF EndsAt, Follows
    <3>6. /\ Told(Append(events[a], e), audit[a], old)
          /\ Chain(Append(events[a], e))
      BY <3>1, <3>3, <3>4, <3>5, AppendEvent
    <3>7. /\ Append(events[a], e) # <<>>
          /\ Append(events[a], e)[Len(Append(events[a], e))] = e
          /\ Len(Append(events[a], e)) = Len(audit[a]) + old + 1
      BY <3>1, <3>4
    <3> QED
      BY <2>6, <3>6, <3>7
  <2>8. Owes(w, a)'
    BY <1>3 DEF Owes, At
  <2>9. work'[w].seen[a] = row /\ work'[w].after = asset'[a].status
    BY <1>3, <2>2, <2>6
  <2>10. events'[a][Len(events'[a])] = EventOf(work'[w].seen[a], asset'[a].status)
    BY <2>2, <2>6, <2>7, <2>9
  <2>11. Fits(w, a)'
    BY <1>2, <1>5, <2>6, <2>7, <2>8, <2>9, <2>10 DEF Fits, EventOf
  <2>12. EndsAt(a, asset[a].status)'
    <3>1. events'[a][Len(events'[a])].to = asset'[a].status
      BY <2>5, <2>6, <2>7
    <3> QED
      BY <2>7, <3>1 DEF EndsAt
  <2>13. Trail(a, old)'
    BY <1>1, <1>4, <2>6, <2>7, <2>8, <2>11, <2>12 DEF Trail
  <2> QED
    BY <2>13
<1> QED
  BY <1>6, <1>7 DEF Trails

\* An audit entry is written.
LEMMA AuditTrails ==
  ASSUME OneAtATime, IInv, Trails, NEW w \in Workers, Audit(w)
  PROVE  Trails'
<1>1. TypeOK /\ Ready(w) /\ ~ At(w, "idle") /\ At(w, "reloaded")
      /\ \A v \in Workers : v = w
  BY DEF IInv, Audit, At, OneAtATime
<1>2. PICK a \in work[w].left :
        /\ audit' = [audit EXCEPT ![a] = Append(@, [before |-> work[w].seen[a],
                                                    after |-> work[w].after])]
        /\ work'[w] = Turned(w, "reloaded", work[w].left \ {a}, work[w].next,
                             work[w].after)
  BY <1>1, AuditWork
<1>3. /\ work'[w].pc = "reloaded"
      /\ work'[w].req = work[w].req
      /\ work'[w].seen = work[w].seen
      /\ work'[w].left = work[w].left \ {a}
      /\ work'[w].after = work[w].after
  BY <1>2, TurnedFields
<1>4. a \in Assets /\ UNCHANGED <<asset, events>>
  BY <1>1, <1>2, Busy DEF Audit
<1>5. PICK seen, entry : /\ seen = work[w].seen[a]
                         /\ entry = [before |-> seen, after |-> work[w].after]
  OBVIOUS
<1>6. /\ audit'[a] = Append(audit[a], entry)
      /\ \A b \in Assets \ {a} : audit'[b] = audit[b]
  BY <1>1, <1>2, <1>4, <1>5 DEF TypeOK
<1>7. \A b \in Assets : ~ Writing(w, b) /\ ~ Writing(w, b)'
  BY <1>1, <1>3 DEF Writing, At
<1>8. Owes(w, a) /\ ~ Owes(w, a)'
  BY <1>1, <1>2, <1>3 DEF Owes, At
<1>9. \E old \in {0, 1} : Trail(a, old)'
  <2>1. PICK old \in {0, 1} : Trail(a, old)
    BY <1>4 DEF Trails
  <2>2. PICK e : e = events[a][Len(events[a])]
    OBVIOUS
  <2>3. /\ asset[a] # None
        /\ e = EventOf(seen, asset[a].status)
        /\ work[w].after = asset[a].status
    BY <1>1, <1>5, <1>8, <2>1, <2>2 DEF Trail, Fits
  <2>4. seen \in Rows \cup {None}
    <3>1. a \in DOMAIN work[w].seen
      BY <1>1, <1>2 DEF Ready
    <3>2. \E as \in SUBSET Assets : work[w].seen \in [as -> Rows \cup {None}]
      BY <1>1, Busy
    <3> QED
      BY <1>5, <3>1, <3>2
  <2>5. Match(entry, e)
    <3>1. seen # None => seen.status # None
      BY <2>4, LifecycleDefs, ConstantsAssumption
    <3>2. entry.after = asset[a].status /\ entry.before = seen
      BY <1>5, <2>3
    <3>3. e.to = asset[a].status /\ e.from = IF seen = None THEN None ELSE seen.status
      BY <2>3 DEF EventOf
    <3> QED
      BY <3>1, <3>2, <3>3 DEF Match
  <2>6. /\ Len(events[a]) = Len(audit'[a]) + old
        /\ Told(events[a], audit'[a], old)
    <3>1. events[a] \in Seq(Event) /\ audit[a] \in Seq(Entry)
      BY <1>1, <1>4 DEF TypeOK
    <3>2. Len(events[a]) = Len(audit[a]) + old + 1 /\ Told(events[a], audit[a], old)
      BY <1>8, <2>1 DEF Trail
    <3> QED
      BY <1>6, <2>2, <2>5, <3>1, <3>2, AppendEntry
  <2>7. audit'[a] \in Seq(Entry \cup {entry})
    <3>1. audit[a] \in Seq(Entry)
      BY <1>1, <1>4 DEF TypeOK
    <3> QED
      BY <1>6, <3>1
  <2>8. Len(events'[a]) = Len(audit'[a]) + old + 0
    BY <1>4, <2>6, <2>7
  <2>9. Chain(events'[a]) /\ EndsAt(a, asset[a].status)
    BY <1>1, <1>4, <1>7, <2>1, <2>3 DEF Trail
  <2>10. EndsAt(a, asset[a].status)'
    BY <1>4, <2>9 DEF EndsAt
  <2>11. \A v \in Workers : ~ Owes(v, a)' /\ ~ Writing(v, a)' /\ Fits(v, a)'
    BY <1>1, <1>4, <1>7, <1>8 DEF Fits
  <2>12. Trail(a, old)'
    BY <1>4, <2>3, <2>6, <2>8, <2>9, <2>10, <2>11 DEF Trail
  <2> QED
    BY <2>12
<1>10. ASSUME NEW b \in Assets \ {a}
       PROVE  \E old \in {0, 1} : Trail(b, old)'
  <2>1. PICK old \in {0, 1} : Trail(b, old)
    BY DEF Trails
  <2>2. CASE ~ Owes(w, b)
    <3>1. ~ Owes(w, b)'
      BY <1>1, <1>3, <2>2 DEF Owes, At
    <3> QED
      BY <1>4, <1>6, <1>7, <2>1, <2>2, <3>1, SameTrail
  <2>3. CASE Owes(w, b)
    <3>1. Owes(w, b)'
      BY <1>3, <2>3 DEF Owes, At
    <3>2. /\ asset[b] # None
          /\ events[b] # <<>>
          /\ events[b][Len(events[b])] = EventOf(work[w].seen[b], asset[b].status)
          /\ work[w].after = asset[b].status
      BY <1>1, <2>1, <2>3 DEF Trail, Fits
    <3>3. Fits(w, b)'
      BY <1>3, <1>4, <1>7, <3>2 DEF Fits, EventOf
    <3>4. EndsAt(b, asset[b].status)
      BY <1>1, <1>7, <2>1, <3>2 DEF Trail
    <3>5. EndsAt(b, asset[b].status)'
      BY <1>4, <3>4 DEF EndsAt
    <3>6. /\ Len(events'[b]) = Len(audit'[b]) + old + 1
          /\ Told(events'[b], audit'[b], old)
          /\ Chain(events'[b])
      BY <1>4, <1>6, <2>1, <2>3 DEF Trail
    <3>7. Trail(b, old)'
      BY <1>1, <1>4, <3>1, <3>2, <3>3, <3>5, <3>6 DEF Trail
    <3> QED
      BY <3>7
  <2> QED
    BY <2>2, <2>3
<1> QED
  BY <1>9, <1>10 DEF Trails

\* As long as requests do not overlap and nothing fails, the history of an asset
\* and its audit trail tell the same chain of moves: the same helper writes both,
\* the event from the row as it was loaded, the entry from the row as it is read
\* again (assets.rs, apply_transition, create_asset and bulk_transition).
THEOREM TrailsHold ==
  ASSUME OneAtATime, MayFail = FALSE
  PROVE  Spec => []TrailsAgree
<1>1. Init => Trails
  <2> SUFFICES ASSUME Init, NEW a \in Assets
               PROVE  \E old \in {0, 1} : Trail(a, old)
    BY DEF Trails
  <2>1. PICK old : old = IF asset[a] = None THEN 0 ELSE 1
    OBVIOUS
  <2>2. \A w \in Workers : ~ Writing(w, a) /\ ~ Owes(w, a) /\ Fits(w, a)
    BY DEF Init, Writing, Owes, Fits, At, Idle
  <2>3. events[a] = Past(asset[a]) /\ audit[a] = <<>>
    BY DEF Init
  <2>4. Len(events[a]) = Len(audit[a]) + old + 0
    BY <2>1, <2>3 DEF Past
  <2>5. Told(events[a], audit[a], old) /\ Chain(events[a])
    BY <2>3 DEF Told, Chain, Past
  <2>6. /\ asset[a] = None => events[a] = <<>>
        /\ asset[a] # None => EndsAt(a, asset[a].status)
    BY <2>3 DEF Past, EndsAt
  <2>7. Trail(a, old) /\ old \in {0, 1}
    BY <2>1, <2>2, <2>4, <2>5, <2>6 DEF Trail
  <2> QED
    BY <2>7
<1>2. IInv /\ (\A w \in Workers : Current(w)) /\ [Next]_vars
        => (\A w \in Workers : Current(w))'
  BY StepStaysCurrent
<1>3. IInv /\ (\A w \in Workers : Current(w)) /\ Trails /\ [Next]_vars => Trails'
  <2> SUFFICES ASSUME IInv, \A w \in Workers : Current(w), Trails, [Next]_vars
               PROVE  Trails'
    OBVIOUS
  <2>1. CASE UNCHANGED vars
    <3> SUFFICES ASSUME NEW a \in Assets
                 PROVE  \E old \in {0, 1} : Trail(a, old)'
      BY DEF Trails
    <3>1. PICK old \in {0, 1} : Trail(a, old)
      BY DEF Trails
    <3>2. /\ \A w \in Workers : /\ Writing(w, a)' <=> Writing(w, a)
                                /\ Owes(w, a)' <=> Owes(w, a)
                                /\ Fits(w, a)' <=> Fits(w, a)
          /\ EndsAt(a, asset[a].status)' <=> EndsAt(a, asset[a].status)
      BY <2>1 DEF vars, Fits, EndsAt, Writing, Owes, At, Op, EventOf
    <3>3. Trail(a, old)'
      BY <2>1, <3>1, <3>2 DEF vars, Trail
    <3> QED
      BY <3>3
  <2>2. ASSUME NEW w \in Workers,
               Insert(w) \/ Update(w) \/ Log(w) \/ Reload(w) \/ Commit(w)
               \/ Audit(w)
        PROVE  Trails'
    BY <2>2, WriteTrails, LogTrails, ReloadTrails, CommitTrails, AuditTrails
  <2>3. ASSUME NEW w \in Workers,
               \/ \E r \in Requests : Arrive(w, r) \/ TurnAway(w, r)
               \/ Replay(w) \/ Gate(w) \/ Duplicate(w) \/ Refuse(w) \/ Maintain(w)
               \/ Fetch(w) \/ InTx(w) \/ Abort(w) \/ Record(w)
        PROVE  Trails'
    <3> SUFFICES ASSUME NEW a \in Assets
                 PROVE  \E old \in {0, 1} : Trail(a, old)'
      BY DEF Trails
    <3>1. PICK old \in {0, 1} : Trail(a, old)
      BY DEF Trails
    <3>2. /\ UNCHANGED <<asset, events, audit>>
          /\ ~ Writing(w, a) /\ ~ Owes(w, a)
          /\ ~ Writing(w, a)' /\ ~ Owes(w, a)'
      BY <2>3, QuietTrail
    <3> QED
      BY <3>1, <3>2, SameTrail
  <2>4. \A w \in Workers : ~ Stop(w)
    BY DEF Stop
  <2> QED
    BY <2>1, <2>2, <2>3, <2>4 DEF Next, Proceed, Rest
<1>4. IInv /\ Trails => TrailsAgree
  <2> SUFFICES ASSUME IInv, Trails, \A w \in Workers : At(w, "idle"),
                      NEW a \in Assets
               PROVE  LET old == Len(events[a]) - Len(audit[a])
                      IN  /\ old \in {0, 1}
                          /\ \A n \in DOMAIN audit[a] :
                               /\ Match(audit[a][n], events[a][n + old])
                               /\ n + old > 1 =>
                                    events[a][n + old].from
                                      = events[a][n + old - 1].to
    BY DEF TrailsAgree, Match
  <2>1. PICK old \in {0, 1} : Trail(a, old)
    BY DEF Trails
  <2>2. \A w \in Workers : ~ Owes(w, a)
    BY DEF Owes, At
  <2>3. events[a] \in Seq(Event) /\ audit[a] \in Seq(Entry)
    BY DEF IInv, TypeOK
  <2>4. /\ Len(events[a]) = Len(audit[a]) + old + 0
        /\ Told(events[a], audit[a], old)
        /\ Chain(events[a])
    BY <2>1, <2>2 DEF Trail
  <2>5. old = Len(events[a]) - Len(audit[a])
    BY <2>3, <2>4
  <2>6. ASSUME NEW n \in DOMAIN audit[a]
        PROVE  /\ Match(audit[a][n], events[a][n + old])
               /\ n + old > 1 => events[a][n + old].from = events[a][n + old - 1].to
    <3>1. n \in 1 .. Len(audit[a])
      BY <2>3
    <3>2. n + old > 1 => n + old \in 2 .. Len(events[a])
      BY <2>3, <2>4, <3>1
    <3> QED
      BY <2>4, <3>2 DEF Told, Chain
  <2> QED
    BY <2>5, <2>6
<1> QED
  BY <1>1, <1>2, <1>3, <1>4, InitCurrent, Invariance, PTL DEF Spec
=============================================================================
