-------------------------- MODULE IdempotencyProofs --------------------------
(***************************************************************************)
(* What Idempotency.tla keeps for every number of users, request ids,      *)
(* endpoints and workers, every TTL and every interleaving with the reaper *)
(* and the clock.                                                          *)
(***************************************************************************)
EXTENDS Idempotency, SequenceTheorems, TLAPS

-----------------------------------------------------------------------------
(* Type correctness *)

\* What a request past the gate is.
LEMMA AcceptedRequest ==
  ASSUME NEW r \in Request, r.rid # None
  PROVE  r \in Accepted
BY DEF Request, Accepted

\* Its key is one.
LEMMA AcceptedKey ==
  ASSUME NEW r \in Accepted
  PROVE  Key(r) \in Keys
BY DEF Accepted, Key, Keys

\* The answers leave a worker at rest.
LEMMA AnsweredRests ==
  ASSUME ConstantsAssumption, NEW a \in Answers
  PROVE  Answered(a) \in Resting
BY DEF Answered, Resting

\* Stamping an execution with the expiry of its row keeps the history one.
LEMMA StampType ==
  ASSUME NEW s \in Seq(Execution), NEW n, NEW t \in Nat
  PROVE  /\ [s EXCEPT ![n].until = t] \in Seq(Execution)
         /\ Len([s EXCEPT ![n].until = t]) = Len(s)
         /\ DOMAIN [s EXCEPT ![n].until = t] = DOMAIN s
<1>1. CASE n \in 1 .. Len(s)
  <2> DEFINE e == [s[n] EXCEPT !.until = t]
  <2>1. e \in Execution
    <3>1. s[n] \in Execution
      BY <1>1, ElementOfSeq
    <3> QED
      BY <3>1 DEF Execution
  <2>2. [s EXCEPT ![n].until = t] = [s EXCEPT ![n] = e]
    OBVIOUS
  <2> HIDE DEF e
  <2> QED
    BY <1>1, <2>1, <2>2, ExceptSeq, LenProperties
<1>2. CASE n \notin 1 .. Len(s)
  <2>1. [s EXCEPT ![n].until = t] = s
    BY <1>2, LenProperties
  <2> QED
    BY <2>1
<1> QED
  BY <1>1, <1>2

\* Every step keeps the types.
LEMMA StepType ==
  ASSUME ConstantsAssumption, TypeOK, [Next]_vars
  PROVE  TypeOK'
<1> USE DEF ConstantsAssumption
<1>1. ASSUME NEW w \in Workers, NEW r \in Request, Gate(w, r)
      PROVE  TypeOK'
  <2>1. CASE RejectMissing(w, r) \/ RejectConflict(w, r)
    <3>1. "missing" \in Answers /\ "conflict" \in Answers
      BY DEF Answers
    <3> QED
      BY <2>1, <3>1, AnsweredRests DEF RejectMissing, RejectConflict, TypeOK
  <2>2. CASE Replay(w, r)
    <3>1. PICK k \in Matches(r) :
              work' = [work EXCEPT ![w] = Replayed(r, rows[k].body)]
      BY <2>2 DEF Replay
    <3>2. rows[k].body \in Bodies
      BY DEF Matches, LiveRows, Live, Row, TypeOK
    <3>3. Replayed(r, rows[k].body) \in Resting
      BY <2>2, <3>2, AcceptedRequest
      DEF Replay, Replayed, Bodies, Answers, Resting
    <3> QED
      BY <2>2, <3>1, <3>3 DEF Replay, TypeOK
  <2>3. CASE Proceed(w, r)
    <3>1. [pc |-> "checked", req |-> r, body |-> 0, answer |-> "none"]
            \in Checked
      BY <2>3, AcceptedRequest DEF Proceed, Checked
    <3> QED
      BY <2>3, <3>1 DEF Proceed, TypeOK
  <2> QED
    BY <1>1, <2>1, <2>2, <2>3 DEF Gate
<1>2. ASSUME NEW w \in Workers, Execute(w)
      PROVE  TypeOK'
  <2>1. work[w] \in Checked
    BY <1>2 DEF Execute, TypeOK, Resting, Executed
  <2>2. Key(work[w].req) \in Keys
    BY <2>1, AcceptedKey DEF Checked
  <2>3. [key |-> Key(work[w].req), until |-> 0] \in Execution
    BY <2>2 DEF TypeOK, Execution
  <2>4. execs' \in Seq(Execution) /\ Len(execs') <= MaxExecs
    BY <1>2, <2>3 DEF Execute, TypeOK
  <2>5. Len(execs) + 1 \in Bodies
    BY <1>2 DEF Execute, TypeOK, Bodies
  <2>6. [work[w] EXCEPT !.pc = "executed", !.body = Len(execs) + 1]
          \in Executed
    BY <2>1, <2>5 DEF Checked, Executed
  <2>7. work' \in [Workers -> Resting \cup Checked \cup Executed]
    BY <1>2, <2>6 DEF Execute, TypeOK
  <2> QED
    BY <1>2, <2>4, <2>7 DEF Execute, TypeOK
<1>3. ASSUME NEW w \in Workers, Refuse(w) \/ Stop(w)
      PROVE  TypeOK'
  <2>1. "error" \in Answers
    BY DEF Answers
  <2> QED
    BY <1>3, <2>1, AnsweredRests DEF Refuse, Stop, TypeOK
<1>4. ASSUME NEW w \in Workers, Record(w)
      PROVE  TypeOK'
  <2> DEFINE k == Key(work[w].req)
             b == work[w].body
  <2>1. work[w] \in Executed
    BY <1>4 DEF Record, TypeOK, Resting, Checked
  <2>2. k \in Keys /\ b \in Bodies
    BY <2>1, AcceptedKey DEF Executed
  <2>3. "fresh" \in Answers
    BY DEF Answers
  <2>4. /\ work' \in [Workers -> Resting \cup Checked \cup Executed]
        /\ now' \in 0 .. MaxTime
    BY <1>4, <2>3, AnsweredRests DEF Record, TypeOK
  <2>5. rows' \in [Keys -> Row \cup {None}]
    <3>1. [body |-> b, expires |-> now + TTL] \in Row
      BY <2>2 DEF Row, TypeOK
    <3> QED
      BY <1>4, <2>2, <3>1 DEF Record, Insert, TypeOK
  <2>6. execs' \in Seq(Execution) /\ Len(execs') = Len(execs)
    <3>1. now + TTL \in Nat
      BY DEF TypeOK
    <3>2. CASE execs' = execs
      BY <3>2 DEF TypeOK
    <3>3. CASE execs' = [execs EXCEPT ![b].until = now + TTL]
      BY <3>1, <3>3, StampType DEF TypeOK
    <3> QED
      BY <1>4, <3>2, <3>3 DEF Record, Insert
  <2> QED
    BY <2>4, <2>5, <2>6 DEF TypeOK
<1>5. CASE Reap
  BY <1>5 DEF Reap, TypeOK
<1>6. CASE Tick
  BY <1>6 DEF Tick, TypeOK
<1>7. CASE UNCHANGED vars
  BY <1>7 DEF vars, TypeOK
<1> QED
  BY <1>1, <1>2, <1>3, <1>4, <1>5, <1>6, <1>7 DEF Next, Advance

\* And it changes that one field.
LEMMA StampOne ==
  ASSUME NEW s \in Seq(Execution), NEW n \in 1 .. Len(s), NEW t \in Nat
  PROVE  /\ [s EXCEPT ![n].until = t][n] = [s[n] EXCEPT !.until = t]
         /\ [s[n] EXCEPT !.until = t].until = t
         /\ [s[n] EXCEPT !.until = t].key = s[n].key
         /\ \A m \in 1 .. Len(s) \ {n} : [s EXCEPT ![n].until = t][m] = s[m]
<1> DEFINE e == [s[n] EXCEPT !.until = t]
<1>1. s[n] \in Execution
  BY ElementOfSeq
<1>2. e \in Execution /\ e.until = t /\ e.key = s[n].key
  BY <1>1 DEF Execution
<1>3. [s EXCEPT ![n].until = t] = [s EXCEPT ![n] = e]
  OBVIOUS
<1> HIDE DEF e
<1>4. \A m \in 1 .. Len(s) :
         [s EXCEPT ![n] = e][m] = IF m = n THEN e ELSE s[m]
  BY <1>2, ExceptSeq
<1>5. /\ [s EXCEPT ![n].until = t][n] = e
      /\ \A m \in 1 .. Len(s) \ {n} : [s EXCEPT ![n].until = t][m] = s[m]
  BY <1>3, <1>4
<1> QED
  BY <1>2, <1>5 DEF e

\* The initial states have them.
LEMMA InitType ==
  ASSUME ConstantsAssumption, Init
  PROVE  TypeOK
BY DEF ConstantsAssumption, Init, TypeOK, Answered, Answers, Resting, Keys

\* The variables stay within their types: rows within the unique index,
\* workers within the handler's steps, the history within its bound.
THEOREM TypeCorrect == Spec => []TypeOK
<1> USE ConstantsAssumption
<1>1. Init => TypeOK
  BY InitType
<1>2. TypeOK /\ [Next]_vars => TypeOK'
  BY StepType
<1> QED
  BY <1>1, <1>2, PTL DEF Spec

-----------------------------------------------------------------------------
(* The table agrees with what was executed *)

\* The parts of IInv beyond types.
Agreement == RecordedKept /\ ReplayIsOwn /\ RowsSound /\ WorkersSound

\* A worker that gives an answer of its own, or passes the gate, leaves the
\* table and the history alone.
LEMMA AnswerStep ==
  ASSUME IInv, NEW w \in Workers, NEW s,
         s.pc # "executed", s.answer # "replay",
         work' = [work EXCEPT ![w] = s],
         UNCHANGED <<now, rows, execs>>
  PROVE  Agreement'
<1> USE DEF IInv, TypeOK
<1>1. \A v \in Workers : work'[v] = work[v] \/ (v = w /\ work'[v] = s)
  OBVIOUS
<1>2. ReplayIsOwn'
  BY <1>1 DEF ReplayIsOwn
<1>3. WorkersSound'
  BY <1>1 DEF WorkersSound
<1> QED
  BY <1>2, <1>3 DEF Agreement, RecordedKept, RowsSound

\* What is replayed is the caller's own row.
LEMMA ReplayStep ==
  ASSUME IInv, NEW w \in Workers, NEW r \in Request, Replay(w, r)
  PROVE  Agreement'
<1> USE DEF IInv, TypeOK
<1>1. PICK k \in Matches(r) :
          work' = [work EXCEPT ![w] = Replayed(r, rows[k].body)]
  BY DEF Replay
<1>2. k \in Keys /\ rows[k] # None /\ k = Key(r)
  BY DEF Matches, LiveRows, Live, Keys, Key
<1>3. rows[k].body \in DOMAIN execs /\ execs[rows[k].body].key = Key(r)
  BY <1>2 DEF RowsSound
<1>4. \A v \in Workers :
         \/ work'[v] = work[v]
         \/ v = w /\ work'[v] = Replayed(r, rows[k].body)
  BY <1>1
<1>5. UNCHANGED <<now, rows, execs>>
  BY DEF Replay
<1>6. ReplayIsOwn'
  BY <1>3, <1>4, <1>5 DEF ReplayIsOwn, Replayed
<1>7. WorkersSound'
  BY <1>4, <1>5 DEF WorkersSound, Replayed
<1> QED
  BY <1>5, <1>6, <1>7 DEF Agreement, RecordedKept, RowsSound

\* A new execution is on nobody's record and nobody else is storing it.
LEMMA ExecuteStep ==
  ASSUME IInv, NEW w \in Workers, Execute(w)
  PROVE  Agreement'
<1> USE DEF IInv, TypeOK
<1> DEFINE n == Len(execs) + 1
           x == [key |-> Key(work[w].req), until |-> 0]
<1>1. execs' = Append(execs, x) /\ now' = now /\ rows' = rows
  BY DEF Execute
<1>2. /\ DOMAIN execs = 1 .. Len(execs)
      /\ DOMAIN execs' = 1 .. n
      /\ execs'[n] = x
      /\ \A m \in DOMAIN execs : m # n /\ m \in DOMAIN execs' /\ execs'[m] = execs[m]
  BY <1>1, LenProperties
<1>3. \A v \in Workers : v # w => work'[v] = work[v]
  BY DEF Execute
<1>4. /\ work'[w].pc = "executed" /\ work'[w].body = n
      /\ work'[w].req = work[w].req /\ work'[w].answer = work[w].answer
  BY DEF Execute
<1>5. work[w].answer # "replay"
  BY DEF Execute, Resting, Checked, Executed
<1>6. RecordedKept'
  BY <1>1, <1>2 DEF RecordedKept
<1>7. ReplayIsOwn'
  BY <1>2, <1>3, <1>4, <1>5 DEF ReplayIsOwn
<1>8. RowsSound'
  BY <1>1, <1>2 DEF RowsSound
<1>9. WorkersSound'
  BY <1>2, <1>3, <1>4 DEF WorkersSound
<1> QED
  BY <1>6, <1>7, <1>8, <1>9 DEF Agreement

\* A stored response takes a free place in the index, or changes nothing.
LEMMA RecordStep ==
  ASSUME ConstantsAssumption, IInv, NEW w \in Workers, Record(w)
  PROVE  Agreement'
<1> USE DEF IInv, TypeOK
<1> DEFINE k == Key(work[w].req)
           b == work[w].body
           u == now + TTL
<1>1. work[w] \in Executed
  BY DEF Record, Resting, Checked
<1>2. k \in Keys
  BY <1>1, AcceptedKey DEF Executed
<1>3. /\ b \in DOMAIN execs /\ execs[b].key = k /\ execs[b].until = 0
      /\ \A v \in Workers \ {w} : work[v].pc = "executed" => work[v].body # b
  BY DEF Record, WorkersSound
<1>4. \A v \in Workers : v # w => work'[v] = work[v]
  BY DEF Record
<1>5. work'[w].pc = "idle" /\ work'[w].answer = "fresh"
  BY DEF Record, Answered
<1>6. now' = now /\ now \in Nat /\ u \in Nat /\ u # 0 /\ u > now
  BY DEF Record, ConstantsAssumption
<1>7. CASE rows[k] # None
  <2>1. UNCHANGED <<rows, execs>>
    BY <1>7 DEF Record, Insert
  <2> QED
    BY <2>1, <1>4, <1>5, <1>6
    DEF Agreement, RecordedKept, ReplayIsOwn, RowsSound, WorkersSound
<1>8. CASE rows[k] = None
  <2>1. rows' = [rows EXCEPT ![k] = [body |-> b, expires |-> u]]
    BY <1>8 DEF Record, Insert
  <2>2. execs' = [execs EXCEPT ![b].until = u]
    BY <1>8 DEF Record, Insert
  <2>3. /\ DOMAIN execs' = DOMAIN execs
        /\ execs'[b].until = u
        /\ \A m \in DOMAIN execs : m # b => execs'[m] = execs[m]
    <3>1. execs \in Seq(Execution) /\ b \in 1 .. Len(execs) /\ u \in Nat
      BY <1>3, <1>6, LenProperties
    <3>2. DOMAIN execs' = DOMAIN execs
      BY <2>2
    <3>3. execs'[b].until = u
      BY <2>2, <3>1, StampOne
    <3>4. \A m \in 1 .. Len(execs) \ {b} : execs'[m] = execs[m]
      BY <2>2, <3>1, StampOne
    <3> QED
      BY <3>1, <3>2, <3>3, <3>4, LenProperties
  <2>4. \A m \in DOMAIN execs : execs'[m].key = execs[m].key
    <3>1. execs \in Seq(Execution) /\ b \in 1 .. Len(execs) /\ u \in Nat
      BY <1>3, <1>6, LenProperties
    <3>2. execs'[b].key = execs[b].key
      BY <2>2, <3>1, StampOne
    <3> QED
      BY <2>3, <3>2
  <2>5. /\ rows'[k] = [body |-> b, expires |-> u]
        /\ \A j \in Keys : j # k => rows'[j] = rows[j]
    BY <1>2, <2>1
  <2>6. [body |-> b, expires |-> u] # None
    <3>1. b \in Bodies
      BY <1>1 DEF Executed
    <3> QED
      BY <1>6, <3>1 DEF ConstantsAssumption, Row
  <2>7. RecordedKept'
    <3> SUFFICES ASSUME NEW m \in DOMAIN execs', execs'[m].until > now'
                 PROVE  /\ rows'[execs'[m].key] # None
                        /\ rows'[execs'[m].key].body = m
                        /\ rows'[execs'[m].key].expires = execs'[m].until
      BY DEF RecordedKept
    <3>1. CASE m = b
      BY <1>3, <2>3, <2>4, <2>5, <2>6, <3>1
    <3>2. CASE m # b
      <4>1. execs'[m] = execs[m] /\ execs[m].until > now /\ m \in DOMAIN execs
        BY <1>6, <2>3, <3>2
      <4>2. /\ rows[execs[m].key] # None
            /\ rows[execs[m].key].body = m
            /\ rows[execs[m].key].expires = execs[m].until
        BY <4>1 DEF RecordedKept
      <4>3. execs[m].key # k /\ execs[m].key \in Keys
        <5>1. execs[m] \in Execution
          BY <4>1, ElementOfSeq, LenProperties
        <5> QED
          BY <4>2, <1>8, <5>1 DEF Execution
      <4> QED
        BY <2>5, <4>1, <4>2, <4>3
    <3> QED
      BY <3>1, <3>2
  <2>8. ReplayIsOwn'
    BY <1>4, <1>5, <2>3, <2>4 DEF ReplayIsOwn
  <2>9. RowsSound'
    <3> SUFFICES ASSUME NEW j \in Keys, rows'[j] # None
                 PROVE  /\ rows'[j].body \in DOMAIN execs'
                        /\ execs'[rows'[j].body].key = j
                        /\ execs'[rows'[j].body].until = rows'[j].expires
      BY DEF RowsSound
    <3>1. CASE j = k
      BY <1>3, <2>3, <2>4, <2>5, <3>1
    <3>2. CASE j # k
      <4>1. /\ rows'[j] = rows[j]
            /\ rows[j].body \in DOMAIN execs
            /\ execs[rows[j].body].key = j
            /\ execs[rows[j].body].until = rows[j].expires
        BY <2>5, <3>2 DEF RowsSound
      <4>2. rows[j].body # b
        BY <1>3, <3>2, <4>1
      <4> QED
        BY <2>3, <4>1, <4>2
    <3> QED
      BY <3>1, <3>2
  <2>10. WorkersSound'
    BY <1>3, <1>4, <1>5, <2>3, <2>4 DEF WorkersSound
  <2> QED
    BY <2>7, <2>8, <2>9, <2>10 DEF Agreement
<1> QED
  BY <1>7, <1>8

\* Only rows past their expiry are reaped, and the clock only moves on.
LEMMA BackgroundStep ==
  ASSUME ConstantsAssumption, IInv, Reap \/ Tick
  PROVE  Agreement'
<1> USE DEF IInv, TypeOK
<1>1. UNCHANGED <<work, execs>> /\ now' >= now /\ now' \in Nat /\ now \in Nat
  BY DEF Reap, Tick, ConstantsAssumption
<1>2. \A k \in Keys :
         rows'[k] = rows[k] \/ (rows'[k] = None /\ rows[k].expires < now)
  BY DEF Reap, Tick, Expired
<1>3. RecordedKept'
  <2> SUFFICES ASSUME NEW n \in DOMAIN execs, execs[n].until > now'
               PROVE  /\ rows'[execs[n].key] # None
                      /\ rows'[execs[n].key].body = n
                      /\ rows'[execs[n].key].expires = execs[n].until
    BY <1>1 DEF RecordedKept
  <2>1. execs[n] \in Execution
    BY ElementOfSeq, LenProperties
  <2>2. execs[n].key \in Keys /\ execs[n].until \in Nat
    BY <2>1 DEF Execution
  <2>3. execs[n].until > now
    BY <1>1, <2>2
  <2> QED
    BY <1>1, <1>2, <2>2, <2>3 DEF RecordedKept
<1>4. ReplayIsOwn' /\ WorkersSound'
  BY <1>1 DEF ReplayIsOwn, WorkersSound
<1>5. RowsSound'
  BY <1>1, <1>2 DEF RowsSound
<1> QED
  BY <1>3, <1>4, <1>5 DEF Agreement

\* Every step keeps the strengthened invariant.
LEMMA StepIInv ==
  ASSUME ConstantsAssumption, IInv, [Next]_vars
  PROVE  IInv'
<1>1. TypeOK'
  BY StepType DEF IInv
<1>2. Agreement'
  <2>1. ASSUME NEW w \in Workers, NEW r \in Request, Gate(w, r)
        PROVE  Agreement'
    <3>1. CASE RejectMissing(w, r)
      BY <3>1, AnswerStep DEF RejectMissing, Answered
    <3>2. CASE RejectConflict(w, r)
      BY <3>2, AnswerStep DEF RejectConflict, Answered
    <3>3. CASE Replay(w, r)
      BY <3>3, ReplayStep
    <3>4. CASE Proceed(w, r)
      BY <3>4, AnswerStep DEF Proceed
    <3> QED
      BY <2>1, <3>1, <3>2, <3>3, <3>4 DEF Gate
  <2>2. ASSUME NEW w \in Workers, Advance(w)
        PROVE  Agreement'
    <3>1. CASE Execute(w)
      BY <3>1, ExecuteStep
    <3>2. CASE Refuse(w)
      BY <3>2, AnswerStep DEF Refuse, Answered
    <3>3. CASE Stop(w)
      BY <3>3, AnswerStep DEF Stop, Answered
    <3>4. CASE Record(w)
      BY <3>4, RecordStep
    <3> QED
      BY <2>2, <3>1, <3>2, <3>3, <3>4 DEF Advance
  <2>3. CASE Reap \/ Tick
    BY <2>3, BackgroundStep
  <2>4. CASE UNCHANGED vars
    BY <2>4 DEF vars, IInv, Agreement, RecordedKept, ReplayIsOwn, RowsSound,
                WorkersSound
  <2> QED
    BY <2>1, <2>2, <2>3, <2>4 DEF Next
<1> QED
  BY <1>1, <1>2 DEF IInv, Agreement

\* It holds at first.
LEMMA InitIInv ==
  ASSUME Init
  PROVE  IInv
<1>1. TypeOK
  BY InitType, ConstantsAssumption
<1>2. DOMAIN execs = {}
  BY DEF Init
<1>3. \A w \in Workers : work[w].pc = "idle" /\ work[w].answer = "none"
  BY DEF Init, Answered
<1> QED
  BY <1>1, <1>2, <1>3
  DEF IInv, Init, RecordedKept, ReplayIsOwn, RowsSound, WorkersSound

\* And always.
LEMMA Invariance == Spec => []IInv
<1>1. Init => IInv
  BY InitIInv
<1>2. IInv /\ [Next]_vars => IInv'
  BY StepIInv, ConstantsAssumption
<1> QED
  BY <1>1, <1>2, PTL DEF Spec

\* The response of a recorded execution stays on record until it expires,
\* however many workers store, replay and reap around it.
THEOREM RecordedResponsesKept == Spec => []RecordedKept
BY Invariance, PTL DEF IInv

\* No replay shows a caller somebody else's response, or that of another
\* request id or endpoint.
THEOREM ReplaysAreOwn == Spec => []ReplayIsOwn
BY Invariance, PTL DEF IInv

-----------------------------------------------------------------------------
(* What passing the gate means *)

\* Only check_before lets a request through.
LEMMA PassIsProceed ==
  ASSUME IInv, [Next]_vars, NEW w \in Workers, Passes(w)
  PROVE  \E r \in Request : Proceed(w, r) /\ work'[w].req = r
<1> USE DEF IInv, TypeOK, Passes
<1>1. ASSUME NEW v \in Workers, Advance(v)
      PROVE  FALSE
  BY <1>1 DEF Advance, Execute, Refuse, Stop, Record, Answered
<1>2. ASSUME NEW v \in Workers, NEW r \in Request, Gate(v, r)
      PROVE  v = w /\ Proceed(w, r) /\ work'[w].req = r
  <2>1. CASE RejectMissing(v, r) \/ RejectConflict(v, r)
    BY <2>1 DEF RejectMissing, RejectConflict, Answered
  <2>2. CASE Replay(v, r)
    BY <2>2 DEF Replay, Replayed
  <2>3. CASE Proceed(v, r)
    BY <2>3 DEF Proceed
  <2> QED
    BY <1>2, <2>1, <2>2, <2>3 DEF Gate
<1>3. CASE Reap \/ Tick \/ UNCHANGED vars
  BY <1>3 DEF Reap, Tick, vars
<1> QED
  BY <1>1, <1>2, <1>3 DEF Next

\* A live record of a key is in the table where lookup finds it.
LEMMA LiveRecord ==
  ASSUME IInv, NEW n \in DOMAIN execs, execs[n].until > now
  PROVE  /\ execs[n].key \in Keys
         /\ Live(execs[n].key)
<1>1. execs[n] \in Execution
  BY ElementOfSeq, LenProperties DEF IInv, TypeOK
<1> QED
  BY <1>1 DEF IInv, RecordedKept, Live, Execution

\* A request whose response is on record is not executed again before the
\* record expires, whatever other workers and the reaper do in between, and a
\* request id on record is refused to every other user: lookup finds either
\* record (middleware/idempotency.rs).
THEOREM NoReexecutionHolds == Spec => NoReexecution
<1>1. ASSUME IInv, [Next]_vars, NEW w \in Workers, Passes(w),
             NEW n \in DOMAIN execs, Bars(n, work'[w].req)
      PROVE  FALSE
  <2>1. PICK r \in Request : Proceed(w, r) /\ work'[w].req = r
    BY <1>1, PassIsProceed
  <2>2. execs[n].until > now
    BY <1>1 DEF Bars
  <2>3. execs[n].key \in Keys /\ Live(execs[n].key)
    BY <2>2, LiveRecord, <1>1
  <2>4. CASE r.spell = "canonical" /\ execs[n].key = Key(r)
    <3>1. Key(r)[1] = r.user /\ Key(r)[2] = r.rid /\ Key(r)[3] = r.ep
      BY DEF Key
    <3>2. Key(r) \in Matches(r)
      BY <2>3, <2>4, <3>1 DEF Matches, LiveRows
    <3> QED
      BY <2>1, <3>2 DEF Proceed
  <2>5. CASE execs[n].key[1] # r.user /\ execs[n].key[2] = r.rid
    <3>1. execs[n].key \in LiveRows(r.rid)
      BY <2>3, <2>5 DEF LiveRows
    <3> QED
      BY <2>1, <2>5, <3>1 DEF Proceed, Foreign
  <2> QED
    BY <1>1, <2>1, <2>4, <2>5 DEF Bars
<1>2. IInv /\ [Next]_vars =>
        [\A w \in Workers :
           Passes(w) => \A n \in DOMAIN execs : ~ Bars(n, work'[w].req)]_vars
  BY <1>1
<1> QED
  BY <1>2, Invariance, PTL DEF Spec, NoReexecution

-----------------------------------------------------------------------------
(* The implementation of the replay register *)

\* The mapping of ImplementsRegister, by name.
RegOf == [k \in Keys |-> IF rows[k] = None THEN None
                         ELSE [body |-> rows[k].body, until |-> rows[k].expires]]

ReplyOf == [w \in Workers |->
              IF work[w].answer = "replay"
                THEN [key |-> Key(work[w].req), body |-> work[w].body]
                ELSE None]

\* A step of a worker that replays nothing clears its last replay.
LEMMA SilentWorker ==
  ASSUME IInv, NEW w \in Workers, NEW s, s.answer # "replay",
         work' = [work EXCEPT ![w] = s]
  PROVE  ReplyOf' = [ReplyOf EXCEPT ![w] = None]
BY DEF ReplyOf, IInv, TypeOK

\* Every step is one of the register, or a stutter.
LEMMA RegisterStep ==
  ASSUME ConstantsAssumption, IInv, [Next]_vars
  PROVE  [Register!Next]_(Register!vars)
<1> USE DEF IInv, TypeOK
<1> DEFINE Quiet(w) == /\ ReplyOf' = [ReplyOf EXCEPT ![w] = None]
                       /\ RegOf' = RegOf
                       /\ now' = now
<1>1. ASSUME NEW w \in Workers, Quiet(w)
      PROVE  Register!Next
  BY <1>1 DEF Register!Next, Register!Other, RegOf, ReplyOf
<1>2. ASSUME NEW w \in Workers, NEW r \in Request, Gate(w, r)
      PROVE  Register!Next
  <2>1. CASE RejectMissing(w, r) \/ RejectConflict(w, r) \/ Proceed(w, r)
    <3>1. Quiet(w)
      BY <2>1, SilentWorker
      DEF RejectMissing, RejectConflict, Proceed, Answered, RegOf
    <3> QED
      BY <1>1, <3>1
  <2>2. CASE Replay(w, r)
    <3>1. PICK k \in Matches(r) :
              work' = [work EXCEPT ![w] = Replayed(r, rows[k].body)]
      BY <2>2 DEF Replay
    <3>2. k \in Keys /\ Live(k) /\ k = Key(r)
      BY DEF Matches, LiveRows, Keys, Key
    <3>3. ReplyOf' = [ReplyOf EXCEPT ![w] =
                        [key |-> k, body |-> rows[k].body]]
      BY <3>1, <3>2 DEF ReplyOf, Replayed
    <3>4. RegOf[k].body = rows[k].body /\ RegOf[k].until = rows[k].expires
      BY <3>2 DEF RegOf, Live
    <3>5. RegOf[k] # None
      <4>1. rows[k] \in Row
        BY <3>2 DEF Live
      <4> QED
        BY <3>2, <4>1 DEF RegOf, Row, Live, ConstantsAssumption
    <3>6. RegOf' = RegOf /\ now' = now
      BY <2>2 DEF Replay, RegOf
    <3>7. RegOf[k].until > now
      BY <3>2, <3>4 DEF Live
    <3>8. Register!Serve(w, k)
      BY <3>3, <3>4, <3>5, <3>6, <3>7
      DEF Register!Serve, Register!Live, RegOf, ReplyOf
    <3> QED
      BY <3>2, <3>8 DEF Register!Next
  <2> QED
    BY <1>2, <2>1, <2>2 DEF Gate
<1>3. ASSUME NEW w \in Workers, Execute(w)
      PROVE  Register!Next
  <2>1. work[w].answer # "replay"
    BY <1>3 DEF Execute, Resting, Checked, Executed
  <2>2. PICK s : /\ work' = [work EXCEPT ![w] = s]
                 /\ s = [work[w] EXCEPT !.pc = "executed",
                                        !.body = Len(execs) + 1]
    BY <1>3 DEF Execute
  <2>3. ReplyOf' = [ReplyOf EXCEPT ![w] = None]
    <3>1. s.answer # "replay"
      BY <2>1, <2>2, <1>3 DEF Execute, Resting, Checked, Executed
    <3> QED
      BY <2>2, <3>1, SilentWorker
  <2>4. Quiet(w)
    BY <1>3, <2>3 DEF Execute, RegOf
  <2> QED
    BY <1>1, <2>4
<1>4. ASSUME NEW w \in Workers, Refuse(w) \/ Stop(w)
      PROVE  Register!Next
  <2>1. Quiet(w)
    BY <1>4, SilentWorker DEF Refuse, Stop, Answered, RegOf
  <2> QED
    BY <1>1, <2>1
<1>5. ASSUME NEW w \in Workers, Record(w)
      PROVE  Register!Next
  <2>1. work[w] \in Executed
    BY <1>5 DEF Record, Resting, Checked
  <2>2. PICK k \in Keys, b \in Bodies :
            k = Key(work[w].req) /\ b = work[w].body
    BY <2>1, AcceptedKey DEF Executed
  <2>3. ReplyOf' = [ReplyOf EXCEPT ![w] = None]
    BY <1>5, SilentWorker DEF Record, Answered
  <2>4. CASE rows[k] # None
    <3>1. Quiet(w)
      BY <1>5, <2>2, <2>3, <2>4 DEF Record, Insert, RegOf
    <3> QED
      BY <1>1, <3>1
  <2>5. CASE rows[k] = None
    <3>1. /\ rows' = [rows EXCEPT ![k] = [body |-> b, expires |-> now + TTL]]
          /\ now' = now
      BY <1>5, <2>2, <2>5 DEF Record, Insert
    <3>2. [body |-> b, expires |-> now + TTL] # None
      BY <2>2 DEF Row, ConstantsAssumption
    <3>3. RegOf' = [RegOf EXCEPT ![k] = [body |-> b, until |-> now + TTL]]
      BY <2>2, <3>1, <3>2 DEF RegOf
    <3>4. RegOf[k] = None
      BY <2>2, <2>5 DEF RegOf
    <3>5. Register!Write(w, k, b)
      BY <2>3, <3>1, <3>3, <3>4 DEF Register!Write, RegOf, ReplyOf
    <3> QED
      BY <3>5 DEF Register!Next
  <2> QED
    BY <2>4, <2>5
<1>6. CASE Reap
  <2> DEFINE ks == {k \in Keys : Expired(k)}
  <2>1. ks \in SUBSET {k \in Keys : ~ Register!Live(k)}
    <3> SUFFICES ASSUME NEW k \in ks
                 PROVE  ~ Register!Live(k)
      OBVIOUS
    <3>1. rows[k] # None /\ rows[k] \in Row /\ rows[k].expires < now
      BY DEF Expired
    <3> QED
      BY <3>1 DEF Register!Live, Row
  <2>2. RegOf' = [k \in Keys |-> IF k \in ks THEN None ELSE RegOf[k]]
    BY <1>6 DEF Reap, RegOf
  <2>3. now' = now /\ ReplyOf' = ReplyOf
    BY <1>6 DEF Reap, ReplyOf
  <2>4. Register!Expire
    BY <2>1, <2>2, <2>3 DEF Register!Expire, RegOf, ReplyOf
  <2> QED
    BY <2>4 DEF Register!Next
<1>7. CASE Tick
  BY <1>7 DEF Tick, Register!Next, Register!Tick
<1>8. CASE UNCHANGED vars
  BY <1>8 DEF vars, Register!vars
<1> QED
  BY <1>2, <1>3, <1>4, <1>5, <1>6, <1>7, <1>8 DEF Next, Advance

\* The table, the gate, the store and the reaper together are a register that
\* is written once, replayed verbatim and emptied only after its expiry.
THEOREM RegisterImplemented == Spec => ImplementsRegister
<1>1. Init => Register!Init
  BY DEF Init, Answered, Register!Init
<1>2. IInv /\ [Next]_vars => [Register!Next]_(Register!vars)
  BY RegisterStep, ConstantsAssumption
<1> QED
  BY <1>1, <1>2, Invariance, PTL DEF Spec, Register!Spec, ImplementsRegister

-----------------------------------------------------------------------------
(* One execution per record, when requests are handled one at a time *)

OneAtATime == \A v, w \in Workers : v = w

\* Past the gate in the canonical spelling, no earlier execution of the request
\* is on record any more.
ClearToExecute ==
  \A w \in Workers :
     work[w].pc = "checked" /\ work[w].req.spell = "canonical" =>
        \A n \in DOMAIN execs :
           execs[n].key = Key(work[w].req) => execs[n].until <= now

OnceInv == IInv /\ ClearToExecute

\* Every step keeps it, one request at a time: only a commit follows the gate,
\* and no record is stored before.
LEMMA OnceStep ==
  ASSUME ConstantsAssumption, OneAtATime, OnceInv, [Next]_vars
  PROVE  OnceInv'
<1> USE DEF OnceInv, IInv, TypeOK
<1>0. IInv'
  <2> HIDE DEF IInv
  <2> QED
    BY StepIInv
<1>1. ASSUME NEW w \in Workers, NEW s, s.pc # "checked",
             work' = [work EXCEPT ![w] = s]
      PROVE  ClearToExecute'
  BY <1>1 DEF OneAtATime, ClearToExecute
<1>2. ASSUME NEW w \in Workers, NEW r \in Request, Gate(w, r)
      PROVE  ClearToExecute'
  <2>1. CASE RejectMissing(w, r) \/ RejectConflict(w, r)
    BY <1>1, <2>1 DEF RejectMissing, RejectConflict, Answered
  <2>2. CASE Replay(w, r)
    BY <1>1, <2>2 DEF Replay, Replayed
  <2>3. CASE Proceed(w, r)
    <3>1. /\ work'[w].pc = "checked" /\ work'[w].req = r
          /\ \A v \in Workers : v = w
          /\ UNCHANGED <<now, rows, execs>>
      BY <2>3 DEF Proceed, OneAtATime
    <3>2. ASSUME NEW n \in DOMAIN execs, execs[n].key = Key(r),
                 ~(execs[n].until <= now), r.spell = "canonical"
          PROVE  FALSE
      <4>1. execs[n] \in Execution
        BY ElementOfSeq, LenProperties
      <4>2. execs[n].until > now
        BY <3>2, <4>1 DEF Execution, ConstantsAssumption
      <4>3. Key(r) \in Keys /\ Live(Key(r))
        BY <3>2, <4>2, LiveRecord
      <4>4. Key(r) \in Matches(r)
        BY <3>2, <4>3 DEF Matches, LiveRows, Key
      <4> QED
        BY <2>3, <4>4 DEF Proceed
    <3> QED
      BY <3>1, <3>2 DEF ClearToExecute
  <2> QED
    BY <1>2, <2>1, <2>2, <2>3 DEF Gate
<1>3. ASSUME NEW w \in Workers, Advance(w)
      PROVE  ClearToExecute'
  <2>1. CASE Execute(w)
    <3>1. work'[w].pc = "executed" /\ \A v \in Workers : v = w
      BY <2>1 DEF Execute, OneAtATime
    <3> QED
      BY <3>1 DEF ClearToExecute
  <2>2. CASE Refuse(w) \/ Stop(w) \/ Record(w)
    BY <1>1, <2>2 DEF Refuse, Stop, Record, Answered
  <2> QED
    BY <1>3, <2>1, <2>2 DEF Advance
<1>4. ASSUME Reap \/ Tick
      PROVE  ClearToExecute'
  <2>1. UNCHANGED <<work, execs>> /\ now' >= now /\ now \in Nat /\ now' \in Nat
    BY <1>4 DEF Reap, Tick, ConstantsAssumption
  <2>2. \A n \in DOMAIN execs : execs[n].until \in Nat
    <3> SUFFICES ASSUME NEW n \in DOMAIN execs
                 PROVE  execs[n].until \in Nat
      OBVIOUS
    <3>1. execs[n] \in Execution
      BY ElementOfSeq, LenProperties
    <3> QED
      BY <3>1 DEF Execution
  <2> QED
    BY <2>1, <2>2 DEF ClearToExecute
<1>5. ASSUME UNCHANGED vars
      PROVE  ClearToExecute'
  BY <1>5 DEF vars, ClearToExecute
<1> QED
  BY <1>0, <1>2, <1>3, <1>4, <1>5 DEF Next

\* Requests handled one at a time, in whatever spellings: once an execution is
\* on record, no canonical retry of it commits until the record expires,
\* crashes and failed statements included.
THEOREM OneExecutionPerRecord ==
  ASSUME OneAtATime
  PROVE  Spec => OnceWhileRecorded
<1>1. Init => OnceInv
  <2> SUFFICES ASSUME Init
               PROVE  OnceInv
    OBVIOUS
  <2>1. IInv
    BY InitIInv
  <2> QED
    BY <2>1 DEF Init, Answered, OnceInv, ClearToExecute
<1>2. OnceInv /\ [Next]_vars => OnceInv'
  BY OnceStep, ConstantsAssumption
<1>3. OnceInv => [\A w \in Workers :
                    Commits(w) /\ work[w].req.spell = "canonical" =>
                       \A n \in DOMAIN execs :
                          execs[n].key = Key(work[w].req) =>
                             execs[n].until <= now]_vars
  BY DEF OnceInv, ClearToExecute, Commits
<1> QED
  BY <1>1, <1>2, <1>3, PTL DEF Spec, OnceWhileRecorded
=============================================================================
