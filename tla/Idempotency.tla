----------------------------- MODULE Idempotency -----------------------------
(***************************************************************************)
(* The request-id gate every CivicOps write goes through                   *)
(* (middleware/idempotency.rs), the idempotency_keys table behind it and   *)
(* the background task that empties it (services/reaper.rs).               *)
(*                                                                         *)
(* A write handler is: check_before, the handler's own database writes     *)
(* (here one step, Execute; the modules of the single handlers refine it), *)
(* record_after, answer.  Each step is a statement that commits by itself, *)
(* and the handlers of the other workers run in between.                   *)
(*                                                                         *)
(* The clock is abstract: what matters is whether a row's expiry is in the *)
(* past.  The table is a function of the columns of its unique index.  A   *)
(* stored response is the number of the execution it came from.            *)
(***************************************************************************)
EXTENDS Naturals, Sequences

CONSTANTS
  Users,       \* authenticated callers
  Rids,        \* well-formed X-Request-Id values
  Endpoints,   \* concrete routes, in the spelling record_after stores
  Spellings,   \* how callers write the path: "canonical", or a "variant"
               \* (UUID in capitals or without hyphens) routed alike
  Workers,     \* actix workers: requests in progress at one time
  MayFail,     \* whether a statement can fail or the process can stop
  TTL,         \* TTL_HOURS
  MaxTime,     \* bound: the clock stops here
  MaxExecs,    \* bound: executions in a behaviour
  None         \* no row; no X-Request-Id header

Keys == Users \X Rids \X Endpoints
Bodies == 1 .. MaxExecs
Row == [body : Bodies, expires : Nat]

ASSUME ConstantsAssumption ==
  /\ Spellings \subseteq {"canonical", "variant"}
  /\ MayFail \in BOOLEAN
  /\ TTL \in Nat \ {0}
  /\ MaxTime \in Nat
  /\ MaxExecs \in Nat
  /\ None \notin Rids \cup Row \cup [body : Bodies, until : Nat]

VARIABLES
  now,    \* the database clock
  rows,   \* idempotency_keys: rows[k] is None or [body, expires]
  work,   \* work[w]: the request worker w handles and how far it is
  execs   \* history: every execution, [key, until]; until is the expiry of
          \* the row that holds its response, 0 as long as none does

vars == <<now, rows, work, execs>>

\* The answers: "fresh" after a stored execution, the replayed response, 409,
\* 400 for a missing header, any error of the handler.
Answers == {"none", "fresh", "replay", "conflict", "missing", "error"}

Request ==
  [user : Users, rid : Rids \cup {None}, ep : Endpoints, spell : Spellings]

\* Requests with a request id: what can get as far as the table.
Accepted == [user : Users, rid : Rids, ep : Endpoints, spell : Spellings]

Key(r) == <<r.user, r.rid, r.ep>>

Resting ==
  [pc : {"idle"}, req : Accepted \cup {None}, body : 0 .. MaxExecs,
   answer : Answers]

Checked ==
  [pc : {"checked"}, req : Accepted, body : {0}, answer : {"none"}]

Executed ==
  [pc : {"executed"}, req : Accepted, body : Bodies, answer : {"none"}]

Execution == [key : Keys, until : Nat]

TypeOK ==
  /\ now \in 0 .. MaxTime
  /\ rows \in [Keys -> Row \cup {None}]
  /\ work \in [Workers -> Resting \cup Checked \cup Executed]
  /\ execs \in Seq(Execution)
  /\ Len(execs) <= MaxExecs

\* Bug: a row is given up before its last hour.
LiveShort(k) == rows[k] # None /\ rows[k].expires > now + 1

Live(k) == rows[k] # None /\ rows[k].expires > now

\* A worker between requests; of the last one only its answer is kept, and of
\* a replay what was replayed to whom.
Answered(answer) == [pc |-> "idle", req |-> None, body |-> 0, answer |-> answer]

Replayed(r, b) == [pc |-> "idle", req |-> r, body |-> b, answer |-> "replay"]

Init ==
  /\ now = 0
  /\ rows = [k \in Keys |-> None]
  /\ work = [w \in Workers |-> Answered("none")]
  /\ execs = <<>>

-----------------------------------------------------------------------------
(* lookup: the unexpired rows with the request id, of whatever user *)

LiveRows(rid) == {k \in Keys : k[2] = rid /\ Live(k)}

\* Somebody else's, on any endpoint.
Foreign(r) == \E k \in LiveRows(r.rid) : k[1] # r.user

\* Bug: the endpoint is not compared.
MatchesAnywhere(r) ==
  {k \in LiveRows(r.rid) : k[1] = r.user /\ r.spell = "canonical"}

\* The caller's own for this method and path.  The path compared is the one
\* received, the path stored is the canonical one.
Matches(r) ==
  {k \in LiveRows(r.rid) :
     k[1] = r.user /\ k[3] = r.ep /\ r.spell = "canonical"}

-----------------------------------------------------------------------------
(* check_before: a request arrives at worker w and passes the gate or not *)

RejectMissing(w, r) ==
  /\ work[w].pc = "idle"
  /\ r.rid = None
  /\ work' = [work EXCEPT ![w] = Answered("missing")]
  /\ UNCHANGED <<now, rows, execs>>

RejectConflict(w, r) ==
  /\ work[w].pc = "idle"
  /\ r.rid # None
  /\ Foreign(r)
  /\ work' = [work EXCEPT ![w] = Answered("conflict")]
  /\ UNCHANGED <<now, rows, execs>>

Replay(w, r) ==
  /\ work[w].pc = "idle"
  /\ r.rid # None
  /\ ~Foreign(r)
  /\ \E k \in Matches(r) :
        work' = [work EXCEPT ![w] = Replayed(r, rows[k].body)]
  /\ UNCHANGED <<now, rows, execs>>

\* Bug: a request without a request id is let through.
ProceedWithout(w, r) ==
  /\ work[w].pc = "idle"
  /\ ~Foreign(r)
  /\ Matches(r) = {}
  /\ work' = [work EXCEPT ![w] =
                [pc |-> "checked", req |-> r, body |-> 0, answer |-> "none"]]
  /\ UNCHANGED <<now, rows, execs>>

Proceed(w, r) ==
  /\ work[w].pc = "idle"
  /\ r.rid # None
  /\ ~Foreign(r)
  /\ Matches(r) = {}
  /\ work' = [work EXCEPT ![w] =
                [pc |-> "checked", req |-> r, body |-> 0, answer |-> "none"]]
  /\ UNCHANGED <<now, rows, execs>>

-----------------------------------------------------------------------------
(* The handler behind the gate *)

\* The handler's own writes commit.
Execute(w) ==
  /\ work[w].pc = "checked"
  /\ Len(execs) < MaxExecs
  /\ execs' = Append(execs, [key |-> Key(work[w].req), until |-> 0])
  /\ work' = [work EXCEPT ![w].pc = "executed", ![w].body = Len(execs) + 1]
  /\ UNCHANGED <<now, rows>>

\* The handler finds a reason to refuse after the gate: nothing was written.
Refuse(w) ==
  /\ work[w].pc = "checked"
  /\ work' = [work EXCEPT ![w] = Answered("error")]
  /\ UNCHANGED <<now, rows, execs>>

\* A later statement fails (the pool times out) or the process stops: the
\* writes stand, nothing is recorded.
Stop(w) ==
  /\ MayFail
  /\ work[w].pc = "executed"
  /\ work' = [work EXCEPT ![w] = Answered("error")]
  /\ UNCHANGED <<now, rows, execs>>

\* Bug: the insert overwrites (ON CONFLICT DO UPDATE).
InsertOver(k, b) ==
  /\ rows' = [rows EXCEPT ![k] = [body |-> b, expires |-> now + TTL]]
  /\ execs' = [execs EXCEPT ![b].until = now + TTL]

\* store: the insert does nothing when the index already holds a row for the
\* key, expired or not.
Insert(k, b) ==
  IF rows[k] = None
    THEN /\ rows' = [rows EXCEPT ![k] = [body |-> b, expires |-> now + TTL]]
         /\ execs' = [execs EXCEPT ![b].until = now + TTL]
    ELSE UNCHANGED <<rows, execs>>

\* record_after, then the response.
Record(w) ==
  /\ work[w].pc = "executed"
  /\ Insert(Key(work[w].req), work[w].body)
  /\ work' = [work EXCEPT ![w] = Answered("fresh")]
  /\ UNCHANGED now

-----------------------------------------------------------------------------
(* reap_once, and time *)

\* Bug: the comparison is the wrong way round.
ExpiredSwapped(k) == rows[k] # None /\ rows[k].expires > now

Expired(k) == rows[k] # None /\ rows[k].expires < now

\* Bug: the DELETE has lost its WHERE.
ReapAll ==
  /\ \E k \in Keys : Expired(k)
  /\ rows' = [k \in Keys |-> None]
  /\ UNCHANGED <<now, work, execs>>

\* Bug: rows are kept for a second lifetime.
ReapLate ==
  /\ \E k \in Keys : Expired(k)
  /\ rows' = [k \in Keys |->
                IF Expired(k) /\ rows[k].expires + TTL < now THEN None ELSE rows[k]]
  /\ UNCHANGED <<now, work, execs>>

Reap ==
  /\ \E k \in Keys : Expired(k)
  /\ rows' = [k \in Keys |-> IF Expired(k) THEN None ELSE rows[k]]
  /\ UNCHANGED <<now, work, execs>>

Tick ==
  /\ now < MaxTime
  /\ now' = now + 1
  /\ UNCHANGED <<rows, work, execs>>

Gate(w, r) ==
  RejectMissing(w, r) \/ RejectConflict(w, r) \/ Replay(w, r) \/ Proceed(w, r)

Advance(w) == Execute(w) \/ Refuse(w) \/ Stop(w) \/ Record(w)

Next ==
  \/ \E w \in Workers : (\E r \in Request : Gate(w, r)) \/ Advance(w)
  \/ Reap
  \/ Tick

Spec == Init /\ [][Next]_vars

\* The reaper's loop never ends, whatever a pass of it returned.
FairSpec == Spec /\ WF_vars(Reap)

-----------------------------------------------------------------------------
(* Properties *)

\* The response of every execution that reached the table stays there, under
\* that execution's own (user, request id, endpoint), until it expires.
RecordedKept ==
  \A n \in DOMAIN execs :
     execs[n].until > now =>
        /\ rows[execs[n].key] # None
        /\ rows[execs[n].key].body = n
        /\ rows[execs[n].key].expires = execs[n].until

\* A replay never hands a caller the response to another user's request, to
\* another request id or to another endpoint.
ReplayIsOwn ==
  \A w \in Workers : work[w].answer = "replay" =>
     /\ work[w].body \in DOMAIN execs
     /\ execs[work[w].body].key = Key(work[w].req)

\* What makes the two inductive: every row holds the response of an execution
\* of its key and says when that record ends, and an execution whose response
\* is still to be stored belongs to one worker and is on nobody's record.
RowsSound ==
  \A k \in Keys : rows[k] # None =>
     /\ rows[k].body \in DOMAIN execs
     /\ execs[rows[k].body].key = k
     /\ execs[rows[k].body].until = rows[k].expires

WorkersSound ==
  \A w \in Workers : work[w].pc = "executed" =>
     /\ work[w].body \in DOMAIN execs
     /\ execs[work[w].body].key = Key(work[w].req)
     /\ execs[work[w].body].until = 0
     /\ \A v \in Workers \ {w} :
          work[v].pc = "executed" => work[v].body # work[w].body

IInv == TypeOK /\ RecordedKept /\ ReplayIsOwn /\ RowsSound /\ WorkersSound

Passes(w) == work[w].pc = "idle" /\ work'[w].pc = "checked"

\* Execution n is one that is to keep request r from being executed: of the
\* same request, in the canonical spelling, or of another user's request with
\* the same id, in any.
Bars(n, r) ==
  /\ execs[n].until > now
  /\ \/ r.spell = "canonical" /\ execs[n].key = Key(r)
     \/ execs[n].key[1] # r.user /\ execs[n].key[2] = r.rid

\* No request gets past the gate while the response to an earlier execution of
\* it is on record and not expired, nor while another user's response to the
\* same request id is: the id is the first user's for the row's lifetime.
NoReexecution ==
  [][\A w \in Workers :
       Passes(w) => \A n \in DOMAIN execs : ~ Bars(n, work'[w].req)]_vars

Commits(w) == work[w].pc = "checked" /\ work'[w].pc = "executed"

\* One execution per record lifetime: what the gate found still holds when the
\* handler commits.  Once the response to an execution is on record, no retry
\* of it in the canonical spelling commits again before the record expires,
\* whatever retries in other spellings, which do commit again, have done
\* meanwhile.  True of one worker; two may both be past the gate.
OnceWhileRecorded ==
  [][\A w \in Workers :
       Commits(w) /\ work[w].req.spell = "canonical" =>
          \A n \in DOMAIN execs :
             execs[n].key = Key(work[w].req) => execs[n].until <= now]_vars

\* The caller of a recorded execution is never told 409 about its own request
\* as long as the record lives.
OwnerNotRefused ==
  [][\A w \in Workers, r \in Request : RejectConflict(w, r) =>
       ~ \E n \in DOMAIN execs :
            execs[n].key = Key(r) /\ execs[n].until > now]_vars

\* A row past its expiry does not stay: its key becomes free for the record of
\* a new execution.
ExpiredIsReaped == \A k \in Keys : Expired(k) ~> rows[k] = None

\* The register of ReplayRegister.tla, read off the table and the workers.
Register ==
  INSTANCE ReplayRegister WITH
    Clients <- Workers,
    Empty <- None,
    reg <- [k \in Keys |-> IF rows[k] = None THEN None
                           ELSE [body |-> rows[k].body,
                                 until |-> rows[k].expires]],
    reply <- [w \in Workers |->
                IF work[w].answer = "replay"
                  THEN [key |-> Key(work[w].req), body |-> work[w].body]
                  ELSE None]

\* The table, the gate and the reaper implement the replay register.
ImplementsRegister == Register!Spec
=============================================================================
