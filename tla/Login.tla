--------------------------------- MODULE Login ---------------------------------
(***************************************************************************)
(* Logging in (handlers/auth.rs): the lockout that counts failed attempts, *)
(* the request id that gives a repeated login its first token, and the     *)
(* session that is issued (services/session.rs).  Every statement commits  *)
(* by itself; the password is verified on the row loaded before.           *)
(*                                                                         *)
(* The requests are those for the names of real accounts: an unknown name  *)
(* only leaves a failed attempt of its own.  Rows of successful attempts   *)
(* are not kept: no query selects them.  Whether the password of a request *)
(* is right is part of the request, as the rate limiter's verdict is.      *)
(* Stored responses do not expire here (Idempotency.tla has their expiry). *)
(*                                                                         *)
(* Sessions.tla adds what sessions are used for and puts both together.    *)
(***************************************************************************)
EXTENDS Naturals, Sequences, FiniteSets, FiniteSetsExt

CONSTANTS
  Users, Rids, Workers,
  Threshold,   \* LOCKOUT_THRESHOLD
  Window,      \* LOCKOUT_WINDOW_MIN
  TTL,         \* session_ttl_secs
  MaxTime,     \* bound: the clock stops here
  Budgets      \* bound: how many requests of each kind there are, how many
               \* fail on the way, and how far the clock goes

Kinds == {"right", "wrong", "use", "logout", "unlock", "admin", "fail", "tick"}

ASSUME LoginAssumption ==
  /\ IsFiniteSet(Workers) /\ Workers # {}
  /\ Threshold \in Nat \ {0}
  /\ Window \in Nat \ {0}
  /\ TTL \in Nat \ {0}
  /\ MaxTime \in Nat
  /\ Budgets \subseteq [Kinds -> Nat]

VARIABLES
  now,       \* the clock
  users,     \* users[u]: is_active, and locked_until, 0 for a null
  failures,  \* failures[u][t]: failed attempts of u stamped t
  sessions,  \* sessions[s] is the row with id s
  logins,    \* logins[k]: the session in the response stored for a user and
             \* request id, 0 if there is none
  work,      \* work[w]: the request worker w handles and how far it is
  budget,    \* what is left of the bounds
  guesses,   \* history: guesses[u][t]: wrong passwords that were compared,
             \* since the last unlock that reached their stamp
  lost       \* history: lost[u]: requests of u that failed on the way

loginVars == <<users, failures, sessions, logins, guesses, lost>>

Times == 0 .. MaxTime

User == [active : BOOLEAN, until : Nat]

Session ==
  [user : Users, rid : Rids, created : Times, last : Times, expires : Nat,
   revoked : BOOLEAN]

\* stamp is `now` of the handler, seen the user as loaded, issued the session.
LoginJob ==
  [pc : {"stamped", "read", "locking", "failing", "verified", "accepted",
         "issuing", "issued"},
   user : Users, rid : Rids, right : BOOLEAN, stamp : Times, seen : User,
   issued : Nat]

Idle == [pc |-> "idle"]

LoginTypeOK ==
  /\ now \in Times
  /\ users \in [Users -> User]
  /\ failures \in [Users -> [Times -> Nat]]
  /\ sessions \in Seq(Session)
  /\ logins \in [Users \X Rids -> 0 .. Len(sessions)]
  /\ budget \in [Kinds -> Nat]
  /\ guesses \in [Users -> [Times -> Nat]]
  /\ lost \in [Users -> Nat]

LoginInit ==
  /\ now = 0
  /\ users = [u \in Users |-> [active |-> TRUE, until |-> 0]]
  /\ failures = [u \in Users |-> [t \in Times |-> 0]]
  /\ sessions = <<>>
  /\ logins = [k \in Users \X Rids |-> 0]
  /\ work = [w \in Workers |-> Idle]
  /\ budget \in Budgets
  /\ guesses = [u \in Users |-> [t \in Times |-> 0]]
  /\ lost = [u \in Users |-> 0]

At(w, pc) == work[w].pc = pc

To(w, pc) == work' = [work EXCEPT ![w].pc = pc]

End(w) == work' = [work EXCEPT ![w] = Idle]

\* One thing less of the kind may happen.
Spend(kind) ==
  /\ budget[kind] > 0
  /\ budget' = [budget EXCEPT ![kind] = @ - 1]

Tick ==
  /\ now < MaxTime
  /\ Spend("tick")
  /\ now' = now + 1
  /\ UNCHANGED <<loginVars, work>>

-----------------------------------------------------------------------------
(* login *)

\* The rate limiter has a token and the header is well-formed.
Arrive(w, u, x, right) ==
  /\ At(w, "idle")
  /\ Spend(IF right THEN "right" ELSE "wrong")
  /\ work' = [work EXCEPT ![w] =
                [pc |-> "stamped", user |-> u, rid |-> x, right |-> right,
                 stamp |-> now, seen |-> users[u], issued |-> 0]]
  /\ UNCHANGED <<now, loginVars>>

ReadUser(w) ==
  /\ At(w, "stamped")
  /\ work' = [work EXCEPT ![w].pc = "read", ![w].seen = users[work[w].user]]
  /\ UNCHANGED <<now, loginVars, budget>>

Sum(f, from) == MapThenSumSet(LAMBDA t : f[t], {t \in Times : t + Window >= from})

\* Bug: the window opens when the last one has ended.
RecentFresh(u, stamp) == failures[u][stamp]

\* The failed attempts of the window that ends with the stamp, and those of
\* requests that were stamped later.
Recent(u, stamp) == Sum(failures[u], stamp)

\* The failures are counted; then everything is decided on the row loaded, in
\* this order: locked, to be locked, inactive, wrong, right.
Decide(w) ==
  LET j      == work[w]
      locked == j.seen.until > j.stamp
      full   == Recent(j.user, j.stamp) >= Threshold
      wrong  == ~ locked /\ ~ full /\ j.seen.active /\ ~ j.right
  IN  /\ At(w, "read")
      /\ IF locked THEN End(w)
         ELSE To(w, IF full THEN "locking"
                    ELSE IF j.seen.active /\ j.right THEN "verified"
                    ELSE "failing")
      /\ guesses' = IF wrong THEN [guesses EXCEPT ![j.user][j.stamp] = @ + 1]
                    ELSE guesses
      /\ UNCHANGED <<now, users, failures, sessions, logins, budget, lost>>

Lock(w) ==
  /\ At(w, "locking")
  /\ users' = [users EXCEPT ![work[w].user].until = work[w].stamp + Window]
  /\ To(w, "failing")
  /\ UNCHANGED <<now, failures, sessions, logins, budget, guesses, lost>>

\* record_attempt, for a failure of any kind; the answer is an error.
RecordFailure(w) ==
  /\ At(w, "failing")
  /\ failures' = [failures EXCEPT ![work[w].user][work[w].stamp] = @ + 1]
  /\ End(w)
  /\ UNCHANGED <<now, users, sessions, logins, budget, guesses, lost>>

\* Bug: the caller's own row is not looked for.
LookupForeign(w) ==
  LET j == work[w]
  IN  /\ At(w, "verified")
      /\ IF \E v \in Users \ {j.user} : logins[<<v, j.rid>>] # 0
           THEN End(w) ELSE To(w, "accepted")
      /\ UNCHANGED <<now, loginVars, budget>>

\* idempotency::lookup: 409 for another user's request id, the stored response
\* for one's own.
Lookup(w) ==
  LET j == work[w]
  IN  /\ At(w, "verified")
      /\ IF \E v \in Users : logins[<<v, j.rid>>] # 0
           THEN End(w) ELSE To(w, "accepted")
      /\ UNCHANGED <<now, loginVars, budget>>

\* record_attempt for the success, then the lock is lifted, whoever set it.
Unlocked(w) ==
  /\ At(w, "accepted")
  /\ users' = [users EXCEPT ![work[w].user].until = 0]
  /\ To(w, "issuing")
  /\ UNCHANGED <<now, failures, sessions, logins, budget, guesses, lost>>

\* Bug: the token is answered although its row is not there.
IssueUnsaved(w) ==
  /\ At(w, "issuing")
  /\ work' = [work EXCEPT ![w].pc = "issued", ![w].issued = Len(sessions) + 1]
  /\ UNCHANGED <<now, loginVars, budget>>

\* session::issue, on a clock of its own.
Issue(w) ==
  /\ At(w, "issuing")
  /\ sessions' = Append(sessions,
       [user |-> work[w].user, rid |-> work[w].rid, created |-> now,
        last |-> now, expires |-> now + TTL, revoked |-> FALSE])
  /\ work' = [work EXCEPT ![w].pc = "issued", ![w].issued = Len(sessions) + 1]
  /\ UNCHANGED <<now, users, failures, logins, budget, guesses, lost>>

\* idempotency::store keeps the row there is.
Store(w) ==
  /\ At(w, "issued")
  /\ logins' = [logins EXCEPT ![<<work[w].user, work[w].rid>>] =
                  IF @ = 0 THEN work[w].issued ELSE @]
  /\ End(w)
  /\ UNCHANGED <<now, users, failures, sessions, budget, guesses, lost>>

LoginStep(w) ==
  \/ \E u \in Users, x \in Rids, right \in BOOLEAN : Arrive(w, u, x, right)
  \/ ReadUser(w) \/ Decide(w) \/ Lock(w) \/ RecordFailure(w)
  \/ Lookup(w) \/ Unlocked(w) \/ Issue(w) \/ Store(w)

-----------------------------------------------------------------------------
(* unlock_user of handlers/admin.rs *)

UnlockJob == [pc : {"unlocking", "unlocked"}, user : Users]

AskUnlock(w, u) ==
  /\ At(w, "idle")
  /\ Spend("unlock")
  /\ work' = [work EXCEPT ![w] = [pc |-> "unlocking", user |-> u]]
  /\ UNCHANGED <<now, loginVars>>

LiftLock(w) ==
  /\ At(w, "unlocking")
  /\ users' = [users EXCEPT ![work[w].user].until = 0]
  /\ To(w, "unlocked")
  /\ UNCHANGED <<now, failures, sessions, logins, budget, guesses, lost>>

\* The failures of the window go; audit and record follow.
ForgetFailures(w) ==
  LET forget(f) == [t \in Times |-> IF t + Window >= now THEN 0 ELSE f[t]]
      u == work[w].user
  IN  /\ At(w, "unlocked")
      /\ failures' = [failures EXCEPT ![u] = forget(@)]
      /\ guesses' = [guesses EXCEPT ![u] = forget(@)]
      /\ End(w)
      /\ UNCHANGED <<now, users, sessions, logins, budget, lost>>

UnlockStep(w) ==
  (\E u \in Users : AskUnlock(w, u)) \/ LiftLock(w) \/ ForgetFailures(w)

-----------------------------------------------------------------------------
(* Properties *)

GuessesFrom(u, a) ==
  MapThenSumSet(LAMBDA t : guesses[u][t], {t \in Times : a <= t /\ t <= a + Window})

\* However logins overlap: within any window fewer wrong passwords of a user
\* are compared than the threshold and the number of workers together, counted
\* from the last unlock, and not counting requests that failed before they had
\* recorded their attempt.
GuessBound ==
  \A u \in Users, a \in Times :
     GuessesFrom(u, a) <= Threshold + Cardinality(Workers) - 1 + lost[u]

Minted(u, x) == {s \in DOMAIN sessions : sessions[s].user = u /\ sessions[s].rid = x}

\* However often a login is sent with one request id: no more sessions come of
\* it than requests that overlapped or failed - one for each worker, and one
\* for each request that stopped before its response was stored.
MintedPerLogin ==
  \A u \in Users, x \in Rids :
     Cardinality(Minted(u, x)) <= Cardinality(Workers) + lost[u]
=============================================================================
