----------------------------- MODULE SessionsProofs -----------------------------
(***************************************************************************)
(* Proofs about Sessions.tla and Login.tla, for any number of users,       *)
(* roles, workers and requests and any timeouts: overlapping updates,      *)
(* logins, logouts and failures included.                                  *)
(***************************************************************************)
EXTENDS Sessions, FiniteSetTheorems, SequenceTheorems, TLAPS

-----------------------------------------------------------------------------
(* Types *)

Jobs == {Idle} \cup LoginJob \cup UnlockJob \cup AuthJob \cup AdminJob

\* A request is about a session there is and its user; an update goes from
\* statement to statement as its body says, and adds what it names.
JobFine(j, rows) ==
  /\ j \in AuthJob =>
       j.session \in DOMAIN rows /\ j.seen.user = rows[j.session].user
  /\ j.pc = "issued" => j.issued \in DOMAIN rows
  /\ j \in AdminJob =>
       /\ j.left \subseteq j.update.set
       /\ j.pc \in {"editing", "edited"} => j.update.of \in Users
       /\ j.pc \in {"dropping", "adding"} => j.update.names
       /\ j.pc = "updated" => ~ j.update.names

GivenFine ==
  /\ \A u \in Users : given[u] \subseteq Roles
  /\ \A r \in Roles : given[r] \subseteq Perms

Right ==
  /\ TypeOK
  /\ GivenFine
  /\ \A w \in Workers : JobFine(work[w], sessions)

-----------------------------------------------------------------------------
(* How long a session carries *)

\* The time is that of the login, or of a request let in.
Anchored(s, t, rows, uses) == t = rows[s].created \/ <<s, t>> \in uses

Reached(s, t, rows, uses) ==
  \/ t <= rows[s].created + Idle8h
  \/ \E b \in Times : <<s, b>> \in uses /\ b <= t /\ t <= b + Idle8h

\* What a request on its way in has found still holds.
UseFine(j, rows, uses, clock) ==
  j \in AuthJob =>
    LET s == j.session
    IN  /\ j.ended => rows[s].revoked \/ clock > rows[s].expires
        /\ j.pc = "found" =>
             /\ j.ended => j.seen.revoked \/ clock > j.seen.expires
             /\ Anchored(s, j.seen.last, rows, uses) /\ j.seen.last <= clock
        /\ j.pc \in {"valid", "known", "roles", "authorised", "in"} => ~ j.ended
        /\ j.pc \in {"valid", "known", "roles", "authorised"} =>
             Reached(s, j.stamp, rows, uses) /\ j.stamp <= clock

RowFine(s) == Anchored(s, sessions[s].last, sessions, used) /\ sessions[s].last <= now

Carried ==
  \A s \in DOMAIN sessions, t \in Times : <<s, t>> \in used =>
     \/ t <= sessions[s].created + Idle8h
     \/ \E b \in Times : <<s, b>> \in used /\ b < t /\ t <= b + Idle8h

Limited ==
  /\ \A s \in DOMAIN sessions : RowFine(s)
  /\ \A w \in Workers : UseFine(work[w], sessions, used, now)
  /\ Carried

-----------------------------------------------------------------------------
(* What a request may find *)

\* A request has what was given when it came, and since; what it has read is
\* among that.
LetIn(j, g, active) ==
  j \in AuthJob =>
    LET u == j.seen.user
    IN  /\ g[u] \subseteq j.mayRoles
        /\ \A r \in j.mayRoles : g[r] \subseteq j.mayPerms
        /\ u \in active => j.mayIn
        /\ j.pc \in {"known", "roles", "authorised", "in"} => j.mayIn
        /\ j.pc = "roles" => j.roles \subseteq j.mayRoles
        /\ j.pc \in {"authorised", "in"} => j.perms \subseteq j.mayPerms

\* What an update is to write counts as given; one that is alone finds its own
\* statements in effect.
Gives(j, g, active, rows, people) ==
  j \in AdminJob =>
    LET x == j.update.of
        a == j.update
    IN  /\ a.names => a.set \subseteq g[x]
        /\ a.active = "yes" => x \in active
        /\ j.pc = "edited" /\ j.was => x \in active
        /\ j.alone /\ j.pc = "adding" => rows[x] \subseteq a.set
        /\ j.alone /\ a.active = "no" /\ j.pc \in {"dropping", "adding", "updated"}
             => ~ people[x].active

Alone ==
  \A v, w \in Workers :
     v # w /\ work[w] \in AdminJob /\ work[w].alone => ~ Updating(v, work[w].update.of)

Covered ==
  /\ \A x \in Subjects : grants[x] \subseteq given[x]
  /\ \A u \in Users : users[u].active => u \in mayActive
  /\ \A w \in Workers : LetIn(work[w], given, mayActive)
  /\ \A w \in Workers : Gives(work[w], given, mayActive, grants, users)
  /\ Alone

-----------------------------------------------------------------------------
(* What comes of a login *)

\* Requests with the id between the look for a stored response and the session,
\* and between the session and the storing of the response.
Past(u, x, pcs) ==
  {w \in Workers : work[w].pc \in pcs /\ work[w].user = u /\ work[w].rid = x}

Busy == {"accepted", "issuing", "issued"}

Owed(u, x) ==
  IF logins[<<u, x>>] = 0
    THEN Cardinality(Minted(u, x)) <= Cardinality(Past(u, x, {"issued"})) + lost[u]
    ELSE Cardinality(Minted(u, x)) + Cardinality(Past(u, x, {"accepted", "issuing"}))
           <= Cardinality(Workers) + lost[u]

Minting == \A u \in Users, x \in Rids : Owed(u, x)
-----------------------------------------------------------------------------
(* Right: what a step of one worker leaves *)

Env ==
  /\ now \in Times
  /\ users \in [Users -> User]
  /\ failures \in [Users -> [Times -> Nat]]
  /\ sessions \in Seq(Session)
  /\ logins \in [Users \X Rids -> 0 .. Len(sessions)]
  /\ budget \in [Kinds -> Nat]
  /\ guesses \in [Users -> [Times -> Nat]]
  /\ lost \in [Users -> Nat]
  /\ grants \in [Subjects -> SUBSET (Roles \cup Perms)]
  /\ \A u \in Users : grants[u] \subseteq Roles
  /\ \A r \in Roles : grants[r] \subseteq Perms
  /\ used \subseteq (DOMAIN sessions) \X Times
  /\ given \in [Subjects -> SUBSET (Roles \cup Perms)]
  /\ mayActive \subseteq Users
  /\ GivenFine

LEMMA RightParts ==
  Right <=> Env /\ work \in [Workers -> Jobs] /\ \A w \in Workers : JobFine(work[w], sessions)
<1>1. TypeOK <=> /\ LoginTypeOK
                 /\ work \in [Workers -> Jobs]
                 /\ \A w \in Workers : work[w] \in AuthJob => work[w].session \in DOMAIN sessions
                 /\ grants \in [Subjects -> SUBSET (Roles \cup Perms)]
                 /\ \A u \in Users : grants[u] \subseteq Roles
                 /\ \A r \in Roles : grants[r] \subseteq Perms
                 /\ used \subseteq (DOMAIN sessions) \X Times
                 /\ given \in [Subjects -> SUBSET (Roles \cup Perms)]
                 /\ mayActive \subseteq Users
  BY DEF TypeOK, Jobs
<1>2. \A w \in Workers : JobFine(work[w], sessions) =>
        (work[w] \in AuthJob => work[w].session \in DOMAIN sessions)
  BY DEF JobFine
<1> QED
  BY <1>1, <1>2 DEF Right, Env, LoginTypeOK

LEMMA RightPartsNext ==
  Right' <=> Env' /\ work' \in [Workers -> Jobs]
                  /\ \A w \in Workers : JobFine(work'[w], sessions')
<1>1. TypeOK' <=> /\ LoginTypeOK'
                  /\ work' \in [Workers -> Jobs]
                  /\ \A w \in Workers : work'[w] \in AuthJob => work'[w].session \in DOMAIN sessions'
                  /\ grants' \in [Subjects -> SUBSET (Roles \cup Perms)]
                  /\ \A u \in Users : grants'[u] \subseteq Roles
                  /\ \A r \in Roles : grants'[r] \subseteq Perms
                  /\ used' \subseteq (DOMAIN sessions') \X Times
                  /\ given' \in [Subjects -> SUBSET (Roles \cup Perms)]
                  /\ mayActive' \subseteq Users
  BY DEF TypeOK, Jobs
<1>2. \A w \in Workers : JobFine(work'[w], sessions') =>
        (work'[w] \in AuthJob => work'[w].session \in DOMAIN sessions')
  BY DEF JobFine
<1> QED
  BY <1>1, <1>2 DEF Right, Env, LoginTypeOK

\* Rows of sessions come; of a row there is, only its last use changes, and it
\* is revoked for good.
Grows(old, new) ==
  /\ DOMAIN old \subseteq DOMAIN new
  /\ \A s \in DOMAIN old :
       /\ new[s].user = old[s].user /\ new[s].rid = old[s].rid
       /\ new[s].created = old[s].created /\ new[s].expires = old[s].expires
       /\ old[s].revoked => new[s].revoked

LEMMA JobKept ==
  ASSUME NEW j, NEW old, NEW new, Grows(old, new), JobFine(j, old)
  PROVE  JobFine(j, new)
  BY DEF Grows, JobFine

LoginPcs == {"stamped", "read", "locking", "failing", "verified", "accepted", "issuing", "issued"}
AuthPcs == {"presented", "found", "valid", "known", "roles", "authorised", "in"}
AdminPcs == {"editing", "edited", "dropping", "adding", "updated"}

LEMMA KindOf ==
  ASSUME NEW j \in Jobs
  PROVE  /\ j.pc \in LoginPcs <=> j \in LoginJob
         /\ j.pc \in {"unlocking", "unlocked"} <=> j \in UnlockJob
         /\ j.pc \in AuthPcs <=> j \in AuthJob
         /\ j.pc \in AdminPcs <=> j \in AdminJob
         /\ j.pc = "idle" <=> j = Idle
<1>1. CASE j = Idle
  BY <1>1 DEF Idle, LoginPcs, AuthPcs, AdminPcs, LoginJob, UnlockJob, AuthJob, AdminJob
<1>2. CASE j \in LoginJob
  BY <1>2 DEF Idle, LoginPcs, AuthPcs, AdminPcs, LoginJob, UnlockJob, AuthJob, AdminJob
<1>3. CASE j \in UnlockJob
  BY <1>3 DEF Idle, LoginPcs, AuthPcs, AdminPcs, LoginJob, UnlockJob, AuthJob, AdminJob
<1>4. CASE j \in AuthJob
  BY <1>4 DEF Idle, LoginPcs, AuthPcs, AdminPcs, LoginJob, UnlockJob, AuthJob, AdminJob
<1>5. CASE j \in AdminJob
  BY <1>5 DEF Idle, LoginPcs, AuthPcs, AdminPcs, LoginJob, UnlockJob, AuthJob, AdminJob
<1> QED
  BY <1>1, <1>2, <1>3, <1>4, <1>5 DEF Jobs

LEMMA LoginFields ==
  ASSUME NEW j \in LoginJob
  PROVE  /\ j.user \in Users /\ j.rid \in Rids /\ j.right \in BOOLEAN /\ j.stamp \in Times
         /\ j.seen \in User /\ j.issued \in Nat /\ j.pc \in LoginPcs /\ j \in Jobs
  BY DEF LoginJob, LoginPcs, Jobs

LEMMA AuthFields ==
  ASSUME NEW j \in AuthJob
  PROVE  /\ j.session \in Nat \ {0} /\ j.logout \in BOOLEAN /\ j.seen \in Session
         /\ j.stamp \in Times /\ j.roles \in SUBSET Roles /\ j.perms \in SUBSET Perms
         /\ j.ended \in BOOLEAN /\ j.mayRoles \in SUBSET Roles /\ j.mayPerms \in SUBSET Perms
         /\ j.mayIn \in BOOLEAN /\ j.pc \in AuthPcs /\ j \in Jobs
  BY DEF AuthJob, AuthPcs, Jobs

LEMMA AdminFields ==
  ASSUME NEW j \in AdminJob
  PROVE  /\ j.update \in Update /\ j.was \in BOOLEAN
         /\ j.left \in SUBSET (Roles \cup Perms) /\ j.alone \in BOOLEAN
         /\ j.pc \in AdminPcs /\ j \in Jobs
  BY DEF AdminJob, AdminPcs, Jobs

LEMMA UpdateFields ==
  ASSUME NEW a \in Update
  PROVE  /\ a.of \in Subjects /\ a.active \in {"yes", "no", "kept"} /\ a.names \in BOOLEAN
         /\ a.of \in Users => a.set \subseteq Roles /\ a.of \notin Roles
         /\ a.of \in Roles => a.set \subseteq Perms /\ a.of \notin Users
         /\ a.of \notin Users => a.of \in Roles /\ a.names /\ a.active = "kept"
         /\ a.set \in SUBSET (Roles \cup Perms)
<1> DEFINE ofUser == [of : Users, active : {"yes", "no", "kept"}, names : BOOLEAN,
                      set : SUBSET Roles]
           ofRole == [of : Roles, active : {"kept"}, names : {TRUE}, set : SUBSET Perms]
<1>1. a \in ofUser \/ a \in ofRole
  BY DEF Update
<1>2. Users \cap Roles = {}
  BY SessionsAssumption
<1>3. CASE a \in ofUser
  BY <1>2, <1>3 DEF Subjects
<1>4. CASE a \in ofRole
  BY <1>2, <1>4 DEF Subjects
<1> QED
  BY <1>1, <1>3, <1>4

LEMMA IdleFine ==
  ASSUME NEW rows
  PROVE  Idle \in Jobs /\ JobFine(Idle, rows)
<1>1. Idle \in Jobs /\ Idle.pc = "idle"
  BY DEF Jobs, Idle
<1>2. Idle \notin AuthJob /\ Idle \notin AdminJob
  BY <1>1, KindOf DEF AuthPcs, AdminPcs
<1> QED
  BY <1>1, <1>2 DEF JobFine

LEMMA LoginFine ==
  ASSUME NEW j \in LoginJob, NEW rows, j.pc = "issued" => j.issued \in DOMAIN rows
  PROVE  JobFine(j, rows)
<1>1. j.pc \in LoginPcs /\ j \in Jobs
  BY LoginFields
<1>2. j \notin AuthJob /\ j \notin AdminJob
  BY <1>1, KindOf DEF LoginPcs, AuthPcs, AdminPcs
<1> QED
  BY <1>2 DEF JobFine

LEMMA UnlockFine ==
  ASSUME NEW j \in UnlockJob, NEW rows
  PROVE  JobFine(j, rows) /\ j \in Jobs /\ j.user \in Users
<1>1. j.pc \in {"unlocking", "unlocked"} /\ j \in Jobs /\ j.user \in Users
  BY DEF UnlockJob, Jobs
<1>2. j \notin AuthJob /\ j \notin AdminJob
  BY <1>1, KindOf DEF AuthPcs, AdminPcs
<1> QED
  BY <1>1, <1>2 DEF JobFine

LEMMA AuthFine ==
  ASSUME NEW j \in AuthJob, NEW rows,
         j.session \in DOMAIN rows, j.seen.user = rows[j.session].user
  PROVE  JobFine(j, rows)
<1>1. j.pc \in AuthPcs /\ j \in Jobs
  BY AuthFields
<1>2. j \notin AdminJob /\ j.pc # "issued"
  BY <1>1, KindOf DEF AuthPcs, AdminPcs
<1> QED
  BY <1>2 DEF JobFine

LEMMA AdminFine ==
  ASSUME NEW j \in AdminJob, NEW rows,
         j.left \subseteq j.update.set,
         j.pc \in {"editing", "edited"} => j.update.of \in Users,
         j.pc \in {"dropping", "adding"} => j.update.names,
         j.pc = "updated" => ~ j.update.names
  PROVE  JobFine(j, rows)
<1>1. j.pc \in AdminPcs /\ j \in Jobs
  BY AdminFields
<1>2. j \notin AuthJob /\ j.pc # "issued"
  BY <1>1, KindOf DEF AuthPcs, AdminPcs
<1> QED
  BY <1>2 DEF JobFine

\* What a worker has in hand.
LEMMA InHand ==
  ASSUME Right, NEW w \in Workers
  PROVE  work[w] \in Jobs /\ JobFine(work[w], sessions)
  BY RightParts

\* A step of one worker.
LEMMA OneWorks ==
  ASSUME Right, NEW w \in Workers, NEW j \in Jobs, work' = [work EXCEPT ![w] = j],
         JobFine(j, sessions'), Grows(sessions, sessions'), Env'
  PROVE  Right' /\ work'[w] = j /\ \A v \in Workers \ {w} : work'[v] = work[v]
<1>1. /\ work' \in [Workers -> Jobs] /\ work'[w] = j
      /\ \A v \in Workers \ {w} : work'[v] = work[v]
  BY RightParts
<1>2. ASSUME NEW v \in Workers
      PROVE  JobFine(work'[v], sessions')
  <2>1. JobFine(work[v], sessions)
    BY InHand
  <2> QED
    BY <1>1, <2>1, JobKept
<1> QED
  BY <1>1, <1>2, RightPartsNext

LEMMA EnvSame ==
  ASSUME Env, budget' \in [Kinds -> Nat], UNCHANGED <<now, loginVars, access, used>>
  PROVE  Env' /\ Grows(sessions, sessions')
<1>1. /\ now' = now /\ users' = users /\ failures' = failures /\ sessions' = sessions
      /\ logins' = logins /\ guesses' = guesses /\ lost' = lost
      /\ grants' = grants /\ given' = given /\ mayActive' = mayActive /\ used' = used
  BY DEF loginVars, access
<1> QED
  BY <1>1 DEF Env, GivenFine, Grows

LEMMA Spends ==
  ASSUME Env, NEW kind \in Kinds, Spend(kind)
  PROVE  budget' \in [Kinds -> Nat]
  BY DEF Env, Spend

\* A step that only moves the worker's own request on.
LEMMA OneReads ==
  ASSUME Right, NEW w \in Workers, NEW j \in Jobs, work' = [work EXCEPT ![w] = j],
         JobFine(j, sessions), budget' \in [Kinds -> Nat],
         UNCHANGED <<now, loginVars, access, used>>
  PROVE  Right' /\ work'[w] = j /\ \A v \in Workers \ {w} : work'[v] = work[v]
<1>1. Env' /\ Grows(sessions, sessions') /\ sessions' = sessions
  BY EnvSame, RightParts DEF loginVars
<1> QED
  BY <1>1, OneWorks

LEMMA InitRight == Init => Right
<1> SUFFICES ASSUME Init PROVE Right
  OBVIOUS
<1>1. /\ MaxTime \in Nat /\ Budgets \subseteq [Kinds -> Nat]
      /\ Granted \in [Subjects -> SUBSET (Roles \cup Perms)]
      /\ \A u \in Users : Granted[u] \subseteq Roles
      /\ \A r \in Roles : Granted[r] \subseteq Perms
  BY LoginAssumption, SessionsAssumption
<1>2. /\ users = [u \in Users |-> [active |-> TRUE, until |-> 0]]
      /\ failures = [u \in Users |-> [t \in Times |-> 0]] /\ sessions = <<>> /\ now = 0
      /\ logins = [k \in Users \X Rids |-> 0] /\ budget \in Budgets
      /\ guesses = [u \in Users |-> [t \in Times |-> 0]] /\ lost = [u \in Users |-> 0]
      /\ work = [w \in Workers |-> Idle] /\ grants = Granted /\ used = {} /\ given = Granted
      /\ mayActive = Users
  BY DEF Init, LoginInit
<1>3. now \in Times /\ users \in [Users -> User]
  BY <1>1, <1>2 DEF Times, User
<1>4. /\ failures \in [Users -> [Times -> Nat]] /\ guesses \in [Users -> [Times -> Nat]]
      /\ lost \in [Users -> Nat]
  BY <1>2
<1>5. sessions \in Seq(Session) /\ Len(sessions) = 0
  BY <1>2
<1>6. logins \in [Users \X Rids -> 0 .. Len(sessions)]
  BY <1>2, <1>5
<1>7. Env
  BY <1>1, <1>2, <1>3, <1>4, <1>5, <1>6 DEF Env, GivenFine
<1> QED
  BY <1>2, <1>7, IdleFine, RightParts
LEMMA Doing ==
  ASSUME Right, NEW w \in Workers
  PROVE  /\ work[w].pc \in LoginPcs => work[w] \in LoginJob
         /\ work[w].pc \in {"unlocking", "unlocked"} => work[w] \in UnlockJob
         /\ work[w].pc \in AuthPcs => work[w] \in AuthJob
         /\ work[w].pc \in AdminPcs => work[w] \in AdminJob
         /\ work[w].pc = "idle" => work[w] = Idle
  BY InHand, KindOf

LEMMA SameRows ==
  ASSUME sessions' = sessions
  PROVE  Grows(sessions, sessions')
  BY DEF Grows

\* A step of a login or an unlock.
LEMMA LoginEnv ==
  ASSUME Env, now' = now, budget' = budget, UNCHANGED <<access, used>>,
         users' \in [Users -> User], failures' \in [Users -> [Times -> Nat]],
         sessions' = sessions, logins' \in [Users \X Rids -> 0 .. Len(sessions)],
         guesses' \in [Users -> [Times -> Nat]], lost' = lost
  PROVE  Env' /\ Grows(sessions, sessions')
  BY SameRows DEF Env, GivenFine, access

LEMMA UserRow ==
  ASSUME Env, NEW u \in Users
  PROVE  users[u] \in User /\ users[u].active \in BOOLEAN /\ users[u].until \in Nat
  BY DEF Env, User

LEMMA EndRight ==
  ASSUME Right, NEW w \in Workers, End(w), Env', Grows(sessions, sessions')
  PROVE  Right'
<1>1. Idle \in Jobs /\ JobFine(Idle, sessions')
  BY IdleFine
<1>2. work' = [work EXCEPT ![w] = Idle]
  BY DEF End
<1> QED
  BY <1>1, <1>2, OneWorks

\* A login that goes on to another statement, before it has its session.
LEMMA ToRight ==
  ASSUME Right, NEW w \in Workers, work[w] \in LoginJob, NEW pc \in LoginPcs \ {"issued"},
         To(w, pc), Env', Grows(sessions, sessions')
  PROVE  Right'
<1> DEFINE j == [work[w] EXCEPT !.pc = pc]
<1>1. j \in LoginJob /\ j.pc # "issued"
  BY DEF LoginJob, LoginPcs
<1>2. j \in Jobs /\ JobFine(j, sessions')
  BY <1>1, LoginFine, LoginFields
<1>3. work' = [work EXCEPT ![w] = j]
  BY DEF To
<1> QED
  BY <1>2, <1>3, OneWorks

LEMMA ArriveRight ==
  ASSUME Right, NEW w \in Workers, NEW u \in Users, NEW x \in Rids, NEW right \in BOOLEAN,
         Arrive(w, u, x, right), UNCHANGED <<access, used>>
  PROVE  Right'
<1> DEFINE j == [pc |-> "stamped", user |-> u, rid |-> x, right |-> right,
                 stamp |-> now, seen |-> users[u], issued |-> 0]
<1>1. Env
  BY RightParts
<1>2. now \in Times /\ users[u] \in User
  BY <1>1, UserRow DEF Env
<1>3. j \in LoginJob /\ j.pc # "issued"
  BY <1>2 DEF LoginJob
<1>4. j \in Jobs /\ JobFine(j, sessions)
  BY <1>3, LoginFine, LoginFields
<1>5. budget' \in [Kinds -> Nat]
  <2>1. (IF right THEN "right" ELSE "wrong") \in Kinds
    BY DEF Kinds
  <2>2. Spend(IF right THEN "right" ELSE "wrong")
    BY DEF Arrive
  <2> QED
    BY <1>1, <2>1, <2>2, Spends
<1>6. work' = [work EXCEPT ![w] = j] /\ UNCHANGED <<now, loginVars, access, used>>
  BY DEF Arrive
<1> QED
  BY <1>4, <1>5, <1>6, OneReads

LEMMA ReadUserRight ==
  ASSUME Right, NEW w \in Workers, ReadUser(w), UNCHANGED <<access, used>>
  PROVE  Right'
<1> DEFINE j == [work[w] EXCEPT !.pc = "read", !.seen = users[work[w].user]]
<1>1. Env
  BY RightParts
<1>2. work[w] \in LoginJob
  BY Doing DEF ReadUser, At, LoginPcs
<1>3. users[work[w].user] \in User
  BY <1>1, <1>2, LoginFields, UserRow
<1>4. j \in LoginJob /\ j.pc # "issued"
  BY <1>2, <1>3 DEF LoginJob
<1>5. j \in Jobs /\ JobFine(j, sessions)
  BY <1>4, LoginFine, LoginFields
<1>6. budget' \in [Kinds -> Nat]
  BY <1>1 DEF ReadUser, Env
<1>7. work' = [work EXCEPT ![w] = j] /\ UNCHANGED <<now, loginVars, access, used>>
  BY DEF ReadUser
<1> QED
  BY <1>5, <1>6, <1>7, OneReads

LEMMA DecideRight ==
  ASSUME Right, NEW w \in Workers, Decide(w), UNCHANGED <<access, used>>
  PROVE  Right'
<1>1. Env
  BY RightParts
<1>2. work[w] \in LoginJob
  BY Doing DEF Decide, At, LoginPcs
<1>3. work[w].user \in Users /\ work[w].stamp \in Times
  BY <1>2, LoginFields
<1>4. guesses' \in [Users -> [Times -> Nat]]
  <2>1. \/ guesses' = guesses
        \/ guesses' = [guesses EXCEPT ![work[w].user][work[w].stamp] = @ + 1]
    BY DEF Decide
  <2>2. CASE guesses' = guesses
    BY <1>1, <2>2 DEF Env
  <2>3. CASE guesses' = [guesses EXCEPT ![work[w].user][work[w].stamp] = @ + 1]
    BY <1>1, <1>3, <2>3 DEF Env
  <2> QED
    BY <2>1, <2>2, <2>3
<1>5. Env' /\ Grows(sessions, sessions')
  <2>1. /\ users' = users /\ failures' = failures /\ sessions' = sessions /\ logins' = logins
        /\ budget' = budget /\ lost' = lost /\ now' = now
    BY DEF Decide
  <2>2. /\ users' \in [Users -> User] /\ failures' \in [Users -> [Times -> Nat]]
        /\ logins' \in [Users \X Rids -> 0 .. Len(sessions)]
    BY <1>1, <2>1 DEF Env
  <2> QED
    BY <1>1, <1>4, <2>1, <2>2, LoginEnv
<1>6. \/ End(w) \/ To(w, "locking") \/ To(w, "verified") \/ To(w, "failing")
  BY DEF Decide
<1>7. CASE End(w)
  BY <1>5, <1>7, EndRight
<1>8. CASE To(w, "locking")
  BY <1>2, <1>5, <1>8, ToRight DEF LoginPcs
<1>9. CASE To(w, "verified")
  BY <1>2, <1>5, <1>9, ToRight DEF LoginPcs
<1>10. CASE To(w, "failing")
  BY <1>2, <1>5, <1>10, ToRight DEF LoginPcs
<1> QED
  BY <1>6, <1>7, <1>8, <1>9, <1>10

LEMMA LockRight ==
  ASSUME Right, NEW w \in Workers, Lock(w), UNCHANGED <<access, used>>
  PROVE  Right'
<1>1. Env
  BY RightParts
<1>2. work[w] \in LoginJob
  BY Doing DEF Lock, At, LoginPcs
<1>3. work[w].user \in Users /\ work[w].stamp \in Nat /\ Window \in Nat
  BY <1>2, LoginFields, LoginAssumption DEF Times
<1>4. users' \in [Users -> User]
  <2> DEFINE until == work[w].stamp + Window
  <2>1. until \in Nat
    BY <1>3
  <2>2. users' = [users EXCEPT ![work[w].user].until = until]
    BY DEF Lock
  <2> HIDE DEF until
  <2> QED
    BY <1>1, <1>3, <2>1, <2>2 DEF Env, User
<1>5. Env' /\ Grows(sessions, sessions')
  <2>1. /\ guesses' = guesses /\ failures' = failures /\ sessions' = sessions /\ logins' = logins
        /\ budget' = budget /\ lost' = lost /\ now' = now
    BY DEF Lock
  <2>2. /\ guesses' \in [Users -> [Times -> Nat]] /\ failures' \in [Users -> [Times -> Nat]]
        /\ logins' \in [Users \X Rids -> 0 .. Len(sessions)]
    BY <1>1, <2>1 DEF Env
  <2> QED
    BY <1>1, <1>4, <2>1, <2>2, LoginEnv
<1>6. To(w, "failing")
  BY DEF Lock
<1> QED
  BY <1>2, <1>5, <1>6, ToRight DEF LoginPcs

LEMMA RecordFailureRight ==
  ASSUME Right, NEW w \in Workers, RecordFailure(w), UNCHANGED <<access, used>>
  PROVE  Right'
<1>1. Env
  BY RightParts
<1>2. work[w] \in LoginJob
  BY Doing DEF RecordFailure, At, LoginPcs
<1>3. work[w].user \in Users /\ work[w].stamp \in Times
  BY <1>2, LoginFields
<1>4. failures' \in [Users -> [Times -> Nat]]
  <2>1. failures' = [failures EXCEPT ![work[w].user][work[w].stamp] = @ + 1]
    BY DEF RecordFailure
  <2> QED
    BY <1>1, <1>3, <2>1 DEF Env
<1>5. Env' /\ Grows(sessions, sessions')
  <2>1. /\ users' = users /\ guesses' = guesses /\ sessions' = sessions /\ logins' = logins
        /\ budget' = budget /\ lost' = lost /\ now' = now
    BY DEF RecordFailure
  <2>2. /\ users' \in [Users -> User] /\ guesses' \in [Users -> [Times -> Nat]]
        /\ logins' \in [Users \X Rids -> 0 .. Len(sessions)]
    BY <1>1, <2>1 DEF Env
  <2> QED
    BY <1>1, <1>4, <2>1, <2>2, LoginEnv
<1>6. End(w)
  BY DEF RecordFailure
<1> QED
  BY <1>5, <1>6, EndRight

LEMMA LookupRight ==
  ASSUME Right, NEW w \in Workers, Lookup(w), UNCHANGED <<access, used>>
  PROVE  Right'
<1>1. Env
  BY RightParts
<1>2. work[w] \in LoginJob
  BY Doing DEF Lookup, At, LoginPcs
<1>3. Env' /\ Grows(sessions, sessions')
  <2>1. budget' \in [Kinds -> Nat] /\ UNCHANGED <<now, loginVars, access, used>>
    BY <1>1 DEF Lookup, Env
  <2> QED
    BY <1>1, <2>1, EnvSame
<1>4. End(w) \/ To(w, "accepted")
  BY DEF Lookup
<1>5. CASE End(w)
  BY <1>3, <1>5, EndRight
<1>6. CASE To(w, "accepted")
  BY <1>2, <1>3, <1>6, ToRight DEF LoginPcs
<1> QED
  BY <1>4, <1>5, <1>6

LEMMA UnlockedRight ==
  ASSUME Right, NEW w \in Workers, Unlocked(w), UNCHANGED <<access, used>>
  PROVE  Right'
<1>1. Env
  BY RightParts
<1>2. work[w] \in LoginJob
  BY Doing DEF Unlocked, At, LoginPcs
<1>3. work[w].user \in Users
  BY <1>2, LoginFields
<1>4. users' \in [Users -> User]
  <2>1. users' = [users EXCEPT ![work[w].user].until = 0]
    BY DEF Unlocked
  <2> QED
    BY <1>1, <1>3, <2>1 DEF Env, User
<1>5. Env' /\ Grows(sessions, sessions')
  <2>1. /\ guesses' = guesses /\ failures' = failures /\ sessions' = sessions /\ logins' = logins
        /\ budget' = budget /\ lost' = lost /\ now' = now
    BY DEF Unlocked
  <2>2. /\ guesses' \in [Users -> [Times -> Nat]] /\ failures' \in [Users -> [Times -> Nat]]
        /\ logins' \in [Users \X Rids -> 0 .. Len(sessions)]
    BY <1>1, <2>1 DEF Env
  <2> QED
    BY <1>1, <1>4, <2>1, <2>2, LoginEnv
<1>6. To(w, "issuing")
  BY DEF Unlocked
<1> QED
  BY <1>2, <1>5, <1>6, ToRight DEF LoginPcs

NewRow(j, clock) ==
  [user |-> j.user, rid |-> j.rid, created |-> clock,
   last |-> clock, expires |-> clock + TTL, revoked |-> FALSE]

LEMMA Issued ==
  ASSUME Right, NEW w \in Workers, Issue(w)
  PROVE  /\ work[w] \in LoginJob
         /\ NewRow(work[w], now) \in Session
         /\ sessions' \in Seq(Session) /\ Len(sessions') = Len(sessions) + 1
         /\ DOMAIN sessions' = DOMAIN sessions \cup {Len(sessions) + 1}
         /\ Len(sessions) + 1 \notin DOMAIN sessions
         /\ \A s \in DOMAIN sessions : sessions'[s] = sessions[s]
         /\ sessions'[Len(sessions) + 1] = NewRow(work[w], now)
         /\ Grows(sessions, sessions')
<1> DEFINE row == NewRow(work[w], now)
<1>1. Env
  BY RightParts
<1>2. work[w] \in LoginJob
  BY Doing DEF Issue, At, LoginPcs
<1>3. row \in Session
  <2>1. work[w].user \in Users /\ work[w].rid \in Rids /\ now \in Times /\ MaxTime \in Nat
        /\ TTL \in Nat
    BY <1>1, <1>2, LoginFields, LoginAssumption DEF Env
  <2>2. now + TTL \in Nat
    BY <2>1 DEF Times
  <2> QED
    BY <2>1, <2>2 DEF Session, NewRow
<1>4. sessions' = Append(sessions, row)
  BY DEF Issue, NewRow
<1> HIDE DEF row
<1>5. /\ sessions' \in Seq(Session) /\ Len(sessions') = Len(sessions) + 1
      /\ \A s \in 1 .. Len(sessions) : sessions'[s] = sessions[s]
      /\ sessions'[Len(sessions) + 1] = row
  BY <1>1, <1>3, <1>4, AppendProperties DEF Env
<1>6. /\ DOMAIN sessions = 1 .. Len(sessions) /\ Len(sessions) \in Nat
      /\ DOMAIN sessions' = 1 .. Len(sessions) + 1
  BY <1>1, <1>5, LenProperties DEF Env
<1>7. DOMAIN sessions' = DOMAIN sessions \cup {Len(sessions) + 1}
      /\ Len(sessions) + 1 \notin DOMAIN sessions
  BY <1>6
<1>8. Grows(sessions, sessions')
  BY <1>5, <1>6, <1>7 DEF Grows
<1> QED
  BY <1>2, <1>3, <1>5, <1>6, <1>7, <1>8 DEF row

LEMMA IssueRight ==
  ASSUME Right, NEW w \in Workers, Issue(w), UNCHANGED <<access, used>>
  PROVE  Right'
<1> DEFINE j == [work[w] EXCEPT !.pc = "issued", !.issued = Len(sessions) + 1]
<1>1. Env
  BY RightParts
<1>2. /\ work[w] \in LoginJob /\ sessions' \in Seq(Session) /\ Len(sessions') = Len(sessions) + 1
      /\ DOMAIN sessions' = DOMAIN sessions \cup {Len(sessions) + 1}
      /\ Grows(sessions, sessions')
  BY Issued
<1>3. Len(sessions) \in Nat
  BY <1>1 DEF Env
<1>4. j \in LoginJob /\ j.issued = Len(sessions) + 1
  <2> DEFINE n == Len(sessions) + 1
  <2>1. n \in Nat
    BY <1>3
  <2> HIDE DEF n
  <2>2. [work[w] EXCEPT !.pc = "issued", !.issued = n] \in LoginJob
    BY <1>2, <2>1 DEF LoginJob
  <2>3. [work[w] EXCEPT !.pc = "issued", !.issued = n].issued = n
    BY <1>2 DEF LoginJob
  <2> QED
    BY <2>2, <2>3 DEF n
<1>5. j \in Jobs /\ JobFine(j, sessions')
  BY <1>2, <1>4, LoginFine, LoginFields
<1>6. Env'
  <2>1. /\ users' = users /\ failures' = failures /\ logins' = logins /\ now' = now
        /\ budget' = budget /\ lost' = lost /\ guesses' = guesses
        /\ grants' = grants /\ given' = given /\ mayActive' = mayActive /\ used' = used
    BY DEF Issue, access
  <2>2. logins' \in [Users \X Rids -> 0 .. Len(sessions')]
    BY <1>1, <1>2, <1>3, <2>1 DEF Env
  <2>3. used' \subseteq (DOMAIN sessions') \X Times
    BY <1>1, <1>2, <2>1 DEF Env
  <2>4. /\ now' \in Times /\ users' \in [Users -> User]
        /\ failures' \in [Users -> [Times -> Nat]] /\ budget' \in [Kinds -> Nat]
        /\ guesses' \in [Users -> [Times -> Nat]] /\ lost' \in [Users -> Nat]
    BY <1>1, <2>1 DEF Env
  <2>5. /\ grants' \in [Subjects -> SUBSET (Roles \cup Perms)]
        /\ \A u \in Users : grants'[u] \subseteq Roles
        /\ \A r \in Roles : grants'[r] \subseteq Perms
        /\ given' \in [Subjects -> SUBSET (Roles \cup Perms)]
        /\ mayActive' \subseteq Users /\ GivenFine'
    BY <1>1, <2>1 DEF Env, GivenFine
  <2> QED
    BY <1>2, <2>2, <2>3, <2>4, <2>5 DEF Env
<1>7. work' = [work EXCEPT ![w] = j]
  BY DEF Issue
<1> QED
  BY <1>2, <1>5, <1>6, <1>7, OneWorks

LEMMA StoreRight ==
  ASSUME Right, NEW w \in Workers, Store(w), UNCHANGED <<access, used>>
  PROVE  Right'
<1>1. Env
  BY RightParts
<1>2. work[w] \in LoginJob
  BY Doing DEF Store, At, LoginPcs
<1>3. work[w].issued \in 0 .. Len(sessions)
  <2>1. work[w].issued \in DOMAIN sessions
    BY InHand DEF JobFine, Store, At
  <2> QED
    BY <1>1, <2>1 DEF Env
<1>4. logins' \in [Users \X Rids -> 0 .. Len(sessions)]
  <2> DEFINE k == <<work[w].user, work[w].rid>>
  <2>1. logins' = [logins EXCEPT ![k] = IF @ = 0 THEN work[w].issued ELSE @]
    BY DEF Store
  <2> HIDE DEF k
  <2> QED
    BY <1>1, <1>3, <2>1 DEF Env
<1>5. Env' /\ Grows(sessions, sessions')
  <2>1. /\ users' = users /\ guesses' = guesses /\ failures' = failures /\ sessions' = sessions
        /\ budget' = budget /\ lost' = lost /\ now' = now
    BY DEF Store
  <2>2. /\ users' \in [Users -> User] /\ failures' \in [Users -> [Times -> Nat]]
        /\ guesses' \in [Users -> [Times -> Nat]]
    BY <1>1, <2>1 DEF Env
  <2> QED
    BY <1>1, <1>4, <2>1, <2>2, LoginEnv
<1>6. End(w)
  BY DEF Store
<1> QED
  BY <1>5, <1>6, EndRight

LEMMA UnlockRight ==
  ASSUME Right, NEW w \in Workers, UnlockStep(w), UNCHANGED <<access, used>>
  PROVE  Right'
<1>1. Env
  BY RightParts
<1>2. ASSUME NEW u \in Users, AskUnlock(w, u)
      PROVE  Right'
  <2> DEFINE j == [pc |-> "unlocking", user |-> u]
  <2>1. j \in UnlockJob
    BY DEF UnlockJob
  <2>2. j \in Jobs /\ JobFine(j, sessions)
    BY <2>1, UnlockFine
  <2>3. budget' \in [Kinds -> Nat]
    BY <1>1, <1>2, Spends DEF AskUnlock, Kinds
  <2>4. work' = [work EXCEPT ![w] = j] /\ UNCHANGED <<now, loginVars, access, used>>
    BY <1>2 DEF AskUnlock
  <2> QED
    BY <2>2, <2>3, <2>4, OneReads
<1>3. ASSUME LiftLock(w)
      PROVE  Right'
  <2> DEFINE j == [work[w] EXCEPT !.pc = "unlocked"]
  <2>1. work[w] \in UnlockJob
    BY <1>3, Doing DEF LiftLock, At
  <2>2. j \in UnlockJob /\ work[w].user \in Users
    BY <2>1 DEF UnlockJob
  <2>3. j \in Jobs /\ JobFine(j, sessions')
    BY <2>2, UnlockFine
  <2>4. users' \in [Users -> User]
    <3>1. users' = [users EXCEPT ![work[w].user].until = 0]
      BY <1>3 DEF LiftLock
    <3> QED
      BY <1>1, <2>2, <3>1 DEF Env, User
  <2>5. Env' /\ Grows(sessions, sessions')
    <3>1. /\ guesses' = guesses /\ failures' = failures /\ sessions' = sessions
          /\ logins' = logins /\ budget' = budget /\ lost' = lost /\ now' = now
      BY <1>3 DEF LiftLock
    <3>2. /\ guesses' \in [Users -> [Times -> Nat]] /\ failures' \in [Users -> [Times -> Nat]]
          /\ logins' \in [Users \X Rids -> 0 .. Len(sessions)]
      BY <1>1, <3>1 DEF Env
    <3> QED
      BY <1>1, <2>4, <3>1, <3>2, LoginEnv
  <2>6. work' = [work EXCEPT ![w] = j]
    BY <1>3 DEF LiftLock, To
  <2> QED
    BY <2>3, <2>5, <2>6, OneWorks
<1>4. ASSUME ForgetFailures(w)
      PROVE  Right'
  <2> DEFINE u == work[w].user
             forget(f) == [t \in Times |-> IF t + Window >= now THEN 0 ELSE f[t]]
  <2>1. work[w] \in UnlockJob
    BY <1>4, Doing DEF ForgetFailures, At
  <2>2. u \in Users
    BY <2>1 DEF UnlockJob
  <2>3. \A f \in [Times -> Nat] : forget(f) \in [Times -> Nat]
    OBVIOUS
  <2>4. /\ failures' = [failures EXCEPT ![u] = forget(failures[u])]
        /\ guesses' = [guesses EXCEPT ![u] = forget(guesses[u])]
    BY <1>4 DEF ForgetFailures
  <2>5. failures[u] \in [Times -> Nat] /\ guesses[u] \in [Times -> Nat]
    BY <1>1, <2>2 DEF Env
  <2>6. forget(failures[u]) \in [Times -> Nat] /\ forget(guesses[u]) \in [Times -> Nat]
    BY <2>3, <2>5
  <2> HIDE DEF forget, u
  <2>7. /\ failures' \in [Users -> [Times -> Nat]]
        /\ guesses' \in [Users -> [Times -> Nat]]
    BY <1>1, <2>2, <2>4, <2>6 DEF Env
  <2>8. Env' /\ Grows(sessions, sessions')
    <3>1. /\ users' = users /\ sessions' = sessions
          /\ logins' = logins /\ budget' = budget /\ lost' = lost /\ now' = now
      BY <1>4 DEF ForgetFailures
    <3>2. /\ users' \in [Users -> User] /\ logins' \in [Users \X Rids -> 0 .. Len(sessions)]
      BY <1>1, <3>1 DEF Env
    <3> QED
      BY <1>1, <2>7, <3>1, <3>2, LoginEnv
  <2>9. End(w)
    BY <1>4 DEF ForgetFailures
  <2> QED
    BY <2>8, <2>9, EndRight
<1> QED
  BY <1>2, <1>3, <1>4 DEF UnlockStep
LEMMA RowOf ==
  ASSUME Env, NEW s \in DOMAIN sessions
  PROVE  /\ sessions[s] \in Session /\ s \in Nat \ {0} /\ s \in 1 .. Len(sessions)
         /\ sessions[s].user \in Users /\ sessions[s].rid \in Rids
         /\ sessions[s].created \in Times /\ sessions[s].last \in Times
         /\ sessions[s].expires \in Nat /\ sessions[s].revoked \in BOOLEAN
<1>1. /\ DOMAIN sessions = 1 .. Len(sessions) /\ Len(sessions) \in Nat
      /\ sessions \in [1 .. Len(sessions) -> Session]
  BY LenProperties DEF Env
<1>2. sessions[s] \in Session /\ s \in Nat \ {0} /\ s \in 1 .. Len(sessions)
  BY <1>1
<1> QED
  BY <1>2 DEF Session

\* A request with a token, about a row that is there.
LEMMA Asks ==
  ASSUME Right, NEW w \in Workers, work[w].pc \in AuthPcs
  PROVE  /\ work[w] \in AuthJob /\ work[w].session \in DOMAIN sessions
         /\ work[w].seen.user = sessions[work[w].session].user
         /\ work[w].seen.user \in Users
         /\ Env /\ JobFine(work[w], sessions)
<1>1. Env /\ JobFine(work[w], sessions) /\ work[w] \in AuthJob
  BY RightParts, Doing
<1>2. work[w].session \in DOMAIN sessions
      /\ work[w].seen.user = sessions[work[w].session].user
  BY <1>1 DEF JobFine
<1> QED
  BY <1>1, <1>2, RowOf

LEMMA PermsOf ==
  ASSUME NEW g, \A r \in Roles : g[r] \subseteq Perms, NEW rs \in SUBSET Roles
  PROVE  GivenPerms(g, rs) \in SUBSET Perms /\ \A r \in rs : g[r] \subseteq GivenPerms(g, rs)
  BY DEF GivenPerms

LEMMA AuthToRight ==
  ASSUME Right, NEW w \in Workers, NEW j \in AuthJob, work' = [work EXCEPT ![w] = j],
         j.session \in DOMAIN sessions, j.seen.user = sessions[j.session].user,
         Env', Grows(sessions, sessions')
  PROVE  Right'
<1>1. j.session \in DOMAIN sessions' /\ j.seen.user = sessions'[j.session].user
  BY DEF Grows
<1>2. j \in Jobs /\ JobFine(j, sessions')
  BY <1>1, AuthFine, AuthFields
<1> QED
  BY <1>2, OneWorks

LEMMA PresentRight ==
  ASSUME Right, NEW w \in Workers, NEW s \in DOMAIN sessions, NEW logout \in BOOLEAN,
         Present(w, s, logout)
  PROVE  Right'
<1> DEFINE row == sessions[s]
           u == row.user
           ended == row.revoked \/ now > row.expires
           perms == GivenPerms(given, given[u])
           in == u \in mayActive
           j == [pc |-> "presented", session |-> s, logout |-> logout, seen |-> row,
                 stamp |-> 0, roles |-> {}, perms |-> {}, ended |-> ended,
                 mayRoles |-> given[u], mayPerms |-> perms, mayIn |-> in]
<1>1. Env
  BY RightParts
<1>2. row \in Session /\ s \in Nat \ {0} /\ u \in Users
  BY <1>1, RowOf
<1>3. given[u] \in SUBSET Roles /\ \A r \in Roles : given[r] \subseteq Perms
  BY <1>1, <1>2 DEF Env, GivenFine
<1>4. perms \in SUBSET Perms
  BY <1>3, PermsOf
<1>5. ended \in BOOLEAN /\ in \in BOOLEAN /\ 0 \in Times
  BY <1>1, <1>2, LoginAssumption DEF Session, Times, Env
<1>6. work' = [work EXCEPT ![w] = j]
  BY DEF Present
<1>7. UNCHANGED <<now, loginVars, access, used>> /\ budget' \in [Kinds -> Nat]
  <2>1. Spend(IF logout THEN "logout" ELSE "use") /\ UNCHANGED <<now, loginVars, access, used>>
    BY DEF Present
  <2>2. (IF logout THEN "logout" ELSE "use") \in Kinds
    BY DEF Kinds
  <2> QED
    BY <1>1, <2>1, <2>2, Spends
<1>8. Env' /\ Grows(sessions, sessions')
  BY <1>1, <1>7, EnvSame
<1> HIDE DEF ended, in, perms
<1>9. j \in AuthJob
  BY <1>2, <1>3, <1>4, <1>5 DEF AuthJob
<1>10. j.session \in DOMAIN sessions /\ j.seen.user = sessions[j.session].user
  OBVIOUS
<1> HIDE DEF j
<1> QED
  BY <1>6, <1>8, <1>9, <1>10, AuthToRight

\* A step that only reads.
LEMMA AuthReadRight ==
  ASSUME Right, NEW w \in Workers, NEW j \in AuthJob, work' = [work EXCEPT ![w] = j],
         j.session \in DOMAIN sessions, j.seen.user = sessions[j.session].user,
         UNCHANGED <<now, loginVars, budget, access, used>>
  PROVE  Right'
<1>1. Env /\ budget' \in [Kinds -> Nat]
  BY RightParts DEF Env
<1>2. Env' /\ Grows(sessions, sessions')
  BY <1>1, EnvSame
<1> QED
  BY <1>2, AuthToRight

LEMMA TurnedAway ==
  ASSUME Right, NEW w \in Workers, End(w),
         UNCHANGED <<now, loginVars, budget, access, used>>
  PROVE  Right'
<1>1. Env /\ budget' \in [Kinds -> Nat]
  BY RightParts DEF Env
<1>2. Env' /\ Grows(sessions, sessions')
  BY <1>1, EnvSame
<1> QED
  BY <1>2, EndRight

LEMMA FindRight ==
  ASSUME Right, NEW w \in Workers, Find(w)
  PROVE  Right'
<1> DEFINE row == sessions[work[w].session]
           j == [work[w] EXCEPT !.pc = "found", !.seen = row]
<1>1. work[w] \in AuthJob /\ work[w].session \in DOMAIN sessions /\ Env
  BY Asks DEF Find, At, AuthPcs
<1>2. row \in Session
  BY <1>1, RowOf
<1>3. work' = [work EXCEPT ![w] = j] /\ UNCHANGED <<now, loginVars, budget, access, used>>
  BY DEF Find
<1> HIDE DEF row
<1>4. j \in AuthJob /\ j.session = work[w].session /\ j.seen = row
  BY <1>1, <1>2 DEF AuthJob
<1>5. j.session \in DOMAIN sessions /\ j.seen.user = sessions[j.session].user
  BY <1>1, <1>4 DEF row
<1> HIDE DEF j
<1> QED
  BY <1>3, <1>4, <1>5, AuthReadRight

LEMMA CheckRight ==
  ASSUME Right, NEW w \in Workers, Check(w)
  PROVE  Right'
<1> DEFINE j == [work[w] EXCEPT !.pc = "valid", !.stamp = now]
<1>1. /\ work[w] \in AuthJob /\ work[w].session \in DOMAIN sessions /\ Env
      /\ work[w].seen.user = sessions[work[w].session].user
  BY Asks DEF Check, At, AuthPcs
<1>2. /\ End(w) \/ work' = [work EXCEPT ![w] = j]
      /\ UNCHANGED <<now, loginVars, budget, access, used>>
  BY DEF Check
<1>3. now \in Times
  BY <1>1 DEF Env
<1>4. j \in AuthJob /\ j.session = work[w].session /\ j.seen = work[w].seen
  BY <1>1, <1>3 DEF AuthJob
<1>5. j.session \in DOMAIN sessions /\ j.seen.user = sessions[j.session].user
  BY <1>1, <1>4
<1> HIDE DEF j
<1> QED
  BY <1>2, <1>4, <1>5, AuthReadRight, TurnedAway

LEMMA LoadUserRight ==
  ASSUME Right, NEW w \in Workers, LoadUser(w)
  PROVE  Right'
<1> DEFINE j == [work[w] EXCEPT !.pc = "known"]
<1>1. /\ work[w] \in AuthJob /\ work[w].session \in DOMAIN sessions /\ Env
      /\ work[w].seen.user = sessions[work[w].session].user
  BY Asks DEF LoadUser, At, AuthPcs
<1>2. /\ End(w) \/ work' = [work EXCEPT ![w] = j]
      /\ UNCHANGED <<now, loginVars, budget, access, used>>
  BY DEF LoadUser, To
<1>4. j \in AuthJob /\ j.session = work[w].session /\ j.seen = work[w].seen
  BY <1>1 DEF AuthJob
<1>5. j.session \in DOMAIN sessions /\ j.seen.user = sessions[j.session].user
  BY <1>1, <1>4
<1> HIDE DEF j
<1> QED
  BY <1>2, <1>4, <1>5, AuthReadRight, TurnedAway

LEMMA LoadRolesRight ==
  ASSUME Right, NEW w \in Workers, LoadRoles(w)
  PROVE  Right'
<1> DEFINE roles == grants[work[w].seen.user]
           j == [work[w] EXCEPT !.pc = "roles", !.roles = roles]
<1>1. /\ work[w] \in AuthJob /\ work[w].session \in DOMAIN sessions /\ Env
      /\ work[w].seen.user = sessions[work[w].session].user /\ work[w].seen.user \in Users
  BY Asks DEF LoadRoles, At, AuthPcs
<1>2. /\ work' = [work EXCEPT ![w] = j]
      /\ UNCHANGED <<now, loginVars, budget, access, used>>
  BY DEF LoadRoles
<1>3. roles \in SUBSET Roles
  BY <1>1 DEF Env
<1> HIDE DEF roles
<1>4. j \in AuthJob /\ j.session = work[w].session /\ j.seen = work[w].seen
  BY <1>1, <1>3 DEF AuthJob
<1>5. j.session \in DOMAIN sessions /\ j.seen.user = sessions[j.session].user
  BY <1>1, <1>4
<1> HIDE DEF j
<1> QED
  BY <1>2, <1>4, <1>5, AuthReadRight

LEMMA LoadPermissionsRight ==
  ASSUME Right, NEW w \in Workers, LoadPermissions(w)
  PROVE  Right'
<1> DEFINE perms == GivenPerms(grants, work[w].roles)
           j == [work[w] EXCEPT !.pc = "authorised", !.perms = perms]
<1>1. /\ work[w] \in AuthJob /\ work[w].session \in DOMAIN sessions /\ Env
      /\ work[w].seen.user = sessions[work[w].session].user
  BY Asks DEF LoadPermissions, At, AuthPcs
<1>2. /\ work' = [work EXCEPT ![w] = j]
      /\ UNCHANGED <<now, loginVars, budget, access, used>>
  BY DEF LoadPermissions
<1>3. perms \in SUBSET Perms
  BY <1>1, PermsOf, AuthFields DEF Env
<1> HIDE DEF perms
<1>4. j \in AuthJob /\ j.session = work[w].session /\ j.seen = work[w].seen
  BY <1>1, <1>3 DEF AuthJob
<1>5. j.session \in DOMAIN sessions /\ j.seen.user = sessions[j.session].user
  BY <1>1, <1>4
<1> HIDE DEF j
<1> QED
  BY <1>2, <1>4, <1>5, AuthReadRight

\* One row is rewritten.
LEMMA OneRow ==
  ASSUME Env, NEW s \in DOMAIN sessions, NEW row \in Session,
         row.user = sessions[s].user, row.rid = sessions[s].rid,
         row.created = sessions[s].created, row.expires = sessions[s].expires,
         sessions[s].revoked => row.revoked,
         sessions' = [sessions EXCEPT ![s] = row]
  PROVE  /\ sessions' \in Seq(Session) /\ Len(sessions') = Len(sessions)
         /\ DOMAIN sessions' = DOMAIN sessions /\ sessions'[s] = row
         /\ \A r \in DOMAIN sessions \ {s} : sessions'[r] = sessions[r]
         /\ Grows(sessions, sessions')
<1>1. sessions \in Seq(Session) /\ s \in 1 .. Len(sessions)
  BY RowOf DEF Env
<1>2. sessions' \in Seq(Session) /\ Len(sessions') = Len(sessions)
  BY <1>1, ExceptSeq
<1>3. /\ DOMAIN sessions' = DOMAIN sessions /\ sessions'[s] = row
      /\ \A r \in DOMAIN sessions \ {s} : sessions'[r] = sessions[r]
  OBVIOUS
<1> QED
  BY <1>2, <1>3 DEF Grows

\* What else a step that rewrites rows of sessions leaves.
LEMMA RowsEnv ==
  ASSUME Env, UNCHANGED <<now, users, failures, logins, budget, guesses, lost, access>>,
         sessions' \in Seq(Session), Len(sessions') = Len(sessions),
         DOMAIN sessions' = DOMAIN sessions, used' \subseteq (DOMAIN sessions) \X Times
  PROVE  Env'
<1>1. /\ now' = now /\ users' = users /\ failures' = failures /\ logins' = logins
      /\ budget' = budget /\ lost' = lost /\ guesses' = guesses
      /\ grants' = grants /\ given' = given /\ mayActive' = mayActive
  BY DEF access
<1>2. used' \subseteq (DOMAIN sessions') \X Times
  OBVIOUS
<1> QED
  BY <1>1, <1>2 DEF Env, GivenFine

LEMMA BumpRows ==
  ASSUME Right, NEW w \in Workers, Bump(w)
  PROVE  LET s == work[w].session
         IN  /\ s \in DOMAIN sessions /\ work[w] \in AuthJob /\ work[w].stamp \in Times
             /\ sessions' \in Seq(Session) /\ Len(sessions') = Len(sessions)
             /\ DOMAIN sessions' = DOMAIN sessions
             /\ sessions'[s] = [sessions[s] EXCEPT !.last = work[w].stamp]
             /\ \A r \in DOMAIN sessions \ {s} : sessions'[r] = sessions[r]
             /\ Grows(sessions, sessions')
<1> DEFINE s == work[w].session
           stamp == work[w].stamp
           row == [sessions[s] EXCEPT !.last = stamp]
<1>1. /\ work[w] \in AuthJob /\ s \in DOMAIN sessions /\ Env
  BY Asks DEF Bump, At, AuthPcs
<1>2. stamp \in Times /\ sessions[s] \in Session
  BY <1>1, RowOf, AuthFields
<1>3. sessions' = [sessions EXCEPT ![s] = row]
  BY DEF Bump, Bumped
<1> HIDE DEF s, stamp
<1>4. /\ row \in Session /\ row.user = sessions[s].user /\ row.rid = sessions[s].rid
      /\ row.created = sessions[s].created /\ row.expires = sessions[s].expires
      /\ row.revoked = sessions[s].revoked
  BY <1>2 DEF Session
<1> HIDE DEF row
<1>5. /\ sessions' \in Seq(Session) /\ Len(sessions') = Len(sessions)
      /\ DOMAIN sessions' = DOMAIN sessions /\ sessions'[s] = row
      /\ \A r \in DOMAIN sessions \ {s} : sessions'[r] = sessions[r]
      /\ Grows(sessions, sessions')
  BY <1>1, <1>3, <1>4, OneRow
<1> QED
  BY <1>1, <1>2, <1>5 DEF s, stamp, row

LEMMA BumpRight ==
  ASSUME Right, NEW w \in Workers, Bump(w)
  PROVE  Right'
<1> DEFINE j == [work[w] EXCEPT !.pc = "in"]
<1>1. /\ work[w] \in AuthJob /\ work[w].session \in DOMAIN sessions /\ Env
      /\ work[w].seen.user = sessions[work[w].session].user
  BY Asks DEF Bump, At, AuthPcs
<1>2. /\ work[w].stamp \in Times /\ sessions' \in Seq(Session)
      /\ Len(sessions') = Len(sessions)
      /\ DOMAIN sessions' = DOMAIN sessions /\ Grows(sessions, sessions')
  BY BumpRows
<1>3. /\ work' = [work EXCEPT ![w] = j]
      /\ used' = used \cup {<<work[w].session, work[w].stamp>>}
      /\ UNCHANGED <<now, users, failures, logins, budget, guesses, lost, access>>
  BY DEF Bump, To
<1>4. j \in AuthJob /\ j.session = work[w].session /\ j.seen = work[w].seen
  BY <1>1 DEF AuthJob
<1>5. j.session \in DOMAIN sessions /\ j.seen.user = sessions[j.session].user
  BY <1>1, <1>4
<1>6. used' \subseteq (DOMAIN sessions) \X Times
  BY <1>1, <1>2, <1>3 DEF Env
<1>7. Env'
  BY <1>1, <1>2, <1>3, <1>6, RowsEnv
<1> HIDE DEF j
<1> QED
  BY <1>2, <1>3, <1>4, <1>5, <1>7, AuthToRight

LEMMA HandleRows ==
  ASSUME Right, NEW w \in Workers, Handle(w)
  PROVE  /\ sessions' \in Seq(Session) /\ Len(sessions') = Len(sessions)
         /\ DOMAIN sessions' = DOMAIN sessions
         /\ \A r \in DOMAIN sessions : sessions'[r].last = sessions[r].last
         /\ Grows(sessions, sessions')
<1> DEFINE s == work[w].session
           row == [sessions[s] EXCEPT !.revoked = TRUE]
<1>1. /\ work[w] \in AuthJob /\ s \in DOMAIN sessions /\ Env
  BY Asks DEF Handle, At, AuthPcs
<1>2. sessions[s] \in Session
  BY <1>1, RowOf
<1>3. sessions' = sessions \/ sessions' = [sessions EXCEPT ![s] = row]
  BY DEF Handle
<1>4. CASE sessions' = sessions
  BY <1>1, <1>4, SameRows DEF Env
<1>5. CASE sessions' = [sessions EXCEPT ![s] = row]
  <2> HIDE DEF s
  <2>1. /\ row \in Session /\ row.user = sessions[s].user /\ row.rid = sessions[s].rid
        /\ row.created = sessions[s].created /\ row.expires = sessions[s].expires
        /\ row.revoked /\ row.last = sessions[s].last
    BY <1>2 DEF Session
  <2> HIDE DEF row
  <2>2. /\ sessions' \in Seq(Session) /\ Len(sessions') = Len(sessions)
        /\ DOMAIN sessions' = DOMAIN sessions /\ sessions'[s] = row
        /\ \A r \in DOMAIN sessions \ {s} : sessions'[r] = sessions[r]
        /\ Grows(sessions, sessions')
    BY <1>1, <1>5, <2>1, OneRow
  <2> QED
    BY <2>1, <2>2
<1> QED
  BY <1>3, <1>4, <1>5

LEMMA HandleRight ==
  ASSUME Right, NEW w \in Workers, Handle(w)
  PROVE  Right'
<1>1. /\ sessions' \in Seq(Session) /\ Len(sessions') = Len(sessions)
      /\ DOMAIN sessions' = DOMAIN sessions /\ Grows(sessions, sessions')
  BY HandleRows
<1>2. End(w) /\ used' = used
      /\ UNCHANGED <<now, users, failures, logins, budget, guesses, lost, access>>
  BY DEF Handle
<1>3. Env /\ used' \subseteq (DOMAIN sessions) \X Times
  BY <1>2, RightParts DEF Env
<1>4. Env'
  BY <1>1, <1>2, <1>3, RowsEnv
<1> QED
  BY <1>1, <1>2, <1>4, EndRight

LEMMA ReapRows ==
  ASSUME Right, Reap
  PROVE  /\ sessions' \in Seq(Session) /\ Len(sessions') = Len(sessions)
         /\ DOMAIN sessions' = DOMAIN sessions
         /\ \A r \in DOMAIN sessions : sessions'[r].last = sessions[r].last
         /\ Grows(sessions, sessions')
<1> DEFINE due == {s \in DOMAIN sessions : ~ sessions[s].revoked /\ sessions[s].expires < now}
           after(s) == [sessions[s] EXCEPT !.revoked = @ \/ s \in due]
<1>1. Env /\ DOMAIN sessions = 1 .. Len(sessions) /\ Len(sessions) \in Nat
  BY RightParts DEF Env
<1>2. sessions' = [s \in DOMAIN sessions |-> after(s)]
  BY DEF Reap
<1>3. ASSUME NEW s \in DOMAIN sessions
      PROVE  /\ after(s) \in Session /\ after(s).last = sessions[s].last
             /\ after(s).user = sessions[s].user /\ after(s).rid = sessions[s].rid
             /\ after(s).created = sessions[s].created /\ after(s).expires = sessions[s].expires
             /\ sessions[s].revoked => after(s).revoked
  <2> DEFINE in == s \in due
  <2>1. sessions[s] \in Session /\ in \in BOOLEAN
    BY <1>1, RowOf
  <2> HIDE DEF in
  <2>2. (sessions[s].revoked \/ in) \in BOOLEAN
    BY <2>1
  <2>3. [sessions[s] EXCEPT !.revoked = @ \/ in] \in Session
    BY <2>1, <2>2 DEF Session
  <2>4. after(s) = [sessions[s] EXCEPT !.revoked = @ \/ in]
    BY DEF in
  <2> QED
    BY <2>1, <2>3, <2>4 DEF Session
<1> HIDE DEF after
<1>4. sessions' \in Seq(Session) /\ Len(sessions') = Len(sessions)
      /\ DOMAIN sessions' = DOMAIN sessions
  <2>1. sessions' = [s \in 1 .. Len(sessions) |-> after(s)]
    BY <1>1, <1>2
  <2>2. \A s \in 1 .. Len(sessions) : after(s) \in Session
    BY <1>1, <1>3
  <2> QED
    BY <1>1, <2>1, <2>2
<1>5. \A s \in DOMAIN sessions : sessions'[s] = after(s)
  BY <1>2
<1> QED
  BY <1>3, <1>4, <1>5 DEF Grows

LEMMA ReapRight ==
  ASSUME Right, Reap
  PROVE  Right'
<1>1. /\ sessions' \in Seq(Session) /\ Len(sessions') = Len(sessions)
      /\ DOMAIN sessions' = DOMAIN sessions /\ Grows(sessions, sessions')
  BY ReapRows
<1>2. work' = work /\ used' = used
      /\ UNCHANGED <<now, users, failures, logins, budget, guesses, lost, access>>
  BY DEF Reap
<1>3. Env /\ used' \subseteq (DOMAIN sessions) \X Times
  BY <1>2, RightParts DEF Env
<1>4. Env'
  BY <1>1, <1>2, <1>3, RowsEnv
<1>5. \A w \in Workers : JobFine(work'[w], sessions')
  BY <1>1, <1>2, InHand, JobKept
<1> QED
  BY <1>2, <1>4, <1>5, RightParts, RightPartsNext
\* An update, under way or answered.
LEMMA Edits ==
  ASSUME Right, NEW w \in Workers, work[w].pc \in AdminPcs
  PROVE  /\ work[w] \in AdminJob /\ work[w].update \in Update
         /\ work[w].update.of \in Subjects /\ work[w].left \subseteq work[w].update.set
         /\ work[w].pc \in {"editing", "edited"} => work[w].update.of \in Users
         /\ work[w].pc \in {"dropping", "adding"} => work[w].update.names
         /\ work[w].pc = "updated" => ~ work[w].update.names
         /\ Env /\ JobFine(work[w], sessions)
<1>1. Env /\ JobFine(work[w], sessions) /\ work[w] \in AdminJob
  BY RightParts, Doing
<1> QED
  BY <1>1, AdminFields, UpdateFields DEF JobFine

\* More is given.
LEMMA GivenMore ==
  ASSUME Env, NEW a \in Update,
         given' = IF a.names THEN [given EXCEPT ![a.of] = @ \cup a.set] ELSE given,
         mayActive' = IF a.active = "yes" THEN mayActive \cup {a.of} ELSE mayActive
  PROVE  /\ given' \in [Subjects -> SUBSET (Roles \cup Perms)]
         /\ \A u \in Users : given'[u] \subseteq Roles
         /\ \A r \in Roles : given'[r] \subseteq Perms
         /\ \A x \in Subjects : given[x] \subseteq given'[x]
         /\ mayActive \subseteq mayActive' /\ mayActive' \subseteq Users
<1>1. /\ a.of \in Subjects
      /\ a.of \in Users => a.set \subseteq Roles /\ a.of \notin Roles
      /\ a.of \in Roles => a.set \subseteq Perms /\ a.of \notin Users
      /\ a.of \notin Users => a.of \in Roles /\ a.active = "kept"
      /\ a.set \in SUBSET (Roles \cup Perms)
  BY UpdateFields
<1>2. /\ given \in [Subjects -> SUBSET (Roles \cup Perms)]
      /\ \A u \in Users : given[u] \subseteq Roles
      /\ \A r \in Roles : given[r] \subseteq Perms
      /\ mayActive \subseteq Users
  BY DEF Env, GivenFine
<1>3. mayActive \subseteq mayActive' /\ mayActive' \subseteq Users
  BY <1>1, <1>2
<1>4. CASE given' = given
  BY <1>2, <1>3, <1>4
<1>5. CASE given' = [given EXCEPT ![a.of] = @ \cup a.set]
  <2>1. \A x \in Subjects : given'[x] = IF x = a.of THEN given[x] \cup a.set ELSE given[x]
    BY <1>1, <1>2, <1>5
  <2>2. given' \in [Subjects -> SUBSET (Roles \cup Perms)]
    BY <1>1, <1>2, <1>5
  <2>3. Users \subseteq Subjects /\ Roles \subseteq Subjects
    BY DEF Subjects
  <2> QED
    BY <1>1, <1>2, <1>3, <2>1, <2>2, <2>3
<1> QED
  BY <1>4, <1>5

NewEdit(w, a) ==
  [pc |-> IF a.of \in Users THEN "editing" ELSE "dropping", update |-> a, was |-> FALSE,
   left |-> a.set, alone |-> ~ \E o \in Workers : Updating(o, a.of)]

LEMMA EditFine ==
  ASSUME NEW w, NEW a \in Update, NEW rows
  PROVE  NewEdit(w, a) \in AdminJob /\ NewEdit(w, a) \in Jobs /\ JobFine(NewEdit(w, a), rows)
<1> DEFINE alone == ~ \E o \in Workers : Updating(o, a.of)
           pc == IF a.of \in Users THEN "editing" ELSE "dropping"
           j == [pc |-> pc, update |-> a, was |-> FALSE, left |-> a.set, alone |-> alone]
<1>1. /\ a.set \in SUBSET (Roles \cup Perms)
      /\ a.of \notin Users => a.names
  BY UpdateFields
<1>2. alone \in BOOLEAN
  OBVIOUS
<1>3. /\ pc \in AdminPcs /\ pc \in {"editing", "dropping"}
      /\ pc = "editing" => a.of \in Users
      /\ pc = "dropping" => a.names
  BY <1>1 DEF AdminPcs
<1>4. NewEdit(w, a) = j
  BY DEF NewEdit
<1> HIDE DEF alone, pc
<1>5. j \in AdminJob
  BY <1>1, <1>2, <1>3 DEF AdminJob, AdminPcs
<1>6. j.pc = pc /\ j.left = a.set /\ j.update = a
  OBVIOUS
<1> HIDE DEF j
<1>7. JobFine(j, rows) /\ j \in Jobs
  BY <1>3, <1>5, <1>6, AdminFine, AdminFields
<1> QED
  BY <1>4, <1>5, <1>7

LEMMA ExtendedFields ==
  ASSUME NEW j \in AuthJob, NEW g, NEW active, j.seen.user \in Users,
         \A u \in Users : g[u] \subseteq Roles, \A r \in Roles : g[r] \subseteq Perms
  PROVE  LET e == Extended(j, g, active)
         IN  /\ e \in AuthJob /\ e.session = j.session /\ e.seen = j.seen /\ e.pc = j.pc
             /\ e.stamp = j.stamp /\ e.roles = j.roles /\ e.perms = j.perms
             /\ e.ended = j.ended /\ e.mayIn = (j.mayIn \/ j.seen.user \in active)
             /\ e.mayRoles = j.mayRoles \cup g[j.seen.user]
             /\ e.mayPerms = j.mayPerms \cup GivenPerms(g, e.mayRoles)
             /\ e.logout = j.logout
<1> DEFINE rs == j.mayRoles \cup g[j.seen.user]
           ps == j.mayPerms \cup GivenPerms(g, rs)
           in == j.mayIn \/ j.seen.user \in active
           e == [j EXCEPT !.mayRoles = rs, !.mayPerms = ps, !.mayIn = in]
<1>1. rs \in SUBSET Roles
  BY AuthFields
<1>2. ps \in SUBSET Perms
  BY <1>1, AuthFields, PermsOf
<1>3. in \in BOOLEAN
  BY AuthFields
<1>4. Extended(j, g, active) = e
  BY DEF Extended
<1> HIDE DEF rs, ps, in
<1>5. /\ e \in AuthJob /\ e.session = j.session /\ e.seen = j.seen /\ e.pc = j.pc
      /\ e.stamp = j.stamp /\ e.roles = j.roles /\ e.perms = j.perms
      /\ e.ended = j.ended /\ e.mayIn = in /\ e.mayRoles = rs /\ e.mayPerms = ps
      /\ e.logout = j.logout
  BY <1>1, <1>2, <1>3 DEF AuthJob
<1> QED
  BY <1>4, <1>5 DEF rs, ps, in

\* What the workers have in hand when an update comes in.
LEMMA AskedWork ==
  ASSUME Right, NEW w \in Workers, NEW a \in Update, AskUpdate(w, a), NEW v \in Workers
  PROVE  /\ v = w => work'[v] = NewEdit(w, a)
         /\ v # w /\ Updating(v, a.of) =>
              /\ work'[v] = [work[v] EXCEPT !.alone = FALSE] /\ work'[v] \in AdminJob
              /\ work'[v].pc = work[v].pc /\ work'[v].update = work[v].update
              /\ work'[v].left = work[v].left /\ work'[v].was = work[v].was
              /\ work'[v].alone = FALSE
         /\ v # w /\ ~ Updating(v, a.of) /\ work[v] \in AuthJob =>
              work'[v] = Extended(work[v], given', mayActive')
         /\ v # w /\ ~ Updating(v, a.of) /\ work[v] \notin AuthJob => work'[v] = work[v]
<1> DEFINE x == a.of
<1>1. work' = [o \in Workers |->
         IF o = w THEN NewEdit(w, a)
         ELSE IF Updating(o, x) THEN [work[o] EXCEPT !.alone = FALSE]
         ELSE IF Authenticating(o) THEN Extended(work[o], given', mayActive')
         ELSE work[o]]
  BY DEF AskUpdate, NewEdit
<1>2. work'[v] = IF v = w THEN NewEdit(w, a)
                 ELSE IF Updating(v, x) THEN [work[v] EXCEPT !.alone = FALSE]
                 ELSE IF Authenticating(v) THEN Extended(work[v], given', mayActive')
                 ELSE work[v]
  BY <1>1
<1>3. ASSUME v # w, Updating(v, x)
      PROVE  /\ [work[v] EXCEPT !.alone = FALSE] \in AdminJob
             /\ [work[v] EXCEPT !.alone = FALSE].pc = work[v].pc
             /\ [work[v] EXCEPT !.alone = FALSE].update = work[v].update
             /\ [work[v] EXCEPT !.alone = FALSE].left = work[v].left
             /\ [work[v] EXCEPT !.alone = FALSE].was = work[v].was
             /\ [work[v] EXCEPT !.alone = FALSE].alone = FALSE
  BY <1>3 DEF Updating, AdminJob
<1> QED
  BY <1>2, <1>3 DEF Authenticating

LEMMA AskUpdateRight ==
  ASSUME Right, NEW w \in Workers, NEW a \in Update, AskUpdate(w, a)
  PROVE  Right'
<1>1. Env
  BY RightParts
<1>2. /\ given' = IF a.names THEN [given EXCEPT ![a.of] = @ \cup a.set] ELSE given
      /\ mayActive' = IF a.active = "yes" THEN mayActive \cup {a.of} ELSE mayActive
      /\ UNCHANGED <<now, loginVars, grants, used>> /\ Spend("admin")
  BY DEF AskUpdate
<1>3. /\ given' \in [Subjects -> SUBSET (Roles \cup Perms)]
      /\ \A u \in Users : given'[u] \subseteq Roles
      /\ \A r \in Roles : given'[r] \subseteq Perms
      /\ mayActive' \subseteq Users
  BY <1>1, <1>2, GivenMore
<1>4. budget' \in [Kinds -> Nat]
  BY <1>1, <1>2, Spends DEF Kinds
<1>5. Env' /\ sessions' = sessions
  <2>1. /\ now' = now /\ users' = users /\ failures' = failures /\ sessions' = sessions
        /\ logins' = logins /\ guesses' = guesses /\ lost' = lost
        /\ grants' = grants /\ used' = used
    BY <1>2 DEF loginVars
  <2> QED
    BY <1>1, <1>3, <1>4, <2>1 DEF Env, GivenFine
<1>6. ASSUME NEW v \in Workers
      PROVE  work'[v] \in Jobs /\ JobFine(work'[v], sessions')
  <2>1. JobFine(work[v], sessions) /\ work[v] \in Jobs
    BY InHand
  <2>2. CASE v = w
    <3>1. work'[v] = NewEdit(w, a)
      BY <2>2, AskedWork
    <3> QED
      BY <3>1, EditFine
  <2>3. CASE v # w /\ Updating(v, a.of)
    <3>1. /\ work'[v] \in AdminJob /\ work'[v].pc = work[v].pc
          /\ work'[v].update = work[v].update /\ work'[v].left = work[v].left
          /\ work[v] \in AdminJob
      BY <2>3, AskedWork DEF Updating
    <3> QED
      BY <2>1, <3>1, AdminFine, AdminFields DEF JobFine
  <2>4. CASE v # w /\ ~ Updating(v, a.of) /\ work[v] \in AuthJob
    <3>1. work[v].session \in DOMAIN sessions
          /\ work[v].seen.user = sessions[work[v].session].user
      BY <2>1, <2>4 DEF JobFine
    <3>2. work[v].seen.user \in Users
      BY <1>1, <3>1, RowOf
    <3>3. work'[v] = Extended(work[v], given', mayActive')
      BY <2>4, AskedWork
    <3>4. /\ work'[v] \in AuthJob /\ work'[v].session = work[v].session
          /\ work'[v].seen = work[v].seen
      BY <1>3, <2>4, <3>2, <3>3, ExtendedFields
    <3> QED
      BY <1>5, <3>1, <3>4, AuthFine, AuthFields
  <2>5. CASE v # w /\ ~ Updating(v, a.of) /\ work[v] \notin AuthJob
    BY <1>5, <2>1, <2>5, AskedWork
  <2> QED
    BY <2>2, <2>3, <2>4, <2>5
<1>7. work' \in [Workers -> Jobs]
  <2>1. DOMAIN work' = Workers /\ work' = [v \in Workers |-> work'[v]]
    BY DEF AskUpdate
  <2> QED
    BY <1>6, <2>1
<1> QED
  BY <1>5, <1>6, <1>7, RightPartsNext

\* An update that goes on to another statement.
LEMMA AdminToRight ==
  ASSUME Right, NEW w \in Workers, NEW j \in AdminJob, work' = [work EXCEPT ![w] = j],
         j.left \subseteq j.update.set,
         j.pc \in {"editing", "edited"} => j.update.of \in Users,
         j.pc \in {"dropping", "adding"} => j.update.names,
         j.pc = "updated" => ~ j.update.names,
         Env', Grows(sessions, sessions')
  PROVE  Right'
<1>1. j \in Jobs /\ JobFine(j, sessions')
  BY AdminFine, AdminFields
<1> QED
  BY <1>1, OneWorks

LEMMA LoadEditedRight ==
  ASSUME Right, NEW w \in Workers, LoadEdited(w)
  PROVE  Right'
<1> DEFINE was == users[work[w].update.of].active
           j == [work[w] EXCEPT !.pc = "edited", !.was = was]
<1>1. /\ work[w] \in AdminJob /\ work[w].left \subseteq work[w].update.set
      /\ work[w].update.of \in Users /\ Env
  BY Edits DEF LoadEdited, At, AdminPcs
<1>2. was \in BOOLEAN
  BY <1>1, UserRow
<1>3. work' = [work EXCEPT ![w] = j] /\ UNCHANGED <<now, loginVars, budget, access, used>>
  BY DEF LoadEdited
<1>4. Env' /\ Grows(sessions, sessions')
  BY <1>1, <1>3, EnvSame DEF Env
<1> HIDE DEF was
<1>5. j \in AdminJob /\ j.update = work[w].update /\ j.left = work[w].left /\ j.pc = "edited"
  BY <1>1, <1>2 DEF AdminJob
<1> HIDE DEF j
<1> QED
  BY <1>1, <1>3, <1>4, <1>5, AdminToRight

LEMMA EditRight ==
  ASSUME Right, NEW w \in Workers, Edit(w)
  PROVE  Right'
<1> DEFINE a == work[w].update
           active == IF a.active = "kept" THEN work[w].was ELSE a.active = "yes"
           pc == IF a.names THEN "dropping" ELSE "updated"
           j == [work[w] EXCEPT !.pc = pc]
<1>1. /\ work[w] \in AdminJob /\ work[w].left \subseteq a.set
      /\ a.of \in Users /\ Env
  BY Edits DEF Edit, At, AdminPcs
<1>2. active \in BOOLEAN
  BY <1>1, AdminFields
<1>3. /\ work' = [work EXCEPT ![w] = j] /\ users' = [users EXCEPT ![a.of].active = active]
      /\ UNCHANGED <<now, failures, sessions, logins, budget, guesses, lost, access, used>>
  BY DEF Edit, To
<1>4. (pc = "dropping" /\ a.names) \/ (pc = "updated" /\ ~ a.names)
  <2>1. a.names \in BOOLEAN
    BY <1>1, AdminFields, UpdateFields
  <2> QED
    BY <2>1
<1> HIDE DEF active, pc
<1>5. users' \in [Users -> User]
  BY <1>1, <1>2, <1>3 DEF Env, User
<1>6. Env' /\ Grows(sessions, sessions')
  <2>1. /\ failures' \in [Users -> [Times -> Nat]] /\ guesses' \in [Users -> [Times -> Nat]]
        /\ logins' \in [Users \X Rids -> 0 .. Len(sessions)]
    BY <1>1, <1>3 DEF Env
  <2> QED
    BY <1>1, <1>3, <1>5, <2>1, LoginEnv
<1>7. j \in AdminJob /\ j.update = a /\ j.left = work[w].left /\ j.pc = pc
  BY <1>1, <1>4 DEF AdminJob
<1> HIDE DEF j
<1> QED
  BY <1>1, <1>3, <1>4, <1>6, <1>7, AdminToRight

\* Rows of grants change.
LEMMA GrantsEnv ==
  ASSUME Env, NEW x \in Subjects, NEW set \in SUBSET (Roles \cup Perms),
         x \in Users => set \subseteq Roles, x \in Roles => set \subseteq Perms,
         grants' = [grants EXCEPT ![x] = set],
         UNCHANGED <<now, loginVars, budget, given, mayActive, used>>
  PROVE  Env' /\ Grows(sessions, sessions')
<1>1. /\ now' = now /\ users' = users /\ failures' = failures /\ sessions' = sessions
      /\ logins' = logins /\ guesses' = guesses /\ lost' = lost /\ budget' = budget
      /\ given' = given /\ mayActive' = mayActive /\ used' = used
  BY DEF loginVars
<1>2. /\ grants' \in [Subjects -> SUBSET (Roles \cup Perms)]
      /\ \A u \in Users : grants'[u] \subseteq Roles
      /\ \A r \in Roles : grants'[r] \subseteq Perms
  BY DEF Env, Subjects
<1>3. Env'
  BY <1>1, <1>2 DEF Env, GivenFine
<1> QED
  BY <1>1, <1>3, SameRows

LEMMA DropRight ==
  ASSUME Right, NEW w \in Workers, Drop(w)
  PROVE  Right'
<1> DEFINE a == work[w].update
           j == [work[w] EXCEPT !.pc = "adding"]
<1>1. /\ work[w] \in AdminJob /\ work[w].left \subseteq a.set
      /\ a.of \in Subjects /\ a.names /\ Env
  BY Edits DEF Drop, At, AdminPcs
<1>2. /\ work' = [work EXCEPT ![w] = j] /\ grants' = [grants EXCEPT ![a.of] = {}]
      /\ UNCHANGED <<now, loginVars, budget, given, mayActive, used>>
  BY DEF Drop, To
<1>3. Env' /\ Grows(sessions, sessions')
  BY <1>1, <1>2, GrantsEnv
<1>4. j \in AdminJob /\ j.update = a /\ j.left = work[w].left /\ j.pc = "adding"
  BY <1>1 DEF AdminJob
<1> HIDE DEF j
<1> QED
  BY <1>1, <1>2, <1>3, <1>4, AdminToRight

LEMMA AddRight ==
  ASSUME Right, NEW w \in Workers, Add(w)
  PROVE  Right'
<1> DEFINE a == work[w].update
<1>1. /\ work[w] \in AdminJob /\ work[w].left \subseteq a.set
      /\ a.of \in Subjects /\ a.names /\ Env /\ a \in Update /\ work[w].pc = "adding"
  BY Edits DEF Add, At, AdminPcs
<1>2. PICK g \in work[w].left :
        /\ grants' = [grants EXCEPT ![a.of] = @ \cup {g}]
        /\ work' = [work EXCEPT ![w].left = @ \ {g}]
  BY DEF Add
<1> DEFINE left == work[w].left \ {g}
           set == grants[a.of] \cup {g}
           j == [work[w] EXCEPT !.left = left]
<1>3. /\ g \in a.set /\ a.set \in SUBSET (Roles \cup Perms)
      /\ a.of \in Users => a.set \subseteq Roles
      /\ a.of \in Roles => a.set \subseteq Perms
  BY <1>1, <1>2, UpdateFields
<1>4. /\ set \in SUBSET (Roles \cup Perms)
      /\ a.of \in Users => set \subseteq Roles
      /\ a.of \in Roles => set \subseteq Perms
  BY <1>1, <1>3 DEF Env
<1>5. /\ grants' = [grants EXCEPT ![a.of] = set] /\ work' = [work EXCEPT ![w] = j]
      /\ UNCHANGED <<now, loginVars, budget, given, mayActive, used>>
  BY <1>2 DEF Add
<1> HIDE DEF set
<1>6. Env' /\ Grows(sessions, sessions')
  BY <1>1, <1>4, <1>5, GrantsEnv
<1>7. left \in SUBSET (Roles \cup Perms) /\ left \subseteq a.set
  BY <1>1, <1>3
<1> HIDE DEF left
<1>8. j \in AdminJob /\ j.update = a /\ j.left = left /\ j.pc = "adding"
  BY <1>1, <1>7 DEF AdminJob
<1> HIDE DEF j
<1> QED
  BY <1>1, <1>5, <1>6, <1>7, <1>8, AdminToRight

LEMMA AnswerRight ==
  ASSUME Right, NEW w \in Workers, Answer(w)
  PROVE  Right'
<1> DEFINE a == work[w].update
<1>1. /\ work[w] \in AdminJob /\ a.of \in Subjects /\ Env /\ a \in Update
  BY Edits DEF Answer, At, AdminPcs
<1>2. /\ given' = given \/ given' = [given EXCEPT ![a.of] = a.set]
      /\ mayActive' = mayActive \/ mayActive' = mayActive \ {a.of}
      /\ UNCHANGED <<now, loginVars, budget, grants, used>> /\ End(w)
  BY DEF Answer
<1>3. /\ a.set \in SUBSET (Roles \cup Perms)
      /\ a.of \in Users => a.set \subseteq Roles
      /\ a.of \in Roles => a.set \subseteq Perms
  BY <1>1, UpdateFields
<1> HIDE DEF a
<1>4. /\ given' \in [Subjects -> SUBSET (Roles \cup Perms)]
      /\ \A u \in Users : given'[u] \subseteq Roles
      /\ \A r \in Roles : given'[r] \subseteq Perms
      /\ mayActive' \subseteq Users
  <2>1. CASE given' = given
    BY <1>1, <1>2, <2>1 DEF Env, GivenFine
  <2>2. CASE given' = [given EXCEPT ![a.of] = a.set]
    BY <1>1, <1>2, <1>3, <2>2 DEF Env, GivenFine, Subjects
  <2> QED
    BY <1>2, <2>1, <2>2
<1>5. Env' /\ Grows(sessions, sessions')
  <2>1. /\ now' = now /\ users' = users /\ failures' = failures /\ sessions' = sessions
        /\ logins' = logins /\ guesses' = guesses /\ lost' = lost /\ budget' = budget
        /\ grants' = grants /\ used' = used
    BY <1>2 DEF loginVars
  <2> QED
    BY <1>1, <1>4, <2>1, SameRows DEF Env, GivenFine
<1> QED
  BY <1>2, <1>5, EndRight

LEMMA StopRight ==
  ASSUME Right, NEW w \in Workers, Stop(w)
  PROVE  Right'
<1>1. Env
  BY RightParts
<1>2. /\ \/ lost' = lost
         \/ work[w] \in LoginJob /\ lost' = [lost EXCEPT ![work[w].user] = @ + 1]
      /\ End(w) /\ Spend("fail")
      /\ UNCHANGED <<now, users, failures, sessions, logins, guesses, access, used>>
  BY DEF Stop
<1>3. lost' \in [Users -> Nat]
  <2>1. CASE lost' = lost
    BY <1>1, <2>1 DEF Env
  <2>2. CASE work[w] \in LoginJob /\ lost' = [lost EXCEPT ![work[w].user] = @ + 1]
    BY <1>1, <2>2, LoginFields DEF Env
  <2> QED
    BY <1>2, <2>1, <2>2
<1>4. budget' \in [Kinds -> Nat]
  BY <1>1, <1>2, Spends DEF Kinds
<1>5. Env' /\ Grows(sessions, sessions')
  <2>1. /\ now' = now /\ users' = users /\ failures' = failures /\ sessions' = sessions
        /\ logins' = logins /\ guesses' = guesses
        /\ grants' = grants /\ given' = given /\ mayActive' = mayActive /\ used' = used
    BY <1>2 DEF access
  <2> QED
    BY <1>1, <1>3, <1>4, <2>1, SameRows DEF Env, GivenFine
<1> QED
  BY <1>2, <1>5, EndRight

LEMMA TickRight ==
  ASSUME Right, Tick, UNCHANGED <<access, used>>
  PROVE  Right' /\ work' = work /\ sessions' = sessions /\ now <= now'
<1>1. Env
  BY RightParts
<1>2. /\ now < MaxTime /\ now' = now + 1 /\ Spend("tick")
      /\ users' = users /\ failures' = failures /\ sessions' = sessions
      /\ logins' = logins /\ guesses' = guesses /\ lost' = lost /\ work' = work
      /\ grants' = grants /\ given' = given /\ mayActive' = mayActive /\ used' = used
  BY DEF Tick, loginVars, access
<1>3. budget' \in [Kinds -> Nat]
  BY <1>1, <1>2, Spends DEF Kinds
<1>4. now' \in Times /\ now <= now'
  BY <1>1, <1>2, LoginAssumption DEF Env, Times
<1>5. Env'
  BY <1>1, <1>2, <1>3, <1>4 DEF Env, GivenFine
<1>6. \A w \in Workers : JobFine(work'[w], sessions')
  BY <1>2, InHand
<1> QED
  BY <1>2, <1>4, <1>5, <1>6, RightParts, RightPartsNext

LEMMA SameRight ==
  ASSUME Right, UNCHANGED vars
  PROVE  Right' /\ work' = work /\ sessions' = sessions
<1>1. /\ now' = now /\ users' = users /\ failures' = failures /\ sessions' = sessions
      /\ logins' = logins /\ guesses' = guesses /\ lost' = lost /\ work' = work
      /\ grants' = grants /\ given' = given /\ mayActive' = mayActive /\ used' = used
      /\ budget' = budget
  BY DEF vars, loginVars
<1>2. Env'
  BY <1>1, RightParts DEF Env, GivenFine
<1>3. \A w \in Workers : JobFine(work'[w], sessions')
  BY <1>1, InHand
<1> QED
  BY <1>1, <1>2, <1>3, RightParts, RightPartsNext

LEMMA RightStep == Right /\ [Next]_vars => Right'
<1> SUFFICES ASSUME Right, [Next]_vars PROVE Right'
  OBVIOUS
<1>1. ASSUME NEW w \in Workers, LoginStep(w), UNCHANGED <<access, used>>
      PROVE  Right'
  <2>1. ASSUME NEW u \in Users, NEW x \in Rids, NEW right \in BOOLEAN, Arrive(w, u, x, right)
        PROVE  Right'
    BY <1>1, <2>1, ArriveRight
  <2>2. ASSUME ReadUser(w) PROVE Right'
    BY <1>1, <2>2, ReadUserRight
  <2>3. ASSUME Decide(w) PROVE Right'
    BY <1>1, <2>3, DecideRight
  <2>4. ASSUME Lock(w) PROVE Right'
    BY <1>1, <2>4, LockRight
  <2>5. ASSUME RecordFailure(w) PROVE Right'
    BY <1>1, <2>5, RecordFailureRight
  <2>6. ASSUME Lookup(w) PROVE Right'
    BY <1>1, <2>6, LookupRight
  <2>7. ASSUME Unlocked(w) PROVE Right'
    BY <1>1, <2>7, UnlockedRight
  <2>8. ASSUME Issue(w) PROVE Right'
    BY <1>1, <2>8, IssueRight
  <2>9. ASSUME Store(w) PROVE Right'
    BY <1>1, <2>9, StoreRight
  <2> QED
    BY <1>1, <2>1, <2>2, <2>3, <2>4, <2>5, <2>6, <2>7, <2>8, <2>9 DEF LoginStep
<1>2. ASSUME NEW w \in Workers, AuthStep(w)
      PROVE  Right'
  BY <1>2, PresentRight, FindRight, CheckRight, LoadUserRight, LoadRolesRight,
     LoadPermissionsRight, BumpRight, HandleRight DEF AuthStep
<1>3. ASSUME NEW w \in Workers, AdminStep(w)
      PROVE  Right'
  <2>1. \A a \in Updates : a \in Update
    BY SessionsAssumption
  <2> QED
    BY <1>3, <2>1, AskUpdateRight, LoadEditedRight, EditRight, DropRight, AddRight,
       AnswerRight DEF AdminStep
<1>4. ASSUME NEW w \in Workers, TurnAway(w)
      PROVE  Right'
  BY <1>4, SameRight DEF TurnAway
<1>5. CASE UNCHANGED vars
  BY <1>5, SameRight
<1> QED
  BY <1>1, <1>2, <1>3, <1>4, <1>5, UnlockRight, StopRight, ReapRight, TickRight DEF Next

\* Every variable has its type, whatever overlaps or fails: in particular an
\* update of a user never puts permissions where roles are, a request is about a
\* session that exists, and a stored response about one that was issued.
THEOREM TypeCorrect == Spec => []TypeOK
<1>1. Right => TypeOK
  BY DEF Right
<1> QED
  BY <1>1, InitRight, RightStep, PTL DEF Spec
-----------------------------------------------------------------------------
(* Limited *)

\* The steps of a login and of an unlock leave the other workers alone, and are
\* about no session in use.
LEMMA LoginShape ==
  ASSUME Right, NEW w \in Workers, LoginStep(w) \/ UnlockStep(w)
  PROVE  /\ \A v \in Workers \ {w} : work'[v] = work[v]
         /\ work'[w].pc \in LoginPcs \cup {"unlocking", "unlocked", "idle"}
<1>1. work \in [Workers -> Jobs]
  BY RightParts
<1>2. ASSUME NEW u \in Users, NEW x \in Rids, NEW right \in BOOLEAN, Arrive(w, u, x, right)
      PROVE  work'[w].pc = "stamped" /\ \A v \in Workers \ {w} : work'[v] = work[v]
  BY <1>1, <1>2 DEF Arrive
<1>3. ASSUME NEW u \in Users, AskUnlock(w, u)
      PROVE  work'[w].pc = "unlocking" /\ \A v \in Workers \ {w} : work'[v] = work[v]
  BY <1>1, <1>3 DEF AskUnlock
<1>4. ASSUME End(w)
      PROVE  work'[w].pc = "idle" /\ \A v \in Workers \ {w} : work'[v] = work[v]
  BY <1>1, <1>4 DEF End, Idle
<1>5. ASSUME NEW pc, To(w, pc), work[w] \in LoginJob \/ work[w] \in UnlockJob
      PROVE  work'[w].pc = pc /\ \A v \in Workers \ {w} : work'[v] = work[v]
  BY <1>1, <1>5 DEF To, LoginJob, UnlockJob
<1>6. ASSUME ReadUser(w)
      PROVE  work'[w].pc = "read" /\ \A v \in Workers \ {w} : work'[v] = work[v]
  <2>1. work[w] \in LoginJob
    BY <1>6, Doing DEF ReadUser, At, LoginPcs
  <2> QED
    BY <1>1, <1>6, <2>1 DEF ReadUser, LoginJob
<1>7. ASSUME Issue(w)
      PROVE  work'[w].pc = "issued" /\ \A v \in Workers \ {w} : work'[v] = work[v]
  <2>1. work[w] \in LoginJob
    BY <1>7, Doing DEF Issue, At, LoginPcs
  <2> QED
    BY <1>1, <1>7, <2>1 DEF Issue, LoginJob
<1>8. ASSUME Decide(w) \/ Lock(w) \/ Lookup(w) \/ Unlocked(w) \/ LiftLock(w)
      PROVE  \/ End(w)
             \/ \E pc \in LoginPcs \cup {"unlocked"} :
                  To(w, pc) /\ (work[w] \in LoginJob \/ work[w] \in UnlockJob)
  <2>1. work[w] \in LoginJob \/ work[w] \in UnlockJob
    BY <1>8, Doing DEF Decide, Lock, Lookup, Unlocked, LiftLock, At, LoginPcs
  <2>2. \/ End(w) \/ To(w, "locking") \/ To(w, "verified") \/ To(w, "failing")
        \/ To(w, "accepted") \/ To(w, "issuing") \/ To(w, "unlocked")
    BY <1>8 DEF Decide, Lock, Lookup, Unlocked, LiftLock
  <2> QED
    BY <2>1, <2>2 DEF LoginPcs
<1>9. ASSUME Decide(w) \/ Lock(w) \/ Lookup(w) \/ Unlocked(w) \/ LiftLock(w)
      PROVE  /\ \A v \in Workers \ {w} : work'[v] = work[v]
             /\ work'[w].pc \in LoginPcs \cup {"unlocked", "idle"}
  <2>1. CASE End(w)
    BY <2>1, <1>4
  <2>2. ASSUME NEW pc \in LoginPcs \cup {"unlocked"}, To(w, pc),
               work[w] \in LoginJob \/ work[w] \in UnlockJob
        PROVE  /\ \A v \in Workers \ {w} : work'[v] = work[v]
               /\ work'[w].pc \in LoginPcs \cup {"unlocked", "idle"}
    BY <2>2, <1>5
  <2> QED
    BY <1>8, <1>9, <2>1, <2>2
<1>10. ASSUME RecordFailure(w) \/ Store(w) \/ ForgetFailures(w)
       PROVE  End(w)
  BY <1>10 DEF RecordFailure, Store, ForgetFailures
<1>11. ASSUME LoginStep(w)
       PROVE  /\ \A v \in Workers \ {w} : work'[v] = work[v]
              /\ work'[w].pc \in LoginPcs \cup {"unlocking", "unlocked", "idle"}
  BY <1>2, <1>4, <1>6, <1>7, <1>9, <1>10, <1>11 DEF LoginStep, LoginPcs
<1>12. ASSUME UnlockStep(w)
       PROVE  /\ \A v \in Workers \ {w} : work'[v] = work[v]
              /\ work'[w].pc \in LoginPcs \cup {"unlocking", "unlocked", "idle"}
  BY <1>3, <1>4, <1>9, <1>10, <1>12 DEF UnlockStep
<1> QED
  BY <1>11, <1>12

LEMMA ClockKnown ==
  ASSUME Env
  PROVE  now \in Nat /\ Times \subseteq Nat /\ Idle8h \in Nat /\ MaxTime \in Nat
  BY LoginAssumption, SessionsAssumption DEF Env, Times

\* What was found stays so, while rows grow, time passes and requests are let in.
LEMMA UseKept ==
  ASSUME Right, Right', NEW j \in Jobs, JobFine(j, sessions), Grows(sessions, sessions'),
         used \subseteq used', now <= now', UseFine(j, sessions, used, now)
  PROVE  UseFine(j, sessions', used', now')
<1> SUFFICES ASSUME j \in AuthJob PROVE UseFine(j, sessions', used', now')
  BY DEF UseFine
<1> DEFINE s == j.session
<1>1. Env /\ Env'
  BY RightParts, RightPartsNext
<1>2. s \in DOMAIN sessions
  BY DEF JobFine
<1>3. /\ sessions'[s].created = sessions[s].created
      /\ sessions'[s].expires = sessions[s].expires
      /\ sessions[s].revoked => sessions'[s].revoked
  BY <1>2 DEF Grows
<1>4. now \in Nat /\ now' \in Nat /\ sessions[s].expires \in Nat
  BY <1>1, <1>2, RowOf, ClockKnown DEF Env, Times
<1>5. j.seen.expires \in Nat /\ j.seen.last \in Nat /\ j.stamp \in Nat
  BY <1>1, AuthFields, ClockKnown DEF Session
<1>6. j.ended => sessions'[s].revoked \/ now' > sessions'[s].expires
  <2>1. j.ended => sessions[s].revoked \/ now > sessions[s].expires
    BY DEF UseFine
  <2>2. now > sessions[s].expires => now' > sessions'[s].expires
    BY <1>3, <1>4
  <2> QED
    BY <1>3, <2>1, <2>2
<1>7. ASSUME j.pc = "found"
      PROVE  /\ j.ended => j.seen.revoked \/ now' > j.seen.expires
             /\ Anchored(s, j.seen.last, sessions', used') /\ j.seen.last <= now'
  <2>1. /\ j.ended => j.seen.revoked \/ now > j.seen.expires
        /\ Anchored(s, j.seen.last, sessions, used) /\ j.seen.last <= now
    BY <1>7 DEF UseFine
  <2>2. now > j.seen.expires => now' > j.seen.expires
    BY <1>4, <1>5
  <2>3. j.seen.last <= now'
    BY <1>4, <1>5, <2>1
  <2> QED
    BY <1>3, <2>1, <2>2, <2>3 DEF Anchored
<1>8. ASSUME j.pc \in {"valid", "known", "roles", "authorised"}
      PROVE  Reached(s, j.stamp, sessions', used') /\ j.stamp <= now'
  <2>1. Reached(s, j.stamp, sessions, used) /\ j.stamp <= now
    BY <1>8 DEF UseFine
  <2>2. j.stamp <= now'
    BY <1>4, <1>5, <2>1
  <2> QED
    BY <1>3, <2>1, <2>2 DEF Reached
<1>9. j.pc \in {"valid", "known", "roles", "authorised", "in"} => ~ j.ended
  BY DEF UseFine
<1> QED
  BY <1>6, <1>7, <1>8, <1>9 DEF UseFine

LEMMA RowKept ==
  ASSUME Right, Right', NEW s \in DOMAIN sessions, Grows(sessions, sessions'),
         used \subseteq used', now <= now', sessions'[s].last = sessions[s].last, RowFine(s)
  PROVE  RowFine(s)'
<1>1. Env /\ Env'
  BY RightParts, RightPartsNext
<1>2. now \in Nat /\ now' \in Nat /\ sessions[s].last \in Nat
  BY <1>1, RowOf, ClockKnown DEF Env, Times
<1>3. Anchored(s, sessions[s].last, sessions, used) /\ sessions[s].last <= now
  BY DEF RowFine
<1>4. sessions'[s].last <= now'
  BY <1>2, <1>3
<1>5. sessions'[s].created = sessions[s].created
  BY DEF Grows
<1>6. Anchored(s, sessions'[s].last, sessions', used')
  BY <1>3, <1>5 DEF Anchored
<1> QED
  BY <1>4, <1>6 DEF RowFine

LEMMA CarriedKept ==
  ASSUME Env, Carried, Grows(sessions, sessions'), used' = used
  PROVE  Carried'
<1> SUFFICES ASSUME NEW s \in DOMAIN sessions', NEW t \in Times, <<s, t>> \in used
             PROVE  \/ t <= sessions'[s].created + Idle8h
                    \/ \E b \in Times : <<s, b>> \in used /\ b < t /\ t <= b + Idle8h
  BY DEF Carried, Times
<1>1. s \in DOMAIN sessions
  BY DEF Env
<1>2. sessions'[s].created = sessions[s].created
  BY <1>1 DEF Grows
<1> QED
  BY <1>1, <1>2 DEF Carried

\* Nobody is let in, and no stamp is written.
LEMMA QuietLimits ==
  ASSUME Right, Right', Limited, NEW w \in Workers,
         \A v \in Workers \ {w} : work'[v] = work[v],
         UseFine(work'[w], sessions', used', now'),
         Grows(sessions, sessions'), DOMAIN sessions' = DOMAIN sessions,
         \A s \in DOMAIN sessions : sessions'[s].last = sessions[s].last,
         used' = used, now <= now'
  PROVE  Limited'
<1>1. \A s \in DOMAIN sessions : RowFine(s)'
  BY RowKept DEF Limited
<1>2. \A v \in Workers : UseFine(work'[v], sessions', used', now')
  <2> SUFFICES ASSUME NEW v \in Workers \ {w}
               PROVE  UseFine(work'[v], sessions', used', now')
    OBVIOUS
  <2>1. UseFine(work[v], sessions, used, now) /\ work[v] \in Jobs /\ JobFine(work[v], sessions)
    BY InHand DEF Limited
  <2> QED
    BY <2>1, UseKept
<1>3. Carried'
  BY CarriedKept, RightParts DEF Limited
<1> QED
  BY <1>1, <1>2, <1>3 DEF Limited

\* Requests that are not in use of a session say nothing of one.
LEMMA NoUse ==
  ASSUME NEW j \in Jobs, j.pc \notin AuthPcs, NEW rows, NEW uses, NEW clock
  PROVE  UseFine(j, rows, uses, clock)
  BY KindOf DEF UseFine

LEMMA HandNext ==
  ASSUME Right', NEW w \in Workers
  PROVE  work'[w] \in Jobs /\ JobFine(work'[w], sessions')
  BY RightPartsNext

LEMMA SameClock ==
  ASSUME Right, now' = now
  PROVE  now <= now'
  BY RightParts, ClockKnown

LEMMA LoginLimits ==
  ASSUME Right, Right', Limited, NEW w \in Workers,
         LoginStep(w) \/ UnlockStep(w), UNCHANGED <<access, used>>
  PROVE  Limited'
<1>1. /\ \A v \in Workers \ {w} : work'[v] = work[v]
      /\ work'[w].pc \notin AuthPcs
  BY LoginShape DEF LoginPcs, AuthPcs
<1>2. UseFine(work'[w], sessions', used', now')
  BY <1>1, NoUse, HandNext
<1>3. used' = used
  OBVIOUS
<1>4. ASSUME sessions' = sessions, now' = now
      PROVE  Limited'
  BY <1>1, <1>2, <1>3, <1>4, QuietLimits, SameRows, SameClock
<1>5. ASSUME Issue(w)
      PROVE  Limited'
  <2>0. PICK n : n = Len(sessions) + 1
    OBVIOUS
  <2>1. /\ DOMAIN sessions' = DOMAIN sessions \cup {n}
        /\ \A s \in DOMAIN sessions : sessions'[s] = sessions[s]
        /\ sessions'[n] = NewRow(work[w], now) /\ Grows(sessions, sessions')
    BY <1>5, <2>0, Issued
  <2>2. now' = now /\ now <= now'
    BY <1>5, SameClock DEF Issue
  <2>3. \A s \in DOMAIN sessions : RowFine(s)'
    BY <1>3, <2>1, <2>2, RowKept DEF Limited
  <2>4. RowFine(n)'
    <3>1. sessions'[n].created = now /\ sessions'[n].last = now
      BY <2>1 DEF NewRow
    <3> QED
      BY <2>2, <3>1 DEF RowFine, Anchored
  <2>5. \A v \in Workers \ {w} : UseFine(work'[v], sessions', used', now')
    <3> SUFFICES ASSUME NEW v \in Workers \ {w}
                 PROVE  UseFine(work'[v], sessions', used', now')
      OBVIOUS
    <3>1. UseFine(work[v], sessions, used, now) /\ work[v] \in Jobs
          /\ JobFine(work[v], sessions)
      BY InHand DEF Limited
    <3> QED
      BY <1>1, <1>3, <2>1, <2>2, <3>1, UseKept
  <2>6. Carried'
    BY <1>3, <2>1, CarriedKept, RightParts DEF Limited
  <2> QED
    BY <1>2, <2>1, <2>3, <2>4, <2>5, <2>6 DEF Limited
<1>6. ASSUME ~ Issue(w)
      PROVE  sessions' = sessions /\ now' = now
  BY <1>6 DEF LoginStep, UnlockStep, Arrive, ReadUser, Decide, Lock, RecordFailure, Lookup,
     Unlocked, Store, AskUnlock, LiftLock, ForgetFailures, loginVars
<1> QED
  BY <1>4, <1>5, <1>6

\* A request with a token goes on, by reading.
LEMMA ReadLimits ==
  ASSUME Right, Right', Limited, NEW w \in Workers, NEW j, work' = [work EXCEPT ![w] = j],
         UseFine(j, sessions, used, now), UNCHANGED <<now, loginVars, access, used>>
  PROVE  Limited'
<1>1. work'[w] = j /\ \A v \in Workers \ {w} : work'[v] = work[v]
  BY RightParts
<1>2. sessions' = sessions /\ used' = used /\ now' = now
  BY DEF loginVars
<1> QED
  BY <1>1, <1>2, QuietLimits, SameRows, SameClock

LEMMA EndLimits ==
  ASSUME Right, Right', Limited, NEW w \in Workers, End(w),
         UNCHANGED <<now, loginVars, access, used>>
  PROVE  Limited'
<1>1. UseFine(Idle, sessions, used, now)
  BY IdleFine, NoUse DEF Idle, AuthPcs
<1>2. work' = [work EXCEPT ![w] = Idle]
  BY DEF End
<1> QED
  BY <1>1, <1>2, ReadLimits

LEMMA PresentLimits ==
  ASSUME Right, Right', Limited, NEW w \in Workers, NEW s \in DOMAIN sessions,
         NEW logout \in BOOLEAN, Present(w, s, logout)
  PROVE  Limited'
<1> DEFINE row == sessions[s]
           u == row.user
           ended == row.revoked \/ now > row.expires
           j == [pc |-> "presented", session |-> s, logout |-> logout, seen |-> row,
                 stamp |-> 0, roles |-> {}, perms |-> {}, ended |-> ended,
                 mayRoles |-> given[u], mayPerms |-> GivenPerms(given, given[u]),
                 mayIn |-> u \in mayActive]
<1>1. work' = [work EXCEPT ![w] = j]
  BY DEF Present
<1>2. UNCHANGED <<now, loginVars, access, used>>
  BY DEF Present
<1>3. j.pc = "presented" /\ j.session = s /\ j.ended = ended
  OBVIOUS
<1> HIDE DEF j
<1>4. UseFine(j, sessions, used, now)
  BY <1>3 DEF UseFine
<1> QED
  BY <1>1, <1>2, <1>4, ReadLimits

LEMMA FindLimits ==
  ASSUME Right, Right', Limited, NEW w \in Workers, Find(w)
  PROVE  Limited'
<1> DEFINE s == work[w].session
           row == sessions[s]
           j == [work[w] EXCEPT !.pc = "found", !.seen = row]
<1>1. work[w] \in AuthJob /\ s \in DOMAIN sessions
  BY Asks DEF Find, At, AuthPcs
<1>2. /\ work' = [work EXCEPT ![w] = j] /\ UNCHANGED <<now, loginVars, access, used>>
  BY DEF Find
<1>3. UseFine(work[w], sessions, used, now) /\ RowFine(s)
  BY <1>1 DEF Limited
<1>4. /\ j.pc = "found" /\ j.session = s /\ j.ended = work[w].ended /\ j.seen = row
  BY <1>1 DEF AuthJob
<1> HIDE DEF j
<1>5. work[w].ended => row.revoked \/ now > row.expires
  BY <1>1, <1>3 DEF UseFine
<1>6. Anchored(s, row.last, sessions, used) /\ row.last <= now
  BY <1>3 DEF RowFine
<1>7. UseFine(j, sessions, used, now)
  BY <1>4, <1>5, <1>6 DEF UseFine
<1> QED
  BY <1>2, <1>7, ReadLimits

LEMMA CheckLimits ==
  ASSUME Right, Right', Limited, NEW w \in Workers, Check(w)
  PROVE  Limited'
<1> DEFINE s == work[w].session
           row == work[w].seen
           j == [work[w] EXCEPT !.pc = "valid", !.stamp = now]
<1>1. work[w] \in AuthJob /\ s \in DOMAIN sessions /\ Env /\ row \in Session
  BY Asks, AuthFields DEF Check, At, AuthPcs
<1>2. UNCHANGED <<now, loginVars, access, used>>
  BY DEF Check
<1>3. CASE row.revoked \/ now > row.expires \/ IdleExpired(row, now)
  BY <1>2, <1>3, EndLimits DEF Check
<1>4. CASE ~ (row.revoked \/ now > row.expires \/ IdleExpired(row, now))
  <2>1. work' = [work EXCEPT ![w] = j]
    BY <1>4 DEF Check
  <2>2. /\ work[w].ended => sessions[s].revoked \/ now > sessions[s].expires
        /\ work[w].ended => row.revoked \/ now > row.expires
        /\ Anchored(s, row.last, sessions, used) /\ row.last <= now
    BY <1>1 DEF Limited, UseFine, Check, At
  <2>3. /\ now \in Nat /\ Idle8h \in Nat /\ row.last \in Times /\ Times \subseteq Nat
    BY <1>1, ClockKnown DEF Session
  <2>4. now <= row.last + Idle8h
    <3>1. ~ IdleExpired(row, now)
      BY <1>4
    <3>2. ~ now > row.last + Idle8h
      BY <3>1 DEF IdleExpired
    <3>3. row.last \in Nat
      BY <2>3
    <3> HIDE DEF row
    <3> QED
      BY <2>3, <3>2, <3>3
  <2>5. Reached(s, now, sessions, used)
    <3>1. CASE row.last = sessions[s].created
      BY <2>4, <3>1 DEF Reached
    <3>2. CASE <<s, row.last>> \in used
      BY <2>2, <2>3, <2>4, <3>2 DEF Reached
    <3> QED
      BY <2>2, <3>1, <3>2 DEF Anchored
  <2>6. /\ j.pc = "valid" /\ j.session = s /\ j.ended = work[w].ended /\ j.stamp = now
    BY <1>1 DEF AuthJob
  <2>7. ~ work[w].ended /\ now <= now
    BY <1>4, <2>2, <2>3
  <2> HIDE DEF j
  <2>8. UseFine(j, sessions, used, now)
    BY <2>5, <2>6, <2>7 DEF UseFine
  <2> QED
    BY <1>2, <2>1, <2>8, ReadLimits
<1> QED
  BY <1>3, <1>4

LEMMA LoadLimits ==
  ASSUME Right, Right', Limited, NEW w \in Workers,
         LoadUser(w) \/ LoadRoles(w) \/ LoadPermissions(w)
  PROVE  Limited'
<1>1. work[w] \in AuthJob /\ work[w].pc \in {"valid", "known", "roles"}
  BY Asks DEF LoadUser, LoadRoles, LoadPermissions, At, AuthPcs
<1>2. UNCHANGED <<now, loginVars, access, used>>
  BY DEF LoadUser, LoadRoles, LoadPermissions
<1>3. CASE End(w)
  BY <1>2, <1>3, EndLimits
<1>4. CASE ~ End(w)
  <2>1. \/ work' = [work EXCEPT ![w].pc = "known"]
        \/ work' = [work EXCEPT ![w].pc = "roles", ![w].roles = grants[work[w].seen.user]]
        \/ work' = [work EXCEPT ![w].pc = "authorised",
                                ![w].perms = GivenPerms(grants, work[w].roles)]
    BY <1>4 DEF LoadUser, LoadRoles, LoadPermissions, To
  <2>2. PICK j : /\ work' = [work EXCEPT ![w] = j]
                 /\ j.pc \in {"known", "roles", "authorised"} /\ j.session = work[w].session
                 /\ j.ended = work[w].ended /\ j.stamp = work[w].stamp
    <3> DEFINE rs == grants[work[w].seen.user]
               ps == GivenPerms(grants, work[w].roles)
               j1 == [work[w] EXCEPT !.pc = "known"]
               j2 == [work[w] EXCEPT !.pc = "roles", !.roles = rs]
               j3 == [work[w] EXCEPT !.pc = "authorised", !.perms = ps]
    <3>1. work' = [work EXCEPT ![w] = j1] \/ work' = [work EXCEPT ![w] = j2]
          \/ work' = [work EXCEPT ![w] = j3]
      BY <2>1
    <3> HIDE DEF rs, ps
    <3>2. /\ j1.pc = "known" /\ j1.session = work[w].session
          /\ j1.ended = work[w].ended /\ j1.stamp = work[w].stamp
      BY <1>1 DEF AuthJob
    <3>3. /\ j2.pc = "roles" /\ j2.session = work[w].session
          /\ j2.ended = work[w].ended /\ j2.stamp = work[w].stamp
      BY <1>1 DEF AuthJob
    <3>4. /\ j3.pc = "authorised" /\ j3.session = work[w].session
          /\ j3.ended = work[w].ended /\ j3.stamp = work[w].stamp
      BY <1>1 DEF AuthJob
    <3> HIDE DEF j1, j2, j3
    <3> QED
      BY <3>1, <3>2, <3>3, <3>4
  <2>3. UseFine(work[w], sessions, used, now)
    BY DEF Limited
  <2>4. UseFine(j, sessions, used, now)
    BY <1>1, <2>2, <2>3 DEF UseFine
  <2> QED
    BY <1>2, <2>2, <2>4, ReadLimits
<1> QED
  BY <1>3, <1>4

LEMMA BumpLimits ==
  ASSUME Right, Right', Limited, NEW w \in Workers, Bump(w)
  PROVE  Limited'
<1>0. PICK s, stamp : s = work[w].session /\ stamp = work[w].stamp
  OBVIOUS
<1>1. /\ work[w] \in AuthJob /\ s \in DOMAIN sessions /\ Env /\ stamp \in Times
      /\ DOMAIN sessions' = DOMAIN sessions /\ Grows(sessions, sessions')
      /\ sessions'[s] = [sessions[s] EXCEPT !.last = stamp]
      /\ \A r \in DOMAIN sessions \ {s} : sessions'[r] = sessions[r]
  BY <1>0, BumpRows, RightParts
<1>2. /\ work' = [work EXCEPT ![w].pc = "in"] /\ used' = used \cup {<<s, stamp>>}
      /\ now' = now
  BY <1>0 DEF Bump, To
<1>3. Reached(s, stamp, sessions, used) /\ stamp <= now /\ ~ work[w].ended
  BY <1>0, <1>1 DEF Limited, UseFine, Bump, At
<1>4. /\ now <= now' /\ now \in Nat /\ Times \subseteq Nat /\ Idle8h \in Nat
  BY <1>1, <1>2, SameClock, ClockKnown
<1>5. sessions'[s].last = stamp /\ sessions'[s].created = sessions[s].created
  BY <1>1, RowOf DEF Session
<1>6. RowFine(s)'
  BY <1>2, <1>3, <1>5 DEF RowFine, Anchored
<1>7. \A r \in DOMAIN sessions \ {s} : RowFine(r)'
  BY <1>1, <1>2, <1>4, RowKept DEF Limited
<1>8. UseFine(work'[w], sessions', used', now')
  <2>1. work'[w] = [work[w] EXCEPT !.pc = "in"]
    BY <1>2, RightParts
  <2>2. work'[w].pc = "in" /\ work'[w].ended = work[w].ended
    BY <1>1, <2>1 DEF AuthJob
  <2> QED
    BY <1>3, <2>2 DEF UseFine
<1>9. ASSUME NEW v \in Workers \ {w}
      PROVE  UseFine(work'[v], sessions', used', now')
  <2>1. work'[v] = work[v]
    BY <1>2, RightParts
  <2>2. UseFine(work[v], sessions, used, now) /\ work[v] \in Jobs /\ JobFine(work[v], sessions)
    BY InHand DEF Limited
  <2> QED
    BY <1>1, <1>2, <1>4, <2>1, <2>2, UseKept
<1>10. Carried'
  <2> SUFFICES ASSUME NEW r \in DOMAIN sessions, NEW t \in Times, <<r, t>> \in used'
               PROVE  \/ t <= sessions'[r].created + Idle8h
                      \/ \E b \in Times : <<r, b>> \in used' /\ b < t /\ t <= b + Idle8h
    BY <1>1 DEF Carried, Times
  <2>1. sessions'[r].created = sessions[r].created
    BY <1>1 DEF Grows
  <2>2. CASE <<r, t>> \in used
    BY <1>2, <2>1, <2>2 DEF Limited, Carried
  <2>3. CASE <<r, t>> \notin used
    <3>1. r = s /\ t = stamp
      BY <1>2, <2>3
    <3>2. CASE stamp <= sessions[s].created + Idle8h
      BY <2>1, <3>1, <3>2
    <3>3. ASSUME NEW b \in Times, <<s, b>> \in used, b <= stamp, stamp <= b + Idle8h
          PROVE  <<r, b>> \in used' /\ b < t /\ t <= b + Idle8h
      <4>1. b # stamp
        BY <2>3, <3>1, <3>3
      <4> QED
        BY <1>1, <1>2, <1>4, <3>1, <3>3, <4>1
    <3> QED
      BY <1>3, <3>2, <3>3 DEF Reached
  <2> QED
    BY <2>2, <2>3
<1> QED
  BY <1>1, <1>6, <1>7, <1>8, <1>9, <1>10 DEF Limited

LEMMA HandleLimits ==
  ASSUME Right, Right', Limited, NEW w \in Workers, Handle(w)
  PROVE  Limited'
<1>1. /\ DOMAIN sessions' = DOMAIN sessions /\ Grows(sessions, sessions')
      /\ \A r \in DOMAIN sessions : sessions'[r].last = sessions[r].last
  BY HandleRows
<1>2. End(w) /\ used' = used /\ now' = now
  BY DEF Handle
<1>3. work'[w] = Idle /\ \A v \in Workers \ {w} : work'[v] = work[v]
  BY <1>2, RightParts DEF End
<1>4. UseFine(Idle, sessions', used', now')
  BY IdleFine, NoUse DEF Idle, AuthPcs
<1> QED
  BY <1>1, <1>2, <1>3, <1>4, QuietLimits, SameClock

LEMMA ReapLimits ==
  ASSUME Right, Right', Limited, Reap, NEW w \in Workers
  PROVE  Limited'
<1>1. /\ DOMAIN sessions' = DOMAIN sessions /\ Grows(sessions, sessions')
      /\ \A r \in DOMAIN sessions : sessions'[r].last = sessions[r].last
  BY ReapRows
<1>2. work' = work /\ used' = used /\ now' = now
  BY DEF Reap
<1>3. UseFine(work'[w], sessions', used', now')
  <2>1. UseFine(work[w], sessions, used, now) /\ work[w] \in Jobs /\ JobFine(work[w], sessions)
    BY InHand DEF Limited
  <2> QED
    BY <1>1, <1>2, <2>1, UseKept, SameClock
<1> QED
  BY <1>1, <1>2, <1>3, QuietLimits, SameClock

LEMMA AskUpdateLimits ==
  ASSUME Right, Right', Limited, NEW w \in Workers, NEW a \in Update, AskUpdate(w, a)
  PROVE  Limited'
<1>1. /\ sessions' = sessions /\ used' = used /\ now' = now
  BY DEF AskUpdate, loginVars
<1>2. /\ \A u \in Users : given'[u] \subseteq Roles
      /\ \A r \in Roles : given'[r] \subseteq Perms
  BY RightPartsNext DEF Env, GivenFine
<1>3. ASSUME NEW v \in Workers
      PROVE  UseFine(work'[v], sessions', used', now')
  <2>1. /\ UseFine(work[v], sessions, used, now) /\ work[v] \in Jobs /\ work'[v] \in Jobs
    BY InHand, HandNext DEF Limited
  <2>2. CASE v = w
    <3>1. work'[v] = NewEdit(w, a)
      BY <2>2, AskedWork
    <3>2. work'[v].pc \notin AuthPcs
      BY <3>1 DEF NewEdit, AuthPcs
    <3> QED
      BY <2>1, <3>2, NoUse
  <2>3. CASE v # w /\ Updating(v, a.of)
    <3>1. work'[v] \in AdminJob
      BY <2>3, AskedWork
    <3>2. work'[v].pc \notin AuthPcs
      BY <3>1, AdminFields DEF AdminPcs, AuthPcs
    <3> QED
      BY <2>1, <3>2, NoUse
  <2>4. CASE v # w /\ ~ Updating(v, a.of) /\ work[v] \in AuthJob
    <3>1. work[v].seen.user \in Users
      BY <2>4, Asks, AuthFields
    <3>2. work'[v] = Extended(work[v], given', mayActive')
      BY <2>4, AskedWork
    <3>3. /\ work'[v].session = work[v].session /\ work'[v].seen = work[v].seen
          /\ work'[v].pc = work[v].pc /\ work'[v].stamp = work[v].stamp
          /\ work'[v].ended = work[v].ended
      BY <1>2, <2>4, <3>1, <3>2, ExtendedFields
    <3> QED
      BY <1>1, <2>1, <2>4, <3>3 DEF UseFine
  <2>5. CASE v # w /\ ~ Updating(v, a.of) /\ work[v] \notin AuthJob
    BY <1>1, <2>1, <2>5, AskedWork
  <2> QED
    BY <2>2, <2>3, <2>4, <2>5
<1> QED
  BY <1>1, <1>3 DEF Limited, RowFine, Carried, Times

LEMMA AdminShape ==
  ASSUME Right, NEW w \in Workers,
         LoadEdited(w) \/ Edit(w) \/ Drop(w) \/ Add(w) \/ Answer(w)
  PROVE  /\ \A v \in Workers \ {w} : work'[v] = work[v]
         /\ work'[w].pc \in AdminPcs \cup {"idle"}
         /\ sessions' = sessions /\ used' = used /\ now' = now
<1>1. work \in [Workers -> Jobs] /\ work[w] \in AdminJob
  BY RightParts, Doing DEF LoadEdited, Edit, Drop, Add, Answer, At, AdminPcs
<1>2. CASE LoadEdited(w)
  BY <1>1, <1>2 DEF LoadEdited, AdminJob, AdminPcs, loginVars
<1>3. CASE Edit(w)
  BY <1>1, <1>3 DEF Edit, To, AdminJob, AdminPcs
<1>4. CASE Drop(w)
  BY <1>1, <1>4 DEF Drop, To, AdminJob, AdminPcs, loginVars
<1>5. CASE Add(w)
  BY <1>1, <1>5 DEF Add, AdminJob, AdminPcs, loginVars
<1>6. CASE Answer(w)
  BY <1>1, <1>6 DEF Answer, End, Idle, loginVars
<1> QED
  BY <1>2, <1>3, <1>4, <1>5, <1>6

LEMMA AdminLimits ==
  ASSUME Right, Right', Limited, NEW w \in Workers,
         LoadEdited(w) \/ Edit(w) \/ Drop(w) \/ Add(w) \/ Answer(w)
  PROVE  Limited'
<1>1. /\ \A v \in Workers \ {w} : work'[v] = work[v]
      /\ work'[w].pc \in AdminPcs \cup {"idle"}
      /\ sessions' = sessions /\ used' = used /\ now' = now
  BY AdminShape
<1>2. UseFine(work'[w], sessions', used', now')
  BY <1>1, NoUse, HandNext DEF AdminPcs, AuthPcs
<1> QED
  BY <1>1, <1>2, QuietLimits, SameRows, SameClock

LEMMA StopLimits ==
  ASSUME Right, Right', Limited, NEW w \in Workers, Stop(w)
  PROVE  Limited'
<1>1. End(w) /\ sessions' = sessions /\ used' = used /\ now' = now
  BY DEF Stop
<1>2. work'[w] = Idle /\ \A v \in Workers \ {w} : work'[v] = work[v]
  BY <1>1, RightParts DEF End
<1>3. UseFine(Idle, sessions', used', now')
  BY IdleFine, NoUse DEF Idle, AuthPcs
<1> QED
  BY <1>1, <1>2, <1>3, QuietLimits, SameRows, SameClock

LEMMA TickLimits ==
  ASSUME Right, Right', Limited, Tick, UNCHANGED <<access, used>>, NEW w \in Workers
  PROVE  Limited'
<1>1. work' = work /\ sessions' = sessions /\ now <= now'
  BY TickRight
<1>2. UseFine(work'[w], sessions', used', now')
  <2>1. UseFine(work[w], sessions, used, now) /\ work[w] \in Jobs /\ JobFine(work[w], sessions)
    BY InHand DEF Limited
  <2> QED
    BY <1>1, <2>1, UseKept, SameRows
<1> QED
  BY <1>1, <1>2, QuietLimits, SameRows

LEMMA SameLimits ==
  ASSUME Limited, UNCHANGED vars
  PROVE  Limited'
<1>1. now' = now /\ sessions' = sessions /\ work' = work /\ used' = used
  BY DEF vars, loginVars
<1> QED
  BY <1>1 DEF Limited, RowFine, Carried, Times

LEMMA LimitedStep == Right /\ Limited /\ [Next]_vars => (Right /\ Limited)'
<1> SUFFICES ASSUME Right, Limited, [Next]_vars PROVE Right' /\ Limited'
  OBVIOUS
<1>1. Right'
  BY RightStep
<1>2. PICK w0 : w0 \in Workers
  BY LoginAssumption
<1>3. ASSUME NEW w \in Workers, AuthStep(w)
      PROVE  Limited'
  BY <1>1, <1>3, PresentLimits, FindLimits, CheckLimits, LoadLimits, BumpLimits, HandleLimits
     DEF AuthStep
<1>4. ASSUME NEW w \in Workers, AdminStep(w)
      PROVE  Limited'
  <2>1. \A a \in Updates : a \in Update
    BY SessionsAssumption
  <2> QED
    BY <1>1, <1>4, <2>1, AskUpdateLimits, AdminLimits DEF AdminStep
<1>5. ASSUME NEW w \in Workers, TurnAway(w)
      PROVE  Limited'
  BY <1>5, SameLimits DEF TurnAway
<1>6. CASE Reap
  BY <1>1, <1>2, <1>6, ReapLimits
<1>7. CASE Tick /\ UNCHANGED <<access, used>>
  BY <1>1, <1>2, <1>7, TickLimits
<1>8. CASE UNCHANGED vars
  BY <1>1, <1>8, SameLimits
<1>9. ASSUME NEW w \in Workers, LoginStep(w) \/ UnlockStep(w), UNCHANGED <<access, used>>
      PROVE  Limited'
  BY <1>1, <1>9, LoginLimits
<1>10. ASSUME NEW w \in Workers, Stop(w)
       PROVE  Limited'
  BY <1>1, <1>10, StopLimits
<1> QED
  BY <1>1, <1>3, <1>4, <1>5, <1>6, <1>7, <1>8, <1>9, <1>10 DEF Next

LEMMA InitLimited == Init => Limited
<1> SUFFICES ASSUME Init PROVE Limited
  OBVIOUS
<1>1. sessions = <<>> /\ used = {} /\ work = [w \in Workers |-> Idle]
  BY DEF Init, LoginInit
<1>2. \A w \in Workers : UseFine(work[w], sessions, used, now)
  BY <1>1, IdleFine, NoUse DEF Idle, AuthPcs
<1> QED
  BY <1>1, <1>2 DEF Limited, Carried

\* A session serves no request that comes in after its end or revocation, and is
\* carried on only from use to use, each within the idle timeout of the one
\* before: although activity is written with the stamp of the check, so that the
\* last use on record may go back (session.rs, bump_activity).
THEOREM UsesLimited == Spec => []UseWithinLimits
<1>1. Right /\ Limited => UseWithinLimits
  <2> SUFFICES ASSUME Right, Limited PROVE UseWithinLimits
    OBVIOUS
  <2>1. ASSUME NEW w \in Workers, At(w, "in")
        PROVE  ~ work[w].ended
    <3>1. work[w] \in AuthJob
      BY <2>1, Doing DEF At, AuthPcs
    <3> QED
      BY <2>1, <3>1 DEF Limited, UseFine, At
  <2> QED
    BY <2>1 DEF UseWithinLimits, Limited, Carried
<1> QED
  BY <1>1, InitRight, InitLimited, LimitedStep, PTL DEF Spec
-----------------------------------------------------------------------------
(* Covered *)

LEMMA NoAccess ==
  ASSUME NEW j \in Jobs, NEW g, NEW active, NEW rows, NEW people
  PROVE  /\ j.pc \notin AuthPcs => LetIn(j, g, active)
         /\ j.pc \notin AdminPcs => Gives(j, g, active, rows, people)
         /\ j \in AuthJob => Gives(j, g, active, rows, people)
         /\ j \in AdminJob => LetIn(j, g, active)
<1>1. j \in AuthJob => j.pc \in AuthPcs /\ j.pc \notin AdminPcs
  BY AuthFields DEF AuthPcs, AdminPcs
<1>2. j \in AdminJob => j.pc \in AdminPcs /\ j.pc \notin AuthPcs
  BY AdminFields DEF AuthPcs, AdminPcs
<1> QED
  BY <1>1, <1>2 DEF LetIn, Gives

LEMMA AloneKept ==
  ASSUME Alone, NEW w \in Workers, \A v \in Workers \ {w} : work'[v] = work[v],
         \/ work'[w] \notin AdminJob
         \/ /\ work[w] \in AdminJob
            /\ work'[w].update = work[w].update /\ work'[w].alone = work[w].alone
  PROVE  Alone'
<1> SUFFICES ASSUME NEW v \in Workers, NEW o \in Workers, v # o, work'[v] \in AdminJob,
                    work'[v].alone, work'[o] \in AdminJob
             PROVE  work'[o].update.of # work'[v].update.of
  BY DEF Alone, Updating
<1>1. /\ work[v] \in AdminJob /\ work[v].alone = work'[v].alone
      /\ work[v].update = work'[v].update
  OBVIOUS
<1>2. /\ work[o] \in AdminJob /\ work[o].update = work'[o].update
  OBVIOUS
<1> QED
  BY <1>1, <1>2 DEF Alone, Updating

\* Nothing is given or taken, and nobody's row is written.
LEMMA QuietCovered ==
  ASSUME Right, Right', Covered, NEW w \in Workers,
         \A v \in Workers \ {w} : work'[v] = work[v],
         \A u \in Users : users'[u].active = users[u].active, UNCHANGED access,
         LetIn(work'[w], given, mayActive),
         Gives(work'[w], given, mayActive, grants, users'),
         \/ work'[w] \notin AdminJob
         \/ /\ work[w] \in AdminJob
            /\ work'[w].update = work[w].update /\ work'[w].alone = work[w].alone
  PROVE  Covered'
<1>1. grants' = grants /\ given' = given /\ mayActive' = mayActive
  BY DEF access
<1>2. ASSUME NEW v \in Workers \ {w}
      PROVE  /\ LetIn(work'[v], given', mayActive')
             /\ Gives(work'[v], given', mayActive', grants', users')
  <2>1. LetIn(work[v], given, mayActive) /\ Gives(work[v], given, mayActive, grants, users)
    BY DEF Covered
  <2>2. ASSUME work[v] \in AdminJob, work[v].update.active = "no"
        PROVE  work[v].update.of \in Users
    BY <2>2, AdminFields, UpdateFields
  <2>3. Gives(work[v], given, mayActive, grants, users')
    BY <2>1, <2>2 DEF Gives
  <2> QED
    BY <1>1, <2>1, <2>3
<1>3. /\ LetIn(work'[w], given', mayActive')
      /\ Gives(work'[w], given', mayActive', grants', users')
  BY <1>1
<1>4. /\ \A x \in Subjects : grants'[x] \subseteq given'[x]
      /\ \A u \in Users : users'[u].active => u \in mayActive'
  BY <1>1 DEF Covered
<1>5. Alone'
  BY AloneKept DEF Covered
<1> QED
  BY <1>2, <1>3, <1>4, <1>5 DEF Covered

LEMMA EndCovered ==
  ASSUME Right, Right', Covered, NEW w \in Workers, End(w),
         UNCHANGED access, users' = users
  PROVE  Covered'
<1>1. work'[w] = Idle /\ \A v \in Workers \ {w} : work'[v] = work[v]
  BY RightParts DEF End
<1>2. Idle \in Jobs /\ Idle.pc \notin AuthPcs /\ Idle.pc \notin AdminPcs
  BY IdleFine DEF Idle, AuthPcs, AdminPcs
<1>3. Idle \notin AdminJob
  BY <1>2, KindOf
<1> QED
  BY <1>1, <1>2, <1>3, NoAccess, QuietCovered

LEMMA LoginCovered ==
  ASSUME Right, Right', Covered, NEW w \in Workers,
         LoginStep(w) \/ UnlockStep(w), UNCHANGED <<access, used>>
  PROVE  Covered'
<1>1. /\ \A v \in Workers \ {w} : work'[v] = work[v]
      /\ work'[w].pc \notin AuthPcs /\ work'[w].pc \notin AdminPcs
      /\ work'[w] \in Jobs
  BY LoginShape, HandNext DEF LoginPcs, AuthPcs, AdminPcs
<1>2. \/ users' = users
      \/ \E until : users' = [users EXCEPT ![work[w].user].until = until]
  BY DEF LoginStep, UnlockStep, Arrive, ReadUser, Decide, Lock, RecordFailure, Lookup,
     Unlocked, Issue, Store, AskUnlock, LiftLock, ForgetFailures, loginVars
<1>3. \A u \in Users : users'[u].active = users[u].active
  <2>1. users \in [Users -> User]
    BY RightParts DEF Env
  <2>2. ASSUME NEW until, users' = [users EXCEPT ![work[w].user].until = until],
               NEW u \in Users
        PROVE  users'[u].active = users[u].active
    <3>1. CASE u = work[w].user
      BY <2>1, <2>2, <3>1 DEF User
    <3>2. CASE u # work[w].user
      BY <2>1, <2>2, <3>2
    <3> QED
      BY <3>1, <3>2
  <2> QED
    BY <1>2, <2>2
<1>4. work'[w] \notin AdminJob
  BY <1>1, KindOf
<1> QED
  BY <1>1, <1>3, <1>4, NoAccess, QuietCovered

\* A request with a token goes on.
LEMMA AuthCovered ==
  ASSUME Right, Right', Covered, NEW w \in Workers, NEW j \in AuthJob,
         work' = [work EXCEPT ![w] = j], users' = users, UNCHANGED access,
         LetIn(j, given, mayActive)
  PROVE  Covered'
<1>1. work'[w] = j /\ \A v \in Workers \ {w} : work'[v] = work[v]
  BY RightParts
<1>2. j \in Jobs /\ j.pc \in AuthPcs
  BY AuthFields
<1>3. j \notin AdminJob
  BY <1>2, KindOf DEF AuthPcs, AdminPcs
<1>4. Gives(j, given, mayActive, grants, users')
  BY <1>2, NoAccess
<1> QED
  BY <1>1, <1>3, <1>4, QuietCovered

LEMMA PresentCovered ==
  ASSUME Right, Right', Covered, NEW w \in Workers, NEW s \in DOMAIN sessions,
         NEW logout \in BOOLEAN, Present(w, s, logout)
  PROVE  Covered'
<1> DEFINE row == sessions[s]
           u == row.user
           ended == row.revoked \/ now > row.expires
           perms == GivenPerms(given, given[u])
           in == u \in mayActive
           j == [pc |-> "presented", session |-> s, logout |-> logout, seen |-> row,
                 stamp |-> 0, roles |-> {}, perms |-> {}, ended |-> ended,
                 mayRoles |-> given[u], mayPerms |-> perms, mayIn |-> in]
<1>1. work' = [work EXCEPT ![w] = j] /\ users' = users /\ UNCHANGED access
  BY DEF Present, loginVars
<1>2. u \in Users /\ Env
  BY RowOf, RightParts
<1>3. given[u] \in SUBSET Roles /\ \A r \in Roles : given[r] \subseteq Perms
  BY <1>2 DEF Env, GivenFine
<1>4. \A r \in given[u] : given[r] \subseteq perms
  BY <1>3, PermsOf
<1> HIDE DEF ended, perms
<1>5. /\ j.pc = "presented" /\ j.seen.user = u /\ j.mayRoles = given[u]
      /\ j.mayPerms = perms /\ j.mayIn = in
  OBVIOUS
<1>6. j \in AuthJob
  <2>1. work'[w] = j
    BY <1>1, RightParts
  <2>2. j \in Jobs
    BY <2>1, HandNext
  <2> QED
    BY <1>5, <2>2, KindOf DEF AuthPcs
<1> HIDE DEF j
<1>7. LetIn(j, given, mayActive)
  BY <1>4, <1>5 DEF LetIn
<1> QED
  BY <1>1, <1>6, <1>7, AuthCovered

LEMMA FindCovered ==
  ASSUME Right, Right', Covered, NEW w \in Workers, Find(w)
  PROVE  Covered'
<1> DEFINE row == sessions[work[w].session]
           j == [work[w] EXCEPT !.pc = "found", !.seen = row]
<1>1. work[w] \in AuthJob /\ work[w].seen.user = row.user /\ row \in Session
  BY Asks, RowOf DEF Find, At, AuthPcs
<1>2. work' = [work EXCEPT ![w] = j] /\ users' = users /\ UNCHANGED access
  BY DEF Find, loginVars
<1>3. LetIn(work[w], given, mayActive)
  BY DEF Covered
<1> HIDE DEF row
<1>4. /\ j \in AuthJob /\ j.pc = "found" /\ j.seen.user = work[w].seen.user
      /\ j.mayRoles = work[w].mayRoles /\ j.mayPerms = work[w].mayPerms
      /\ j.mayIn = work[w].mayIn
  BY <1>1 DEF AuthJob
<1> HIDE DEF j
<1>5. LetIn(j, given, mayActive)
  BY <1>1, <1>3, <1>4 DEF LetIn
<1> QED
  BY <1>2, <1>4, <1>5, AuthCovered

LEMMA CheckCovered ==
  ASSUME Right, Right', Covered, NEW w \in Workers, Check(w)
  PROVE  Covered'
<1> DEFINE j == [work[w] EXCEPT !.pc = "valid", !.stamp = now]
<1>1. work[w] \in AuthJob /\ now \in Times
  BY Asks DEF Check, At, AuthPcs, Env
<1>2. /\ End(w) \/ work' = [work EXCEPT ![w] = j]
      /\ users' = users /\ UNCHANGED access
  BY DEF Check, loginVars
<1>3. LetIn(work[w], given, mayActive)
  BY DEF Covered
<1>4. /\ j \in AuthJob /\ j.pc = "valid" /\ j.seen = work[w].seen
      /\ j.mayRoles = work[w].mayRoles /\ j.mayPerms = work[w].mayPerms
      /\ j.mayIn = work[w].mayIn
  BY <1>1 DEF AuthJob
<1> HIDE DEF j
<1>5. LetIn(j, given, mayActive)
  BY <1>1, <1>3, <1>4 DEF LetIn
<1> QED
  BY <1>2, <1>4, <1>5, AuthCovered, EndCovered

LEMMA LoadUserCovered ==
  ASSUME Right, Right', Covered, NEW w \in Workers, LoadUser(w)
  PROVE  Covered'
<1> DEFINE j == [work[w] EXCEPT !.pc = "known"]
           u == work[w].seen.user
<1>1. work[w] \in AuthJob /\ u \in Users
  BY Asks DEF LoadUser, At, AuthPcs
<1>2. /\ users' = users /\ UNCHANGED access
      /\ End(w) \/ (users[u].active /\ work' = [work EXCEPT ![w] = j])
  BY DEF LoadUser, To, loginVars
<1>3. /\ LetIn(work[w], given, mayActive)
      /\ users[u].active => u \in mayActive
  BY <1>1 DEF Covered
<1>4. /\ j \in AuthJob /\ j.pc = "known" /\ j.seen = work[w].seen
      /\ j.mayRoles = work[w].mayRoles /\ j.mayPerms = work[w].mayPerms
      /\ j.mayIn = work[w].mayIn
  BY <1>1 DEF AuthJob
<1> HIDE DEF j
<1>5. users[u].active => LetIn(j, given, mayActive)
  BY <1>1, <1>3, <1>4 DEF LetIn
<1> QED
  BY <1>2, <1>4, <1>5, AuthCovered, EndCovered

LEMMA LoadRolesCovered ==
  ASSUME Right, Right', Covered, NEW w \in Workers, LoadRoles(w)
  PROVE  Covered'
<1> DEFINE u == work[w].seen.user
           roles == grants[u]
           j == [work[w] EXCEPT !.pc = "roles", !.roles = roles]
<1>1. work[w] \in AuthJob /\ u \in Users /\ u \in Subjects /\ work[w].pc = "known" /\ Env
  BY Asks DEF LoadRoles, At, AuthPcs, Subjects
<1>2. work' = [work EXCEPT ![w] = j] /\ users' = users /\ UNCHANGED access
  BY DEF LoadRoles, loginVars
<1>3. /\ LetIn(work[w], given, mayActive)
      /\ roles \subseteq given[u] /\ roles \in SUBSET Roles
  BY <1>1 DEF Covered, Env
<1> HIDE DEF roles
<1>4. /\ j \in AuthJob /\ j.pc = "roles" /\ j.seen = work[w].seen /\ j.roles = roles
      /\ j.mayRoles = work[w].mayRoles /\ j.mayPerms = work[w].mayPerms
      /\ j.mayIn = work[w].mayIn
  BY <1>1, <1>3 DEF AuthJob
<1> HIDE DEF j
<1>5. LetIn(j, given, mayActive)
  BY <1>1, <1>3, <1>4 DEF LetIn
<1> QED
  BY <1>2, <1>4, <1>5, AuthCovered

LEMMA LoadPermissionsCovered ==
  ASSUME Right, Right', Covered, NEW w \in Workers, LoadPermissions(w)
  PROVE  Covered'
<1> DEFINE perms == GivenPerms(grants, work[w].roles)
           j == [work[w] EXCEPT !.pc = "authorised", !.perms = perms]
<1>1. work[w] \in AuthJob /\ work[w].pc = "roles" /\ Env
  BY Asks DEF LoadPermissions, At, AuthPcs
<1>2. work' = [work EXCEPT ![w] = j] /\ users' = users /\ UNCHANGED access
  BY DEF LoadPermissions, loginVars
<1>3. /\ LetIn(work[w], given, mayActive)
      /\ \A x \in Subjects : grants[x] \subseteq given[x]
  BY DEF Covered
<1>4. /\ work[w].roles \subseteq work[w].mayRoles /\ work[w].mayRoles \in SUBSET Roles
      /\ \A r \in work[w].mayRoles : given[r] \subseteq work[w].mayPerms
  BY <1>1, <1>3, AuthFields DEF LetIn
<1>5. perms \subseteq work[w].mayPerms /\ perms \in SUBSET Perms
  BY <1>1, <1>3, <1>4, AuthFields DEF GivenPerms, Subjects
<1> HIDE DEF perms
<1>6. /\ j \in AuthJob /\ j.pc = "authorised" /\ j.seen = work[w].seen /\ j.perms = perms
      /\ j.mayRoles = work[w].mayRoles /\ j.mayPerms = work[w].mayPerms
      /\ j.mayIn = work[w].mayIn
  BY <1>1, <1>5 DEF AuthJob
<1> HIDE DEF j
<1>7. LetIn(j, given, mayActive)
  BY <1>1, <1>3, <1>5, <1>6 DEF LetIn
<1> QED
  BY <1>2, <1>6, <1>7, AuthCovered

LEMMA BumpCovered ==
  ASSUME Right, Right', Covered, NEW w \in Workers, Bump(w)
  PROVE  Covered'
<1> DEFINE j == [work[w] EXCEPT !.pc = "in"]
<1>1. work[w] \in AuthJob /\ work[w].pc = "authorised"
  BY Asks DEF Bump, At, AuthPcs
<1>2. work' = [work EXCEPT ![w] = j] /\ users' = users /\ UNCHANGED access
  BY DEF Bump, To
<1>3. LetIn(work[w], given, mayActive)
  BY DEF Covered
<1>4. /\ j \in AuthJob /\ j.pc = "in" /\ j.seen = work[w].seen /\ j.perms = work[w].perms
      /\ j.mayRoles = work[w].mayRoles /\ j.mayPerms = work[w].mayPerms
      /\ j.mayIn = work[w].mayIn
  BY <1>1 DEF AuthJob
<1> HIDE DEF j
<1>5. LetIn(j, given, mayActive)
  BY <1>1, <1>3, <1>4 DEF LetIn
<1> QED
  BY <1>2, <1>4, <1>5, AuthCovered

LEMMA HandleCovered ==
  ASSUME Right, Right', Covered, NEW w \in Workers, Handle(w)
  PROVE  Covered'
  BY EndCovered DEF Handle

LEMMA StopCovered ==
  ASSUME Right, Right', Covered, NEW w \in Workers, Stop(w)
  PROVE  Covered'
  BY EndCovered DEF Stop

\* Neither requests nor grants nor users change.
LEMMA StillCovered ==
  ASSUME Covered, work' = work, users' = users, UNCHANGED access
  PROVE  Covered'
<1>1. grants' = grants /\ given' = given /\ mayActive' = mayActive
  BY DEF access
<1> QED
  BY <1>1 DEF Covered, Alone, Updating

LEMMA AskedUpdates ==
  ASSUME Right, Right', NEW w \in Workers, NEW a \in Update, AskUpdate(w, a),
         NEW v \in Workers, work'[v] \in AdminJob
  PROVE  /\ v = w => /\ work'[v].update = a
                     /\ work'[v].alone => \A o \in Workers : ~ Updating(o, a.of)
         /\ v # w => /\ work[v] \in AdminJob /\ work'[v].update = work[v].update
                     /\ work'[v].alone => work[v].alone /\ work[v].update.of # a.of
<1>1. CASE v = w
  <2>1. work'[v] = NewEdit(w, a)
    BY <1>1, AskedWork
  <2>2. /\ NewEdit(w, a).update = a
        /\ NewEdit(w, a).alone = (~ \E o \in Workers : Updating(o, a.of))
    BY DEF NewEdit
  <2> QED
    BY <1>1, <2>1, <2>2
<1>2. CASE v # w /\ Updating(v, a.of)
  <2>1. work'[v].update = work[v].update /\ work'[v].alone = FALSE
    BY <1>2, AskedWork
  <2>2. work[v] \in AdminJob
    BY <1>2 DEF Updating
  <2> QED
    BY <1>2, <2>1, <2>2
<1>3. CASE v # w /\ ~ Updating(v, a.of) /\ work[v] \in AuthJob
  <2>1. work'[v] = Extended(work[v], given', mayActive')
    BY <1>3, AskedWork
  <2>2. work[v].seen.user \in Users
    BY <1>3, Asks, AuthFields
  <2>3. /\ \A u \in Users : given'[u] \subseteq Roles
        /\ \A r \in Roles : given'[r] \subseteq Perms
    BY RightPartsNext DEF Env, GivenFine
  <2>4. work'[v] \in AuthJob
    BY <1>3, <2>1, <2>2, <2>3, ExtendedFields
  <2>5. FALSE
    BY <2>4, AuthFields, AdminFields DEF AuthPcs, AdminPcs
  <2> QED
    BY <2>5
<1>4. CASE v # w /\ ~ Updating(v, a.of) /\ work[v] \notin AuthJob
  <2>1. work'[v] = work[v]
    BY <1>4, AskedWork
  <2> QED
    BY <1>4, <2>1 DEF Updating
<1> QED
  BY <1>1, <1>2, <1>3, <1>4

LEMMA AskUpdateCovered ==
  ASSUME Right, Right', Covered, NEW w \in Workers, NEW a \in Update, AskUpdate(w, a)
  PROVE  Covered'
<1>1. /\ given' = IF a.names THEN [given EXCEPT ![a.of] = @ \cup a.set] ELSE given
      /\ mayActive' = IF a.active = "yes" THEN mayActive \cup {a.of} ELSE mayActive
      /\ users' = users /\ grants' = grants /\ At(w, "idle")
  BY DEF AskUpdate, loginVars
<1>2. Env
  BY RightParts
<1>3. /\ \A u \in Users : given'[u] \subseteq Roles
      /\ \A r \in Roles : given'[r] \subseteq Perms
      /\ \A x \in Subjects : given[x] \subseteq given'[x]
      /\ mayActive \subseteq mayActive' /\ mayActive' \subseteq Users
  BY <1>1, <1>2, GivenMore
<1>4. /\ a.names => a.set \subseteq given'[a.of]
      /\ a.active = "yes" => a.of \in mayActive'
      /\ a.of \in Subjects
      /\ a.of \notin Users => a.active = "kept"
  BY <1>1, <1>2, UpdateFields DEF Env
<1>5. /\ \A x \in Subjects : grants'[x] \subseteq given'[x]
      /\ \A u \in Users : users'[u].active => u \in mayActive'
  BY <1>1, <1>3 DEF Covered
<1>6. ASSUME NEW v \in Workers
      PROVE  /\ LetIn(work'[v], given', mayActive')
             /\ Gives(work'[v], given', mayActive', grants', users')
  <2>1. /\ work[v] \in Jobs /\ work'[v] \in Jobs
        /\ LetIn(work[v], given, mayActive)
        /\ Gives(work[v], given, mayActive, grants, users)
    BY InHand, HandNext DEF Covered
  <2>2. CASE v = w
    <3> DEFINE e == NewEdit(w, a)
    <3>1. work'[v] = e /\ e \in AdminJob /\ e \in Jobs
      BY <2>2, AskedWork, EditFine
    <3>2. /\ e.update = a
          /\ e.pc = "editing" \/ (e.pc = "dropping" /\ a.of \notin Users)
      BY DEF NewEdit
    <3> HIDE DEF e
    <3>3. Gives(e, given', mayActive', grants', users')
      BY <1>4, <3>2 DEF Gives
    <3> QED
      BY <3>1, <3>3, NoAccess
  <2>3. CASE v # w /\ Updating(v, a.of)
    <3>1. /\ work'[v] \in AdminJob /\ work'[v].pc = work[v].pc
          /\ work'[v].update = work[v].update /\ work'[v].was = work[v].was
          /\ work'[v].alone = FALSE /\ work[v] \in AdminJob
      BY <2>3, AskedWork DEF Updating
    <3>2. work[v].update.of \in Subjects
      BY <3>1, AdminFields, UpdateFields
    <3>3. Gives(work'[v], given', mayActive', grants', users')
      BY <1>3, <2>1, <3>1, <3>2 DEF Gives
    <3> QED
      BY <2>1, <3>1, <3>3, NoAccess
  <2>4. CASE v # w /\ ~ Updating(v, a.of) /\ work[v] \in AuthJob
    <3> DEFINE j == work[v]
               e == Extended(j, given', mayActive')
               u == j.seen.user
    <3>1. u \in Users /\ u \in Subjects
      BY <2>4, Asks, AuthFields DEF Subjects
    <3>2. work'[v] = e
      BY <2>4, AskedWork
    <3>3. /\ e \in AuthJob /\ e.seen = j.seen /\ e.pc = j.pc
          /\ e.roles = j.roles /\ e.perms = j.perms
          /\ e.mayIn = (j.mayIn \/ u \in mayActive')
          /\ e.mayRoles = j.mayRoles \cup given'[u]
          /\ e.mayPerms = j.mayPerms \cup GivenPerms(given', e.mayRoles)
      BY <1>3, <2>4, <3>1, ExtendedFields
    <3> HIDE DEF e
    <3>4. \A r \in e.mayRoles : given'[r] \subseteq e.mayPerms
      BY <3>3 DEF GivenPerms
    <3>5. LetIn(e, given', mayActive')
      BY <2>1, <2>4, <3>3, <3>4 DEF LetIn
    <3> QED
      BY <2>1, <3>2, <3>3, <3>5, NoAccess
  <2>5. CASE v # w /\ ~ Updating(v, a.of) /\ work[v] \notin AuthJob
    <3>1. work'[v] = work[v]
      BY <2>5, AskedWork
    <3>2. LetIn(work'[v], given', mayActive')
      BY <2>5, <3>1 DEF LetIn
    <3>3. work[v] \in AdminJob => work[v].update.of \in Subjects
      BY AdminFields, UpdateFields
    <3>4. Gives(work[v], given', mayActive', grants', users')
      BY <1>1, <1>3, <2>1, <3>3 DEF Gives
    <3> QED
      BY <3>1, <3>2, <3>4
  <2> QED
    BY <2>2, <2>3, <2>4, <2>5
<1>7. Alone'
  <2> SUFFICES ASSUME NEW v \in Workers, NEW o \in Workers, v # o, work'[v] \in AdminJob,
                      work'[v].alone, work'[o] \in AdminJob
               PROVE  work'[o].update.of # work'[v].update.of
    BY DEF Alone, Updating
  <2>1. CASE v = w
    <3>1. work[o] \in AdminJob /\ work'[o].update = work[o].update
      BY <2>1, AskedUpdates
    <3>2. work'[v].update = a /\ ~ Updating(o, a.of)
      BY <2>1, AskedUpdates
    <3> QED
      BY <3>1, <3>2 DEF Updating
  <2>2. CASE v # w
    <3>1. /\ work[v] \in AdminJob /\ work'[v].update = work[v].update
          /\ work[v].alone /\ work[v].update.of # a.of
      BY <2>2, AskedUpdates
    <3>2. CASE o = w
      BY <3>1, <3>2, AskedUpdates
    <3>3. CASE o # w
      <4>1. work[o] \in AdminJob /\ work'[o].update = work[o].update
        BY <3>3, AskedUpdates
      <4> QED
        BY <3>1, <4>1 DEF Covered, Alone, Updating
    <3> QED
      BY <3>2, <3>3
  <2> QED
    BY <2>1, <2>2
<1> QED
  BY <1>5, <1>6, <1>7 DEF Covered

\* Others that are alone are about other subjects.
LEMMA OthersAlone ==
  ASSUME Covered, NEW w \in Workers, work[w] \in AdminJob, NEW v \in Workers \ {w},
         work[v] \in AdminJob, work[v].alone \/ work[w].alone
  PROVE  work[v].update.of # work[w].update.of
  BY DEF Covered, Alone, Updating

LEMMA LoadEditedCovered ==
  ASSUME Right, Right', Covered, NEW w \in Workers, LoadEdited(w)
  PROVE  Covered'
<1> DEFINE x == work[w].update.of
           was == users[x].active
           j == [work[w] EXCEPT !.pc = "edited", !.was = was]
<1>1. work[w] \in AdminJob /\ x \in Users /\ Env
  BY Edits DEF LoadEdited, At, AdminPcs
<1>2. work' = [work EXCEPT ![w] = j] /\ users' = users /\ UNCHANGED access
  BY DEF LoadEdited, loginVars
<1>3. /\ Gives(work[w], given, mayActive, grants, users)
      /\ was => x \in mayActive
      /\ was \in BOOLEAN
  BY <1>1, UserRow DEF Covered
<1> HIDE DEF was
<1>4. /\ j \in AdminJob /\ j.pc = "edited" /\ j.update = work[w].update /\ j.was = was
      /\ j.alone = work[w].alone
  BY <1>1, <1>3 DEF AdminJob
<1> HIDE DEF j
<1>5. Gives(j, given, mayActive, grants, users')
  BY <1>1, <1>2, <1>3, <1>4 DEF Gives
<1>6. j \in Jobs
  BY <1>4, AdminFields
<1>7. work'[w] = j /\ \A v \in Workers \ {w} : work'[v] = work[v]
  BY <1>2, RightParts
<1>8. LetIn(j, given, mayActive)
  BY <1>4, <1>6, NoAccess
<1> QED
  BY <1>1, <1>2, <1>4, <1>5, <1>7, <1>8, QuietCovered

\* What is common to the statements that write.
LEMMA WriteCovered ==
  ASSUME Right, Right', Covered, NEW w \in Workers, work[w] \in AdminJob,
         NEW j \in AdminJob, work' = [work EXCEPT ![w] = j],
         j.update = work[w].update, j.alone = work[w].alone,
         UNCHANGED <<given, mayActive>>,
         \A x \in Subjects : grants'[x] \subseteq given[x],
         \A u \in Users : users'[u].active => u \in mayActive,
         \A x \in Subjects \ {j.update.of} : grants'[x] = grants[x],
         \A u \in Users \ {j.update.of} : users'[u].active = users[u].active,
         Gives(j, given, mayActive, grants', users')
  PROVE  Covered'
<1>1. work'[w] = j /\ \A v \in Workers \ {w} : work'[v] = work[v]
  BY RightParts
<1>2. given' = given /\ mayActive' = mayActive
  OBVIOUS
<1>3. LetIn(j, given', mayActive')
  BY AdminFields, NoAccess
<1>4. ASSUME NEW v \in Workers \ {w}
      PROVE  /\ LetIn(work'[v], given', mayActive')
             /\ Gives(work'[v], given', mayActive', grants', users')
  <2>1. LetIn(work[v], given, mayActive) /\ Gives(work[v], given, mayActive, grants, users)
    BY DEF Covered
  <2>2. ASSUME work[v] \in AdminJob
        PROVE  /\ work[v].update.of \in Subjects
               /\ work[v].update.active = "no" => work[v].update.of \in Users
               /\ work[v].alone => work[v].update.of # j.update.of
    BY <2>2, AdminFields, UpdateFields, OthersAlone
  <2>3. Gives(work[v], given, mayActive, grants', users')
    BY <2>1, <2>2 DEF Gives
  <2> QED
    BY <1>1, <1>2, <2>1, <2>3
<1>5. Alone'
  BY <1>1, AloneKept DEF Covered
<1> QED
  BY <1>1, <1>2, <1>3, <1>4, <1>5 DEF Covered

LEMMA EditCovered ==
  ASSUME Right, Right', Covered, NEW w \in Workers, Edit(w)
  PROVE  Covered'
<1> DEFINE a == work[w].update
           active == IF a.active = "kept" THEN work[w].was ELSE a.active = "yes"
           pc == IF a.names THEN "dropping" ELSE "updated"
           j == [work[w] EXCEPT !.pc = pc]
<1>1. work[w] \in AdminJob /\ a.of \in Users /\ Env /\ work[w].pc = "edited"
  BY Edits DEF Edit, At, AdminPcs
<1>2. /\ work' = [work EXCEPT ![w] = j] /\ users' = [users EXCEPT ![a.of].active = active]
      /\ grants' = grants /\ UNCHANGED <<given, mayActive>>
  BY DEF Edit, To, access
<1>3. Gives(work[w], given, mayActive, grants, users)
  BY DEF Covered
<1>4. /\ active => a.of \in mayActive
      /\ a.active = "no" => ~ active
  BY <1>1, <1>3 DEF Gives
<1>5. pc \in {"dropping", "updated"}
  OBVIOUS
<1> HIDE DEF active, pc
<1>6. /\ j \in AdminJob /\ j.pc = pc /\ j.update = a /\ j.alone = work[w].alone
  BY <1>1, <1>5 DEF AdminJob
<1> HIDE DEF j
<1>7. /\ users'[a.of].active = active
      /\ \A u \in Users \ {a.of} : users'[u].active = users[u].active
  BY <1>1, <1>2 DEF Env, User
<1>8. /\ \A u \in Users : users'[u].active => u \in mayActive
      /\ \A x \in Subjects : grants'[x] \subseteq given[x]
  BY <1>2, <1>4, <1>7 DEF Covered
<1>9. Gives(j, given, mayActive, grants', users')
  BY <1>1, <1>2, <1>3, <1>4, <1>5, <1>6, <1>7 DEF Gives
<1> QED
  BY <1>1, <1>2, <1>6, <1>7, <1>8, <1>9, WriteCovered

LEMMA DropCovered ==
  ASSUME Right, Right', Covered, NEW w \in Workers, Drop(w)
  PROVE  Covered'
<1> DEFINE a == work[w].update
           j == [work[w] EXCEPT !.pc = "adding"]
<1>1. work[w] \in AdminJob /\ a.of \in Subjects /\ Env /\ work[w].pc = "dropping"
  BY Edits DEF Drop, At, AdminPcs
<1>2. /\ work' = [work EXCEPT ![w] = j] /\ grants' = [grants EXCEPT ![a.of] = {}]
      /\ users' = users /\ UNCHANGED <<given, mayActive>>
  BY DEF Drop, To, loginVars
<1>3. Gives(work[w], given, mayActive, grants, users)
  BY DEF Covered
<1>4. /\ j \in AdminJob /\ j.pc = "adding" /\ j.update = a /\ j.alone = work[w].alone
      /\ j.was = work[w].was
  BY <1>1 DEF AdminJob
<1> HIDE DEF j
<1>5. /\ grants'[a.of] = {} /\ \A x \in Subjects \ {a.of} : grants'[x] = grants[x]
  BY <1>1, <1>2 DEF Env
<1>6. /\ \A u \in Users : users'[u].active => u \in mayActive
      /\ \A x \in Subjects : grants'[x] \subseteq given[x]
  BY <1>2, <1>5 DEF Covered
<1>7. Gives(j, given, mayActive, grants', users')
  BY <1>1, <1>2, <1>3, <1>4, <1>5 DEF Gives
<1> QED
  BY <1>1, <1>2, <1>4, <1>5, <1>6, <1>7, WriteCovered

LEMMA AddCovered ==
  ASSUME Right, Right', Covered, NEW w \in Workers, Add(w)
  PROVE  Covered'
<1> DEFINE a == work[w].update
<1>1. /\ work[w] \in AdminJob /\ a.of \in Subjects /\ Env /\ work[w].pc = "adding"
      /\ a.names /\ work[w].left \subseteq a.set
  BY Edits DEF Add, At, AdminPcs
<1>2. PICK g \in work[w].left :
        /\ grants' = [grants EXCEPT ![a.of] = @ \cup {g}]
        /\ work' = [work EXCEPT ![w].left = @ \ {g}]
  BY DEF Add
<1> DEFINE left == work[w].left \ {g}
           j == [work[w] EXCEPT !.left = left]
<1>3. /\ work' = [work EXCEPT ![w] = j] /\ users' = users /\ UNCHANGED <<given, mayActive>>
  BY <1>2 DEF Add, loginVars
<1>4. Gives(work[w], given, mayActive, grants, users) /\ g \in a.set
  BY <1>1 DEF Covered
<1>5. left \in SUBSET (Roles \cup Perms)
  BY <1>1, AdminFields
<1> HIDE DEF left
<1>6. /\ j \in AdminJob /\ j.pc = "adding" /\ j.update = a /\ j.alone = work[w].alone
      /\ j.was = work[w].was
  BY <1>1, <1>5 DEF AdminJob
<1> HIDE DEF j
<1>7. /\ grants'[a.of] = grants[a.of] \cup {g}
      /\ \A x \in Subjects \ {a.of} : grants'[x] = grants[x]
  BY <1>1, <1>2 DEF Env
<1>8. g \in given[a.of]
  BY <1>1, <1>4 DEF Gives
<1>9. /\ \A u \in Users : users'[u].active => u \in mayActive
      /\ \A x \in Subjects : grants'[x] \subseteq given[x]
  BY <1>1, <1>3, <1>7, <1>8 DEF Covered
<1>10. Gives(j, given, mayActive, grants', users')
  BY <1>1, <1>3, <1>4, <1>6, <1>7 DEF Gives
<1> QED
  BY <1>1, <1>3, <1>6, <1>7, <1>9, <1>10, WriteCovered

LEMMA AnswerCovered ==
  ASSUME Right, Right', Covered, NEW w \in Workers, Answer(w)
  PROVE  Covered'
<1> DEFINE a == work[w].update
           alone == work[w].alone
<1>1. /\ work[w] \in AdminJob /\ a \in Update /\ a.of \in Subjects /\ Env
      /\ work[w].pc \in {"adding", "updated"}
      /\ work[w].pc = "updated" => ~ a.names
  BY Edits DEF Answer, At, AdminPcs
<1>2. /\ given' = IF a.names /\ alone THEN [given EXCEPT ![a.of] = a.set] ELSE given
      /\ mayActive' = IF a.active = "no" /\ alone THEN mayActive \ {a.of} ELSE mayActive
      /\ users' = users /\ grants' = grants /\ End(w)
  BY DEF Answer, loginVars
<1>3. /\ work'[w] = Idle /\ \A v \in Workers \ {w} : work'[v] = work[v]
      /\ Idle \in Jobs /\ Idle.pc \notin AuthPcs /\ Idle.pc \notin AdminPcs
  BY <1>2, RightParts, IdleFine DEF End, Idle, AuthPcs, AdminPcs
<1>4. Gives(work[w], given, mayActive, grants, users)
  BY DEF Covered
<1>5. /\ a.names => a.set \subseteq given[a.of]
      /\ a.names /\ alone => grants[a.of] \subseteq a.set
      /\ a.active = "no" /\ alone => ~ users[a.of].active
  BY <1>1, <1>4 DEF Gives
<1>6. /\ \A x \in Subjects : given'[x] \subseteq given[x]
      /\ \A x \in Subjects \ {a.of} : given'[x] = given[x]
      /\ ~ alone => given' = given /\ mayActive' = mayActive
      /\ mayActive' \subseteq mayActive /\ mayActive \ {a.of} \subseteq mayActive'
  BY <1>1, <1>2, <1>5 DEF Env
<1>7. \A x \in Subjects : grants'[x] \subseteq given'[x]
  <2> SUFFICES ASSUME NEW x \in Subjects PROVE grants[x] \subseteq given'[x]
    BY <1>2
  <2>1. grants[x] \subseteq given[x]
    BY DEF Covered
  <2>2. CASE x = a.of /\ a.names /\ alone
    BY <1>1, <1>2, <1>5, <2>2 DEF Env
  <2>3. CASE ~ (x = a.of /\ a.names /\ alone)
    BY <1>1, <1>2, <1>6, <2>1, <2>3
  <2> QED
    BY <2>2, <2>3
<1>8. \A u \in Users : users'[u].active => u \in mayActive'
  BY <1>2, <1>5 DEF Covered
<1>9. ASSUME NEW v \in Workers \ {w}
      PROVE  /\ LetIn(work'[v], given', mayActive')
             /\ Gives(work'[v], given', mayActive', grants', users')
  <2>1. LetIn(work[v], given, mayActive) /\ Gives(work[v], given, mayActive, grants, users)
    BY DEF Covered
  <2>2. LetIn(work[v], given', mayActive')
    <3>1. work[v] \in AuthJob =>
            /\ work[v].seen.user \in Subjects /\ work[v].mayRoles \subseteq Subjects
      BY Asks, AuthFields DEF Subjects
    <3> QED
      BY <1>6, <2>1, <3>1 DEF LetIn
  <2>3. ASSUME work[v] \in AdminJob
        PROVE  /\ work[v].update.of \in Subjects
               /\ alone => work[v].update.of # a.of
    BY <1>1, <2>3, AdminFields, UpdateFields, OthersAlone
  <2>4. Gives(work[v], given', mayActive', grants, users)
    <3>1. CASE alone
      BY <1>6, <2>1, <2>3, <3>1 DEF Gives
    <3>2. CASE ~ alone
      BY <1>6, <2>1, <3>2
    <3> QED
      BY <3>1, <3>2
  <2> QED
    BY <1>2, <1>3, <2>2, <2>4
<1>10. /\ LetIn(work'[w], given', mayActive')
       /\ Gives(work'[w], given', mayActive', grants', users')
  BY <1>3, NoAccess
<1>11. Alone'
  <2>1. Idle \notin AdminJob
    BY <1>3, KindOf
  <2> QED
    BY <1>3, <2>1, AloneKept DEF Covered
<1> QED
  BY <1>7, <1>8, <1>9, <1>10, <1>11 DEF Covered

LEMMA CoveredStep == Right /\ Covered /\ [Next]_vars => (Right /\ Covered)'
<1> SUFFICES ASSUME Right, Covered, [Next]_vars PROVE Right' /\ Covered'
  OBVIOUS
<1>1. Right'
  BY RightStep
<1>2. ASSUME NEW w \in Workers, LoginStep(w) \/ UnlockStep(w), UNCHANGED <<access, used>>
      PROVE  Covered'
  BY <1>1, <1>2, LoginCovered
<1>3. ASSUME NEW w \in Workers, AuthStep(w)
      PROVE  Covered'
  BY <1>1, <1>3, PresentCovered, FindCovered, CheckCovered, LoadUserCovered,
     LoadRolesCovered, LoadPermissionsCovered, BumpCovered, HandleCovered DEF AuthStep
<1>4. ASSUME NEW w \in Workers, AdminStep(w)
      PROVE  Covered'
  <2>1. \A a \in Updates : a \in Update
    BY SessionsAssumption
  <2>2. ASSUME NEW a \in Update, AskUpdate(w, a)
        PROVE  Covered'
    BY <1>1, <2>2, AskUpdateCovered
  <2>3. ASSUME LoadEdited(w) \/ Edit(w) PROVE Covered'
    BY <1>1, <2>3, LoadEditedCovered, EditCovered
  <2>4. ASSUME Drop(w) \/ Add(w) PROVE Covered'
    BY <1>1, <2>4, DropCovered, AddCovered
  <2>5. ASSUME Answer(w) PROVE Covered'
    BY <1>1, <2>5, AnswerCovered
  <2> QED
    BY <1>4, <2>1, <2>2, <2>3, <2>4, <2>5 DEF AdminStep
<1>5. CASE UNCHANGED vars
  <2>1. work' = work /\ users' = users /\ UNCHANGED access
    BY <1>5 DEF vars, loginVars, access
  <2> QED
    BY <1>1, <2>1, StillCovered
<1>6. ASSUME NEW w \in Workers, TurnAway(w)
      PROVE  Covered'
  <2>1. work' = work /\ users' = users /\ UNCHANGED access
    BY <1>6 DEF TurnAway, vars, loginVars, access
  <2> QED
    BY <2>1, StillCovered
<1>7. ASSUME NEW w \in Workers, Stop(w)
      PROVE  Covered'
  BY <1>1, <1>7, StopCovered
<1>8. ASSUME Reap
      PROVE  Covered'
  BY <1>8, StillCovered DEF Reap
<1>9. ASSUME Tick, UNCHANGED <<access, used>>
      PROVE  Covered'
  BY <1>9, StillCovered DEF Tick, loginVars
<1> QED
  BY <1>1, <1>2, <1>3, <1>4, <1>5, <1>6, <1>7, <1>8, <1>9 DEF Next

LEMMA InitCovered == Init => Covered
<1> SUFFICES ASSUME Init PROVE Covered
  OBVIOUS
<1>1. /\ grants = Granted /\ given = Granted /\ mayActive = Users
      /\ work = [w \in Workers |-> Idle]
  BY DEF Init, LoginInit
<1>2. Idle \in Jobs /\ Idle.pc \notin AuthPcs /\ Idle.pc \notin AdminPcs
  BY IdleFine DEF Idle, AuthPcs, AdminPcs
<1>3. \A w \in Workers : work[w] \notin AdminJob
  BY <1>1, <1>2, KindOf
<1>4. \A w \in Workers : /\ LetIn(work[w], given, mayActive)
                         /\ Gives(work[w], given, mayActive, grants, users)
  BY <1>1, <1>2, NoAccess
<1> QED
  BY <1>1, <1>3, <1>4 DEF Covered, Alone

\* Whoever is let in was active, and has only permissions they had been given:
\* by the last update that was answered, or one still under way - although the
\* rows of roles and permissions are deleted and inserted one by one, updates
\* overlap or fail half way, and users and rows are read in three queries
\* (middleware/auth.rs, handlers/admin.rs).
THEOREM NothingExtraHolds == Spec => []NothingExtra
<1>1. Right /\ Covered => NothingExtra
  <2> SUFFICES ASSUME Right, Covered, NEW w \in Workers, At(w, "in")
               PROVE  work[w].mayIn /\ work[w].perms \subseteq work[w].mayPerms
    BY DEF NothingExtra
  <2>1. work[w] \in AuthJob
    BY Doing DEF At, AuthPcs
  <2> QED
    BY <2>1 DEF Covered, LetIn, At
<1> QED
  BY <1>1, InitRight, InitCovered, CoveredStep, PTL DEF Spec
-----------------------------------------------------------------------------
(* Minting *)

LEMMA Counts ==
  ASSUME Env, NEW u \in Users, NEW x \in Rids
  PROVE  /\ IsFiniteSet(Minted(u, x)) /\ Cardinality(Minted(u, x)) \in Nat
         /\ \A pcs : /\ IsFiniteSet(Past(u, x, pcs)) /\ Cardinality(Past(u, x, pcs)) \in Nat
                     /\ Past(u, x, pcs) \subseteq Workers
         /\ IsFiniteSet(Workers) /\ Cardinality(Workers) \in Nat
         /\ lost[u] \in Nat
<1>1. IsFiniteSet(DOMAIN sessions)
  <2>1. DOMAIN sessions = 1 .. Len(sessions) /\ Len(sessions) \in Nat
    BY DEF Env
  <2> QED
    BY <2>1, FS_Interval
<1>2. IsFiniteSet(Minted(u, x)) /\ Cardinality(Minted(u, x)) \in Nat
  <2>1. Minted(u, x) \subseteq DOMAIN sessions
    BY DEF Minted
  <2>2. IsFiniteSet(Minted(u, x))
    BY <1>1, <2>1, FS_Subset
  <2> QED
    BY <2>2, FS_CardinalityType
<1>3. ASSUME NEW pcs
      PROVE  /\ IsFiniteSet(Past(u, x, pcs)) /\ Cardinality(Past(u, x, pcs)) \in Nat
             /\ Past(u, x, pcs) \subseteq Workers
  <2>1. Past(u, x, pcs) \subseteq Workers /\ IsFiniteSet(Workers)
    BY LoginAssumption DEF Past
  <2>2. IsFiniteSet(Past(u, x, pcs))
    BY <2>1, FS_Subset
  <2> QED
    BY <2>1, <2>2, FS_CardinalityType
<1>4. IsFiniteSet(Workers) /\ Cardinality(Workers) \in Nat
  BY LoginAssumption, FS_CardinalityType
<1>5. lost[u] \in Nat
  BY DEF Env
<1> QED
  BY <1>2, <1>3, <1>4, <1>5

LEMMA CountsNext ==
  ASSUME Env', NEW u \in Users, NEW x \in Rids
  PROVE  /\ IsFiniteSet(Minted(u, x)') /\ Cardinality(Minted(u, x)') \in Nat
         /\ \A pcs : /\ IsFiniteSet(Past(u, x, pcs)') /\ Cardinality(Past(u, x, pcs)') \in Nat
                     /\ Past(u, x, pcs)' \subseteq Workers
         /\ lost'[u] \in Nat
<1>1. IsFiniteSet(DOMAIN sessions')
  <2>1. DOMAIN sessions' = 1 .. Len(sessions') /\ Len(sessions') \in Nat
    BY DEF Env
  <2> QED
    BY <2>1, FS_Interval
<1>2. IsFiniteSet(Minted(u, x)') /\ Cardinality(Minted(u, x)') \in Nat
  <2>1. Minted(u, x)' \subseteq DOMAIN sessions'
    BY DEF Minted
  <2>2. IsFiniteSet(Minted(u, x)')
    BY <1>1, <2>1, FS_Subset
  <2> QED
    BY <2>2, FS_CardinalityType
<1>3. ASSUME NEW pcs
      PROVE  /\ IsFiniteSet(Past(u, x, pcs)') /\ Cardinality(Past(u, x, pcs)') \in Nat
             /\ Past(u, x, pcs)' \subseteq Workers
  <2>1. Past(u, x, pcs)' \subseteq Workers /\ IsFiniteSet(Workers)
    BY LoginAssumption DEF Past
  <2>2. IsFiniteSet(Past(u, x, pcs)')
    BY <2>1, FS_Subset
  <2> QED
    BY <2>1, <2>2, FS_CardinalityType
<1>4. lost'[u] \in Nat
  BY DEF Env
<1> QED
  BY <1>2, <1>3, <1>4

\* The counts that matter of a step that is about no login at this point.
LEMMA SameOwed ==
  ASSUME Right, Right', NEW u \in Users, NEW x \in Rids, Owed(u, x),
         Minted(u, x)' = Minted(u, x), logins'[<<u, x>>] = logins[<<u, x>>],
         lost'[u] >= lost[u],
         logins[<<u, x>>] = 0 => Past(u, x, {"issued"})' = Past(u, x, {"issued"}),
         logins[<<u, x>>] # 0 =>
           Past(u, x, {"accepted", "issuing"})' = Past(u, x, {"accepted", "issuing"})
  PROVE  Owed(u, x)'
<1> DEFINE m == Cardinality(Minted(u, x))
           iss == Cardinality(Past(u, x, {"issued"}))
           mid == Cardinality(Past(u, x, {"accepted", "issuing"}))
           n == Cardinality(Workers)
<1>1. m \in Nat /\ iss \in Nat /\ mid \in Nat /\ n \in Nat /\ lost[u] \in Nat /\ lost'[u] \in Nat
  BY RightParts, RightPartsNext, Counts, CountsNext
<1>2. Cardinality(Minted(u, x)') = m
  OBVIOUS
<1>3. CASE logins[<<u, x>>] = 0
  <2>1. m <= iss + lost[u]
    BY <1>3 DEF Owed
  <2>2. Cardinality(Past(u, x, {"issued"})') = iss
    BY <1>3
  <2> HIDE DEF m, iss
  <2>3. m <= iss + lost'[u]
    BY <1>1, <2>1
  <2>4. /\ logins'[<<u, x>>] = 0
        /\ Cardinality(Minted(u, x)') <= Cardinality(Past(u, x, {"issued"})') + lost'[u]
    BY <1>2, <1>3, <2>2, <2>3
  <2> QED
    BY <2>4 DEF Owed
<1>4. CASE logins[<<u, x>>] # 0
  <2>1. m + mid <= n + lost[u]
    BY <1>4 DEF Owed
  <2>2. Cardinality(Past(u, x, {"accepted", "issuing"})') = mid
    BY <1>4
  <2> HIDE DEF m, mid, n
  <2>3. m + mid <= n + lost'[u]
    BY <1>1, <2>1
  <2>4. /\ logins'[<<u, x>>] # 0
        /\ Cardinality(Minted(u, x)') + Cardinality(Past(u, x, {"accepted", "issuing"})')
             <= Cardinality(Workers) + lost'[u]
    BY <1>2, <1>4, <2>2, <2>3 DEF n
  <2> QED
    BY <2>4 DEF Owed
<1> QED
  BY <1>3, <1>4

LEMMA SameMinted ==
  ASSUME Grows(sessions, sessions'), DOMAIN sessions' = DOMAIN sessions, NEW u, NEW x
  PROVE  Minted(u, x)' = Minted(u, x)
  BY DEF Grows, Minted

\* Neither before nor after the step is a request past the look for a response.
LEMMA QuietMinting ==
  ASSUME Right, Right', Minting,
         \A v \in Workers : \/ work'[v] = work[v]
                            \/ work[v].pc \notin Busy /\ work'[v].pc \notin Busy,
         Grows(sessions, sessions'), DOMAIN sessions' = DOMAIN sessions,
         logins' = logins, \A u \in Users : lost'[u] >= lost[u]
  PROVE  Minting'
<1> SUFFICES ASSUME NEW u \in Users, NEW x \in Rids PROVE Owed(u, x)'
  BY DEF Minting
<1>1. Owed(u, x)
  BY DEF Minting
<1>2. Minted(u, x)' = Minted(u, x)
  BY SameMinted
<1>3. /\ Past(u, x, {"issued"})' = Past(u, x, {"issued"})
      /\ Past(u, x, {"accepted", "issuing"})' = Past(u, x, {"accepted", "issuing"})
  BY DEF Past, Busy
<1> QED
  BY <1>1, <1>2, <1>3, SameOwed

LEMMA OneQuiet ==
  ASSUME Right, Right', Minting, NEW w \in Workers,
         \A v \in Workers \ {w} : work'[v] = work[v],
         work[w].pc \notin Busy, work'[w].pc \notin Busy,
         Grows(sessions, sessions'), DOMAIN sessions' = DOMAIN sessions,
         logins' = logins, lost' = lost
  PROVE  Minting'
<1>1. \A u \in Users : lost'[u] >= lost[u]
  BY RightParts DEF Env
<1> QED
  BY <1>1, QuietMinting

LEMMA LookupMinting ==
  ASSUME Right, Right', Minting, NEW w \in Workers, Lookup(w)
  PROVE  Minting'
<1> DEFINE j == work[w]
<1>1. j \in LoginJob /\ j.pc = "verified" /\ work \in [Workers -> Jobs]
  BY Doing, RightParts DEF Lookup, At, LoginPcs
<1>2. sessions' = sessions /\ logins' = logins /\ lost' = lost
  BY DEF Lookup, loginVars
<1>3. CASE End(w)
  <2>1. work'[w] = Idle /\ \A v \in Workers \ {w} : work'[v] = work[v]
    BY <1>1, <1>3 DEF End
  <2> QED
    BY <1>1, <1>2, <2>1, OneQuiet, SameRows DEF Busy, Idle
<1>4. CASE ~ End(w)
  <2>1. /\ \A v \in Users : logins[<<v, j.rid>>] = 0
        /\ work' = [work EXCEPT ![w].pc = "accepted"]
    BY <1>4 DEF Lookup, To
  <2>2. /\ work'[w].pc = "accepted" /\ work'[w].user = j.user /\ work'[w].rid = j.rid
        /\ \A v \in Workers \ {w} : work'[v] = work[v]
    BY <1>1, <2>1 DEF LoginJob
  <2> SUFFICES ASSUME NEW u \in Users, NEW x \in Rids PROVE Owed(u, x)'
    BY DEF Minting
  <2>3. Past(u, x, {"issued"})' = Past(u, x, {"issued"})
    BY <1>1, <2>2 DEF Past
  <2>4. ASSUME logins[<<u, x>>] # 0
        PROVE  Past(u, x, {"accepted", "issuing"})' = Past(u, x, {"accepted", "issuing"})
    <3>1. ~ (u = j.user /\ x = j.rid)
      BY <2>1, <2>4
    <3> QED
      BY <1>1, <2>2, <3>1 DEF Past
  <2>5. Owed(u, x) /\ Minted(u, x)' = Minted(u, x)
    BY <1>2, SameRows, SameMinted DEF Minting
  <2>6. lost'[u] >= lost[u]
    BY <1>2, RightParts DEF Env
  <2> QED
    BY <1>2, <2>3, <2>4, <2>5, <2>6, SameOwed
<1> QED
  BY <1>3, <1>4

LEMMA UnlockedMinting ==
  ASSUME Right, Right', Minting, NEW w \in Workers, Unlocked(w)
  PROVE  Minting'
<1>1. work[w] \in LoginJob /\ work[w].pc = "accepted" /\ work \in [Workers -> Jobs]
  BY Doing, RightParts DEF Unlocked, At, LoginPcs
<1>2. /\ sessions' = sessions /\ logins' = logins /\ lost' = lost
      /\ work' = [work EXCEPT ![w].pc = "issuing"]
  BY DEF Unlocked, To
<1>3. /\ work'[w].pc = "issuing" /\ work'[w].user = work[w].user
      /\ work'[w].rid = work[w].rid /\ \A v \in Workers \ {w} : work'[v] = work[v]
  BY <1>1, <1>2 DEF LoginJob
<1> SUFFICES ASSUME NEW u \in Users, NEW x \in Rids PROVE Owed(u, x)'
  BY DEF Minting
<1>4. Past(u, x, {"issued"})' = Past(u, x, {"issued"})
  BY <1>1, <1>3 DEF Past
<1>5. Past(u, x, {"accepted", "issuing"})' = Past(u, x, {"accepted", "issuing"})
  BY <1>1, <1>3 DEF Past
<1>6. Owed(u, x) /\ Minted(u, x)' = Minted(u, x)
  BY <1>2, SameRows, SameMinted DEF Minting
<1>7. lost'[u] >= lost[u]
  BY <1>2, RightParts DEF Env
<1> QED
  BY <1>2, <1>4, <1>5, <1>6, <1>7, SameOwed

LEMMA IssueMinting ==
  ASSUME Right, Right', Minting, NEW w \in Workers, Issue(w)
  PROVE  Minting'
<1>0. PICK n : n = Len(sessions) + 1
  OBVIOUS
<1>1. /\ work[w] \in LoginJob /\ work[w].pc = "issuing" /\ work \in [Workers -> Jobs]
      /\ work[w].user \in Users /\ work[w].rid \in Rids
      /\ DOMAIN sessions' = DOMAIN sessions \cup {n} /\ n \notin DOMAIN sessions
      /\ \A s \in DOMAIN sessions : sessions'[s] = sessions[s]
      /\ sessions'[n].user = work[w].user /\ sessions'[n].rid = work[w].rid
  <2>1. /\ work[w] \in LoginJob /\ sessions'[n] = NewRow(work[w], now)
        /\ DOMAIN sessions' = DOMAIN sessions \cup {n} /\ n \notin DOMAIN sessions
        /\ \A s \in DOMAIN sessions : sessions'[s] = sessions[s]
    BY <1>0, Issued
  <2>2. work[w].pc = "issuing" /\ work \in [Workers -> Jobs]
    BY RightParts DEF Issue, At
  <2>3. work[w].user \in Users /\ work[w].rid \in Rids
    BY <2>1, LoginFields
  <2>4. sessions'[n].user = work[w].user /\ sessions'[n].rid = work[w].rid
    BY <2>1 DEF NewRow
  <2> QED
    BY <2>1, <2>2, <2>3, <2>4
<1>2. /\ logins' = logins /\ lost' = lost
      /\ work'[w].pc = "issued" /\ work'[w].user = work[w].user
      /\ work'[w].rid = work[w].rid /\ \A v \in Workers \ {w} : work'[v] = work[v]
  <2>1. work' = [work EXCEPT ![w].pc = "issued", ![w].issued = Len(sessions) + 1]
    BY DEF Issue
  <2> QED
    BY <1>1, <2>1 DEF Issue, LoginJob
<1> SUFFICES ASSUME NEW u \in Users, NEW x \in Rids PROVE Owed(u, x)'
  BY DEF Minting
<1>3. Owed(u, x)
  BY DEF Minting
<1>4. CASE ~ (u = work[w].user /\ x = work[w].rid)
  <2>1. Minted(u, x)' = Minted(u, x)
    BY <1>1, <1>4 DEF Minted
  <2>2. Past(u, x, {"issued"})' = Past(u, x, {"issued"})
    BY <1>1, <1>2, <1>4 DEF Past
  <2>3. Past(u, x, {"accepted", "issuing"})' = Past(u, x, {"accepted", "issuing"})
    BY <1>1, <1>2, <1>4 DEF Past
  <2>4. lost'[u] >= lost[u]
    BY <1>2, RightParts DEF Env
  <2> QED
    BY <1>2, <1>3, <2>1, <2>2, <2>3, <2>4, SameOwed
<1>5. CASE u = work[w].user /\ x = work[w].rid
  <2> DEFINE m == Cardinality(Minted(u, x))
             iss == Cardinality(Past(u, x, {"issued"}))
             mid == Cardinality(Past(u, x, {"accepted", "issuing"}))
             k == Cardinality(Workers)
  <2>1. /\ m \in Nat /\ iss \in Nat /\ mid \in Nat /\ k \in Nat /\ lost[u] \in Nat
        /\ IsFiniteSet(Minted(u, x)) /\ IsFiniteSet(Past(u, x, {"issued"}))
        /\ IsFiniteSet(Past(u, x, {"accepted", "issuing"}))
    BY RightParts, Counts
  <2>2. Cardinality(Minted(u, x)') = m + 1
    <3>1. Minted(u, x)' = Minted(u, x) \cup {n} /\ n \notin Minted(u, x)
      BY <1>1, <1>5 DEF Minted
    <3> QED
      BY <2>1, <3>1, FS_AddElement
  <2>3. Cardinality(Past(u, x, {"issued"})') = iss + 1
    <3>1. Past(u, x, {"issued"})' = Past(u, x, {"issued"}) \cup {w}
          /\ w \notin Past(u, x, {"issued"})
      BY <1>1, <1>2, <1>5 DEF Past
    <3> QED
      BY <2>1, <3>1, FS_AddElement
  <2>4. Cardinality(Past(u, x, {"accepted", "issuing"})') = mid - 1
    <3>1. Past(u, x, {"accepted", "issuing"})' = Past(u, x, {"accepted", "issuing"}) \ {w}
          /\ w \in Past(u, x, {"accepted", "issuing"})
      BY <1>1, <1>2, <1>5 DEF Past
    <3> QED
      BY <2>1, <3>1, FS_RemoveElement
  <2>5. IF logins[<<u, x>>] = 0 THEN m <= iss + lost[u] ELSE m + mid <= k + lost[u]
    BY <1>3 DEF Owed
  <2> HIDE DEF m, iss, mid, k
  <2>6. IF logins[<<u, x>>] = 0 THEN m + 1 <= (iss + 1) + lost[u]
                                ELSE (m + 1) + (mid - 1) <= k + lost[u]
    BY <2>1, <2>5
  <2> QED
    BY <1>2, <2>2, <2>3, <2>4, <2>6 DEF Owed, k
<1> QED
  BY <1>4, <1>5

LEMMA StoreMinting ==
  ASSUME Right, Right', Minting, NEW w \in Workers, Store(w)
  PROVE  Minting'
<1> DEFINE k0 == <<work[w].user, work[w].rid>>
<1>1. /\ work[w] \in LoginJob /\ work[w].pc = "issued" /\ work \in [Workers -> Jobs]
      /\ work[w].user \in Users /\ work[w].rid \in Rids /\ Env
      /\ work[w].issued \in DOMAIN sessions
  BY Doing, RightParts, LoginFields, InHand DEF Store, At, LoginPcs, JobFine
<1>2. /\ sessions' = sessions /\ lost' = lost /\ End(w)
      /\ logins' = [logins EXCEPT ![k0] = IF @ = 0 THEN work[w].issued ELSE @]
  BY DEF Store
<1>3. /\ work'[w].pc = "idle" /\ \A v \in Workers \ {w} : work'[v] = work[v]
  BY <1>1, <1>2 DEF End, Idle
<1>4. work[w].issued # 0
  BY <1>1, RowOf
<1> SUFFICES ASSUME NEW u \in Users, NEW x \in Rids PROVE Owed(u, x)'
  BY DEF Minting
<1>5. Owed(u, x) /\ Minted(u, x)' = Minted(u, x)
  BY <1>2, SameRows, SameMinted DEF Minting
<1>6. lost'[u] >= lost[u]
  BY <1>1, <1>2 DEF Env
<1>7. Past(u, x, {"accepted", "issuing"})' = Past(u, x, {"accepted", "issuing"})
  BY <1>1, <1>3 DEF Past
<1>8. CASE ~ (u = work[w].user /\ x = work[w].rid)
  <2>1. Past(u, x, {"issued"})' = Past(u, x, {"issued"})
    BY <1>1, <1>3, <1>8 DEF Past
  <2>2. logins'[<<u, x>>] = logins[<<u, x>>]
    BY <1>1, <1>2, <1>8 DEF Env
  <2> QED
    BY <1>5, <1>6, <1>7, <2>1, <2>2, SameOwed
<1>9. CASE u = work[w].user /\ x = work[w].rid /\ logins[<<u, x>>] # 0
  <2>1. logins'[<<u, x>>] = logins[<<u, x>>]
    BY <1>1, <1>2, <1>9 DEF Env
  <2> QED
    BY <1>5, <1>6, <1>7, <1>9, <2>1, SameOwed
<1>10. CASE u = work[w].user /\ x = work[w].rid /\ logins[<<u, x>>] = 0
  <2> DEFINE m == Cardinality(Minted(u, x))
             Iss == Past(u, x, {"issued"})
             Mid == Past(u, x, {"accepted", "issuing"})
             iss == Cardinality(Iss)
             mid == Cardinality(Mid)
             k == Cardinality(Workers)
  <2>1. /\ m \in Nat /\ iss \in Nat /\ mid \in Nat /\ k \in Nat /\ lost[u] \in Nat
        /\ IsFiniteSet(Iss) /\ IsFiniteSet(Mid) /\ IsFiniteSet(Workers)
        /\ Iss \subseteq Workers /\ Mid \subseteq Workers
    BY <1>1, Counts
  <2>2. m <= iss + lost[u]
    BY <1>5, <1>10 DEF Owed
  <2>3. iss + mid <= k
    <3>1. Iss \cap Mid = {}
      BY DEF Past
    <3>2. Iss \cup Mid \subseteq Workers
      BY <2>1
    <3> HIDE DEF Iss, Mid
    <3>3. Cardinality(Iss \cup Mid) = Cardinality(Iss) + Cardinality(Mid) - Cardinality({})
      BY <2>1, <3>1, FS_Union
    <3>4. Cardinality({}) = 0
      BY FS_EmptySet
    <3>5. Cardinality(Iss \cup Mid) <= Cardinality(Workers)
      BY <2>1, <3>2, FS_Subset
    <3> HIDE DEF iss, mid, k
    <3>6. Cardinality(Iss \cup Mid) = iss + mid
      <4>1. Cardinality(Iss \cup Mid) = iss + mid - 0
        BY <3>3, <3>4 DEF iss, mid
      <4> QED
        BY <2>1, <4>1
    <3> QED
      BY <3>5, <3>6 DEF k
  <2>4. logins'[<<u, x>>] # 0
    BY <1>1, <1>2, <1>4, <1>10 DEF Env
  <2>5. /\ Cardinality(Minted(u, x)') = m
        /\ Cardinality(Past(u, x, {"accepted", "issuing"})') = mid
    BY <1>5, <1>7
  <2> HIDE DEF m, iss, mid, k
  <2>6. m + mid <= k + lost[u]
    BY <2>1, <2>2, <2>3
  <2> QED
    BY <1>2, <2>4, <2>5, <2>6 DEF Owed, k
<1> QED
  BY <1>8, <1>9, <1>10

LEMMA StopMinting ==
  ASSUME Right, Right', Minting, NEW w \in Workers, Stop(w)
  PROVE  Minting'
<1>1. /\ sessions' = sessions /\ logins' = logins /\ End(w)
      /\ lost' = IF work[w] \in LoginJob THEN [lost EXCEPT ![work[w].user] = @ + 1] ELSE lost
  BY DEF Stop
<1>2. /\ work'[w].pc = "idle" /\ (\A v \in Workers \ {w} : work'[v] = work[v])
      /\ work[w] \in Jobs /\ Env
  BY <1>1, RightParts DEF End, Idle
<1>3. \A u \in Users : lost[u] \in Nat /\ lost'[u] \in Nat
  BY RightParts, RightPartsNext DEF Env
<1>4. CASE work[w].pc \notin Busy
  <2>1. \A u \in Users : lost'[u] >= lost[u]
    <3>1. CASE work[w] \in LoginJob
      <4>1. lost' = [lost EXCEPT ![work[w].user] = @ + 1] /\ work[w].user \in Users
        BY <1>1, <3>1, LoginFields
      <4>2. \A u \in Users : lost'[u] = IF u = work[w].user THEN lost[u] + 1 ELSE lost[u]
        BY <1>2, <4>1 DEF Env
      <4> QED
        BY <1>3, <4>2
    <3>2. CASE work[w] \notin LoginJob
      BY <1>1, <1>3, <3>2
    <3> QED
      BY <3>1, <3>2
  <2> QED
    BY <1>1, <1>2, <1>4, <2>1, QuietMinting, SameRows DEF Busy
<1>5. CASE work[w].pc \in Busy
  <2>1. work[w] \in LoginJob /\ work[w].user \in Users /\ work[w].rid \in Rids
    BY <1>5, Doing, LoginFields DEF Busy, LoginPcs
  <2>2. \A u \in Users : lost'[u] = IF u = work[w].user THEN lost[u] + 1 ELSE lost[u]
    BY <1>1, <1>2, <2>1 DEF Env
  <2> SUFFICES ASSUME NEW u \in Users, NEW x \in Rids PROVE Owed(u, x)'
    BY DEF Minting
  <2>3. Owed(u, x) /\ Minted(u, x)' = Minted(u, x)
    BY <1>1, SameRows, SameMinted DEF Minting
  <2>4. CASE ~ (u = work[w].user /\ x = work[w].rid)
    <3>1. /\ Past(u, x, {"issued"})' = Past(u, x, {"issued"})
          /\ Past(u, x, {"accepted", "issuing"})' = Past(u, x, {"accepted", "issuing"})
      BY <1>2, <2>4 DEF Past
    <3>2. lost'[u] >= lost[u]
      BY <1>3, <2>2
    <3> QED
      BY <1>1, <2>3, <3>1, <3>2, SameOwed
  <2>5. CASE u = work[w].user /\ x = work[w].rid
    <3> DEFINE m == Cardinality(Minted(u, x))
               Iss == Past(u, x, {"issued"})
               Mid == Past(u, x, {"accepted", "issuing"})
               iss == Cardinality(Iss)
               mid == Cardinality(Mid)
               iss1 == Cardinality(Iss \ {w})
               mid1 == Cardinality(Mid \ {w})
               k == Cardinality(Workers)
    <3>1. /\ m \in Nat /\ iss \in Nat /\ mid \in Nat /\ k \in Nat /\ lost[u] \in Nat
          /\ IsFiniteSet(Iss) /\ IsFiniteSet(Mid)
      BY <1>2, Counts
    <3>2. Past(u, x, {"issued"})' = Iss \ {w}
      BY <1>2 DEF Past
    <3>3. Past(u, x, {"accepted", "issuing"})' = Mid \ {w}
      BY <1>2 DEF Past
    <3>4. lost'[u] = lost[u] + 1
      BY <2>2, <2>5
    <3>5. IF logins[<<u, x>>] = 0 THEN m <= iss + lost[u] ELSE m + mid <= k + lost[u]
      BY <2>3 DEF Owed
    <3>6. /\ iss1 = iss - 1 \/ iss1 = iss
          /\ mid1 = mid - 1 \/ mid1 = mid
      <4> HIDE DEF Iss, Mid
      <4> QED
        BY <3>1, FS_RemoveElement
    <3> HIDE DEF m, iss, mid, k, iss1, mid1
    <3>7. IF logins[<<u, x>>] = 0 THEN m <= iss1 + lost'[u] ELSE m + mid1 <= k + lost'[u]
      BY <3>1, <3>4, <3>5, <3>6
    <3>8. /\ Cardinality(Minted(u, x)') = m
          /\ Cardinality(Past(u, x, {"issued"})') = iss1
          /\ Cardinality(Past(u, x, {"accepted", "issuing"})') = mid1
      BY <2>3, <3>2, <3>3 DEF m, iss1, mid1
    <3> QED
      BY <1>1, <3>7, <3>8 DEF Owed, k
  <2> QED
    BY <2>4, <2>5
<1> QED
  BY <1>4, <1>5

LEMMA LoginMinting ==
  ASSUME Right, Right', Minting, NEW w \in Workers, LoginStep(w)
  PROVE  Minting'
<1>1. \A v \in Workers \ {w} : work'[v] = work[v]
  BY LoginShape
<1>2. work[w] \in Jobs /\ work \in [Workers -> Jobs]
  BY RightParts
<1>3. CASE \E u \in Users, x \in Rids, right \in BOOLEAN : Arrive(w, u, x, right)
  <2>1. /\ work[w].pc = "idle" /\ work'[w].pc = "stamped"
        /\ sessions' = sessions /\ logins' = logins /\ lost' = lost
    BY <1>2, <1>3 DEF Arrive, At, loginVars
  <2> QED
    BY <1>1, <2>1, OneQuiet, SameRows DEF Busy
<1>4. CASE ReadUser(w)
  <2>1. work[w] \in LoginJob /\ work[w].pc = "stamped"
    BY <1>4, Doing DEF ReadUser, At, LoginPcs
  <2>2. /\ work'[w].pc = "read"
        /\ sessions' = sessions /\ logins' = logins /\ lost' = lost
    BY <1>2, <1>4, <2>1 DEF ReadUser, loginVars, LoginJob
  <2> QED
    BY <1>1, <2>1, <2>2, OneQuiet, SameRows DEF Busy
<1>5. CASE Decide(w)
  <2>1. /\ work[w] \in LoginJob /\ work[w].pc = "read"
        /\ sessions' = sessions /\ logins' = logins /\ lost' = lost
    BY <1>5, Doing DEF Decide, At, LoginPcs
  <2>2. End(w) \/ To(w, "locking") \/ To(w, "verified") \/ To(w, "failing")
    BY <1>5 DEF Decide
  <2>3. work'[w].pc \in {"idle", "locking", "verified", "failing"}
    BY <1>2, <2>1, <2>2 DEF End, To, Idle, LoginJob
  <2> QED
    BY <1>1, <2>1, <2>3, OneQuiet, SameRows DEF Busy
<1>6. CASE Lock(w)
  <2>1. /\ work[w] \in LoginJob /\ work[w].pc = "locking"
        /\ sessions' = sessions /\ logins' = logins /\ lost' = lost
    BY <1>6, Doing DEF Lock, At, LoginPcs
  <2>2. work'[w].pc = "failing"
    BY <1>2, <1>6, <2>1 DEF Lock, To, LoginJob
  <2> QED
    BY <1>1, <2>1, <2>2, OneQuiet, SameRows DEF Busy
<1>7. CASE RecordFailure(w)
  <2>1. /\ work[w].pc = "failing" /\ work'[w].pc = "idle"
        /\ sessions' = sessions /\ logins' = logins /\ lost' = lost
    BY <1>2, <1>7 DEF RecordFailure, At, End, Idle
  <2> QED
    BY <1>1, <2>1, OneQuiet, SameRows DEF Busy
<1> QED
  BY <1>3, <1>4, <1>5, <1>6, <1>7, LookupMinting, UnlockedMinting, IssueMinting,
     StoreMinting DEF LoginStep

\* All other requests.
LEMMA OtherMinting ==
  ASSUME Right, Right', Minting, NEW w \in Workers,
         UnlockStep(w) \/ AuthStep(w) \/ AdminStep(w)
  PROVE  Minting'
<1>1. logins' = logins /\ lost' = lost
  BY DEF UnlockStep, AuthStep, AdminStep, AskUnlock, LiftLock, ForgetFailures, Present, Find,
     Check, LoadUser, LoadRoles, LoadPermissions, Bump, Handle, AskUpdate, LoadEdited, Edit,
     Drop, Add, Answer, loginVars
<1>2. ASSUME work[w].pc \in Busy
      PROVE  FALSE
  BY <1>2 DEF UnlockStep, AuthStep, AdminStep, AskUnlock, LiftLock, ForgetFailures, Present,
     Find, Check, LoadUser, LoadRoles, LoadPermissions, Bump, Handle, AskUpdate, LoadEdited,
     Edit, Drop, Add, Answer, At, Busy
<1>3. work \in [Workers -> Jobs] /\ work[w] \in Jobs
  BY RightParts
<1>4. CASE UnlockStep(w)
  <2>1. /\ \A v \in Workers \ {w} : work'[v] = work[v]
        /\ sessions' = sessions
    BY <1>4, LoginShape DEF UnlockStep, AskUnlock, LiftLock, ForgetFailures, loginVars
  <2>2. work'[w].pc \in {"unlocking", "unlocked", "idle"}
    <3>1. CASE \E u \in Users : AskUnlock(w, u)
      BY <1>3, <3>1 DEF AskUnlock
    <3>2. CASE LiftLock(w)
      <4>1. work[w] \in UnlockJob
        BY <3>2, Doing DEF LiftLock, At
      <4> QED
        BY <1>3, <3>2, <4>1 DEF LiftLock, To, UnlockJob
    <3>3. CASE ForgetFailures(w)
      BY <1>3, <3>3 DEF ForgetFailures, End, Idle
    <3> QED
      BY <1>4, <3>1, <3>2, <3>3 DEF UnlockStep
  <2>3. work'[w].pc \notin Busy
    BY <2>2 DEF Busy
  <2> QED
    BY <1>1, <1>2, <2>1, <2>3, OneQuiet, SameRows
<1>5. CASE AuthStep(w)
  <2>1. /\ \A v \in Workers \ {w} : work'[v] = work[v]
        /\ work'[w].pc \in AuthPcs \cup {"idle"}
    <3>1. CASE \E s \in DOMAIN sessions, logout \in BOOLEAN : Present(w, s, logout)
      BY <1>3, <3>1 DEF Present, AuthPcs
    <3>2. ASSUME Find(w) \/ Check(w) \/ LoadUser(w) \/ LoadRoles(w) \/ LoadPermissions(w)
                 \/ Bump(w) \/ Handle(w)
          PROVE  work[w] \in AuthJob
      BY <3>2, Doing DEF Find, Check, LoadUser, LoadRoles, LoadPermissions, Bump, Handle, At,
         AuthPcs
    <3>3. CASE Find(w)
      BY <1>3, <3>2, <3>3 DEF Find, AuthPcs, AuthJob
    <3>4. CASE Check(w)
      BY <1>3, <3>2, <3>4 DEF Check, End, Idle, AuthPcs, AuthJob
    <3>5. CASE LoadUser(w)
      BY <1>3, <3>2, <3>5 DEF LoadUser, End, To, Idle, AuthPcs, AuthJob
    <3>6. CASE LoadRoles(w)
      BY <1>3, <3>2, <3>6 DEF LoadRoles, AuthPcs, AuthJob
    <3>7. CASE LoadPermissions(w)
      BY <1>3, <3>2, <3>7 DEF LoadPermissions, AuthPcs, AuthJob
    <3>8. CASE Bump(w)
      BY <1>3, <3>2, <3>8 DEF Bump, To, AuthPcs, AuthJob
    <3>9. CASE Handle(w)
      BY <1>3, <3>9 DEF Handle, End, Idle
    <3> QED
      BY <1>5, <3>1, <3>3, <3>4, <3>5, <3>6, <3>7, <3>8, <3>9 DEF AuthStep
  <2>2. Grows(sessions, sessions') /\ DOMAIN sessions' = DOMAIN sessions
    <3>1. CASE Bump(w)
      BY <3>1, BumpRows
    <3>2. CASE Handle(w)
      BY <3>2, HandleRows
    <3>3. CASE ~ Bump(w) /\ ~ Handle(w)
      <4>1. sessions' = sessions
        BY <1>5, <3>3 DEF AuthStep, Present, Find, Check, LoadUser, LoadRoles,
           LoadPermissions, loginVars
      <4> QED
        BY <4>1, SameRows
    <3> QED
      BY <3>1, <3>2, <3>3
  <2>3. work'[w].pc \notin Busy
    BY <2>1 DEF AuthPcs, Busy
  <2> QED
    BY <1>1, <1>2, <2>1, <2>2, <2>3, OneQuiet
<1>6. CASE AdminStep(w) /\ ~ \E a \in Updates : AskUpdate(w, a)
  <2>1. /\ \A v \in Workers \ {w} : work'[v] = work[v]
        /\ work'[w].pc \in AdminPcs \cup {"idle"} /\ sessions' = sessions
    BY <1>6, AdminShape DEF AdminStep
  <2>2. work'[w].pc \notin Busy
    BY <2>1 DEF AdminPcs, Busy
  <2> QED
    BY <1>1, <1>2, <2>1, <2>2, OneQuiet, SameRows
<1>7. ASSUME NEW a \in Updates, AskUpdate(w, a)
      PROVE  Minting'
  <2>1. a \in Update
    BY SessionsAssumption
  <2>2. sessions' = sessions
    BY <1>7 DEF AskUpdate, loginVars
  <2>3. ASSUME NEW v \in Workers
        PROVE  \/ work'[v] = work[v]
               \/ work[v].pc \notin Busy /\ work'[v].pc \notin Busy
    <3>1. CASE v = w
      <4>1. work'[v] = NewEdit(w, a)
        BY <1>7, <2>1, <3>1, AskedWork
      <4> QED
        BY <1>2, <3>1, <4>1 DEF NewEdit, Busy
    <3>2. CASE v # w /\ Updating(v, a.of)
      <4>1. work'[v].pc = work[v].pc /\ work[v] \in AdminJob
        BY <1>7, <2>1, <3>2, AskedWork DEF Updating
      <4> QED
        BY <4>1, AdminFields DEF AdminPcs, Busy
    <3>3. CASE v # w /\ ~ Updating(v, a.of) /\ work[v] \in AuthJob
      <4>1. work'[v] = Extended(work[v], given', mayActive')
        BY <1>7, <2>1, <3>3, AskedWork
      <4>2. work[v].seen.user \in Users
        BY <3>3, Asks, AuthFields
      <4>3. /\ \A u \in Users : given'[u] \subseteq Roles
            /\ \A r \in Roles : given'[r] \subseteq Perms
        BY RightPartsNext DEF Env, GivenFine
      <4>4. work'[v].pc = work[v].pc
        BY <3>3, <4>1, <4>2, <4>3, ExtendedFields
      <4> QED
        BY <3>3, <4>4, AuthFields DEF AuthPcs, Busy
    <3>4. CASE v # w /\ ~ Updating(v, a.of) /\ work[v] \notin AuthJob
      BY <1>7, <2>1, <3>4, AskedWork
    <3> QED
      BY <3>1, <3>2, <3>3, <3>4
  <2>4. \A u \in Users : lost'[u] >= lost[u]
    BY <1>1, RightParts DEF Env
  <2> QED
    BY <1>1, <2>2, <2>3, <2>4, QuietMinting, SameRows
<1> QED
  BY <1>4, <1>5, <1>6, <1>7

\* No request moves.
LEMMA StillMinting ==
  ASSUME Right, Right', Minting, work' = work, logins' = logins, lost' = lost,
         Grows(sessions, sessions'), DOMAIN sessions' = DOMAIN sessions
  PROVE  Minting'
<1>1. \A u \in Users : lost'[u] >= lost[u]
  BY RightParts DEF Env
<1> QED
  BY <1>1, QuietMinting

LEMMA MintingStep == Right /\ Minting /\ [Next]_vars => (Right /\ Minting)'
<1> SUFFICES ASSUME Right, Minting, [Next]_vars PROVE Right' /\ Minting'
  OBVIOUS
<1>1. Right'
  BY RightStep
<1>2. ASSUME NEW w \in Workers, LoginStep(w)
      PROVE  Minting'
  BY <1>1, <1>2, LoginMinting
<1>3. ASSUME NEW w \in Workers, UnlockStep(w) \/ AuthStep(w) \/ AdminStep(w)
      PROVE  Minting'
  BY <1>1, <1>3, OtherMinting
<1>4. ASSUME NEW w \in Workers, Stop(w)
      PROVE  Minting'
  BY <1>1, <1>4, StopMinting
<1>5. ASSUME UNCHANGED vars
      PROVE  Minting'
  <2>1. work' = work /\ logins' = logins /\ lost' = lost /\ sessions' = sessions
    BY <1>5 DEF vars, loginVars
  <2> QED
    BY <1>1, <2>1, StillMinting, SameRows
<1>6. ASSUME NEW w \in Workers, TurnAway(w)
      PROVE  Minting'
  BY <1>5, <1>6 DEF TurnAway
<1>7. ASSUME Reap
      PROVE  Minting'
  BY <1>1, <1>7, ReapRows, StillMinting DEF Reap
<1>8. ASSUME Tick
      PROVE  Minting'
  <2>1. work' = work /\ logins' = logins /\ lost' = lost /\ sessions' = sessions
    BY <1>8 DEF Tick, loginVars
  <2> QED
    BY <1>1, <2>1, StillMinting, SameRows
<1> QED
  BY <1>1, <1>2, <1>3, <1>4, <1>5, <1>6, <1>7, <1>8 DEF Next

LEMMA InitMinting == Init => Minting
<1> SUFFICES ASSUME Init, NEW u \in Users, NEW x \in Rids PROVE Owed(u, x)
  BY DEF Minting
<1>1. Env
  BY InitRight, RightParts
<1>2. sessions = <<>> /\ logins = [k \in Users \X Rids |-> 0]
  BY DEF Init, LoginInit
<1>3. logins[<<u, x>>] = 0
  BY <1>2
<1>4. Minted(u, x) = {}
  BY <1>2 DEF Minted
<1>5. Cardinality(Minted(u, x)) = 0
  BY <1>4, FS_EmptySet
<1>6. Cardinality(Past(u, x, {"issued"})) \in Nat /\ lost[u] \in Nat
  BY <1>1, Counts
<1>7. Cardinality(Minted(u, x)) <= Cardinality(Past(u, x, {"issued"})) + lost[u]
  BY <1>5, <1>6
<1> QED
  BY <1>3, <1>7 DEF Owed

\* However often a login is sent with one request id, at most one session for
\* each worker and for each request that failed comes of it: the stored response
\* is looked for before, and stored after, the session is issued
\* (handlers/auth.rs, login).
THEOREM MintingHolds == Spec => []MintedPerLogin
<1>1. Right /\ Minting => MintedPerLogin
  <2> SUFFICES ASSUME Right, Minting, NEW u \in Users, NEW x \in Rids
               PROVE  Cardinality(Minted(u, x)) <= Cardinality(Workers) + lost[u]
    BY DEF MintedPerLogin
  <2> DEFINE m == Cardinality(Minted(u, x))
             iss == Cardinality(Past(u, x, {"issued"}))
             mid == Cardinality(Past(u, x, {"accepted", "issuing"}))
             k == Cardinality(Workers)
  <2>1. m \in Nat /\ iss \in Nat /\ mid \in Nat /\ k \in Nat /\ lost[u] \in Nat
    BY RightParts, Counts
  <2>2. iss <= k
    BY RightParts, Counts, FS_Subset
  <2>3. m <= iss + lost[u] \/ m + mid <= k + lost[u]
    BY DEF Minting, Owed
  <2> HIDE DEF m, iss, mid, k
  <2>4. m <= k + lost[u]
    BY <2>1, <2>2, <2>3
  <2> QED
    BY <2>4 DEF m, k
<1> QED
  BY <1>1, InitRight, InitMinting, MintingStep, PTL DEF Spec
=============================================================================
