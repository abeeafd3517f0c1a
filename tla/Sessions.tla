-------------------------------- MODULE Sessions --------------------------------
(***************************************************************************)
(* What a session is good for: the Authenticate middleware                 *)
(* (middleware/auth.rs) that every request with a token goes through,      *)
(* logout, the reaper's revocation, and the administrator's updates of     *)
(* users, of their roles and of the roles' permissions (handlers/admin.rs),*)
(* each of which deletes the old rows and inserts the new ones in          *)
(* statements of their own.  Logging in and unlocking are Login.tla.       *)
(*                                                                         *)
(* A handler behind the middleware is one step, except logout.  The gate   *)
(* in front of the administrator's writes and of logout is                 *)
(* Idempotency.tla's and not repeated.  Users and roles exist throughout.  *)
(***************************************************************************)
EXTENDS Login

CONSTANTS
  Roles, Perms,
  Idle8h,        \* IDLE_TIMEOUT_SECS
  Granted,       \* the roles of each user and permissions of each role at first
  Updates        \* bound: the updates the administrator may ask for

Subjects == Users \cup Roles

\* update_user: which is_active and which roles, if the body names them;
\* update_role: which permissions.
Update ==
  [of : Users, active : {"yes", "no", "kept"}, names : BOOLEAN, set : SUBSET Roles]
    \cup [of : Roles, active : {"kept"}, names : {TRUE}, set : SUBSET Perms]

ASSUME SessionsAssumption ==
  /\ Users \cap Roles = {}
  /\ Idle8h \in Nat
  /\ Granted \in [Subjects -> SUBSET (Roles \cup Perms)]
  /\ \A u \in Users : Granted[u] \subseteq Roles
  /\ \A r \in Roles : Granted[r] \subseteq Perms
  /\ Updates \subseteq Update

VARIABLES
  grants,     \* user_roles and role_permissions
  used,       \* history: pairs of a session and the stamp of a request let in
  given,      \* history: what the last answered update gave each subject, and
              \* what those not answered may have
  mayActive   \* history: users likewise active

vars == <<now, loginVars, work, budget, grants, used, given, mayActive>>

access  == <<grants, given, mayActive>>

\* ended: the session was revoked or past its end when the request came in.
\* mayRoles, mayPerms, mayIn: what the user had been given then, or has been
\* since.
AuthJob ==
  [pc : {"presented", "found", "valid", "known", "roles", "authorised", "in"},
   session : Nat \ {0}, logout : BOOLEAN, seen : Session, stamp : Times,
   roles : SUBSET Roles, perms : SUBSET Perms, ended : BOOLEAN,
   mayRoles : SUBSET Roles, mayPerms : SUBSET Perms, mayIn : BOOLEAN]

\* alone: no other update of the same subject overlapped.
AdminJob ==
  [pc : {"editing", "edited", "dropping", "adding", "updated"}, update : Update,
   was : BOOLEAN, left : SUBSET (Roles \cup Perms), alone : BOOLEAN]

TypeOK ==
  /\ LoginTypeOK
  /\ work \in [Workers -> {Idle} \cup LoginJob \cup UnlockJob \cup AuthJob \cup AdminJob]
  /\ \A w \in Workers : work[w] \in AuthJob => work[w].session \in DOMAIN sessions
  /\ grants \in [Subjects -> SUBSET (Roles \cup Perms)]
  /\ \A u \in Users : grants[u] \subseteq Roles
  /\ \A r \in Roles : grants[r] \subseteq Perms
  /\ used \subseteq (DOMAIN sessions) \X Times
  /\ given \in [Subjects -> SUBSET (Roles \cup Perms)]
  /\ mayActive \subseteq Users

Init ==
  /\ LoginInit
  /\ grants = Granted
  /\ used = {}
  /\ given = Granted
  /\ mayActive = Users

-----------------------------------------------------------------------------
(* Authenticate *)

GivenPerms(g, rs) == UNION {g[r] : r \in rs}

Present(w, s, logout) ==
  LET row == sessions[s]
      u == row.user
  IN  /\ At(w, "idle")
      /\ Spend(IF logout THEN "logout" ELSE "use")
      /\ work' = [work EXCEPT ![w] =
           [pc |-> "presented", session |-> s, logout |-> logout, seen |-> row,
            stamp |-> 0, roles |-> {}, perms |-> {},
            ended |-> row.revoked \/ now > row.expires,
            mayRoles |-> given[u], mayPerms |-> GivenPerms(given, given[u]),
            mayIn |-> u \in mayActive]]
      /\ UNCHANGED <<now, loginVars, access, used>>

\* lookup_by_raw
Find(w) ==
  /\ At(w, "presented")
  /\ work' = [work EXCEPT ![w].pc = "found", ![w].seen = sessions[work[w].session]]
  /\ UNCHANGED <<now, loginVars, budget, access, used>>

IdleExpired(row, t) == t > row.last + Idle8h

\* The row as it was found, against a clock read afterwards.
Check(w) ==
  LET row == work[w].seen
  IN  /\ At(w, "found")
      /\ IF row.revoked \/ now > row.expires \/ IdleExpired(row, now)
           THEN End(w)
           ELSE work' = [work EXCEPT ![w].pc = "valid", ![w].stamp = now]
      /\ UNCHANGED <<now, loginVars, budget, access, used>>

LoadUser(w) ==
  /\ At(w, "valid")
  /\ IF users[work[w].seen.user].active THEN To(w, "known") ELSE End(w)
  /\ UNCHANGED <<now, loginVars, budget, access, used>>

\* load_roles_and_permissions: two queries.
LoadRoles(w) ==
  /\ At(w, "known")
  /\ work' = [work EXCEPT ![w].pc = "roles", ![w].roles = grants[work[w].seen.user]]
  /\ UNCHANGED <<now, loginVars, budget, access, used>>

LoadPermissions(w) ==
  /\ At(w, "roles")
  /\ work' = [work EXCEPT ![w].pc = "authorised",
                          ![w].perms = GivenPerms(grants, work[w].roles)]
  /\ UNCHANGED <<now, loginVars, budget, access, used>>

\* Bug: the session is saved as it was found.
BumpedWhole(row, seen, stamp) == [seen EXCEPT !.last = stamp]

Bumped(row, seen, stamp) == [row EXCEPT !.last = stamp]

\* bump_activity writes the stamp of the check; the handler is called.
Bump(w) ==
  LET s == work[w].session
  IN  /\ At(w, "authorised")
      /\ sessions' = [sessions EXCEPT ![s] = Bumped(@, work[w].seen, work[w].stamp)]
      /\ used' = used \cup {<<s, work[w].stamp>>}
      /\ To(w, "in")
      /\ UNCHANGED <<now, users, failures, logins, budget, guesses, lost, access>>

\* The handler; that of logout revokes the session.
Handle(w) ==
  /\ At(w, "in")
  /\ sessions' = IF work[w].logout
                   THEN [sessions EXCEPT ![work[w].session].revoked = TRUE]
                   ELSE sessions
  /\ End(w)
  /\ UNCHANGED <<now, users, failures, logins, budget, guesses, lost, access, used>>

AuthStep(w) ==
  \/ \E s \in DOMAIN sessions, logout \in BOOLEAN : Present(w, s, logout)
  \/ Find(w) \/ Check(w) \/ LoadUser(w) \/ LoadRoles(w) \/ LoadPermissions(w)
  \/ Bump(w) \/ Handle(w)

\* reap_once's second statement.
Reap ==
  LET due == {s \in DOMAIN sessions : ~ sessions[s].revoked /\ sessions[s].expires < now}
  IN  /\ due # {}
      /\ sessions' = [s \in DOMAIN sessions |->
                        [sessions[s] EXCEPT !.revoked = @ \/ s \in due]]
      /\ UNCHANGED <<now, users, failures, logins, guesses, lost, work, budget,
                     access, used>>

-----------------------------------------------------------------------------
(* update_user, update_role *)

Updating(v, x) == work[v] \in AdminJob /\ work[v].update.of = x

Authenticating(v) == work[v] \in AuthJob

\* Requests that are being let in while something is given.
Extended(j, g, active) ==
  LET u  == j.seen.user
      rs == j.mayRoles \cup g[u]
  IN  [j EXCEPT !.mayRoles = rs,
                !.mayPerms = @ \cup GivenPerms(g, rs),
                !.mayIn = @ \/ u \in active]

AskUpdate(w, a) ==
  LET x == a.of
  IN  /\ At(w, "idle")
      /\ Spend("admin")
      /\ given' = IF a.names THEN [given EXCEPT ![x] = @ \cup a.set] ELSE given
      /\ mayActive' = IF a.active = "yes" THEN mayActive \cup {x} ELSE mayActive
      /\ work' = [v \in Workers |->
           IF v = w
             THEN [pc |-> IF x \in Users THEN "editing" ELSE "dropping",
                   update |-> a, was |-> FALSE, left |-> a.set,
                   alone |-> ~ \E o \in Workers : Updating(o, x)]
           ELSE IF Updating(v, x) THEN [work[v] EXCEPT !.alone = FALSE]
           ELSE IF Authenticating(v) THEN Extended(work[v], given', mayActive')
           ELSE work[v]]
      /\ UNCHANGED <<now, loginVars, grants, used>>

\* update_user loads the row ...
LoadEdited(w) ==
  /\ At(w, "editing")
  /\ work' = [work EXCEPT ![w].pc = "edited", ![w].was = users[work[w].update.of].active]
  /\ UNCHANGED <<now, loginVars, budget, access, used>>

\* ... and writes is_active from it if the body does not say.
Edit(w) ==
  LET a == work[w].update
  IN  /\ At(w, "edited")
      /\ users' = [users EXCEPT ![a.of].active =
                     IF a.active = "kept" THEN work[w].was ELSE a.active = "yes"]
      /\ To(w, IF a.names THEN "dropping" ELSE "updated")
      /\ UNCHANGED <<now, failures, sessions, logins, budget, guesses, lost, access, used>>

\* Bug: the old rows stay.
DropNothing(w) ==
  /\ At(w, "dropping")
  /\ To(w, "adding")
  /\ UNCHANGED <<now, loginVars, budget, access, used>>

Drop(w) ==
  /\ At(w, "dropping")
  /\ grants' = [grants EXCEPT ![work[w].update.of] = {}]
  /\ To(w, "adding")
  /\ UNCHANGED <<now, loginVars, budget, given, mayActive, used>>

\* One INSERT .. ON CONFLICT DO NOTHING for each.
Add(w) ==
  /\ At(w, "adding")
  /\ \E g \in work[w].left :
       /\ grants' = [grants EXCEPT ![work[w].update.of] = @ \cup {g}]
       /\ work' = [work EXCEPT ![w].left = @ \ {g}]
  /\ UNCHANGED <<now, loginVars, budget, given, mayActive, used>>

\* The row is reloaded, audited and recorded; the administrator is answered.
Answer(w) ==
  LET a == work[w].update
  IN  /\ \/ At(w, "updated")
         \/ At(w, "adding") /\ work[w].left = {}
      /\ given' = IF a.names /\ work[w].alone THEN [given EXCEPT ![a.of] = a.set] ELSE given
      /\ mayActive' = IF a.active = "no" /\ work[w].alone
                        THEN mayActive \ {a.of} ELSE mayActive
      /\ End(w)
      /\ UNCHANGED <<now, loginVars, budget, grants, used>>

AdminStep(w) ==
  \/ \E a \in Updates : AskUpdate(w, a)
  \/ LoadEdited(w) \/ Edit(w) \/ Drop(w) \/ Add(w) \/ Answer(w)

-----------------------------------------------------------------------------
(* All of it *)

\* The rate limiter has no token, the header or the token is missing, or
\* nobody has that token.
TurnAway(w) ==
  /\ At(w, "idle")
  /\ UNCHANGED vars

\* A statement fails or the process stops: what is committed stays.
Stop(w) ==
  /\ ~ At(w, "idle")
  /\ Spend("fail")
  /\ lost' = IF work[w] \in LoginJob THEN [lost EXCEPT ![work[w].user] = @ + 1] ELSE lost
  /\ End(w)
  /\ UNCHANGED <<now, users, failures, sessions, logins, guesses, access, used>>

Next ==
  \/ \E w \in Workers :
        \/ LoginStep(w) /\ UNCHANGED <<access, used>>
        \/ UnlockStep(w) /\ UNCHANGED <<access, used>>
        \/ AuthStep(w) \/ AdminStep(w)
        \/ TurnAway(w) \/ Stop(w)
  \/ Reap
  \/ Tick /\ UNCHANGED <<access, used>>

Spec == Init /\ [][Next]_vars

-----------------------------------------------------------------------------
(* Properties *)

\* A session serves no request that comes in after it was revoked or past its
\* end, and it carries on only from use to use: each request let in was checked
\* no later than the timeout after its login or after another let in before,
\* whatever overlaps with it and in whatever order the stamps are written.
UseWithinLimits ==
  /\ \A w \in Workers : At(w, "in") => ~ work[w].ended
  /\ \A s \in DOMAIN sessions, t \in Times : <<s, t>> \in used =>
        \/ t <= sessions[s].created + Idle8h
        \/ \E b \in Times : <<s, b>> \in used /\ b < t /\ t <= b + Idle8h

\* Nobody is let in after the answer that deactivated them, nor with a
\* permission taken away before they came: what a request finds is what the
\* last answered update gave, or one that was not answered yet - although roles
\* are read half replaced and updates fail half way.
NothingExtra ==
  \A w \in Workers : At(w, "in") =>
     work[w].mayIn /\ work[w].perms \subseteq work[w].mayPerms
=============================================================================
