# CivicOps in TLA+

CivicOps is an offline-first service for municipal facilities (`src/repo`, Rust:
actix-web, Diesel, PostgreSQL): lost-and-found items, an asset register,
volunteers' qualifications, photography packages, a notification centre and the
administration around them. These modules model the parts of it whose
correctness depends on the order of database statements, check them with TLC on
small instances and prove the most important facts with TLAPS for every
instance.

## How the program runs, and what is hard about it

* **Workers.** actix starts one thread per worker; a handler runs on its worker
  from start to end and blocks on every database call. Handlers of different
  workers interleave between any two statements. A background task
  (`services/reaper.rs`) runs beside them every 60 s.
* **Statements.** Every Diesel call is one statement that commits by itself, on a
  pooled connection (`db.rs`: 16 connections, 2 s timeout). The one transaction
  in the handlers is that of the bulk asset transition. An `UPDATE` names its
  row by id and nothing else: no version, no status, no row lock.
* **A write handler** is: permission, facility scope, load and validate,
  `idempotency::check_before`, the write, reload, `audit::write`,
  `notify::enqueue` (its error ignored), `idempotency::record_after`, answer.
  What was validated may have changed by the time of the write, and any
  statement after the write may fail with the write in place.
* **Clients** are offline devices that repeat requests with the same
  `X-Request-Id` until they are answered.

So the hard behaviours are: stale reads (all handlers), interleavings of the
gate with itself, partial failure between write, audit entry and record,
retries, expiry, deadlocks of the bulk transaction, the relay that reports
deliveries late or twice, caps and thresholds that are counted before they are
filled, files removed outside any transaction, and requests that are let in on
rows that change while they are checked.

## Inventory

| component | code | state | operations | interacts with | what makes it correct |
|---|---|---|---|---|---|
| Idempotency gate, reaper | `middleware/idempotency.rs`, `services/reaper.rs` | `idempotency_keys` | check_before, record_after, login's lookup/store, reap_once | every write handler | a recorded response is kept, replayed to its owner only, never executed again; expired rows go |
| Lost and found | `handlers/lost_found.rs` | `lost_found_items`, audit entries | create, update, submit, approve, bounce, unpublish, republish, delete | gate, audit, outbox, attachments | review cannot be skipped; audit snapshots are true |
| Assets | `handlers/assets.rs` | `assets`, `asset_events`, `maintenance_records` | create, transition, bulk transition, maintenance | gate, audit, attachments | moves follow the lifecycle; history agrees with the state |
| Notification outbox | `handlers/notifications.rs`, `services/notify.rs` | `notifications`, `outbox_deliveries`, `notification_subscriptions` | enqueue, dispatch, export, import-results, subscriptions | handlers that trigger, the external relay | each failure counts once; nothing delivered is sent again; every delivery ends |
| Notification templates, inbox | same | templates, read marks | CRUD, mark read | enqueue renders | only allowed variables are saved |
| Attachments | `services/attachments.rs` | `attachments`, `attachment_blobs` shared by hash, files | upload, delete, list | lost and found, assets | a row's file exists; what nobody refers to goes; caps hold |
| Authentication, sessions | `handlers/auth.rs`, `middleware/auth.rs`, `services/{session,password,rate_limit}.rs` | `users`, `login_attempts`, `sessions`, rate buckets | login, logout, change password, authenticate, expiry | reaper, administration | lockout after five failures; an ended session stays ended; a retried login mints nothing |
| Packages | `handlers/packages.rs` | `packages`, `package_variants` | CRUD, publish, unpublish, variants | inventory, time slots | status moves; published means linked within the facility; at most 20 variants |
| Volunteers | `handlers/volunteers.rs`, `services/crypto.rs` | volunteers, qualifications | CRUD, masking | outbox | sensitive fields are masked |
| Administration | `handlers/admin.rs` | users, roles, permissions, facilities | CRUD, unlock, role replacement | authentication | nobody is let in with what was taken away |
| Authorisation | `middleware/{rbac,request_context}.rs` | none | pure checks | all handlers | - |
| Audit log | `services/audit.rs` | `audit_logs` | one INSERT | all handlers | append only |
| Observability | access log, metrics, diag, health | counters | - | - | - |
| Start-up | `main.rs`, `config.rs`, `db.rs`, `seed.rs`, ... | the pool | - | - | - |

## Modules

| module | what it is |
|---|---|
| `ReplayRegister` | abstract: a register per key, written once, replayed verbatim until it expires |
| `Idempotency` | the gate, the table, the reaper, the clock; a handler in between as one step |
| `LostFoundWorkflow` | abstract: the workflow of `docs/design.md`, each request at once |
| `LostFound` | the lost-and-found handlers, statement by statement |
| `AssetLifecycle` | abstract: states and moves, requests that move several assets at once |
| `Assets` | the asset handlers, statement by statement, with row locks for the bulk transaction |
| `Outbox` | enqueue, subscriptions, export, import, and the relay as an external party |
| `Attachments` | upload and delete: rows, the blob rows they share, the files |
| `Packages` | packages and variants: every route that writes |
| `Login` | login with lockout and replay, unlock; the table of sessions |
| `Sessions` | extends `Login`: the Authenticate middleware, logout, expiry, updates of users and roles |
| `IdempotencyProofs`, `LostFoundProofs`, `AssetsProofs`, `PackagesProofs`, `AttachmentsProofs`, `OutboxProofs`, `SessionsProofs`, `LoginProofs` | theorems |
| `MCIdempotency`, `MCLostFound`, `MCAssets`, `MCOutbox`, `MCAttachments`, `MCPackages`, `MCSessions` | instances for TLC: symmetry, rows to start from |

In each component module `work[w]` is the request that worker `w` has in hand:
`pc` says which statement is next, the other fields are the handler's local
variables (`seen` is the row as loaded, `after` the row as reloaded). One action
is one statement with the checks and assignments up to the next statement; a
check made on a local variable reads `seen`, never the table. `Stop` abandons a
request at any point and leaves what is committed - the statement that fails,
the pool that times out and the process that dies look the same in the
database, because nothing is resumed after a restart. `begun`, `stops` and the
like only count, for the bounds; in the modules that have a `budget`, each starting
state fixes how many requests of each kind, retries, failures and ticks there
may be, so that one run covers several kinds of traffic without their product.
In these modules `asked` numbers the requests, and a retry (`AskAgain`) brings the
number it had: the table of `Idempotency` is then the set of numbers recorded. Definitions under a comment that starts with
`Bug:` are mutations that the properties are tried against; nothing uses them.

**Idempotency.** `rows` is `idempotency_keys` as a function of its unique index
(user, request id, endpoint). `Foreign` and `Matches` are the two halves of
`lookup`, `Insert` is `INSERT .. ON CONFLICT DO NOTHING`, which does not look at
expiry. A request's `spell` says whether its path is spelled as `record_after`
will store it. `Reap` is the DELETE; `Tick` the clock.

**LostFound.** A row keeps its status, whether event date and time would pass the
checks of `submit`, whether a bounce reason is set, and one value for all other
contents. `Edited` writes all content columns, those the body does not name from
the row loaded - as the code does. The status check (`Load`) comes before the
gate here. `held` is history.

**Assets.** A row keeps its status and the state a count will go back to. The bulk
route fetches and validates outside the transaction (`Fetch`), then locks row
after row (`InTx`) and publishes everything at `Commit`; `Holders` are the row
locks and single updates wait for them. Which order the rows are locked in is
left open. `Abort` is PostgreSQL's deadlock detector. `Refuse` are the errors that come
after the gate: a creation whose facility is not found, a move that is not allowed.

**Outbox.** `row` is `outbox_deliveries`: status and attempt count. `Failed` and
`Applied` are the two UPDATEs of `import_results`. The relay (`hand`, `batch`) is
external: it takes one attempt at a time at a delivery, has one report open at a
time and repeats it until it is answered, also while the server may be at work on
it (`doubled` notes that). Scope and permissions are taken as given, as in the
other modules; next_attempt_at is left out, because the export does not use it:
the relay may retry when it likes.

**Attachments.** A row names its item and a content; a content stands for a hash
within a facility, so `blobs[c]` is the `attachment_blobs` row (its reference count)
and `files` says whether the file is there. `Count` and `Sum` are the two caps,
`FindBlob` the look for the hash, then either `WriteFile` and `InsertBlob` or nothing,
`Refer` the count, `InsertRow` the attachment, which the foreign key of the schema
refuses when the blob row has gone. A deletion takes the row (`DeleteRow`), the
count (`Unrefer`), reads the count again (`ReadBlob`) and removes file and blob row
one after the other. `clashed`, `torn` and `left` are history: contents for which a
deletion overlapped an upload or its own repetition, whose file went while the
blob row stayed, and on which a request stopped. Both parents of attachments,
items and assets, go through the same code; the model has the routes of the items.

**Packages.** A row keeps its status and one value for all else; a variant its key
and where its inventory item and its time slot are. `AllowedFirst` is what
`unpublish_package` asks before the gate, `Validate` what `publish_package` asks after
it, with the links of the variants; `Insert` meets the unique index and the
foreign key and `Delete` cascades, as in the migrations. `Changed` reads a null in the
body as absent, as serde does here. `trusted` and a job's `clean` say whether a
variant was written since a publication read them; `denied` notes the requests
answered with an error although their response was on record when they came.

**Login.** `Arrive` takes the stamp, `ReadUser` loads the row, `Decide` counts the
failures of the window and goes through the handler's checks in their order, on
the row loaded; `Lock` and `RecordFailure` are two statements, `Lookup`, `Unlocked`,
`Issue` and `Store` are the four of a success. `failures[u][t]` is `login_attempts` by
stamp. `guesses` counts the passwords compared, `lost` the requests that failed:
what an attacker learns and what the table knows differ.

**Sessions.** `Present` is a request with a token, `Find` .. `Bump` the statements of the
middleware, `Handle` the handler, which for logout revokes. `Reap` is the second
statement of the reaper. `update_user` loads (`LoadEdited`), writes `is_active` from what
it loaded (`Edit`), deletes the roles (`Drop`) and inserts them one by one (`Add`);
`update_role` does the last two for permissions. `given` and `mayActive` are what the
administrator has been told is in force, `mayRoles`, `mayPerms` and `mayIn` what that
was when a request came in, or has been since: a request that overlaps an update
may see either.

## Runs

| run | instance | shows |
|---|---|---|
| `idem_gate` | 2 users, 2 ids, 2 endpoints, 2 workers, failures | `RecordedKept`, `ReplayIsOwn`, `NoReexecution`; the table implements `ReplayRegister` |
| `idem_serial` | 2 users, 1 id, 2 endpoints, both spellings, 1 worker, failures | no second execution of a recorded request in the canonical spelling, expired rows are reaped |
| `idem_owner` (violation) | 2 users race with one id | the first of them is refused with 409 from then on |
| `lf_concurrent` | 1 item, 2 workers, 4 requests, failures | `LifecycleOrder`, `AuditTruthful` under every interleaving |
| `lf_serial` | 2 items, 1 worker, 5 requests | the handlers implement `LostFoundWorkflow`; the audit entries form a chain; a request sent again is not applied again |
| `lf_stale_move` (violation) | 1 item, 2 workers | a move the workflow does not have |
| `as_bulk` | 2 assets, 2 workers, 3 bulk transitions, failures | each move is legal from a row an earlier event left, the history ends at the state; deadlocks end and every request is answered |
| `as_serial` | 2 assets, 1 worker, all routes, 4 requests | implements `AssetLifecycle`; both trails agree; retries are replayed and not applied twice |
| `outbox` | 1 delivery, 2 workers, 3 failures or lost answers | attempts counted once, nothing delivered tried again, opt-out respected, every delivery ends |
| `attachments` | 2 items, 2 contents, 2 workers, 2 files and 3 bytes at most | the cap on files passed by less than the number of workers; files stay while referred to and go afterwards |
| `packages` | 1 package, 3 keys, 2 workers, 1 variant at most | status moves; publication on checked links; the cap on variants; retries answered |
| `sessions` | 2 users, 1 role, 1 id, 2 workers, clock to 4 | bound on guesses and on sessions per login; no use after the end; nobody has what was taken away |

**Bounds.** Two users, two ids and two endpoints are what it takes to confuse one
with another; two workers give every pair of handlers, and each property relates
at most two requests at work (a third would have to be stale with respect to two
others at once, which the properties do not tell apart from one). Two
executions or four to five requests let a key be executed, expire and be
executed again, and an item be created, submitted, bounced or approved and moved
once more. TTL is 1 or 2 units of a clock of 2 to 4: a row is alive, at its expiry
(`expires = now`, which the code treats as neither alive nor reapable) and past
it. Assets start from the states that are interesting (`Begin`): in `as_serial` on
the way to disposal, in a count, or not there yet, since four requests from INTAKE
would not reach a disposal; in `as_bulk` just taken in, from where three
transitions reach an assignment, a count and the way back, each possibly on a row
that another has moved since. `MaxAttempts` is 3 instead of 4 and
`MaxSends` 4, so that a delivery can fail, be retried, die and - if the counting
were wrong - be tried once too often. The caps are 2 files, 3 bytes and 1
variant, the threshold of the lockout 2: two workers can pass each of them
together, and a request more than that would be refused. The windows and timeouts
of a session are 1 and its life 3, so that it can be used, idle, used to its end
and be revoked by the reaper within 4 ticks. Nothing overlaps single and bulk
asset transitions in a run; that each event by itself is a move of the lifecycle is
proved for them (`MovesLegalHold`). The bounds stop new requests, never a request
in progress. No run turns deadlock checking off.

**Fairness.** `Idempotency`: `WF(Reap)`, the reaper's loop never ends and survives
failed passes (`reaper.rs:11-17`). `Assets`: `WF` of each worker's next statement -
a handler runs to its end on its own thread - where the database's detector is
what ends a deadlock; without it requests would hang. `Outbox`: `WF`
of the workers and of the relay, which is an assumption about the relay:
deliveries end only if somebody exports and reports them. Failures are bounded
there; with failures for ever nothing could be promised.

## Divergences

Two runs are expected to fail, each against a sentence of the documentation:

* `lf_stale_move`: `LegalMoves`. Two requests validated on the same row both
  write, the later one from whatever status the item has by then
  (`lost_found.rs:835`), against `docs/design.md:240`.
* `idem_owner`: `OwnerNotRefused`. The check for other users' rows is a read; two
  users who race with one id both get it stored and from then on `lookup`
  answers 409 to both (`idempotency.rs:119`), against `docs/design.md:234`: the
  owner's replay is to get the stored response verbatim.

The models show more places where code and documents part. They follow the code
in all of them, and the properties are stated so that they hold:

* two workers that pass the gate together both execute the request
  (`idempotency.rs:60`; `docs/questions.md:41`) - hence `OnceWhileRecorded` only for
  one worker (`NoReexecution`, of requests that come after the record, is of two);
* a stop between a write and its record makes the retry execute again
  (`idempotency.rs:79`);
* a path in another spelling is not recognised as the same request
  (`idempotency.rs:20`) and executed again - hence `spell` in `Bars`, which
  `NoReexecution` is made of, and in `OnceWhileRecorded`; both are checked beside
  such retries;
* an expired row that is not reaped yet keeps a new response off the record
  (`idempotency.rs:163`);
* an edit validated on a draft may land in review, and blank what submit had
  checked (`lost_found.rs:453`, `:169`);
* a retried lost-and-found transition gets 409 instead of its response, because
  the status is checked before the gate (`lost_found.rs:492`);
* a stop after a write leaves no audit entry (`lost_found.rs:845`), or, for a single
  asset transition, no event (`assets.rs:395`);
* of two overlapping transitions of an asset one may undo a disposal, which
  `docs/design.md:149` and `assets.rs:85` call terminal, or leave a count that the other
  has ended (`assets.rs:379`): the event logs the row that was loaded - hence
  `HistoryConnected` asks for a row the asset once had, not for the last one;
* maintenance records are not audited (`assets.rs:572`);
* an import that fails midway counts its failures again when it is repeated, and
  of two workers that import the same result at a time the later one may reopen a
  delivery already SENT (`notifications.rs:581`); the status FAILED of
  `docs/design.md:179` does not exist and the backoff is advice only
  (`notifications.rs:465`);
* a deletion that overlaps an upload of the same content, or its own repetition,
  can remove a file that an attachment still refers to (`attachments.rs:182-216`;
  `docs/api-spec.md:111` reclaims at `ref_count = 0` only) - hence `clashed`;
* a stop between the removal of a file and of its blob row leaves a row that later
  uploads of the content refer to, without a file (`attachments.rs:209`) - hence `torn`;
* overlapping requests pass the caps on attachments and on variants
  (`attachments.rs:91`, `packages.rs:614`; `docs/api-spec.md:94`, `docs/design.md:169`);
* variants of a published package may be linked anywhere afterwards, and `null`
  never takes a link away (`packages.rs:723`);
* a repeated unpublish and a repeated deletion of a package are refused and not
  replayed (`packages.rs:547`, `:405`);
* unpublish and the routes of variants leave no audit entry (`packages.rs:534`);
* parallel guesses reach the lockout late (`auth.rs:107`; `docs/design.md:71`), a
  successful login lifts a lock that was set while it ran (`auth.rs:184`), and a login
  that fails before it records its attempt is free (`auth.rs:156`);
* a request that overlaps with others may move a session's last activity back
  (`session.rs:65`); a repeated logout gets 401, its session being revoked;
* `update_user` writes `is_active` as loaded: two updates of one user that overlap can
  re-activate whom the other deactivated (`admin.rs:185`) - hence `alone`;
* while roles or permissions are replaced, requests are let in with some of them
  (`admin.rs:463`), and an update that stops half way leaves it at that.

## Proofs

TLAPS checks the theorems for every value of the constants, under the named
assumption of each module (`ConstantsAssumption`: the bounds are natural numbers,
TTL is positive, `None` is not one of the values it stands apart from). What is
true only of requests that do not overlap is a theorem with `OneAtATime` (any two
workers are the same) as its explicit hypothesis; what is true only if no statement
fails has `MayFail = FALSE` besides. These are the constants of the runs that check
the same properties; the divergences above say what happens without them.

* **IdempotencyProofs.** `IInv` joins `TypeOK`, `RecordedKept` and `ReplayIsOwn` with
  `RowsSound` (each row holds the response of an execution of its key, and says
  until when) and `WorkersSound` (an execution still to be recorded belongs to one
  worker and is on no record). Without the second, `Record` could store an
  execution that is already on record under another expiry. `NoReexecution`, about
  the caller's own records and other users', is an action property that follows from
  `IInv`, as does `ImplementsRegister`: every step is a step of `ReplayRegister` or a
  stutter. For one worker, and whatever spellings are in use, `OnceWhileRecorded` needs a
  further invariant on the worker's
  position.
* **LostFoundProofs.** `IInv` adds `RowsHeld` (what is a row is history) and
  `WorkSound`: what a worker loaded passed validation and is history. This is why
  `LifecycleOrder` survives any overlap although `LegalMoves` does not: the row a
  move started from did exist. With one worker `SeenIsCurrent` is invariant and
  the handlers implement the workflow, failures included. `AuditChain` is not
  inductive, being about the moments at which no request is in progress: `Told` says
  that an item is the row its last entry tells unless a worker is between write
  and entry, and that what this worker will write as `before` is that last row;
  `Chained` is the chain itself. A stop between the two would break `Told`.
  `AppliedOnce` compares two tables, audit entries and stored responses, by number:
  `Tallied` adds the one request that has written its entry, or created its item,
  and is not on record, and `Unanswered` says that a request past the gate is on no
  record, so that its record is a new one.
* **AssetsProofs.** `IInv` is `TypeOK`, `MovesLegal` and `Ready`: the rows a worker
  holds are rows, and the moves it has made or is to make are legal from them. It
  does not need the row locks: a legal move of a row is legal whenever it is written.
  `MovesLegal` is of each event by itself and of all routes. `HistoryConnected` and
  `HistoryEndsAtStatus` are proved for bulk transitions (`HistoryConnectedHolds` and
  `HistoryEndsHolds` exclude creations and single transitions from the routes),
  whose rows and events are committed together; between the two statements of the
  others they are false. For the former, `HeldKnown` says that every row a worker
  has fetched is one the asset's history tells of, and stays so because histories
  only grow (`GrowsConnected`); so what `Commit` appends connects to an earlier event
  although the asset may have moved on.
  With `OneAtATime`, `Current` says that what a worker has loaded is the row until it
  writes, and that a request it found no response for has none until it answers;
  from it follow `RetriesReplayed` and, action by action, `LifecycleImplemented`: the
  write of a single route and the commit of a bulk transition are the requests of
  `AssetLifecycle`, all else stutters. If nothing fails either, `Upkept` counts
  maintenance records against keys on record and the one request between both, and
  `Trails` relates the two trails while a request writes them: the events are a
  chain up to the row's state, or up to the state before it while a single route has
  written the row and not the event (`Writing`), and the audit entries match the
  last events but for those still owed (`Owes`). `old` is 1 for an asset that began
  with an event and without an entry.
* **PackagesProofs.** `TypeOK` is inductive with `Known`: the packages and variants
  a request names exist or did. `StatusMoves` needs `NotDraft`: what `unpublish`
  loaded before the gate was no draft, and no package becomes a draft again, so
  the late write by a stale row is still a move that exists. `RetryAnswered` needs
  `Answered`: a request that came with its response on record has not got past
  the gate. For `PublishedAsValidated`, `Checked` says that a package's links stay
  within its facility from the moment `publish` has looked until a variant is
  written, the deletions of variants in between included. `Capped` is
  `VariantCap` with the insertions that have counted and not inserted yet
  (`Coming`): of those there is at most one for each worker, and the last count
  found room.
* **AttachmentsProofs.** `Brought` makes `TypeOK` inductive; `CapInv` is for files what
  `Capped` is for variants. `FilesKept` and `UnusedReclaimed` need to know what the
  count in `attachment_blobs` means between two statements. `Sound`: it covers every
  claim - the rows, the uploads that have counted and not inserted, the deletions
  that have taken their row and not uncounted - as long as nothing clashed, for
  then nobody attaches a content while another detaches it, and two deletions are
  about two rows. So a request that reads zero is the last to have to do with the
  content. `Exact`: where nothing failed either, the count is the number of claims,
  and at zero somebody is on the way to remove blob row and file, or to refer to
  them. `Matching` ties a deletion's content to the row it loaded.
* **OutboxProofs.** `Held` makes `TypeOK` inductive: a trigger's delivery has no row
  until it is queued and belongs to that trigger alone, and whom it found opted
  out still is; the open report says no more than the relay has in hand. The rest
  is about a delivery that no two imports had at a time, which is all that
  `CountsExactly` and `TriedWithinReason` speak of. `Clear`: at most one import has
  it, with the open report, and the row it loaded is the row there is. `Taken`: the
  result of a report that was applied is in the row. `Bounded`: the row knows of
  every attempt, though it may have counted one twice when an import was cut short
  after the row was written - which gives `TriedWithinReason`; `Exact`: none twice if
  nothing was cut short.
* **SessionsProofs.** `Right` makes `TypeOK` inductive. `Limited` is behind
  `UseWithinLimits`: every use follows the login or a use within the idle timeout
  (`Carried`), the stamp on the row is that of the login or of a use (`RowFine`), and
  what a request on its way has found still holds (`UseFine`) though another request
  may set the row's stamp back meanwhile. `Covered` is behind `NothingExtra`: what is in the
  tables is among what was given, what an update has yet to write counts as given,
  an update that is `Alone` finds its own statements in effect, and a request on its
  way has what was given when it came or since. `Minting` counts: until a response is
  stored there is at most one session for each failed request and each request
  between issuing and storing; afterwards only those already past the lookup can
  add one, and both kinds together are no more than the workers.
* **LoginProofs** is about the lockout under the same specification. The failures of
  a window are summed by a fold of the community modules, which is defined by a
  recursive function; the module first shows that such a function exists and is
  unique (`SumsExist`, `SumsUnique`) and what sums do when a value is raised, erased
  or a set shrinks. Induction over sets is not available to the provers, so each of
  these facts looks at a smallest set it does not hold of (`Smallest`, from the
  well-foundedness of strict inclusion). `GuessBound` needs `Counted`: for every
  user and every set of stamps, the wrong passwords compared are no more than the
  attempts on record, the requests about to record theirs (`Failing`) and the ones
  lost. When a password is compared, the window that was counted before
  reaches back at least as far as any window of its length that holds the stamp: in
  each of those fewer than the threshold are on record, and only the other workers
  can be about to record more.

Only model-checked: the three liveness properties (`ExpiredIsReaped`,
`EveryRequestEnds`, `EveryDeliveryEnds`), whose proofs would need fairness and
ENABLED, which are out of the prover's reach. Every other property of a passing
run is proved; `LegalMoves` and `OwnerNotRefused` are false.

## Not modelled, and the plan

Left out for good: wording, formats, rendering and listing (pure or read only),
permissions and scopes (pure checks before the first write: the models begin
where they have passed), logging and metrics, the seeds, the cipher; volunteers
and the other routes of administration, templates and read marks, which are
single writes behind the gate of `Idempotency` on rows that no other part reads;
the rate limiter, whose bucket is arithmetic on floats; changes of passwords, the
password being part of a login request here; what follows when the clock's
offset changes (`time.rs:24`: timestamps are local wall-clock time, expiries then
shift with it), because no property would hold across it. The connection pool
appears as the failure of any statement, which is what its timeout makes of a
handler that waits for a second connection.

To come: abstract specifications for attachments (a store that keeps what is
referred to) and packages (a catalogue of drafts and publications), implemented by
requests that do not overlap, as the items and the assets have them.
