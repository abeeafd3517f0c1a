-------------------------------- MODULE Outbox --------------------------------
(***************************************************************************)
(* The notification outbox: notify::enqueue (services/notify.rs) writes    *)
(* in-app notifications and deliveries, the routes of                      *)
(* handlers/notifications.rs export the pending deliveries to an external  *)
(* relay and import what became of them, and users opt in and out.  Every  *)
(* statement commits by itself.                                            *)
(*                                                                         *)
(* The relay is external.  It is taken to work the way the routes are      *)
(* made for: one attempt at a time for each delivery, one report at a      *)
(* time, sent again with the same X-Request-Id until it is answered -      *)
(* also while the server may still be at work on it.  When it retries is   *)
(* its own choice: the export takes no notice of next_attempt_at.          *)
(*                                                                         *)
(* The gate in front of dispatch and put_subscriptions is Idempotency.tla's *)
(* and not repeated here; the one of the import is, because it is what     *)
(* keeps attempts from being counted twice.  Callers are in scope.         *)
(***************************************************************************)
EXTENDS Naturals, FiniteSets

CONSTANTS
  Deliveries,   \* ids of outbox rows, each for one trigger
  Users,        \* pairs of a user and an event kind
  To,           \* To[d]: whom delivery d is for
  Workers,
  MaxAttempts,  \* MAX_ATTEMPTS
  MaxStops,     \* bound: requests that fail or lose their answer
  MaxSends,     \* bound: attempts of the relay at one delivery
  MaxBatches,   \* bound: reports
  None          \* no row, no delivery, no report

Row == [status : {"PENDING", "SENT", "DEAD"}, attempts : Nat]

Batch ==
  [id : 1 .. MaxBatches,
   results : UNION {[ds -> {"SENT", "FAILED"}] : ds \in SUBSET Deliveries}]

ASSUME ConstantsAssumption ==
  /\ To \in [Deliveries -> Users]
  /\ MaxAttempts \in Nat \ {0}
  /\ MaxStops \in Nat
  /\ MaxSends \in Nat
  /\ MaxBatches \in Nat
  /\ None \notin Row \cup Batch \cup Deliveries

VARIABLES
  optedOut,     \* users with a subscription row that says no
  notes,        \* deliveries whose in-app notification is inserted
  row,          \* row[d]: the row of outbox_deliveries, or None
  recorded,     \* reports with a stored response in idempotency_keys
  work,         \* work[w]: the request worker w handles and how far it is
  stops,        \* requests that failed, for the bound
  hand,         \* hand[d]: how far the relay is with its attempt at d
  batch,        \* the report the relay waits to have answered, or None
  batches,      \* reports so far
  sends, oks,   \* history: attempts of the relay, and those that succeeded
  interrupted,  \* history: deliveries an import counted and did not record
  doubled       \* history: deliveries two workers imported at a time

server == <<optedOut, notes, row, recorded, work, stops>>
relay  == <<hand, batch, batches, sends, oks>>
vars   == <<server, relay, interrupted, doubled>>

Idle == [pc |-> "idle"]

\* barred: the user has been opted out ever since the trigger began.
Trigger ==
  [pc : {"started", "checked", "noted"}, d : Deliveries, barred : BOOLEAN]

\* left: the results still to apply; seen: the row read for the next of them.
Import ==
  [pc : {"arrived", "gated", "read"}, batch : Batch, left : SUBSET Deliveries,
   next : Deliveries \cup {None}, seen : Row \cup {None}]

TypeOK ==
  /\ optedOut \subseteq Users
  /\ notes \subseteq Deliveries
  /\ row \in [Deliveries -> Row \cup {None}]
  /\ recorded \subseteq 1 .. MaxBatches
  /\ work \in [Workers -> {Idle} \cup Trigger \cup Import]
  /\ stops \in 0 .. MaxStops
  /\ hand \in [Deliveries -> {"none", "exported", "SENT", "FAILED"}]
  /\ batch \in Batch \cup {None}
  /\ batches \in 0 .. MaxBatches
  /\ sends \in [Deliveries -> 0 .. MaxSends]
  /\ oks \in [Deliveries -> 0 .. MaxSends]
  /\ interrupted \subseteq Deliveries
  /\ doubled \subseteq Deliveries

Init ==
  /\ optedOut = {}
  /\ notes = {}
  /\ row = [d \in Deliveries |-> None]
  /\ recorded = {}
  /\ work = [w \in Workers |-> Idle]
  /\ stops = 0
  /\ hand = [d \in Deliveries |-> "none"]
  /\ batch = None
  /\ batches = 0
  /\ sends = [d \in Deliveries |-> 0]
  /\ oks = [d \in Deliveries |-> 0]
  /\ interrupted = {}
  /\ doubled = {}

At(w, pc) == work[w].pc = pc

Importing(w) == At(w, "arrived") \/ At(w, "gated") \/ At(w, "read")

Triggering(w) == At(w, "started") \/ At(w, "checked") \/ At(w, "noted")

-----------------------------------------------------------------------------
(* notify::enqueue, from dispatch or at the end of another handler *)

\* The INSERT chooses the row's id: one nobody else has.
Unused(d) ==
  /\ d \notin notes
  /\ row[d] = None
  /\ \A w \in Workers : Triggering(w) => work[w].d # d

Begin(w, d) ==
  /\ At(w, "idle")
  /\ Unused(d)
  /\ work' = [work EXCEPT ![w] =
                [pc |-> "started", d |-> d, barred |-> To[d] \in optedOut]]
  /\ UNCHANGED <<optedOut, notes, row, recorded, stops, relay, interrupted, doubled>>

\* Bug: a subscription row of any kind counts as a subscription.
CheckLax(w) ==
  /\ At(w, "started")
  /\ work' = [work EXCEPT ![w].pc = "checked"]
  /\ UNCHANGED <<optedOut, notes, row, recorded, stops, relay, interrupted, doubled>>

\* No subscription row means yes; the template is read along with it.
Check(w) ==
  /\ At(w, "started")
  /\ work' = [work EXCEPT ![w] =
                IF To[@.d] \in optedOut THEN Idle ELSE [@ EXCEPT !.pc = "checked"]]
  /\ UNCHANGED <<optedOut, notes, row, recorded, stops, relay, interrupted, doubled>>

Notify(w) ==
  /\ At(w, "checked")
  /\ notes' = notes \cup {work[w].d}
  /\ work' = [work EXCEPT ![w].pc = "noted"]
  /\ UNCHANGED <<optedOut, row, recorded, stops, relay, interrupted, doubled>>

Queue(w) ==
  /\ At(w, "noted")
  /\ row' = [row EXCEPT ![work[w].d] = [status |-> "PENDING", attempts |-> 0]]
  /\ work' = [work EXCEPT ![w] = Idle]
  /\ UNCHANGED <<optedOut, notes, recorded, stops, relay, interrupted, doubled>>

\* put_subscriptions: one upsert for each pair in the body.
Subscribe(u, enabled) ==
  /\ optedOut' = IF enabled THEN optedOut \ {u} ELSE optedOut \cup {u}
  /\ work' = [w \in Workers |->
                IF enabled /\ Triggering(w) /\ To[work[w].d] = u
                  THEN [work[w] EXCEPT !.barred = FALSE]
                  ELSE work[w]]
  /\ UNCHANGED <<notes, row, recorded, stops, relay, interrupted, doubled>>

-----------------------------------------------------------------------------
(* The relay *)

\* Bug: what was tried before and failed for good is exported as well.
PendingOrDead(d) == row[d] # None /\ row[d].status # "SENT"

\* Bug: a delivery that has failed once is not exported again.
PendingFresh(d) ==
  row[d] # None /\ row[d].status = "PENDING" /\ row[d].attempts = 0

Pending(d) == row[d] # None /\ row[d].status = "PENDING"

\* outbox_export: one SELECT.  The relay leaves alone what it is at already.
Export ==
  LET ds == {d \in Deliveries : Pending(d) /\ hand[d] = "none"}
  IN  /\ ds # {}
      /\ hand' = [d \in Deliveries |-> IF d \in ds THEN "exported" ELSE hand[d]]
      /\ UNCHANGED <<server, batch, batches, sends, oks, interrupted, doubled>>

Transmit(d, outcome) ==
  /\ hand[d] = "exported"
  /\ sends[d] < MaxSends
  /\ hand' = [hand EXCEPT ![d] = outcome]
  /\ sends' = [sends EXCEPT ![d] = @ + 1]
  /\ oks' = IF outcome = "SENT" THEN [oks EXCEPT ![d] = @ + 1] ELSE oks
  /\ UNCHANGED <<server, batch, batches, interrupted, doubled>>

Finished == {d \in Deliveries : hand[d] \in {"SENT", "FAILED"}}

Report ==
  /\ batch = None
  /\ Finished # {}
  /\ batches < MaxBatches
  /\ batch' = [id |-> batches + 1, results |-> [d \in Finished |-> hand[d]]]
  /\ batches' = batches + 1
  /\ UNCHANGED <<server, hand, sends, oks, interrupted, doubled>>

\* The answer to report b reaches the relay.
Answered(b) ==
  IF b = batch
    THEN /\ batch' = None
         /\ hand' = [d \in Deliveries |->
                       IF d \in DOMAIN b.results THEN "none" ELSE hand[d]]
    ELSE UNCHANGED <<batch, hand>>

-----------------------------------------------------------------------------
(* import_results *)

\* The relay sends its report, for the first time or again.
Send(w) ==
  /\ batch # None
  /\ At(w, "idle")
  /\ work' = [work EXCEPT ![w] =
                [pc |-> "arrived", batch |-> batch, left |-> DOMAIN batch.results,
                 next |-> None, seen |-> None]]
  /\ doubled' = doubled \cup
       IF \E v \in Workers : Importing(v) /\ work[v].batch = batch
         THEN DOMAIN batch.results ELSE {}
  /\ UNCHANGED <<optedOut, notes, row, recorded, stops, relay, interrupted>>

Replay(w) ==
  /\ At(w, "arrived")
  /\ work[w].batch.id \in recorded
  /\ Answered(work[w].batch)
  /\ work' = [work EXCEPT ![w] = Idle]
  /\ UNCHANGED <<optedOut, notes, row, recorded, stops, batches, sends, oks,
                 interrupted, doubled>>

\* Bug: nobody asks whether the report was imported before.
GateOpen(w) ==
  /\ At(w, "arrived")
  /\ work' = [work EXCEPT ![w].pc = "gated"]
  /\ UNCHANGED <<optedOut, notes, row, recorded, stops, relay, interrupted, doubled>>

Gate(w) ==
  /\ At(w, "arrived")
  /\ work[w].batch.id \notin recorded
  /\ work' = [work EXCEPT ![w].pc = "gated"]
  /\ UNCHANGED <<optedOut, notes, row, recorded, stops, relay, interrupted, doubled>>

\* A result's row is read, whatever its status.
Read(w) ==
  /\ At(w, "gated")
  /\ \E d \in work[w].left :
       work' = [work EXCEPT ![w].pc = "read", ![w].next = d, ![w].seen = row[d]]
  /\ UNCHANGED <<optedOut, notes, row, recorded, stops, relay, interrupted, doubled>>

\* Bug: the last attempt is allowed to be repeated.
FailedOften(seen) ==
  [status |-> IF seen.attempts + 1 > MaxAttempts THEN "DEAD" ELSE "PENDING",
   attempts |-> seen.attempts + 1]

Failed(seen) ==
  [status |-> IF seen.attempts + 1 >= MaxAttempts THEN "DEAD" ELSE "PENDING",
   attempts |-> seen.attempts + 1]

\* Bug: a failure leaves the row in a status of its own, for somebody else to
\* make it pending again.
AppliedFailed(now, seen, result) ==
  [now EXCEPT !.status = IF result = "SENT" THEN "SENT" ELSE "FAILED",
              !.attempts = IF result = "SENT" THEN @ ELSE seen.attempts + 1]

\* What the UPDATE makes of the row: a success keeps the count the row has
\* now, a failure sets both columns from the row read.
Applied(now, seen, result) ==
  IF result = "SENT" THEN [now EXCEPT !.status = "SENT"] ELSE Failed(seen)

Apply(w) ==
  LET d == work[w].next
  IN  /\ At(w, "read")
      /\ row' = [row EXCEPT ![d] =
                   Applied(@, work[w].seen, work[w].batch.results[d])]
      /\ work' = [work EXCEPT ![w].pc = "gated", ![w].left = @ \ {d},
                              ![w].next = None, ![w].seen = None]
      /\ UNCHANGED <<optedOut, notes, recorded, stops, relay, interrupted, doubled>>

\* record_after, and the answer.
Record(w) ==
  /\ At(w, "gated")
  /\ work[w].left = {}
  /\ recorded' = recorded \cup {work[w].batch.id}
  /\ Answered(work[w].batch)
  /\ work' = [work EXCEPT ![w] = Idle]
  /\ UNCHANGED <<optedOut, notes, row, stops, batches, sends, oks,
                 interrupted, doubled>>

\* The response is stored and its answer lost on the way.
RecordUnheard(w) ==
  /\ At(w, "gated")
  /\ work[w].left = {}
  /\ stops < MaxStops
  /\ stops' = stops + 1
  /\ recorded' = recorded \cup {work[w].batch.id}
  /\ work' = [work EXCEPT ![w] = Idle]
  /\ UNCHANGED <<optedOut, notes, row, relay, interrupted, doubled>>

\* A statement fails or the process stops: what is committed stays.
Stop(w) ==
  /\ ~ At(w, "idle")
  /\ stops < MaxStops
  /\ stops' = stops + 1
  /\ work' = [work EXCEPT ![w] = Idle]
  /\ interrupted' = interrupted \cup
       IF Importing(w) THEN DOMAIN work[w].batch.results \ work[w].left ELSE {}
  /\ UNCHANGED <<optedOut, notes, row, recorded, relay, doubled>>

Proceed(w) ==
  \/ Check(w) \/ Notify(w) \/ Queue(w)
  \/ Replay(w) \/ Gate(w) \/ Read(w) \/ Apply(w) \/ Record(w)

Relay ==
  \/ Export
  \/ \E d \in Deliveries, outcome \in {"SENT", "FAILED"} : Transmit(d, outcome)
  \/ Report
  \/ \E w \in Workers : Send(w)

Next ==
  \/ \E w \in Workers :
        \/ \E d \in Deliveries : Begin(w, d)
        \/ Proceed(w) \/ RecordUnheard(w) \/ Stop(w)
  \/ \E u \in Users, enabled \in BOOLEAN : Subscribe(u, enabled)
  \/ Relay

Spec == Init /\ [][Next]_vars

\* Handlers run to their end; the relay exports, tries and reports as long as
\* there is something to.
FairSpec ==
  /\ Spec
  /\ \A w \in Workers : WF_vars(Proceed(w))
  /\ WF_vars(Export)
  /\ \A d \in Deliveries :
        WF_vars(\E outcome \in {"SENT", "FAILED"} : Transmit(d, outcome))
  /\ WF_vars(Report)
  /\ WF_vars(batch # None /\ (\A v \in Workers : ~ Importing(v)) /\
             \E w \in Workers : Send(w))

-----------------------------------------------------------------------------
(* Properties *)

\* A trigger that begins after its user has opted out, and does not opt in
\* again meanwhile, leaves neither a notification nor a delivery.
OptOutSilences ==
  \A w \in Workers : Triggering(w) /\ work[w].barred => At(w, "started")

\* What the relay has had answered: attempts it is not still to report.
Told(d, outcome, count) == count - IF hand[d] = outcome THEN 1 ELSE 0

ToldSent(d) == Told(d, "SENT", oks[d])
ToldFailed(d) == Told(d, "FAILED", sends[d] - oks[d])

InReport(d) == batch # None /\ d \in DOMAIN batch.results

\* However often reports are sent again, and whatever order they are imported
\* in, a delivery none of whose imports was cut short or doubled stands as the
\* relay's attempts say: sent once one succeeded, dead from the last allowed
\* failure on, and its count is the number of failures.
CountsExactly ==
  \A d \in Deliveries \ (interrupted \cup doubled) :
     row[d] # None /\ ~ InReport(d) =>
        /\ row[d].attempts = ToldFailed(d)
        /\ row[d].status = IF ToldSent(d) > 0 THEN "SENT"
                           ELSE IF ToldFailed(d) >= MaxAttempts THEN "DEAD"
                           ELSE "PENDING"

\* Cut short or not: unless two workers import it at a time, a delivery that
\* got through is not tried again, and none is tried more than the allowed
\* number of times.
TriedWithinReason ==
  \A d \in Deliveries \ doubled :
     /\ oks[d] > 0 => oks[d] = 1 /\ hand[d] # "exported"
     /\ sends[d] <= MaxAttempts

Ended(d) == row[d] # None /\ row[d].status \in {"SENT", "DEAD"}

\* A relay that keeps going brings every delivery to an end, the failures and
\* lost answers on the way included.
EveryDeliveryEnds ==
  \A d \in Deliveries : row[d] # None ~> Ended(d) \/ d \in doubled
=============================================================================
