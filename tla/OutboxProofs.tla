------------------------------ MODULE OutboxProofs ------------------------------
(***************************************************************************)
(* Proofs about Outbox.tla, for any number of deliveries, users and        *)
(* workers and any bounds: reports repeated, imports cut short, answers    *)
(* lost, and whatever the relay makes of it.                               *)
(***************************************************************************)
EXTENDS Outbox, Integers, TLAPS

-----------------------------------------------------------------------------
(* What holds of every request, report and delivery *)

\* A trigger's delivery is its own and has no row; one that is barred has its
\* user opted out still.
TriggerFine(w) ==
  Triggering(w) =>
    /\ row[work[w].d] = None
    /\ work[w].barred => At(w, "started") /\ To[work[w].d] \in optedOut
    /\ \A v \in Workers \ {w} : Triggering(v) => work[v].d # work[w].d

\* An import has the rows of its report, and a report is known by its number.
ImportFine(w) ==
  Importing(w) =>
    /\ work[w].left \subseteq DOMAIN work[w].batch.results
    /\ At(w, "arrived") => work[w].left = DOMAIN work[w].batch.results
    /\ At(w, "read") => work[w].next \in work[w].left /\ work[w].seen # None
    /\ \A d \in DOMAIN work[w].batch.results : row[d] # None
    /\ work[w].batch.id <= batches
    /\ batch # None /\ work[w].batch.id = batch.id => work[w].batch = batch

\* The relay keeps the outcomes it reports until it has its answer.
ReportFine ==
  /\ recorded \subseteq 1 .. batches
  /\ batch # None => /\ batch.id <= batches
                     /\ \A d \in DOMAIN batch.results : hand[d] = batch.results[d]

\* The relay knows of no delivery that is not there.
DeliveryFine(d) ==
  /\ oks[d] <= sends[d]
  /\ row[d] = None => hand[d] = "none" /\ sends[d] = 0 /\ oks[d] = 0

Held ==
  /\ \A w \in Workers : TriggerFine(w) /\ ImportFine(w)
  /\ ReportFine
  /\ \A d \in Deliveries : DeliveryFine(d)

-----------------------------------------------------------------------------
(* What holds of a delivery that was not imported by two at a time *)

Importers(d) ==
  {w \in Workers : Importing(w) /\ d \in DOMAIN work[w].batch.results}

\* At most one worker imports it, and from the report that is open.
Clear(d) ==
  /\ \A v, w \in Importers(d) : v = w
  /\ \A w \in Importers(d) :
       /\ work[w].batch = batch
       /\ ~ At(w, "arrived") => batch.id \notin recorded
       /\ At(w, "read") /\ work[w].next = d => work[w].seen = row[d]

\* Its result in the open report is applied.
Taken(d) ==
  /\ InReport(d)
  /\ \/ batch.id \in recorded
     \/ \E w \in Importers(d) : ~ At(w, "arrived") /\ d \notin work[w].left

\* The attempts the row must have: those answered, and the last one once taken.
KnownSent(d) == IF Taken(d) THEN oks[d] ELSE ToldSent(d)
KnownFailed(d) == IF Taken(d) THEN sends[d] - oks[d] ELSE ToldFailed(d)

\* The row knows of them, perhaps of some twice, and the relay does not go on
\* once one succeeded or the last allowed one failed.
Bounded(d) ==
  /\ oks[d] \in {0, 1} /\ sends[d] <= MaxAttempts
  /\ hand[d] = "SENT" => oks[d] = 1
  /\ hand[d] = "FAILED" => oks[d] = 0 /\ sends[d] >= 1
  /\ hand[d] = "exported" => row[d] # None /\ row[d].status = "PENDING"
  /\ row[d] # None =>
       /\ row[d].attempts >= KnownFailed(d)
       /\ KnownSent(d) > 0 => row[d].status = "SENT"
       /\ row[d].status = "SENT" => oks[d] = 1
       /\ row[d].status = "PENDING" => row[d].attempts < MaxAttempts

\* And of none twice, if no import of it was cut short.
Exact(d) ==
  d \notin interrupted /\ row[d] # None =>
    /\ row[d].attempts = KnownFailed(d)
    /\ row[d].status = IF KnownSent(d) > 0 THEN "SENT"
                       ELSE IF KnownFailed(d) >= MaxAttempts THEN "DEAD"
                       ELSE "PENDING"

Tracked ==
  \A d \in Deliveries \ doubled : Clear(d) /\ Bounded(d) /\ Exact(d)
-----------------------------------------------------------------------------
(* Types, and Held *)

Jobs == {Idle} \cup Trigger \cup Import

Inv == TypeOK /\ Held

LEMMA Kinds ==
  ASSUME TypeOK, NEW w \in Workers
  PROVE  /\ work[w] \in Jobs
         /\ At(w, "idle") => work[w] = Idle
         /\ Triggering(w) => work[w] \in Trigger /\ ~ Importing(w) /\ ~ At(w, "idle")
         /\ Importing(w) => work[w] \in Import /\ ~ Triggering(w) /\ ~ At(w, "idle")
<1>1. work[w] \in {Idle} \cup Trigger \cup Import
  BY DEF TypeOK
<1>2. CASE work[w] = Idle
  BY <1>2 DEF Idle, At, Triggering, Importing, Jobs
<1>3. CASE work[w] \in Trigger
  BY <1>3 DEF Trigger, At, Triggering, Importing, Jobs
<1>4. CASE work[w] \in Import
  BY <1>4 DEF Import, At, Triggering, Importing, Jobs
<1> QED
  BY <1>1, <1>2, <1>3, <1>4

LEMMA ReportFields ==
  ASSUME NEW b \in Batch
  PROVE  /\ b.id \in 1 .. MaxBatches /\ b.id \in Nat
         /\ DOMAIN b.results \subseteq Deliveries
         /\ \A d \in DOMAIN b.results : b.results[d] \in {"SENT", "FAILED"}
         /\ b # None
  BY ConstantsAssumption DEF Batch

LEMMA ImportFields ==
  ASSUME NEW j \in Import
  PROVE  /\ j.batch \in Batch /\ j.left \subseteq Deliveries
         /\ j.next \in Deliveries \cup {None} /\ j.seen \in Row \cup {None}
         /\ j.pc \in {"arrived", "gated", "read"}
  BY DEF Import

LEMMA OneWorks ==
  ASSUME TypeOK, NEW w \in Workers, NEW j \in Jobs, work' = [work EXCEPT ![w] = j]
  PROVE  /\ work' \in [Workers -> Jobs]
         /\ work'[w] = j
         /\ \A v \in Workers \ {w} : work'[v] = work[v]
  BY DEF TypeOK, Jobs

\* A step of one worker that takes no new delivery into work and neither opens
\* a report nor adds or removes a row.
LEMMA HeldFrame ==
  ASSUME Inv, NEW w \in Workers,
         \A v \in Workers \ {w} : work'[v] = work[v],
         optedOut' = optedOut, batches' = batches,
         \A d \in Deliveries : row'[d] = None <=> row[d] = None,
         Triggering(w)' =>
           /\ Triggering(w)
           /\ work'[w].d = work[w].d
           /\ work'[w].barred => At(w, "started")' /\ work[w].barred,
         ImportFine(w)',
         recorded' \subseteq 1 .. batches,
         \/ batch' = batch /\ hand' = hand
         \/ batch' = None,
         sends' = sends, oks' = oks,
         \A d \in Deliveries : row[d] = None => hand'[d] = "none"
  PROVE  Held'
<1>1. ASSUME NEW v \in Workers \ {w}
      PROVE  TriggerFine(v)'
  <2> SUFFICES ASSUME Triggering(v)'
               PROVE  /\ row'[work'[v].d] = None
                      /\ work'[v].barred => At(v, "started")' /\ To[work'[v].d] \in optedOut'
                      /\ \A u \in Workers \ {v} : Triggering(u)' => work'[u].d # work'[v].d
    BY DEF TriggerFine
  <2>1. Triggering(v) /\ TriggerFine(v)
    BY DEF Triggering, At, Inv, Held
  <2>2. work[v].d \in Deliveries
    BY <2>1, Kinds DEF Inv, Trigger
  <2>3. row'[work'[v].d] = None
    BY <2>1, <2>2 DEF TriggerFine
  <2>4. work'[v].barred => At(v, "started")' /\ To[work'[v].d] \in optedOut'
    BY <2>1 DEF TriggerFine, At
  <2>5. ASSUME NEW u \in Workers \ {v}, Triggering(u)'
        PROVE  work'[u].d # work'[v].d
    <3>1. CASE u = w
      BY <2>1, <2>5, <3>1 DEF TriggerFine
    <3>2. CASE u # w
      BY <2>1, <2>5, <3>2 DEF TriggerFine, Triggering, At
    <3> QED
      BY <3>1, <3>2
  <2> QED
    BY <2>3, <2>4, <2>5
<1>2. TriggerFine(w)'
  <2> SUFFICES ASSUME Triggering(w)'
               PROVE  /\ row'[work'[w].d] = None
                      /\ work'[w].barred => At(w, "started")' /\ To[work'[w].d] \in optedOut'
                      /\ \A u \in Workers \ {w} : Triggering(u)' => work'[u].d # work'[w].d
    BY DEF TriggerFine
  <2>1. Triggering(w) /\ TriggerFine(w)
    BY DEF Inv, Held
  <2>2. work[w].d \in Deliveries
    BY <2>1, Kinds DEF Inv, Trigger
  <2> QED
    BY <2>1, <2>2 DEF TriggerFine, Triggering, At
<1>3. ASSUME NEW v \in Workers \ {w}
      PROVE  ImportFine(v)'
  <2> SUFFICES ASSUME Importing(v)'
               PROVE  ImportFine(v)'
    BY DEF ImportFine
  <2>1. Importing(v) /\ ImportFine(v)
    BY DEF Importing, At, Inv, Held
  <2>2. DOMAIN work[v].batch.results \subseteq Deliveries
    BY <2>1, Kinds, ImportFields, ReportFields DEF Inv
  <2> QED
    BY <2>1, <2>2 DEF ImportFine, Importing, At
<1>4. ReportFine'
  BY DEF ReportFine, Inv, Held
<1>5. ASSUME NEW d \in Deliveries
      PROVE  DeliveryFine(d)'
  BY DEF DeliveryFine, Inv, Held
<1> QED
  BY <1>1, <1>2, <1>3, <1>4, <1>5 DEF Held

LEMMA InitInv == Init => Inv
<1> SUFFICES ASSUME Init PROVE Inv
  OBVIOUS
<1>1. TypeOK
  BY ConstantsAssumption DEF Init, TypeOK, Idle
<1>2. \A w \in Workers : TriggerFine(w) /\ ImportFine(w)
  BY DEF Init, TriggerFine, ImportFine, Triggering, Importing, At, Idle
<1>3. ReportFine /\ \A d \in Deliveries : DeliveryFine(d)
  BY DEF Init, ReportFine, DeliveryFine
<1> QED
  BY <1>1, <1>2, <1>3 DEF Inv, Held

-----------------------------------------------------------------------------
(* Triggers *)

LEMMA BeginInv ==
  ASSUME Inv, NEW w \in Workers, NEW d \in Deliveries, Begin(w, d)
  PROVE  Inv'
<1> DEFINE j == [pc |-> "started", d |-> d, barred |-> To[d] \in optedOut]
<1>1. j \in Trigger /\ j \in Jobs
  BY DEF Trigger, Jobs
<1>2. /\ work' \in [Workers -> Jobs] /\ work'[w] = j
      /\ \A v \in Workers \ {w} : work'[v] = work[v]
  <2>1. work' = [work EXCEPT ![w] = j]
    BY DEF Begin
  <2> QED
    BY <1>1, <2>1, OneWorks DEF Inv
<1>3. TypeOK'
  BY <1>2 DEF Begin, TypeOK, Jobs, relay, Inv
<1>4. ASSUME NEW v \in Workers
      PROVE  TriggerFine(v)'
  <2> HIDE DEF j
  <2>1. j.d = d /\ j.pc = "started" /\ (j.barred => To[d] \in optedOut)
    BY DEF j
  <2>2. \A u \in Workers : Triggering(u) => TriggerFine(u) /\ work[u].d # d
    BY DEF Inv, Held, Begin, Unused
  <2>3. row[d] = None
    BY DEF Begin, Unused
  <2>4. row' = row /\ optedOut' = optedOut
    BY DEF Begin
  <2>5. CASE v = w
    BY <1>2, <2>1, <2>2, <2>3, <2>4, <2>5 DEF TriggerFine, Triggering, At
  <2>6. CASE v # w
    <3>1. ASSUME Triggering(v)
          PROVE  TriggerFine(v)'
      BY <1>2, <2>1, <2>2, <2>4, <2>6, <3>1 DEF TriggerFine, Triggering, At
    <3> QED
      BY <1>2, <2>6, <3>1 DEF TriggerFine, Triggering, At
  <2> QED
    BY <2>5, <2>6
<1>5. ASSUME NEW v \in Workers
      PROVE  ImportFine(v)'
  BY <1>2 DEF ImportFine, Importing, At, Begin, relay, Inv, Held
<1>6. ReportFine' /\ \A e \in Deliveries : DeliveryFine(e)'
  BY DEF ReportFine, DeliveryFine, Begin, relay, Inv, Held
<1> QED
  BY <1>3, <1>4, <1>5, <1>6 DEF Inv, Held

LEMMA CheckInv ==
  ASSUME Inv, NEW w \in Workers, Check(w) \/ Notify(w)
  PROVE  Inv'
<1>1. Triggering(w) /\ work[w] \in Trigger
  BY Kinds DEF Check, Notify, Triggering, At, Inv
<1>2. PICK j \in Jobs : /\ work' = [work EXCEPT ![w] = j]
                        /\ \/ j = Idle
                           \/ /\ j.pc \in {"checked", "noted"} /\ j.d = work[w].d
                              /\ ~ j.barred
  <2>1. CASE Check(w)
    <3>1. CASE To[work[w].d] \in optedOut
      <4>1. work' = [work EXCEPT ![w] = Idle]
        BY <2>1, <3>1 DEF Check, Inv, TypeOK
      <4> QED
        BY <4>1 DEF Jobs
    <3>2. CASE To[work[w].d] \notin optedOut
      <4> DEFINE k == [work[w] EXCEPT !.pc = "checked"]
      <4>1. work' = [work EXCEPT ![w] = k]
        BY <2>1, <3>2 DEF Check, Inv, TypeOK
      <4>2. k \in Trigger /\ k.pc = "checked" /\ k.d = work[w].d /\ k.barred = work[w].barred
        BY <1>1 DEF Trigger
      <4>3. ~ work[w].barred
        BY <1>1, <3>2 DEF Inv, Held, TriggerFine
      <4>4. ~ k.barred
        BY <4>2, <4>3
      <4> HIDE DEF k
      <4> QED
        BY <4>1, <4>2, <4>4 DEF Jobs
    <3> QED
      BY <3>1, <3>2
  <2>2. CASE Notify(w)
    <3> DEFINE k == [work[w] EXCEPT !.pc = "noted"]
    <3>1. work' = [work EXCEPT ![w] = k]
      BY <2>2 DEF Notify, Inv, TypeOK
    <3>2. k \in Trigger /\ k.pc = "noted" /\ k.d = work[w].d /\ k.barred = work[w].barred
      BY <1>1 DEF Trigger
    <3>3. ~ work[w].barred
      BY <1>1, <2>2 DEF Inv, Held, TriggerFine, Notify, At
    <3>4. ~ k.barred
      BY <3>2, <3>3
    <3> HIDE DEF k
    <3> QED
      BY <3>1, <3>2, <3>4 DEF Jobs
  <2> QED
    BY <2>1, <2>2
<1>3. /\ work' \in [Workers -> Jobs] /\ work'[w] = j
      /\ \A v \in Workers \ {w} : work'[v] = work[v]
  BY <1>2, OneWorks DEF Inv
<1>4. work[w].d \in Deliveries
  BY <1>1 DEF Trigger
<1>5. TypeOK'
  BY <1>3, <1>4 DEF Check, Notify, TypeOK, Jobs, relay, Inv
<1>6. ImportFine(w)'
  BY <1>2, <1>3 DEF ImportFine, Importing, At, Idle
<1>7. Triggering(w)' => /\ work'[w].d = work[w].d
                        /\ ~ work'[w].barred
  BY <1>2, <1>3 DEF Triggering, At, Idle
<1>8. /\ optedOut' = optedOut /\ batches' = batches /\ row' = row /\ recorded' = recorded
      /\ batch' = batch /\ hand' = hand /\ sends' = sends /\ oks' = oks
  BY DEF Check, Notify, relay
<1>9. recorded' \subseteq 1 .. batches
      /\ \A d \in Deliveries : row[d] = None => hand'[d] = "none"
  BY <1>8 DEF Inv, Held, ReportFine, DeliveryFine
<1>10. Held'
  BY <1>1, <1>3, <1>6, <1>7, <1>8, <1>9, HeldFrame
<1> QED
  BY <1>5, <1>10 DEF Inv
LEMMA QueueInv ==
  ASSUME Inv, NEW w \in Workers, Queue(w)
  PROVE  Inv'
<1>1. Triggering(w) /\ work[w] \in Trigger /\ work[w].d \in Deliveries
  BY Kinds DEF Queue, Triggering, At, Inv, Trigger
<1> DEFINE fresh == [status |-> "PENDING", attempts |-> 0]
<1>2. fresh \in Row /\ fresh # None
  BY ConstantsAssumption DEF Row
<1>3. /\ work' \in [Workers -> Jobs] /\ work'[w] = Idle
      /\ \A v \in Workers \ {w} : work'[v] = work[v]
  BY OneWorks DEF Queue, Inv, Jobs
<1>4. row' = [row EXCEPT ![work[w].d] = fresh]
  BY DEF Queue
<1> HIDE DEF fresh
<1>5. /\ row' \in [Deliveries -> Row \cup {None}]
      /\ row'[work[w].d] = fresh
      /\ \A d \in Deliveries \ {work[w].d} : row'[d] = row[d]
  BY <1>1, <1>2, <1>4 DEF Inv, TypeOK
<1>6. TypeOK'
  BY <1>3, <1>5 DEF Queue, TypeOK, Jobs, relay, Inv
<1>7. ASSUME NEW v \in Workers
      PROVE  TriggerFine(v)'
  <2>1. CASE v = w
    BY <1>3, <2>1 DEF TriggerFine, Triggering, At, Idle
  <2>2. CASE v # w
    <3> SUFFICES ASSUME Triggering(v)
                 PROVE  TriggerFine(v)'
      BY <1>3, <2>2 DEF TriggerFine, Triggering, At
    <3>1. TriggerFine(v) /\ work[v].d # work[w].d
      BY <1>1, <2>2 DEF Inv, Held, TriggerFine
    <3>2. work[v].d \in Deliveries
      BY Kinds DEF Inv, Trigger
    <3>3. row'[work[v].d] = None
      BY <1>5, <3>1, <3>2 DEF TriggerFine
    <3>4. optedOut' = optedOut
      BY DEF Queue
    <3>5. \A u \in Workers \ {v} : Triggering(u)' => Triggering(u) /\ work'[u] = work[u]
      BY <1>3 DEF Triggering, At, Idle
    <3> QED
      BY <1>3, <2>2, <3>1, <3>3, <3>4, <3>5 DEF TriggerFine, Triggering, At
  <2> QED
    BY <2>1, <2>2
<1>8. ASSUME NEW v \in Workers
      PROVE  ImportFine(v)'
  <2> SUFFICES ASSUME Importing(v)'
               PROVE  ImportFine(v)'
    BY DEF ImportFine
  <2>1. v # w /\ work'[v] = work[v] /\ Importing(v)
    BY <1>3 DEF Importing, At, Idle
  <2>2. DOMAIN work[v].batch.results \subseteq Deliveries
    BY <2>1, Kinds, ImportFields, ReportFields DEF Inv
  <2>3. \A d \in DOMAIN work[v].batch.results : row'[d] # None
    BY <1>2, <1>5, <2>1, <2>2 DEF Inv, Held, ImportFine
  <2>4. batch' = batch /\ batches' = batches
    BY DEF Queue, relay
  <2> QED
    BY <2>1, <2>3, <2>4 DEF Inv, Held, ImportFine, Importing, At
<1>9. ReportFine' /\ \A d \in Deliveries : DeliveryFine(d)'
  BY <1>2, <1>5 DEF ReportFine, DeliveryFine, Queue, relay, Inv, Held
<1> QED
  BY <1>6, <1>7, <1>8, <1>9 DEF Inv, Held

LEMMA SubscribeInv ==
  ASSUME Inv, NEW u \in Users, NEW enabled \in BOOLEAN, Subscribe(u, enabled)
  PROVE  Inv'
<1> DEFINE lifts(w) == enabled /\ Triggering(w) /\ To[work[w].d] = u
           j(w) == IF lifts(w) THEN [work[w] EXCEPT !.barred = FALSE] ELSE work[w]
<1>1. \A w \in Workers : work'[w] = j(w)
  BY DEF Subscribe
<1>2. ASSUME NEW w \in Workers
      PROVE  /\ j(w) \in Jobs /\ j(w).pc = work[w].pc
             /\ Triggering(w) => /\ j(w).d = work[w].d
                                 /\ j(w).barred => work[w].barred /\ ~ lifts(w)
             /\ Importing(w) => j(w) = work[w]
  <2>1. CASE lifts(w)
    <3>1. work[w] \in Trigger /\ ~ Importing(w)
      BY <2>1, Kinds DEF Inv
    <3>2. j(w) \in Trigger /\ j(w).pc = work[w].pc /\ j(w).d = work[w].d /\ ~ j(w).barred
      BY <2>1, <3>1 DEF Trigger
    <3> QED
      BY <3>1, <3>2 DEF Jobs
  <2>2. CASE ~ lifts(w)
    BY <2>2, Kinds DEF Inv
  <2> QED
    BY <2>1, <2>2
<1>3. work' \in [Workers -> Jobs]
  <2>1. work' = [w \in Workers |-> j(w)]
    BY DEF Subscribe
  <2>2. \A w \in Workers : j(w) \in Jobs
    BY <1>2
  <2> HIDE DEF j
  <2> QED
    BY <2>1, <2>2
<1>4. TypeOK'
  BY <1>3 DEF Subscribe, TypeOK, Jobs, relay, Inv
<1>5. /\ row' = row /\ batch' = batch /\ batches' = batches /\ recorded' = recorded
      /\ hand' = hand /\ sends' = sends /\ oks' = oks
      /\ optedOut' = IF enabled THEN optedOut \ {u} ELSE optedOut \cup {u}
  BY DEF Subscribe, relay
<1>6. ASSUME NEW w \in Workers
      PROVE  /\ At(w, "started")' <=> At(w, "started")
             /\ Triggering(w)' <=> Triggering(w)
             /\ Importing(w)' <=> Importing(w)
             /\ At(w, "arrived")' <=> At(w, "arrived")
             /\ At(w, "read")' <=> At(w, "read")
  BY <1>1, <1>2 DEF At, Triggering, Importing
<1>7. ASSUME NEW w \in Workers
      PROVE  TriggerFine(w)'
  <2> SUFFICES ASSUME Triggering(w)
               PROVE  TriggerFine(w)'
    BY <1>6 DEF TriggerFine
  <2>1. TriggerFine(w)
    BY DEF Inv, Held
  <2>2. work'[w].d = work[w].d
    BY <1>1, <1>2
  <2>3. row'[work'[w].d] = None
    BY <1>5, <2>1, <2>2 DEF TriggerFine
  <2>4. work'[w].barred => At(w, "started")' /\ To[work'[w].d] \in optedOut'
    <3> SUFFICES ASSUME work'[w].barred
                 PROVE  At(w, "started")' /\ To[work'[w].d] \in optedOut'
      OBVIOUS
    <3>1. work[w].barred /\ ~ lifts(w)
      BY <1>1, <1>2
    <3>2. At(w, "started") /\ To[work[w].d] \in optedOut
      BY <2>1, <3>1 DEF TriggerFine
    <3> QED
      BY <1>5, <1>6, <2>2, <3>1, <3>2
  <2>5. ASSUME NEW v \in Workers \ {w}, Triggering(v)'
        PROVE  work'[v].d # work'[w].d
    <3>1. Triggering(v) /\ work'[v].d = work[v].d
      BY <1>1, <1>2, <1>6, <2>5
    <3> QED
      BY <2>1, <2>2, <3>1 DEF TriggerFine
  <2> QED
    BY <2>3, <2>4, <2>5 DEF TriggerFine
<1>8. ASSUME NEW w \in Workers
      PROVE  ImportFine(w)'
  <2> SUFFICES ASSUME Importing(w)
               PROVE  ImportFine(w)'
    BY <1>6 DEF ImportFine
  <2>1. work'[w] = work[w]
    BY <1>1, <1>2
  <2> QED
    BY <1>5, <1>6, <2>1 DEF Inv, Held, ImportFine
<1>9. ReportFine' /\ \A d \in Deliveries : DeliveryFine(d)'
  BY <1>5 DEF ReportFine, DeliveryFine, Inv, Held
<1> QED
  BY <1>4, <1>7, <1>8, <1>9 DEF Inv, Held

\* A request is cut short.
LEMMA StopInv ==
  ASSUME Inv, NEW w \in Workers, Stop(w)
  PROVE  Inv'
<1>1. /\ work' \in [Workers -> Jobs] /\ work'[w] = Idle
      /\ \A v \in Workers \ {w} : work'[v] = work[v]
  BY OneWorks DEF Stop, Inv, Jobs
<1>2. interrupted' \subseteq Deliveries
  <2>1. CASE Importing(w)
    <3>1. DOMAIN work[w].batch.results \subseteq Deliveries
      BY <2>1, Kinds, ImportFields, ReportFields DEF Inv
    <3> QED
      BY <2>1, <3>1 DEF Stop, Inv, TypeOK
  <2>2. CASE ~ Importing(w)
    BY <2>2 DEF Stop, Inv, TypeOK
  <2> QED
    BY <2>1, <2>2
<1>3. stops' \in 0 .. MaxStops
  BY ConstantsAssumption DEF Stop, Inv, TypeOK
<1>4. TypeOK'
  BY <1>1, <1>2, <1>3 DEF Stop, TypeOK, Jobs, relay, Inv
<1>5. /\ optedOut' = optedOut /\ batches' = batches /\ row' = row /\ recorded' = recorded
      /\ batch' = batch /\ hand' = hand /\ sends' = sends /\ oks' = oks
  BY DEF Stop, relay
<1>6. recorded' \subseteq 1 .. batches
      /\ \A d \in Deliveries : row[d] = None => hand'[d] = "none"
  BY <1>5 DEF Inv, Held, ReportFine, DeliveryFine
<1>7. ~ Triggering(w)' /\ ImportFine(w)'
  BY <1>1 DEF ImportFine, Importing, Triggering, At, Idle
<1>8. Held'
  BY <1>1, <1>5, <1>6, <1>7, HeldFrame
<1> QED
  BY <1>4, <1>8 DEF Inv

-----------------------------------------------------------------------------
(* The relay *)

\* A step of the relay that leaves the server alone and opens no report.
LEMMA RelayFrame ==
  ASSUME Inv, work' = work, row' = row, optedOut' = optedOut, recorded' = recorded,
         batch' = batch, batches' = batches,
         \A d \in Deliveries : DeliveryFine(d)',
         \A d \in Deliveries : hand[d] \in {"SENT", "FAILED"} => hand'[d] = hand[d]
  PROVE  Held'
<1>1. \A w \in Workers : TriggerFine(w)' /\ ImportFine(w)'
  BY DEF Inv, Held, TriggerFine, ImportFine, Triggering, Importing, At
<1>2. ReportFine'
  <2> SUFFICES ASSUME batch # None, NEW d \in DOMAIN batch.results
               PROVE  hand'[d] = batch.results[d]
    BY DEF Inv, Held, ReportFine
  <2>1. batch \in Batch
    BY DEF Inv, TypeOK
  <2>2. d \in Deliveries /\ batch.results[d] \in {"SENT", "FAILED"}
    BY <2>1, ReportFields
  <2> QED
    BY <2>2 DEF Inv, Held, ReportFine
<1> QED
  BY <1>1, <1>2 DEF Held

LEMMA ExportInv ==
  ASSUME Inv, Export
  PROVE  Inv'
<1> DEFINE ds == {d \in Deliveries : Pending(d) /\ hand[d] = "none"}
<1>1. /\ hand' = [d \in Deliveries |-> IF d \in ds THEN "exported" ELSE hand[d]]
      /\ UNCHANGED <<server, batch, batches, sends, oks, interrupted, doubled>>
  BY DEF Export
<1>2. TypeOK'
  BY <1>1 DEF TypeOK, server, Inv
<1>3. \A d \in Deliveries : row[d] = None => d \notin ds
  BY DEF Pending
<1>4. \A d \in Deliveries : hand[d] \in {"SENT", "FAILED"} => d \notin ds
  OBVIOUS
<1> HIDE DEF ds
<1>5. \A d \in Deliveries : DeliveryFine(d)'
  BY <1>1, <1>3 DEF Inv, Held, DeliveryFine, server
<1>6. \A d \in Deliveries : hand[d] \in {"SENT", "FAILED"} => hand'[d] = hand[d]
  BY <1>1, <1>4
<1>7. Held'
  BY <1>1, <1>5, <1>6, RelayFrame DEF server
<1> QED
  BY <1>2, <1>7 DEF Inv

LEMMA TransmitInv ==
  ASSUME Inv, NEW d \in Deliveries, NEW outcome \in {"SENT", "FAILED"}, Transmit(d, outcome)
  PROVE  Inv'
<1>1. /\ oks \in [Deliveries -> 0 .. MaxSends] /\ sends \in [Deliveries -> 0 .. MaxSends]
      /\ hand \in [Deliveries -> {"none", "exported", "SENT", "FAILED"}]
  BY DEF Inv, TypeOK
<1>2. /\ hand[d] = "exported" /\ sends[d] < MaxSends
      /\ hand' = [hand EXCEPT ![d] = outcome]
      /\ sends' = [sends EXCEPT ![d] = @ + 1]
      /\ oks' = IF outcome = "SENT" THEN [oks EXCEPT ![d] = @ + 1] ELSE oks
  BY DEF Transmit
<1>3. oks[d] <= sends[d] /\ row[d] # None
  BY <1>2 DEF Inv, Held, DeliveryFine
<1>4. /\ oks' \in [Deliveries -> 0 .. MaxSends] /\ sends' \in [Deliveries -> 0 .. MaxSends]
      /\ hand' \in [Deliveries -> {"none", "exported", "SENT", "FAILED"}]
      /\ oks'[d] <= sends'[d]
      /\ \A e \in Deliveries \ {d} :
            hand'[e] = hand[e] /\ sends'[e] = sends[e] /\ oks'[e] = oks[e]
  BY <1>1, <1>2, <1>3, ConstantsAssumption
<1>5. TypeOK'
  BY <1>4 DEF Transmit, TypeOK, server, Inv
<1>6. \A e \in Deliveries : DeliveryFine(e)'
  BY <1>3, <1>4 DEF Inv, Held, DeliveryFine, Transmit, server
<1>7. \A e \in Deliveries : hand[e] \in {"SENT", "FAILED"} => hand'[e] = hand[e]
  BY <1>2, <1>4
<1>8. Held'
  BY <1>6, <1>7, RelayFrame DEF Transmit, server
<1> QED
  BY <1>5, <1>8 DEF Inv

LEMMA ReportInv ==
  ASSUME Inv, Report
  PROVE  Inv'
<1> DEFINE results == [d \in Finished |-> hand[d]]
           b == [id |-> batches + 1, results |-> results]
<1>1. /\ batch = None /\ batches < MaxBatches /\ batch' = b /\ batches' = batches + 1
      /\ UNCHANGED <<server, hand, sends, oks, interrupted, doubled>>
  BY DEF Report
<1>2. batches \in Nat /\ MaxBatches \in Nat
  BY ConstantsAssumption DEF Inv, TypeOK
<1>3. Finished \in SUBSET Deliveries /\ \A d \in Finished : hand[d] \in {"SENT", "FAILED"}
  BY DEF Finished
<1>4. results \in [Finished -> {"SENT", "FAILED"}]
  BY <1>3
<1>5. b \in Batch /\ b.id = batches + 1 /\ b.results = results
  <2>1. results \in UNION {[ds -> {"SENT", "FAILED"}] : ds \in SUBSET Deliveries}
    BY <1>3, <1>4
  <2>2. batches + 1 \in 1 .. MaxBatches
    BY <1>1, <1>2
  <2> HIDE DEF results
  <2> QED
    BY <2>1, <2>2 DEF Batch
<1>6. DOMAIN results = Finished /\ \A d \in Finished : results[d] = hand[d]
  OBVIOUS
<1> HIDE DEF b, results
<1>7. TypeOK'
  BY <1>1, <1>2, <1>5 DEF TypeOK, server, Inv
<1>8. ASSUME NEW w \in Workers
      PROVE  TriggerFine(w)' /\ ImportFine(w)'
  <2>1. TriggerFine(w)'
    BY <1>1 DEF Inv, Held, TriggerFine, Triggering, At, server
  <2>2. ASSUME Importing(w)
        PROVE  work[w].batch.id \in Nat /\ work[w].batch.id <= batches
    BY <2>2, Kinds, ImportFields, ReportFields DEF Inv, Held, ImportFine
  <2>3. ASSUME Importing(w)
        PROVE  work[w].batch.id # b.id
    BY <1>2, <1>5, <2>2, <2>3
  <2>4. ImportFine(w)'
    <3> SUFFICES ASSUME Importing(w)
                 PROVE  ImportFine(w)'
      BY <1>1 DEF ImportFine, Importing, At, server
    <3> QED
      BY <1>1, <1>2, <2>2, <2>3 DEF Inv, Held, ImportFine, Importing, At, server
  <2> QED
    BY <2>1, <2>4
<1>9. ReportFine'
  BY <1>1, <1>2, <1>5, <1>6 DEF Inv, Held, ReportFine, server
<1>10. \A d \in Deliveries : DeliveryFine(d)'
  BY <1>1 DEF Inv, Held, DeliveryFine, server
<1> QED
  BY <1>7, <1>8, <1>9, <1>10 DEF Inv, Held

-----------------------------------------------------------------------------
(* Imports *)

LEMMA SendInv ==
  ASSUME Inv, NEW w \in Workers, Send(w)
  PROVE  Inv'
<1> DEFINE j == [pc |-> "arrived", batch |-> batch, left |-> DOMAIN batch.results,
                 next |-> None, seen |-> None]
<1>1. batch \in Batch
  BY DEF Send, Inv, TypeOK
<1>2. DOMAIN batch.results \subseteq Deliveries
  BY <1>1, ReportFields
<1>3. /\ j \in Import /\ j \in Jobs
      /\ j.pc = "arrived" /\ j.batch = batch /\ j.left = DOMAIN batch.results
  BY <1>1, <1>2 DEF Import, Jobs
<1>4. work' = [work EXCEPT ![w] = j]
  BY DEF Send
<1> HIDE DEF j
<1>5. /\ work' \in [Workers -> Jobs] /\ work'[w] = j
      /\ \A v \in Workers \ {w} : work'[v] = work[v]
  BY <1>3, <1>4, OneWorks DEF Inv
<1>6. doubled' \subseteq Deliveries
  BY <1>2 DEF Send, Inv, TypeOK
<1>7. TypeOK'
  BY <1>5, <1>6 DEF Send, TypeOK, Jobs, relay, Inv
<1>8. /\ optedOut' = optedOut /\ batches' = batches /\ row' = row /\ recorded' = recorded
      /\ batch' = batch /\ hand' = hand /\ sends' = sends /\ oks' = oks
  BY DEF Send, relay
<1>9. \A d \in DOMAIN batch.results : row[d] # None
  <2> SUFFICES ASSUME NEW d \in DOMAIN batch.results, row[d] = None
               PROVE  FALSE
    OBVIOUS
  <2>1. d \in Deliveries /\ batch.results[d] \in {"SENT", "FAILED"}
    BY <1>1, ReportFields
  <2>2. hand[d] = batch.results[d]
    BY DEF Inv, Held, ReportFine, Send
  <2> QED
    BY <2>1, <2>2 DEF Inv, Held, DeliveryFine
<1>10. ImportFine(w)'
  <2>1. batch.id <= batches
    BY DEF Inv, Held, ReportFine, Send
  <2> QED
    BY <1>3, <1>5, <1>8, <1>9, <2>1 DEF ImportFine, At
<1>11. ~ Triggering(w)'
  BY <1>3, <1>5 DEF Triggering, At
<1>12. recorded' \subseteq 1 .. batches
      /\ \A d \in Deliveries : row[d] = None => hand'[d] = "none"
  BY <1>8 DEF Inv, Held, ReportFine, DeliveryFine
<1>13. Held'
  BY <1>5, <1>8, <1>10, <1>11, <1>12, HeldFrame
<1> QED
  BY <1>7, <1>13 DEF Inv

\* The answer to an import.
LEMMA AnsweredInv ==
  ASSUME Inv, NEW w \in Workers, Importing(w), Answered(work[w].batch)
  PROVE  /\ hand' \in [Deliveries -> {"none", "exported", "SENT", "FAILED"}]
         /\ batch' \in Batch \cup {None}
         /\ \/ batch' = batch /\ hand' = hand
            \/ batch' = None
         /\ \A d \in Deliveries : row[d] = None => hand'[d] = "none"
<1>1. CASE work[w].batch = batch
  BY <1>1 DEF Answered, Inv, Held, DeliveryFine, TypeOK
<1>2. CASE work[w].batch # batch
  BY <1>2 DEF Answered, Inv, Held, DeliveryFine, TypeOK
<1> QED
  BY <1>1, <1>2

LEMMA EndInv ==
  ASSUME Inv, NEW w \in Workers, Replay(w) \/ Record(w) \/ RecordUnheard(w)
  PROVE  Inv'
<1>1. Importing(w) /\ work[w] \in Import
  BY Kinds DEF Replay, Record, RecordUnheard, Importing, At, Inv
<1>2. /\ work' \in [Workers -> Jobs] /\ work'[w] = Idle
      /\ \A v \in Workers \ {w} : work'[v] = work[v]
  BY OneWorks DEF Replay, Record, RecordUnheard, Inv, Jobs
<1>3. /\ optedOut' = optedOut /\ notes' = notes /\ row' = row /\ batches' = batches
      /\ sends' = sends /\ oks' = oks
      /\ interrupted' = interrupted /\ doubled' = doubled
  BY DEF Replay, Record, RecordUnheard, relay
<1>4. stops' \in 0 .. MaxStops
  BY ConstantsAssumption DEF Replay, Record, RecordUnheard, Inv, TypeOK
<1>5. /\ hand' \in [Deliveries -> {"none", "exported", "SENT", "FAILED"}]
      /\ batch' \in Batch \cup {None}
      /\ \/ batch' = batch /\ hand' = hand
         \/ batch' = None
      /\ \A d \in Deliveries : row[d] = None => hand'[d] = "none"
  <2>1. CASE Replay(w) \/ Record(w)
    BY <1>1, <2>1, AnsweredInv DEF Replay, Record
  <2>2. CASE RecordUnheard(w)
    BY <2>2 DEF RecordUnheard, relay, Inv, Held, DeliveryFine, TypeOK
  <2> QED
    BY <2>1, <2>2
<1>6. recorded' \subseteq 1 .. batches /\ recorded' \subseteq 1 .. MaxBatches
  <2>1. recorded \subseteq 1 .. batches /\ recorded \subseteq 1 .. MaxBatches
    BY DEF Inv, TypeOK, Held, ReportFine
  <2>2. work[w].batch.id \in 1 .. batches /\ work[w].batch.id \in 1 .. MaxBatches
    <3>1. work[w].batch.id \in 1 .. MaxBatches /\ work[w].batch.id <= batches
      BY <1>1, ImportFields, ReportFields DEF Inv, Held, ImportFine
    <3>2. batches \in Nat /\ MaxBatches \in Nat
      BY ConstantsAssumption DEF Inv, TypeOK
    <3> QED
      BY <3>1, <3>2
  <2>3. recorded' = recorded \/ recorded' = recorded \cup {work[w].batch.id}
    BY DEF Replay, Record, RecordUnheard
  <2> QED
    BY <2>1, <2>2, <2>3
<1>7. TypeOK'
  BY <1>2, <1>3, <1>4, <1>5, <1>6 DEF TypeOK, Jobs, Inv
<1>8. ~ Triggering(w)' /\ ImportFine(w)'
  BY <1>2 DEF ImportFine, Importing, Triggering, At, Idle
<1>9. Held'
  BY <1>2, <1>3, <1>5, <1>6, <1>8, HeldFrame
<1> QED
  BY <1>7, <1>9 DEF Inv

\* What an import has in hand after one of its own statements.
LEMMA ImportSteps ==
  ASSUME Inv, NEW w \in Workers, Gate(w) \/ Read(w) \/ Apply(w)
  PROVE  /\ Importing(w) /\ work[w] \in Import /\ work'[w] \in Import
         /\ \A v \in Workers \ {w} : work'[v] = work[v]
         /\ work' \in [Workers -> Jobs]
         /\ work'[w].batch = work[w].batch
         /\ Gate(w) => /\ work'[w].pc = "gated" /\ work'[w].left = work[w].left
         /\ Read(w) => /\ work'[w].pc = "read" /\ work'[w].left = work[w].left
                       /\ work'[w].next \in work[w].left
                       /\ work'[w].seen = row[work'[w].next]
         /\ Apply(w) => /\ work'[w].pc = "gated"
                        /\ work'[w].left = work[w].left \ {work[w].next}
<1>1. Importing(w) /\ work[w] \in Import /\ work \in [Workers -> {Idle} \cup Trigger \cup Import]
  BY Kinds DEF Gate, Read, Apply, Importing, At, Inv, TypeOK
<1>2. /\ work[w].batch \in Batch /\ work[w].left \subseteq Deliveries
      /\ row \in [Deliveries -> Row \cup {None}]
  BY <1>1, ImportFields DEF Inv, TypeOK
<1>3. CASE Gate(w)
  <2> DEFINE j == [work[w] EXCEPT !.pc = "gated"]
  <2>1. work' = [work EXCEPT ![w] = j]
    BY <1>1, <1>3 DEF Gate
  <2>2. j \in Import /\ j.pc = "gated" /\ j.left = work[w].left /\ j.batch = work[w].batch
    BY <1>1 DEF Import
  <2>3. ~ Read(w) /\ ~ Apply(w)
    BY <1>3 DEF Gate, Read, Apply, At
  <2> HIDE DEF j
  <2>4. j \in Jobs
    BY <2>2 DEF Jobs
  <2>5. /\ work' \in [Workers -> Jobs] /\ work'[w] = j
        /\ \A v \in Workers \ {w} : work'[v] = work[v]
    BY <2>1, <2>4, OneWorks DEF Inv
  <2> QED
    BY <1>1, <2>2, <2>3, <2>5
<1>4. CASE Read(w)
  <2>1. PICK d \in work[w].left :
          work' = [work EXCEPT ![w].pc = "read", ![w].next = d, ![w].seen = row[d]]
    BY <1>4 DEF Read
  <2> DEFINE j == [work[w] EXCEPT !.pc = "read", !.next = d, !.seen = row[d]]
  <2>2. work' = [work EXCEPT ![w] = j]
    BY <1>1, <2>1
  <2>3. d \in Deliveries /\ row[d] \in Row \cup {None}
    BY <1>2
  <2>4. /\ j \in Import /\ j.pc = "read" /\ j.left = work[w].left /\ j.batch = work[w].batch
        /\ j.next = d /\ j.seen = row[d]
    BY <1>1, <2>3 DEF Import
  <2>5. ~ Gate(w) /\ ~ Apply(w)
    BY <1>4 DEF Gate, Read, Apply, At
  <2> HIDE DEF j
  <2>6. j \in Jobs
    BY <2>4 DEF Jobs
  <2>7. /\ work' \in [Workers -> Jobs] /\ work'[w] = j
        /\ \A v \in Workers \ {w} : work'[v] = work[v]
    BY <2>2, <2>6, OneWorks DEF Inv
  <2> QED
    BY <1>1, <2>4, <2>5, <2>7
<1>5. CASE Apply(w)
  <2> DEFINE j == [work[w] EXCEPT !.pc = "gated", !.left = @ \ {work[w].next},
                                  !.next = None, !.seen = None]
  <2>1. work' = [work EXCEPT ![w] = j]
    BY <1>1, <1>5 DEF Apply
  <2>2. /\ j \in Import /\ j.pc = "gated" /\ j.left = work[w].left \ {work[w].next}
        /\ j.batch = work[w].batch
    BY <1>1, <1>2 DEF Import
  <2>3. ~ Gate(w) /\ ~ Read(w)
    BY <1>5 DEF Gate, Read, Apply, At
  <2> HIDE DEF j
  <2>4. j \in Jobs
    BY <2>2 DEF Jobs
  <2>5. /\ work' \in [Workers -> Jobs] /\ work'[w] = j
        /\ \A v \in Workers \ {w} : work'[v] = work[v]
    BY <2>1, <2>4, OneWorks DEF Inv
  <2> QED
    BY <1>1, <2>2, <2>3, <2>5
<1> QED
  BY <1>3, <1>4, <1>5
LEMMA AppliedRow ==
  ASSUME NEW now \in Row, NEW seen \in Row, NEW result \in {"SENT", "FAILED"}
  PROVE  /\ Applied(now, seen, result) \in Row
         /\ Applied(now, seen, result) # None
         /\ result = "SENT" => /\ Applied(now, seen, result).status = "SENT"
                               /\ Applied(now, seen, result).attempts = now.attempts
         /\ result = "FAILED" =>
              /\ Applied(now, seen, result).attempts = seen.attempts + 1
              /\ Applied(now, seen, result).status =
                   IF seen.attempts + 1 >= MaxAttempts THEN "DEAD" ELSE "PENDING"
<1>1. CASE result = "SENT"
  BY <1>1, ConstantsAssumption DEF Applied, Row
<1>2. CASE result = "FAILED"
  BY <1>2, ConstantsAssumption DEF Applied, Failed, Row
<1> QED
  BY <1>1, <1>2

\* The statement that applies a result.
LEMMA ApplySteps ==
  ASSUME Inv, NEW w \in Workers, Apply(w)
  PROVE  LET d == work[w].next
         IN  /\ d \in work[w].left /\ d \in DOMAIN work[w].batch.results /\ d \in Deliveries
             /\ row[d] \in Row /\ work[w].seen \in Row
             /\ work[w].batch.results[d] \in {"SENT", "FAILED"}
             /\ row'[d] = Applied(row[d], work[w].seen, work[w].batch.results[d])
             /\ row'[d] \in Row /\ row'[d] # None
             /\ row' \in [Deliveries -> Row \cup {None}]
             /\ \A e \in Deliveries \ {d} : row'[e] = row[e]
<1> DEFINE d == work[w].next
           r == Applied(row[d], work[w].seen, work[w].batch.results[d])
<1>1. Importing(w) /\ work[w] \in Import /\ At(w, "read")
  BY Kinds DEF Apply, Importing, At, Inv
<1>2. /\ d \in work[w].left /\ d \in DOMAIN work[w].batch.results
      /\ work[w].seen # None /\ row[d] # None
  BY <1>1 DEF Inv, Held, ImportFine
<1>3. /\ d \in Deliveries /\ work[w].seen \in Row
      /\ work[w].batch.results[d] \in {"SENT", "FAILED"}
  BY <1>1, <1>2, ImportFields, ReportFields
<1>4. row \in [Deliveries -> Row \cup {None}] /\ row[d] \in Row
  BY <1>2, <1>3 DEF Inv, TypeOK
<1>5. row' = [row EXCEPT ![d] = r]
  BY <1>3, <1>4 DEF Apply
<1>6. r \in Row /\ r # None
  BY <1>3, <1>4, AppliedRow
<1> HIDE DEF r
<1>7. /\ row'[d] = r
      /\ row' \in [Deliveries -> Row \cup {None}]
      /\ \A e \in Deliveries \ {d} : row'[e] = row[e]
  BY <1>3, <1>4, <1>5, <1>6
<1> QED
  BY <1>2, <1>3, <1>4, <1>6, <1>7 DEF r

LEMMA ImportInv ==
  ASSUME Inv, NEW w \in Workers, Gate(w) \/ Read(w) \/ Apply(w)
  PROVE  Inv'
<1>1. /\ Importing(w) /\ work[w] \in Import /\ work'[w] \in Import
      /\ \A v \in Workers \ {w} : work'[v] = work[v]
      /\ work' \in [Workers -> Jobs]
      /\ work'[w].batch = work[w].batch
  BY ImportSteps
<1>2. /\ row' \in [Deliveries -> Row \cup {None}]
      /\ \A d \in Deliveries : row'[d] = None <=> row[d] = None
  <2>1. CASE Gate(w) \/ Read(w)
    BY <2>1 DEF Gate, Read, Inv, TypeOK
  <2>2. CASE Apply(w)
    BY <2>2, ApplySteps, ConstantsAssumption
  <2> QED
    BY <2>1, <2>2
<1>3. /\ optedOut' = optedOut /\ notes' = notes /\ recorded' = recorded /\ stops' = stops
      /\ batches' = batches /\ batch' = batch /\ hand' = hand /\ sends' = sends /\ oks' = oks
      /\ interrupted' = interrupted /\ doubled' = doubled
  BY DEF Gate, Read, Apply, relay
<1>4. TypeOK'
  BY <1>1, <1>2, <1>3 DEF TypeOK, Jobs, Inv
<1>5. ImportFine(w)'
  <2>1. ImportFine(w)
    BY DEF Inv, Held
  <2>2. DOMAIN work[w].batch.results \subseteq Deliveries
    BY <1>1, ImportFields, ReportFields
  <2>3. /\ \A d \in DOMAIN work'[w].batch.results : row'[d] # None
        /\ work'[w].batch.id <= batches'
        /\ batch' # None /\ work'[w].batch.id = batch'.id => work'[w].batch = batch'
    BY <1>1, <1>2, <1>3, <2>1, <2>2 DEF ImportFine
  <2>4. /\ work'[w].left \subseteq DOMAIN work'[w].batch.results
        /\ ~ At(w, "arrived")'
        /\ At(w, "read")' => work'[w].next \in work'[w].left /\ work'[w].seen # None
    <3>1. CASE Gate(w)
      BY <1>1, <2>1, <3>1, ImportSteps DEF ImportFine, At
    <3>2. CASE Read(w)
      <4>1. work'[w].next \in work[w].left /\ work'[w].seen = row[work'[w].next]
        BY <3>2, ImportSteps
      <4>2. row[work'[w].next] # None
        BY <1>1, <2>1, <4>1 DEF ImportFine
      <4> QED
        BY <1>1, <2>1, <3>2, <4>1, <4>2, ImportSteps DEF ImportFine, At
    <3>3. CASE Apply(w)
      BY <1>1, <2>1, <3>3, ImportSteps DEF ImportFine, At
    <3> QED
      BY <3>1, <3>2, <3>3
  <2> QED
    BY <2>3, <2>4 DEF ImportFine
<1>6. ~ Triggering(w)'
  BY <1>1, ImportFields DEF Triggering, At
<1>7. recorded' \subseteq 1 .. batches
      /\ \A d \in Deliveries : row[d] = None => hand'[d] = "none"
  BY <1>3 DEF Inv, Held, ReportFine, DeliveryFine
<1>8. Held'
  BY <1>1, <1>2, <1>3, <1>5, <1>6, <1>7, HeldFrame
<1> QED
  BY <1>4, <1>8 DEF Inv

LEMMA InvStep == Inv /\ [Next]_vars => Inv'
<1> SUFFICES ASSUME Inv, [Next]_vars PROVE Inv'
  OBVIOUS
<1>1. CASE UNCHANGED vars
  <2>1. TypeOK'
    BY <1>1 DEF vars, server, relay, Inv, TypeOK
  <2>2. \A w \in Workers : TriggerFine(w)' /\ ImportFine(w)'
    BY <1>1 DEF vars, server, relay, Inv, Held, TriggerFine, ImportFine, Triggering,
                Importing, At
  <2>3. ReportFine' /\ \A d \in Deliveries : DeliveryFine(d)'
    BY <1>1 DEF vars, server, relay, Inv, Held, ReportFine, DeliveryFine
  <2> QED
    BY <2>1, <2>2, <2>3 DEF Inv, Held
<1>2. ASSUME NEW w \in Workers, NEW d \in Deliveries, Begin(w, d)
      PROVE  Inv'
  BY <1>2, BeginInv
<1>3. ASSUME NEW w \in Workers, Proceed(w)
      PROVE  Inv'
  BY <1>3, CheckInv, QueueInv, EndInv, ImportInv DEF Proceed
<1>4. ASSUME NEW w \in Workers, RecordUnheard(w) \/ Stop(w)
      PROVE  Inv'
  BY <1>4, EndInv, StopInv
<1>5. ASSUME NEW u \in Users, NEW enabled \in BOOLEAN, Subscribe(u, enabled)
      PROVE  Inv'
  BY <1>5, SubscribeInv
<1>6. CASE Relay
  <2>1. ASSUME NEW d \in Deliveries, NEW outcome \in {"SENT", "FAILED"}, Transmit(d, outcome)
        PROVE  Inv'
    BY <2>1, TransmitInv
  <2> QED
    BY <1>6, <2>1, ExportInv, ReportInv, SendInv DEF Relay
<1> QED
  BY <1>1, <1>2, <1>3, <1>4, <1>5, <1>6 DEF Next

\* Rows, subscriptions, requests in hand and the relay's books keep their types
\* (notify.rs, notifications.rs), whatever overlaps and stops.
THEOREM TypeCorrect == Spec => []TypeOK
<1>1. Init => Inv
  BY InitInv
<1>2. Inv /\ [Next]_vars => Inv'
  BY InvStep
<1>3. Inv => TypeOK
  BY DEF Inv
<1> QED
  BY <1>1, <1>2, <1>3, PTL DEF Spec

\* A trigger that begins after its user has opted out writes nothing
\* (notify::enqueue), unless the user opts in again meanwhile.
THEOREM OptOutHolds == Spec => []OptOutSilences
<1>1. Init => Inv
  BY InitInv
<1>2. Inv /\ [Next]_vars => Inv'
  BY InvStep
<1>3. Inv => OptOutSilences
  BY DEF Inv, Held, TriggerFine, OptOutSilences
<1> QED
  BY <1>1, <1>2, <1>3, PTL DEF Spec
-----------------------------------------------------------------------------
(* Tracked *)

Kept(d) == Clear(d) /\ Bounded(d) /\ Exact(d)

LEMMA DeliveryFields ==
  ASSUME Inv, NEW d \in Deliveries
  PROVE  /\ sends[d] \in Nat /\ oks[d] \in Nat /\ oks[d] <= sends[d] /\ MaxAttempts \in Nat
         /\ hand[d] \in {"none", "exported", "SENT", "FAILED"}
         /\ row[d] # None => /\ row[d] \in Row /\ row[d].attempts \in Nat
                             /\ row[d].status \in {"PENDING", "SENT", "DEAD"}
         /\ InReport(d) => batch \in Batch /\ hand[d] = batch.results[d]
                             /\ hand[d] \in {"SENT", "FAILED"} /\ row[d] # None
<1>1. /\ sends[d] \in 0 .. MaxSends /\ oks[d] \in 0 .. MaxSends
      /\ hand[d] \in {"none", "exported", "SENT", "FAILED"}
      /\ row[d] \in Row \cup {None} /\ batch \in Batch \cup {None}
  BY DEF Inv, TypeOK
<1>2. oks[d] <= sends[d] /\ (row[d] = None => hand[d] = "none")
  BY DEF Inv, Held, DeliveryFine
<1>3. sends[d] \in Nat /\ oks[d] \in Nat /\ MaxAttempts \in Nat
  BY <1>1, ConstantsAssumption
<1>4. ASSUME InReport(d)
      PROVE  /\ batch \in Batch /\ hand[d] = batch.results[d]
             /\ hand[d] \in {"SENT", "FAILED"} /\ row[d] # None
  <2>1. batch \in Batch /\ d \in DOMAIN batch.results /\ batch # None
    BY <1>1, <1>4 DEF InReport
  <2>2. hand[d] = batch.results[d]
    BY <2>1 DEF Inv, Held, ReportFine
  <2>3. batch.results[d] \in {"SENT", "FAILED"}
    BY <2>1, ReportFields
  <2> QED
    BY <1>2, <2>1, <2>2, <2>3
<1>5. row[d] # None => /\ row[d] \in Row /\ row[d].attempts \in Nat
                       /\ row[d].status \in {"PENDING", "SENT", "DEAD"}
  BY <1>1 DEF Row
<1> QED
  BY <1>1, <1>2, <1>3, <1>4, <1>5

\* Who imports a delivery has the open report with it.
LEMMA ImporterFields ==
  ASSUME Inv, NEW d \in Deliveries, Clear(d), NEW w \in Importers(d)
  PROVE  /\ w \in Workers /\ Importing(w) /\ work[w] \in Import
         /\ work[w].batch = batch /\ InReport(d)
         /\ Importers(d) = {w}
         /\ Taken(d) <=> batch.id \in recorded \/ (~ At(w, "arrived") /\ d \notin work[w].left)
<1>1. /\ w \in Workers /\ Importing(w) /\ work[w] \in Import
      /\ d \in DOMAIN work[w].batch.results
  BY Kinds DEF Importers, Inv
<1>2. work[w].batch = batch /\ Importers(d) = {w}
  BY DEF Clear
<1>3. InReport(d)
  BY <1>1, <1>2, ImportFields, ReportFields DEF InReport
<1> QED
  BY <1>1, <1>2, <1>3 DEF Taken

\* Nothing the books say of the delivery changes.
LEMMA BooksFrame ==
  ASSUME NEW d, Bounded(d), Exact(d),
         row'[d] = row[d], hand'[d] = hand[d], sends'[d] = sends[d], oks'[d] = oks[d],
         interrupted \subseteq interrupted',
         Taken(d)' <=> Taken(d)
  PROVE  Bounded(d)' /\ Exact(d)'
<1>1. ToldSent(d)' = ToldSent(d) /\ ToldFailed(d)' = ToldFailed(d)
  BY DEF ToldSent, ToldFailed, Told
<1>2. KnownSent(d)' = KnownSent(d) /\ KnownFailed(d)' = KnownFailed(d)
  BY <1>1 DEF KnownSent, KnownFailed
<1>3. Bounded(d)'
  BY <1>2 DEF Bounded
<1>4. Exact(d)'
  BY <1>2 DEF Exact
<1> QED
  BY <1>3, <1>4

\* Nobody's import moves, and no report.
LEMMA QuietFrame ==
  ASSUME NEW d, Kept(d),
         \A v \in Workers : /\ Importing(v)' <=> Importing(v)
                            /\ Importing(v) => work'[v] = work[v],
         recorded' = recorded, batch' = batch,
         row'[d] = row[d], hand'[d] = hand[d], sends'[d] = sends[d], oks'[d] = oks[d],
         interrupted \subseteq interrupted'
  PROVE  Kept(d)'
<1>1. Importers(d)' = Importers(d)
  BY DEF Importers
<1>2. ASSUME NEW v \in Importers(d)
      PROVE  work'[v] = work[v]
  BY <1>2 DEF Importers
<1>3. Clear(d)'
  BY <1>1, <1>2 DEF Kept, Clear, At
<1>4. InReport(d)' <=> InReport(d)
  BY DEF InReport
<1>5. Taken(d)' <=> Taken(d)
  BY <1>1, <1>2, <1>4 DEF Taken, At
<1> QED
  BY <1>3, <1>5, BooksFrame DEF Kept

LEMMA BeginKeeps ==
  ASSUME Inv, NEW w \in Workers, NEW d \in Deliveries, Kept(d),
         (\E e \in Deliveries : Begin(w, e)) \/ Check(w) \/ Notify(w)
  PROVE  Kept(d)'
<1>1. \A v \in Workers \ {w} : work'[v] = work[v]
  BY DEF Begin, Check, Notify, Inv, TypeOK
<1>2. ~ Importing(w)
  BY DEF Begin, Check, Notify, Importing, At
<1>3. work'[w].pc \in {"started", "idle", "checked", "noted"}
  <2>1. \A e \in Deliveries : Begin(w, e) => work'[w].pc = "started"
    BY DEF Begin, Inv, TypeOK
  <2>2. CASE Check(w) \/ Notify(w)
    <3>1. work[w] \in Trigger
      BY <2>2, Kinds DEF Check, Notify, Triggering, At, Inv
    <3>2. Check(w) => work'[w] = Idle \/ work'[w] = [work[w] EXCEPT !.pc = "checked"]
      BY DEF Check, Inv, TypeOK
    <3>3. Notify(w) => work'[w] = [work[w] EXCEPT !.pc = "noted"]
      BY DEF Notify, Inv, TypeOK
    <3> QED
      BY <2>2, <3>1, <3>2, <3>3 DEF Idle, Trigger
  <2> QED
    BY <2>1, <2>2
<1>4. ~ Importing(w)'
  BY <1>3 DEF Importing, At
<1>5. \A v \in Workers : /\ Importing(v)' <=> Importing(v)
                         /\ Importing(v) => work'[v] = work[v]
  BY <1>1, <1>2, <1>4 DEF Importing, At
<1>6. /\ recorded' = recorded /\ batch' = batch /\ row' = row /\ hand' = hand
      /\ sends' = sends /\ oks' = oks /\ interrupted' = interrupted
  BY DEF Begin, Check, Notify, relay
<1> QED
  BY <1>5, <1>6, QuietFrame

LEMMA SubscribeKeeps ==
  ASSUME Inv, NEW u \in Users, NEW enabled \in BOOLEAN, Subscribe(u, enabled),
         NEW d \in Deliveries, Kept(d)
  PROVE  Kept(d)'
<1>1. ASSUME NEW v \in Workers
      PROVE  /\ Importing(v)' <=> Importing(v)
             /\ Importing(v) => work'[v] = work[v]
  <2>1. CASE Triggering(v)
    <3>1. ~ Importing(v) /\ work[v] \in Trigger
      BY <2>1, Kinds DEF Inv
    <3>2. work'[v] = work[v] \/ work'[v] = [work[v] EXCEPT !.barred = FALSE]
      BY DEF Subscribe
    <3>3. work'[v].pc = work[v].pc
      BY <3>1, <3>2 DEF Trigger
    <3> QED
      BY <3>1, <3>3 DEF Importing, At
  <2>2. CASE ~ Triggering(v)
    <3>1. work'[v] = work[v]
      BY <2>2 DEF Subscribe
    <3> QED
      BY <3>1 DEF Importing, At
  <2> QED
    BY <2>1, <2>2
<1>2. /\ recorded' = recorded /\ batch' = batch /\ row' = row /\ hand' = hand
      /\ sends' = sends /\ oks' = oks /\ interrupted' = interrupted
  BY DEF Subscribe, relay
<1> QED
  BY <1>1, <1>2, QuietFrame

LEMMA QueueKeeps ==
  ASSUME Inv, NEW w \in Workers, NEW d \in Deliveries, Kept(d), Queue(w)
  PROVE  Kept(d)'
<1>1. Triggering(w) /\ work[w] \in Trigger /\ work[w].d \in Deliveries /\ ~ Importing(w)
  BY Kinds DEF Queue, Triggering, At, Inv, Trigger
<1>2. /\ work'[w] = Idle /\ \A v \in Workers \ {w} : work'[v] = work[v]
      /\ \A e \in Deliveries \ {work[w].d} : row'[e] = row[e]
      /\ row'[work[w].d] = [status |-> "PENDING", attempts |-> 0]
  BY <1>1 DEF Queue, Inv, TypeOK
<1>3. \A v \in Workers : /\ Importing(v)' <=> Importing(v)
                         /\ Importing(v) => work'[v] = work[v]
  BY <1>1, <1>2 DEF Importing, At, Idle
<1>4. /\ recorded' = recorded /\ batch' = batch /\ hand' = hand
      /\ sends' = sends /\ oks' = oks /\ interrupted' = interrupted
  BY DEF Queue, relay
<1>5. CASE d # work[w].d
  BY <1>2, <1>3, <1>4, <1>5, QuietFrame
<1>6. CASE d = work[w].d
  <2>1. row[d] = None /\ hand[d] = "none" /\ sends[d] = 0 /\ oks[d] = 0
    BY <1>1, <1>6 DEF Inv, Held, TriggerFine, DeliveryFine
  <2>2. ~ InReport(d)
    BY <2>1, DeliveryFields
  <2>3. Importers(d) = {}
    BY <2>1 DEF Importers, Inv, Held, ImportFine
  <2>4. Importers(d)' = {}
    BY <1>3, <2>3 DEF Importers
  <2>5. ~ Taken(d)' /\ Clear(d)'
    BY <1>4, <2>2, <2>4 DEF Taken, InReport, Clear
  <2>6. row'[d].status = "PENDING" /\ row'[d].attempts = 0
    BY <1>2, <1>6
  <2>7. KnownSent(d)' = 0 /\ KnownFailed(d)' = 0
    BY <1>4, <2>1, <2>5 DEF KnownSent, KnownFailed, ToldSent, ToldFailed, Told
  <2>8. Bounded(d)' /\ Exact(d)'
    BY <1>4, <2>1, <2>6, <2>7, ConstantsAssumption DEF Bounded, Exact
  <2> QED
    BY <2>5, <2>8 DEF Kept
<1> QED
  BY <1>5, <1>6

LEMMA ExportKeeps ==
  ASSUME Inv, NEW d \in Deliveries, Kept(d), Export
  PROVE  Kept(d)'
<1> DEFINE due == Pending(d) /\ hand[d] = "none"
<1>1. /\ work' = work /\ recorded' = recorded /\ batch' = batch /\ row' = row
      /\ sends' = sends /\ oks' = oks /\ interrupted' = interrupted
      /\ hand'[d] = IF due THEN "exported" ELSE hand[d]
  BY DEF Export, server
<1>2. \A v \in Workers : /\ Importing(v)' <=> Importing(v)
                         /\ Importing(v) => work'[v] = work[v]
  BY <1>1 DEF Importing, At
<1>3. CASE ~ due
  BY <1>1, <1>2, <1>3, QuietFrame
<1>4. CASE due
  <2>1. hand[d] = "none" /\ hand'[d] = "exported" /\ row[d] # None /\ row[d].status = "PENDING"
    BY <1>1, <1>4 DEF Pending
  <2>2. ~ InReport(d)
    BY <2>1, DeliveryFields
  <2>3. ~ InReport(d)'
    BY <1>1, <2>2 DEF InReport
  <2>4. Importers(d)' = Importers(d) /\ Clear(d)'
    BY <1>1 DEF Importers, Importing, At, Kept, Clear
  <2>5. ~ Taken(d) /\ ~ Taken(d)'
    BY <2>2, <2>3 DEF Taken
  <2>6. KnownSent(d)' = KnownSent(d) /\ KnownFailed(d)' = KnownFailed(d)
    BY <1>1, <2>1, <2>5 DEF KnownSent, KnownFailed, ToldSent, ToldFailed, Told
  <2>7. Bounded(d)'
    BY <1>1, <2>1, <2>6 DEF Kept, Bounded
  <2>8. Exact(d)'
    BY <1>1, <2>6 DEF Kept, Exact
  <2> QED
    BY <2>4, <2>7, <2>8 DEF Kept
<1> QED
  BY <1>3, <1>4

LEMMA TransmitKeeps ==
  ASSUME Inv, NEW d \in Deliveries, Kept(d), NEW e \in Deliveries,
         NEW outcome \in {"SENT", "FAILED"}, Transmit(e, outcome)
  PROVE  Kept(d)'
<1>1. /\ work' = work /\ recorded' = recorded /\ batch' = batch /\ row' = row
      /\ interrupted' = interrupted
  BY DEF Transmit, server
<1>2. \A v \in Workers : /\ Importing(v)' <=> Importing(v)
                         /\ Importing(v) => work'[v] = work[v]
  BY <1>1 DEF Importing, At
<1>3. /\ hand[e] = "exported" /\ hand'[e] = outcome /\ sends'[e] = sends[e] + 1
      /\ oks'[e] = IF outcome = "SENT" THEN oks[e] + 1 ELSE oks[e]
      /\ \A c \in Deliveries \ {e} :
            hand'[c] = hand[c] /\ sends'[c] = sends[c] /\ oks'[c] = oks[c]
  BY DEF Transmit, Inv, TypeOK
<1>4. CASE d # e
  BY <1>1, <1>2, <1>3, <1>4, QuietFrame
<1>5. CASE d = e
  <2>1. ~ InReport(d)
    BY <1>3, <1>5, DeliveryFields
  <2>2. ~ Taken(d) /\ ~ Taken(d)'
    BY <1>1, <2>1 DEF Taken, InReport
  <2>3. Clear(d)'
    BY <1>1 DEF Importers, Importing, At, Kept, Clear
  <2>4. /\ sends[d] \in Nat /\ oks[d] \in Nat /\ oks[d] <= sends[d]
        /\ row[d] # None /\ row[d].attempts \in Nat /\ row[d].status = "PENDING"
    BY <1>3, <1>5, DeliveryFields DEF Kept, Bounded
  <2>5. KnownSent(d) = oks[d] /\ KnownFailed(d) = sends[d] - oks[d]
    BY <1>3, <1>5, <2>2, <2>4 DEF KnownSent, KnownFailed, ToldSent, ToldFailed, Told
  <2>6. KnownSent(d)' = KnownSent(d) /\ KnownFailed(d)' = KnownFailed(d)
    <3>1. CASE outcome = "SENT"
      BY <1>3, <1>5, <2>2, <2>4, <2>5, <3>1
         DEF KnownSent, KnownFailed, ToldSent, ToldFailed, Told
    <3>2. CASE outcome = "FAILED"
      BY <1>3, <1>5, <2>2, <2>4, <2>5, <3>2
         DEF KnownSent, KnownFailed, ToldSent, ToldFailed, Told
    <3> QED
      BY <3>1, <3>2
  <2>7. oks[d] = 0 /\ sends[d] < MaxAttempts
    BY <2>4, <2>5, ConstantsAssumption DEF Kept, Bounded
  <2>8. Bounded(d)'
    BY <1>1, <1>3, <1>5, <2>4, <2>5, <2>6, <2>7, ConstantsAssumption DEF Kept, Bounded
  <2>9. Exact(d)'
    BY <1>1, <2>6 DEF Kept, Exact
  <2> QED
    BY <2>3, <2>8, <2>9 DEF Kept
<1> QED
  BY <1>4, <1>5

LEMMA ReportKeeps ==
  ASSUME Inv, NEW d \in Deliveries, Kept(d), Report
  PROVE  Kept(d)'
<1>1. /\ work' = work /\ recorded' = recorded /\ row' = row /\ hand' = hand
      /\ sends' = sends /\ oks' = oks /\ interrupted' = interrupted
      /\ batch = None /\ batch'.id = batches + 1
  BY DEF Report, server
<1>2. Importers(d) = {}
  <2> SUFFICES ASSUME NEW w \in Importers(d) PROVE FALSE
    OBVIOUS
  <2> QED
    BY <1>1, ImporterFields DEF Kept, InReport
<1>3. Importers(d)' = {}
  BY <1>1, <1>2 DEF Importers, Importing, At
<1>4. batch'.id \notin recorded
  BY <1>1 DEF Inv, TypeOK, Held, ReportFine
<1>5. ~ Taken(d) /\ ~ Taken(d)' /\ Clear(d)'
  BY <1>1, <1>2, <1>3, <1>4 DEF Taken, InReport, Clear
<1> QED
  BY <1>1, <1>5, BooksFrame DEF Kept
LEMMA SendKeeps ==
  ASSUME Inv, NEW w \in Workers, NEW d \in Deliveries, Kept(d), Send(w), d \notin doubled'
  PROVE  Kept(d)'
<1>1. /\ recorded' = recorded /\ batch' = batch /\ row' = row /\ hand' = hand
      /\ sends' = sends /\ oks' = oks /\ interrupted' = interrupted
      /\ At(w, "idle") /\ batch # None
  BY DEF Send, relay
<1>2. /\ work'[w].pc = "arrived" /\ work'[w].batch = batch
      /\ work'[w].left = DOMAIN batch.results
      /\ \A v \in Workers \ {w} : work'[v] = work[v]
  BY DEF Send, Inv, TypeOK
<1>3. ~ Importing(w)
  BY <1>1, Kinds DEF Inv
<1>4. CASE ~ InReport(d)
  <2>1. Importers(d) = {}
    BY <1>4, ImporterFields DEF Kept
  <2>2. Importers(d)' = {}
    BY <1>1, <1>2, <1>4, <2>1 DEF Importers, Importing, At, InReport
  <2>3. ~ Taken(d) /\ ~ Taken(d)' /\ Clear(d)'
    BY <1>1, <1>4, <2>2 DEF Taken, InReport, Clear
  <2> QED
    BY <1>1, <2>3, BooksFrame DEF Kept
<1>5. CASE InReport(d)
  <2>1. d \in DOMAIN batch.results
    BY <1>5 DEF InReport
  <2>2. Importers(d) = {}
    <3> SUFFICES ASSUME NEW v \in Importers(d) PROVE FALSE
      OBVIOUS
    <3>1. v \in Workers /\ Importing(v) /\ work[v].batch = batch
      BY ImporterFields DEF Kept
    <3>2. doubled' = doubled \cup DOMAIN batch.results
      BY <3>1 DEF Send
    <3> QED
      BY <2>1, <3>2
  <2>3. Importers(d)' = {w}
    BY <1>2, <2>1, <2>2 DEF Importers, Importing, At
  <2>4. Clear(d)'
    BY <1>1, <1>2, <2>3 DEF Clear, At
  <2>5. Taken(d)' <=> Taken(d)
    BY <1>1, <1>2, <2>2, <2>3 DEF Taken, InReport, At
  <2> QED
    BY <1>1, <2>4, <2>5, BooksFrame DEF Kept
<1> QED
  BY <1>4, <1>5

LEMMA ReadKeeps ==
  ASSUME Inv, NEW w \in Workers, NEW d \in Deliveries, Kept(d), Gate(w) \/ Read(w)
  PROVE  Kept(d)'
<1>1. /\ recorded' = recorded /\ batch' = batch /\ row' = row /\ hand' = hand
      /\ sends' = sends /\ oks' = oks /\ interrupted' = interrupted
  BY DEF Gate, Read, relay
<1>2. /\ Importing(w) /\ work[w] \in Import /\ work'[w] \in Import
      /\ \A v \in Workers \ {w} : work'[v] = work[v]
      /\ work'[w].batch = work[w].batch /\ work'[w].left = work[w].left
      /\ Gate(w) => work'[w].pc = "gated"
      /\ Read(w) => /\ work'[w].pc = "read"
                    /\ work'[w].seen = row[work'[w].next]
  BY ImportSteps DEF Gate, Read, At
<1>3. Importing(w)'
  BY <1>2, ImportFields DEF Importing, At
<1>4. Importers(d)' = Importers(d)
  BY <1>2, <1>3 DEF Importers, Importing, At
<1>5. CASE w \notin Importers(d)
  <2>1. \A v \in Importers(d) : work'[v] = work[v]
    BY <1>2, <1>5 DEF Importers
  <2>2. Clear(d)'
    BY <1>1, <1>4, <2>1 DEF Kept, Clear, At
  <2>3. Taken(d)' <=> Taken(d)
    BY <1>1, <1>4, <2>1 DEF Taken, InReport, At
  <2> QED
    BY <1>1, <2>2, <2>3, BooksFrame DEF Kept
<1>6. CASE w \in Importers(d)
  <2>1. /\ work[w].batch = batch /\ InReport(d) /\ Importers(d) = {w}
        /\ Taken(d) <=> batch.id \in recorded \/ (~ At(w, "arrived") /\ d \notin work[w].left)
    BY <1>6, ImporterFields DEF Kept
  <2>2. batch.id \notin recorded
    <3>1. CASE Gate(w)
      BY <2>1, <3>1 DEF Gate
    <3>2. CASE Read(w)
      BY <1>6, <3>2 DEF Read, At, Kept, Clear
    <3> QED
      BY <3>1, <3>2
  <2>3. At(w, "arrived") => d \in work[w].left
    BY <1>6 DEF Importers, Inv, Held, ImportFine
  <2>4. work'[w].pc # "arrived" /\ (work'[w].pc = "read" => Read(w))
    BY <1>2
  <2>5. Clear(d)'
    <3>1. Importers(d)' = {w}
      BY <1>4, <2>1
    <3>2. At(w, "read")' /\ work'[w].next = d => work'[w].seen = row'[d]
      BY <1>1, <1>2, <2>4 DEF At
    <3> QED
      BY <1>1, <1>2, <2>1, <2>2, <3>1, <3>2 DEF Clear
  <2>6. Taken(d)' <=> Taken(d)
    <3>1. InReport(d)' <=> InReport(d)
      BY <1>1 DEF InReport
    <3> QED
      BY <1>1, <1>2, <1>4, <2>1, <2>2, <2>3, <2>4, <3>1 DEF Taken, At
  <2> QED
    BY <1>1, <2>5, <2>6, BooksFrame DEF Kept
<1> QED
  BY <1>5, <1>6

\* What a result makes of a row that knows of the attempts before.
LEMMA ApplyBooks ==
  ASSUME Inv, NEW w \in Workers, NEW d \in Deliveries, Kept(d), Apply(w), d = work[w].next,
         w \in Importers(d)
  PROVE  Kept(d)'
<1>1. /\ recorded' = recorded /\ batch' = batch /\ hand' = hand
      /\ sends' = sends /\ oks' = oks /\ interrupted' = interrupted
  BY DEF Apply, relay
<1>2. /\ work[w].batch = batch /\ InReport(d) /\ Importers(d) = {w}
      /\ Taken(d) <=> batch.id \in recorded \/ (~ At(w, "arrived") /\ d \notin work[w].left)
  BY ImporterFields DEF Kept
<1>3. At(w, "read") /\ ~ At(w, "arrived")
  BY DEF Apply, At
<1>4. batch.id \notin recorded /\ work[w].seen = row[d]
  BY <1>3 DEF Kept, Clear
<1>5. /\ d \in work[w].left /\ row[d] \in Row /\ row[d] # None
      /\ row'[d] = Applied(row[d], row[d], batch.results[d])
      /\ batch.results[d] \in {"SENT", "FAILED"} /\ row'[d] # None
  BY <1>2, <1>4, ApplySteps, ConstantsAssumption
<1> DEFINE r == Applied(row[d], row[d], batch.results[d])
<1>6. /\ batch.results[d] = "SENT" => r.status = "SENT" /\ r.attempts = row[d].attempts
      /\ batch.results[d] = "FAILED" =>
           /\ r.attempts = row[d].attempts + 1
           /\ r.status = IF row[d].attempts + 1 >= MaxAttempts THEN "DEAD" ELSE "PENDING"
  BY <1>5, AppliedRow
<1>7. row'[d] = r
  BY <1>5
<1> HIDE DEF r
<1>8. ~ Taken(d)
  BY <1>2, <1>4, <1>5
<1>9. /\ work'[w].pc = "gated" /\ work'[w].batch = batch /\ d \notin work'[w].left
      /\ \A v \in Workers \ {w} : work'[v] = work[v]
  BY <1>2, ImportSteps
<1>10. Importers(d)' = {w}
  BY <1>2, <1>9 DEF Importers, Importing, At, InReport
<1>11. Taken(d)'
  BY <1>1, <1>2, <1>9, <1>10 DEF Taken, InReport, At
<1>12. Clear(d)'
  BY <1>1, <1>4, <1>9, <1>10 DEF Clear, At
<1>13. /\ hand[d] = batch.results[d]
       /\ sends[d] \in Nat /\ oks[d] \in Nat /\ oks[d] <= sends[d] /\ row[d].attempts \in Nat
       /\ row[d].status \in {"PENDING", "SENT", "DEAD"} /\ MaxAttempts \in Nat
  BY <1>2, <1>5, DeliveryFields
<1>14. KnownSent(d)' = oks[d] /\ KnownFailed(d)' = sends[d] - oks[d]
  BY <1>1, <1>11 DEF KnownSent, KnownFailed
<1>15. CASE batch.results[d] = "SENT"
  <2>1. row'[d].status = "SENT" /\ row'[d].attempts = row[d].attempts
    BY <1>6, <1>7, <1>15
  <2>2. oks[d] = 1
    BY <1>13, <1>15 DEF Kept, Bounded
  <2>3. KnownFailed(d) = sends[d] - oks[d]
    BY <1>8, <1>13, <1>15 DEF KnownFailed, ToldFailed, Told
  <2>4. Bounded(d)'
    <3>1. row'[d].attempts >= KnownFailed(d)'
      BY <1>5, <1>14, <2>1, <2>3 DEF Kept, Bounded
    <3>2. sends[d] <= MaxAttempts /\ hand'[d] = "SENT" /\ sends'[d] = sends[d] /\ oks'[d] = 1
      BY <1>1, <1>13, <1>15, <2>2 DEF Kept, Bounded
    <3> QED
      BY <2>1, <3>1, <3>2 DEF Bounded
  <2>5. Exact(d)'
    <3> SUFFICES ASSUME d \notin interrupted
                 PROVE  /\ row'[d].attempts = KnownFailed(d)'
                        /\ row'[d].status = IF KnownSent(d)' > 0 THEN "SENT"
                                            ELSE IF KnownFailed(d)' >= MaxAttempts THEN "DEAD"
                                            ELSE "PENDING"
      BY <1>1 DEF Exact
    <3>1. row[d].attempts = KnownFailed(d)
      BY <1>5 DEF Kept, Exact
    <3> QED
      BY <1>13, <1>14, <2>1, <2>2, <2>3, <3>1
  <2> QED
    BY <1>12, <2>4, <2>5 DEF Kept
<1>16. CASE batch.results[d] = "FAILED"
  <2>1. /\ row'[d].attempts = row[d].attempts + 1
        /\ row'[d].status = IF row[d].attempts + 1 >= MaxAttempts THEN "DEAD" ELSE "PENDING"
    BY <1>6, <1>7, <1>16
  <2>2. oks[d] = 0 /\ sends[d] >= 1
    BY <1>13, <1>16 DEF Kept, Bounded
  <2>3. KnownFailed(d) + 1 = sends[d] - oks[d]
    BY <1>8, <1>13, <1>16 DEF KnownFailed, ToldFailed, Told
  <2>4. KnownFailed(d) \in Nat /\ row[d].attempts >= KnownFailed(d)
    <3>1. KnownFailed(d) = (sends[d] - oks[d]) - 1
      BY <1>8, <1>13, <1>16 DEF KnownFailed, ToldFailed, Told
    <3>2. row[d].attempts >= KnownFailed(d)
      BY <1>5 DEF Kept, Bounded
    <3> QED
      BY <1>13, <2>2, <3>1, <3>2
  <2>5. Bounded(d)'
    <3>1. row'[d].attempts >= KnownFailed(d)'
      BY <1>13, <1>14, <2>1, <2>3, <2>4
    <3>2. sends[d] <= MaxAttempts /\ hand'[d] = "FAILED" /\ sends'[d] = sends[d] /\ oks'[d] = 0
      BY <1>1, <1>13, <1>16, <2>2 DEF Kept, Bounded
    <3>3. row'[d].status = "PENDING" => row'[d].attempts < MaxAttempts
      BY <1>13, <2>1
    <3>4. row'[d].status # "SENT" /\ KnownSent(d)' = 0
      BY <1>14, <2>1, <2>2
    <3> QED
      BY <2>2, <3>1, <3>2, <3>3, <3>4 DEF Bounded
  <2>6. Exact(d)'
    <3> SUFFICES ASSUME d \notin interrupted
                 PROVE  /\ row'[d].attempts = KnownFailed(d)'
                        /\ row'[d].status = IF KnownSent(d)' > 0 THEN "SENT"
                                            ELSE IF KnownFailed(d)' >= MaxAttempts THEN "DEAD"
                                            ELSE "PENDING"
      BY <1>1 DEF Exact
    <3>1. row[d].attempts = KnownFailed(d)
      BY <1>5 DEF Kept, Exact
    <3> QED
      BY <1>13, <1>14, <2>1, <2>2, <2>3, <3>1
  <2> QED
    BY <1>12, <2>5, <2>6 DEF Kept
<1> QED
  BY <1>5, <1>15, <1>16

LEMMA ApplyKeeps ==
  ASSUME Inv, NEW w \in Workers, NEW d \in Deliveries, Kept(d), Apply(w)
  PROVE  Kept(d)'
<1>1. /\ recorded' = recorded /\ batch' = batch /\ hand' = hand
      /\ sends' = sends /\ oks' = oks /\ interrupted' = interrupted
  BY DEF Apply, relay
<1>2. /\ Importing(w) /\ work[w] \in Import /\ work'[w] \in Import
      /\ \A v \in Workers \ {w} : work'[v] = work[v]
      /\ work'[w].batch = work[w].batch /\ work'[w].pc = "gated"
      /\ work'[w].left = work[w].left \ {work[w].next}
      /\ At(w, "read")
  BY ImportSteps DEF Apply
<1>3. Importing(w)'
  BY <1>2 DEF Importing, At
<1>4. Importers(d)' = Importers(d)
  BY <1>2, <1>3 DEF Importers, Importing, At
<1>5. CASE d = work[w].next
  <2>1. w \in Importers(d)
    BY <1>2, <1>5, ApplySteps DEF Importers
  <2> QED
    BY <1>5, <2>1, ApplyBooks
<1>6. CASE d # work[w].next
  <2>1. row'[d] = row[d]
    BY <1>6, ApplySteps
  <2>2. ASSUME NEW v \in Importers(d)
        PROVE  /\ work'[v].batch = work[v].batch
               /\ At(v, "arrived")' <=> At(v, "arrived")
               /\ At(v, "read")' => work'[v] = work[v]
               /\ d \in work'[v].left <=> d \in work[v].left
    <3>1. v \in Workers
      BY DEF Importers
    <3>2. CASE v = w
      BY <1>2, <1>6, <3>2 DEF At
    <3>3. CASE v # w
      BY <1>2, <3>1, <3>3 DEF At
    <3> QED
      BY <3>2, <3>3
  <2>3. Clear(d)'
    BY <1>1, <1>4, <2>1, <2>2 DEF Kept, Clear, At
  <2>4. Taken(d)' <=> Taken(d)
    BY <1>1, <1>4, <2>2 DEF Taken, InReport
  <2> QED
    BY <1>1, <2>1, <2>3, <2>4, BooksFrame DEF Kept
<1> QED
  BY <1>5, <1>6
LEMMA StopKeeps ==
  ASSUME Inv, NEW w \in Workers, NEW d \in Deliveries, Kept(d), Stop(w)
  PROVE  Kept(d)'
<1>1. /\ recorded' = recorded /\ batch' = batch /\ row' = row /\ hand' = hand
      /\ sends' = sends /\ oks' = oks /\ interrupted \subseteq interrupted'
  BY DEF Stop, relay
<1>2. work'[w] = Idle /\ \A v \in Workers \ {w} : work'[v] = work[v]
  BY DEF Stop, Inv, TypeOK
<1>3. ~ Importing(w)'
  BY <1>2 DEF Importing, At, Idle
<1>4. Importers(d)' = Importers(d) \ {w}
  BY <1>2, <1>3 DEF Importers, Importing, At
<1>5. CASE w \notin Importers(d)
  <2>1. \A v \in Importers(d) : work'[v] = work[v]
    BY <1>2, <1>5 DEF Importers
  <2>2. Importers(d)' = Importers(d)
    BY <1>4, <1>5
  <2>3. Clear(d)'
    BY <1>1, <2>1, <2>2 DEF Kept, Clear, At
  <2>4. Taken(d)' <=> Taken(d)
    BY <1>1, <2>1, <2>2 DEF Taken, InReport, At
  <2> QED
    BY <1>1, <2>3, <2>4, BooksFrame DEF Kept
<1>6. CASE w \in Importers(d)
  <2>1. /\ Importing(w) /\ work[w].batch = batch /\ InReport(d) /\ Importers(d) = {w}
        /\ Taken(d) <=> batch.id \in recorded \/ (~ At(w, "arrived") /\ d \notin work[w].left)
    BY <1>6, ImporterFields DEF Kept
  <2>2. Importers(d)' = {}
    BY <1>4, <2>1
  <2>3. Clear(d)'
    BY <2>2 DEF Clear
  <2>4. Taken(d)' <=> batch.id \in recorded
    BY <1>1, <2>1, <2>2 DEF Taken, InReport
  <2>5. CASE Taken(d)' <=> Taken(d)
    BY <1>1, <2>3, <2>5, BooksFrame DEF Kept
  <2>6. CASE ~ Taken(d)' /\ Taken(d)
    <3>1. d \notin work[w].left
      BY <2>1, <2>4, <2>6
    <3>2. d \in interrupted'
      BY <1>6, <2>1, <3>1 DEF Stop, Importers
    <3>3. /\ sends[d] \in Nat /\ oks[d] \in Nat /\ oks[d] <= sends[d]
          /\ row[d] # None /\ row[d].attempts \in Nat
          /\ hand[d] \in {"SENT", "FAILED"}
      BY <2>1, DeliveryFields
    <3>4. KnownSent(d) = oks[d] /\ KnownFailed(d) = sends[d] - oks[d]
      BY <2>6 DEF KnownSent, KnownFailed
    <3>5. KnownSent(d)' = ToldSent(d) /\ KnownFailed(d)' = ToldFailed(d)
      BY <1>1, <2>6 DEF KnownSent, KnownFailed, ToldSent, ToldFailed, Told
    <3>6. ToldFailed(d) <= sends[d] - oks[d] /\ ToldFailed(d) \in Int
      BY <3>3 DEF ToldFailed, Told
    <3>7. ToldSent(d) > 0 => oks[d] > 0
      BY <3>3 DEF ToldSent, Told
    <3>8. row'[d].attempts >= KnownFailed(d)'
      <4>1. row[d].attempts >= sends[d] - oks[d]
        BY <3>3, <3>4 DEF Kept, Bounded
      <4> QED
        BY <1>1, <3>3, <3>5, <3>6, <4>1
    <3>9. KnownSent(d)' > 0 => row'[d].status = "SENT"
      <4>1. oks[d] > 0 => row[d].status = "SENT"
        BY <3>3, <3>4 DEF Kept, Bounded
      <4> QED
        BY <1>1, <3>5, <3>7, <4>1
    <3>10. Bounded(d)'
      BY <1>1, <3>8, <3>9 DEF Kept, Bounded
    <3>11. Exact(d)'
      BY <3>2 DEF Exact
    <3> QED
      BY <2>3, <3>10, <3>11 DEF Kept
  <2> QED
    BY <2>1, <2>4, <2>5, <2>6
<1> QED
  BY <1>5, <1>6

LEMMA EndKeeps ==
  ASSUME Inv, NEW w \in Workers, NEW d \in Deliveries, Kept(d),
         Replay(w) \/ Record(w) \/ RecordUnheard(w)
  PROVE  Kept(d)'
<1>1. /\ row' = row /\ sends' = sends /\ oks' = oks /\ interrupted' = interrupted
      /\ recorded' = recorded \/ recorded' = recorded \cup {work[w].batch.id}
  BY DEF Replay, Record, RecordUnheard, relay
<1>2. work'[w] = Idle /\ \A v \in Workers \ {w} : work'[v] = work[v]
  BY DEF Replay, Record, RecordUnheard, Inv, TypeOK
<1>3. Importing(w) /\ work[w] \in Import /\ work[w].batch # None
  BY Kinds, ImportFields, ReportFields DEF Replay, Record, RecordUnheard, Importing, At, Inv
<1>4. ~ Importing(w)'
  BY <1>2 DEF Importing, At, Idle
<1>5. Importers(d)' = Importers(d) \ {w}
  BY <1>2, <1>4 DEF Importers, Importing, At
<1>6. \/ Answered(work[w].batch)
      \/ batch' = batch /\ hand' = hand
  BY DEF Replay, Record, RecordUnheard, relay
<1>7. CASE w \notin Importers(d)
  <2>1. \A v \in Importers(d) : work'[v] = work[v]
    BY <1>2, <1>7 DEF Importers
  <2>2. Importers(d)' = Importers(d)
    BY <1>5, <1>7
  <2>3. d \notin DOMAIN work[w].batch.results
    BY <1>3, <1>7 DEF Importers
  <2>4. CASE work[w].batch = batch
    <3>1. ~ InReport(d)
      BY <2>3, <2>4 DEF InReport
    <3>2. (batch' = batch \/ batch' = None) /\ hand'[d] = hand[d]
      BY <1>6, <2>3, <2>4 DEF Answered
    <3>3. ~ InReport(d)'
      BY <3>1, <3>2 DEF InReport
    <3>4. Importers(d) = {}
      BY <3>1, ImporterFields DEF Kept
    <3>5. ~ Taken(d) /\ ~ Taken(d)' /\ Clear(d)'
      BY <2>2, <3>1, <3>3, <3>4 DEF Taken, Clear
    <3> QED
      BY <1>1, <3>2, <3>5, BooksFrame DEF Kept
  <2>5. CASE work[w].batch # batch
    <3>1. batch' = batch /\ hand' = hand
      BY <1>6, <2>5 DEF Answered
    <3>2. batch # None => work[w].batch.id # batch.id
      BY <1>3, <2>5 DEF Inv, Held, ImportFine
    <3>3. batch # None => (batch.id \in recorded' <=> batch.id \in recorded)
      BY <1>1, <3>2
    <3>4. InReport(d)' <=> InReport(d)
      BY <3>1 DEF InReport
    <3>5. Importers(d) # {} => batch # None
      BY ImporterFields DEF Kept, InReport
    <3>6. Clear(d)'
      BY <1>1, <2>1, <2>2, <3>1, <3>3, <3>5 DEF Kept, Clear, At
    <3>7. Taken(d)' <=> Taken(d)
      BY <2>1, <2>2, <3>1, <3>3, <3>4 DEF Taken, InReport, At
    <3> QED
      BY <1>1, <3>1, <3>6, <3>7, BooksFrame DEF Kept
  <2> QED
    BY <2>4, <2>5
<1>8. CASE w \in Importers(d)
  <2>1. /\ work[w].batch = batch /\ InReport(d) /\ Importers(d) = {w}
        /\ Taken(d) <=> batch.id \in recorded \/ (~ At(w, "arrived") /\ d \notin work[w].left)
    BY <1>8, ImporterFields DEF Kept
  <2>2. Taken(d)
    BY <2>1 DEF Replay, Record, RecordUnheard, At
  <2>3. Importers(d)' = {} /\ Clear(d)'
    BY <1>5, <2>1 DEF Clear
  <2>4. CASE batch' = batch /\ hand' = hand
    <3>1. batch.id \in recorded'
      <4>1. ~ Answered(work[w].batch)
        BY <1>3, <2>1, <2>4 DEF Answered
      <4> QED
        BY <2>1, <4>1 DEF Replay, Record, RecordUnheard
    <3>2. Taken(d)'
      BY <2>1, <2>3, <2>4, <3>1 DEF Taken, InReport
    <3> QED
      BY <1>1, <2>2, <2>3, <2>4, <3>2, BooksFrame DEF Kept
  <2>5. CASE Answered(work[w].batch)
    <3>1. batch' = None /\ hand'[d] = "none"
      BY <2>1, <2>5 DEF Answered, InReport
    <3>2. ~ Taken(d)'
      BY <3>1 DEF Taken, InReport
    <3>3. sends[d] \in Nat /\ oks[d] \in Nat
      BY DeliveryFields
    <3>4. KnownSent(d)' = KnownSent(d) /\ KnownFailed(d)' = KnownFailed(d)
      BY <1>1, <2>2, <3>1, <3>2, <3>3
         DEF KnownSent, KnownFailed, ToldSent, ToldFailed, Told
    <3>5. Bounded(d)'
      BY <1>1, <3>1, <3>4 DEF Kept, Bounded
    <3>6. Exact(d)'
      BY <1>1, <3>4 DEF Kept, Exact
    <3> QED
      BY <2>3, <3>5, <3>6 DEF Kept
  <2> QED
    BY <1>6, <2>4, <2>5
<1> QED
  BY <1>7, <1>8

LEMMA TrackedStep == Inv /\ Tracked /\ [Next]_vars => (Inv /\ Tracked)'
<1> SUFFICES ASSUME Inv, Tracked, [Next]_vars
             PROVE  Inv' /\ Tracked'
  OBVIOUS
<1>1. Inv'
  BY InvStep
<1> SUFFICES ASSUME NEW d \in Deliveries, d \notin doubled'
             PROVE  Kept(d)'
  BY <1>1 DEF Tracked, Kept
<1>2. doubled \subseteq doubled'
  <2>1. \A w \in Workers : Proceed(w) \/ RecordUnheard(w) \/ Stop(w) => doubled' = doubled
    BY DEF Proceed, Check, Notify, Queue, Replay, Gate, Read, Apply, Record, RecordUnheard, Stop
  <2>2. Relay => doubled \subseteq doubled'
    BY DEF Relay, Export, Transmit, Report, Send
  <2> QED
    BY <2>1, <2>2 DEF Next, Begin, Subscribe, vars
<1>3. Kept(d)
  BY <1>2 DEF Tracked, Kept
<1>4. CASE UNCHANGED vars
  <2>1. /\ recorded' = recorded /\ batch' = batch /\ row' = row /\ hand' = hand
        /\ sends' = sends /\ oks' = oks /\ interrupted' = interrupted /\ work' = work
    BY <1>4 DEF vars, server, relay
  <2> QED
    BY <1>3, <2>1, QuietFrame DEF Importing, At
<1>5. ASSUME NEW w \in Workers,
             (\E e \in Deliveries : Begin(w, e)) \/ Proceed(w) \/ RecordUnheard(w) \/ Stop(w)
      PROVE  Kept(d)'
  BY <1>3, <1>5, BeginKeeps, QueueKeeps, EndKeeps, ReadKeeps, ApplyKeeps, StopKeeps
     DEF Proceed
<1>6. ASSUME NEW u \in Users, NEW enabled \in BOOLEAN, Subscribe(u, enabled)
      PROVE  Kept(d)'
  BY <1>3, <1>6, SubscribeKeeps
<1>7. CASE Relay
  <2>1. ASSUME NEW e \in Deliveries, NEW outcome \in {"SENT", "FAILED"}, Transmit(e, outcome)
        PROVE  Kept(d)'
    BY <1>3, <2>1, TransmitKeeps
  <2>2. ASSUME NEW w \in Workers, Send(w)
        PROVE  Kept(d)'
    BY <1>3, <2>2, SendKeeps
  <2> QED
    BY <1>3, <1>7, <2>1, <2>2, ExportKeeps, ReportKeeps DEF Relay
<1> QED
  BY <1>4, <1>5, <1>6, <1>7 DEF Next

LEMMA InitTracked == Init => Inv /\ Tracked
<1> SUFFICES ASSUME Init, NEW d \in Deliveries
             PROVE  Clear(d) /\ Bounded(d) /\ Exact(d)
  BY InitInv DEF Tracked
<1>1. Importers(d) = {}
  BY DEF Init, Importers, Importing, At, Idle
<1>2. row[d] = None /\ hand[d] = "none" /\ sends[d] = 0 /\ oks[d] = 0
  BY DEF Init
<1>3. Bounded(d)
  BY <1>2, ConstantsAssumption DEF Bounded
<1>4. Clear(d) /\ Exact(d)
  BY <1>1, <1>2 DEF Clear, Exact
<1> QED
  BY <1>3, <1>4

-----------------------------------------------------------------------------
(* The properties *)

\* Every attempt is counted once (notifications.rs import_results): however
\* often and in whatever order reports come, a delivery whose imports were
\* neither cut short nor doubled has the status and the count its attempts
\* amount to.
THEOREM CountsHold == Spec => []CountsExactly
<1>1. Init => Inv /\ Tracked
  BY InitTracked
<1>2. Inv /\ Tracked /\ [Next]_vars => (Inv /\ Tracked)'
  BY TrackedStep
<1>3. Inv /\ Tracked => CountsExactly
  <2> SUFFICES ASSUME Inv, Tracked, NEW d \in Deliveries \ (interrupted \cup doubled),
                      row[d] # None, ~ InReport(d)
               PROVE  /\ row[d].attempts = ToldFailed(d)
                      /\ row[d].status = IF ToldSent(d) > 0 THEN "SENT"
                                         ELSE IF ToldFailed(d) >= MaxAttempts THEN "DEAD"
                                         ELSE "PENDING"
    BY DEF CountsExactly
  <2>1. ~ Taken(d)
    BY DEF Taken
  <2> QED
    BY <2>1 DEF Tracked, Exact, KnownSent, KnownFailed
<1> QED
  BY <1>1, <1>2, <1>3, PTL DEF Spec

\* What got through is not tried again, and nothing more often than allowed
\* (outbox_export, import_results): imports that were cut short included, those
\* of two workers at a time not.
THEOREM TriesHold == Spec => []TriedWithinReason
<1>1. Init => Inv /\ Tracked
  BY InitTracked
<1>2. Inv /\ Tracked /\ [Next]_vars => (Inv /\ Tracked)'
  BY TrackedStep
<1>3. Inv /\ Tracked => TriedWithinReason
  <2> SUFFICES ASSUME Inv, Tracked, NEW d \in Deliveries \ doubled
               PROVE  /\ oks[d] > 0 => oks[d] = 1 /\ hand[d] # "exported"
                      /\ sends[d] <= MaxAttempts
    BY DEF TriedWithinReason
  <2>1. Bounded(d)
    BY DEF Tracked
  <2>2. ASSUME hand[d] = "exported"
        PROVE  ~ (oks[d] > 0)
    <3>1. ~ Taken(d)
      BY <2>2, DeliveryFields DEF Taken
    <3>2. KnownSent(d) = oks[d]
      BY <2>2, <3>1, DeliveryFields DEF KnownSent, ToldSent, Told
    <3> QED
      BY <2>1, <2>2, <3>2 DEF Bounded
  <2> QED
    BY <2>1, <2>2 DEF Bounded
<1> QED
  BY <1>1, <1>2, <1>3, PTL DEF Spec
=============================================================================
