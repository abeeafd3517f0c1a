--------------------------- MODULE AttachmentsProofs ---------------------------
(***************************************************************************)
(* Proofs about Attachments.tla, for any number of workers and any caps,   *)
(* contents, items and budgets: overlapping uploads and deletions, retries *)
(* and failures included.                                                  *)
(***************************************************************************)
EXTENDS Attachments, FiniteSetTheorems, SequenceTheorems, TLAPS

\* An upload is at work on the content it brought.  TypeOK alone is not
\* inductive: it says so from "counted" on only.
Brought ==
  \A w \in Workers : ~ At(w, "idle") =>
     (Request(w).op = "upload" => work[w].content = Request(w).content)

Right == TypeOK /\ Brought

\* What Right says of a request in hand, of the schema, and of the budget.
Fine(j, requests, ids) ==
  j.pc # "idle" =>
    /\ j.n \in DOMAIN requests
    /\ j.pc \in UploadSteps => requests[j.n].op = "upload"
    /\ j.pc \in DeleteSteps => requests[j.n].op = "delete"
    /\ j.pc \in UploadSteps \cup DeleteSteps => j.content # None
    /\ j.pc = "inserted" => j.id \in ids
    /\ requests[j.n].op = "upload" => j.content = requests[j.n].content

ForeignKey ==
  \A a \in DOMAIN rows : rows[a] # None => blobs[rows[a].content] # None

Requests == Uploads \cup Deletes

Pcs == {"arrived", "gated", "done"} \cup UploadSteps \cup DeleteSteps

Budget == [upload : Nat, delete : Nat, retry : Nat, fail : Nat]

LEMMA RightParts ==
  Right <=>
    /\ rows \in Seq(Row \cup {None})
    /\ blobs \in [Contents -> Int \cup {None}]
    /\ files \subseteq Contents
    /\ audited \subseteq DOMAIN rows
    /\ recorded \subseteq DOMAIN asked
    /\ work \in [Workers -> {Idle} \cup Job]
    /\ \A w \in Workers : Fine(work[w], asked, DOMAIN rows)
    /\ asked \in Seq(Requests)
    /\ budget \in Budget
    /\ clashed \subseteq Contents
    /\ torn \subseteq Contents
    /\ left \subseteq Contents
    /\ ForeignKey
  BY DEF Right, Brought, TypeOK, Fine, ForeignKey, Requests, Budget, At, Request

LEMMA RightPartsNext ==
  Right' <=>
    /\ rows' \in Seq(Row \cup {None})
    /\ blobs' \in [Contents -> Int \cup {None}]
    /\ files' \subseteq Contents
    /\ audited' \subseteq DOMAIN rows'
    /\ recorded' \subseteq DOMAIN asked'
    /\ work' \in [Workers -> {Idle} \cup Job]
    /\ \A w \in Workers : Fine(work'[w], asked', DOMAIN rows')
    /\ asked' \in Seq(Requests)
    /\ budget' \in Budget
    /\ clashed' \subseteq Contents
    /\ torn' \subseteq Contents
    /\ left' \subseteq Contents
    /\ ForeignKey'
  BY DEF Right, Brought, TypeOK, Fine, ForeignKey, Requests, Budget, At, Request

\* What a worker has in hand.
LEMMA InHand ==
  ASSUME Right, NEW w \in Workers, ~ At(w, "idle")
  PROVE  /\ work[w] \in Job
         /\ Fine(work[w], asked, DOMAIN rows)
         /\ work[w].n \in DOMAIN asked
         /\ Request(w) \in Requests
         /\ Request(w) = asked[work[w].n]
         /\ work[w].pc \in UploadSteps \cup DeleteSteps => work[w].content \in Contents
         /\ Request(w).op = "upload" => work[w].content \in Contents
<1>1. work[w] \in Job /\ Fine(work[w], asked, DOMAIN rows)
  BY RightParts DEF At, Idle
<1>2. work[w].n \in DOMAIN asked
  BY <1>1 DEF Fine, At
<1>3. asked \in Seq(Requests)
  BY RightParts
<1>4. asked[work[w].n] \in Requests
  BY <1>2, <1>3
<1>5. work[w].content \in Contents \cup {None}
  BY <1>1 DEF Job
<1>6. Request(w).op = "upload" => work[w].content \in Contents
  BY <1>1, <1>4 DEF Fine, Request, Requests, Uploads, Deletes, At
<1> QED
  BY <1>1, <1>2, <1>4, <1>5, <1>6 DEF Request, Fine, At

\* A step of one worker.
LEMMA OneWorks ==
  ASSUME Right, NEW w \in Workers,
         NEW j \in {Idle} \cup Job, Fine(j, asked, DOMAIN rows'),
         work' = [work EXCEPT ![w] = j],
         asked' = asked,
         rows' \in Seq(Row \cup {None}),
         DOMAIN rows \subseteq DOMAIN rows',
         blobs' \in [Contents -> Int \cup {None}],
         files' \subseteq Contents,
         audited' \subseteq DOMAIN rows',
         recorded' \subseteq DOMAIN asked,
         budget' \in Budget,
         clashed' \subseteq Contents, torn' \subseteq Contents, left' \subseteq Contents,
         ForeignKey'
  PROVE  Right'
<1>1. work' \in [Workers -> {Idle} \cup Job]
  BY RightParts
<1>2. ASSUME NEW v \in Workers
      PROVE  Fine(work'[v], asked', DOMAIN rows')
  <2>1. CASE v = w
    <3>1. work'[v] = j
      BY <2>1, RightParts
    <3> QED
      BY <3>1
  <2>2. CASE v # w
    <3>1. work'[v] = work[v] /\ Fine(work[v], asked, DOMAIN rows)
      BY <2>2, RightParts
    <3> QED
      BY <3>1 DEF Fine
  <2> QED
    BY <2>1, <2>2
<1>3. asked' \in Seq(Requests)
  BY RightParts
<1> QED
  BY <1>1, <1>2, <1>3, RightPartsNext

\* And one that leaves the tables alone.
LEMMA OneReads ==
  ASSUME Right, NEW w \in Workers,
         NEW j \in {Idle} \cup Job, Fine(j, asked, DOMAIN rows),
         work' = [work EXCEPT ![w] = j],
         asked' = asked, rows' = rows, blobs' = blobs,
         files' \subseteq Contents,
         audited' \subseteq DOMAIN rows,
         recorded' \subseteq DOMAIN asked,
         budget' \in Budget,
         clashed' \subseteq Contents, torn' \subseteq Contents, left' \subseteq Contents
  PROVE  Right'
<1>1. rows \in Seq(Row \cup {None}) /\ blobs \in [Contents -> Int \cup {None}]
  BY RightParts
<1>2. ForeignKey'
  BY RightParts DEF ForeignKey
<1> QED
  BY <1>1, <1>2, OneWorks

LEMMA IdleFine ==
  ASSUME NEW requests, NEW ids
  PROVE  Idle \in {Idle} \cup Job /\ Fine(Idle, requests, ids)
  BY DEF Idle, Fine

\* A request goes on to its next statement.
LEMMA GoesOn ==
  ASSUME Right, NEW w \in Workers, ~ At(w, "idle"), NEW pc \in Pcs \ {"inserted"},
         pc \in UploadSteps => Request(w).op = "upload",
         pc \in DeleteSteps => Request(w).op = "delete" /\ work[w].content # None,
         To(w, pc), NEW ids
  PROVE  \E j \in Job : /\ Fine(j, asked, ids)
                        /\ work' = [work EXCEPT ![w] = j]
                        /\ j = [work[w] EXCEPT !.pc = pc]
<1> DEFINE j == [work[w] EXCEPT !.pc = pc]
<1>1. work[w] \in Job /\ Fine(work[w], asked, DOMAIN rows)
  BY InHand
<1>2. /\ j \in Job /\ j.pc = pc /\ j.n = work[w].n
      /\ j.content = work[w].content /\ j.id = work[w].id
  BY <1>1 DEF Job, Pcs
<1>3. work' = [work EXCEPT ![w] = j]
  BY DEF To
<1>4. work[w].n \in DOMAIN asked /\ Request(w) = asked[work[w].n]
  BY InHand
<1>5. pc \in UploadSteps => work[w].content # None
  BY InHand, ConstantsAssumption
<1>6. asked[work[w].n].op = "upload" => work[w].content = asked[work[w].n].content
  BY <1>1 DEF Fine, At
<1> HIDE DEF j
<1>7. Fine(j, asked, ids)
  BY <1>2, <1>4, <1>5, <1>6 DEF Fine
<1> QED
  BY <1>2, <1>3, <1>7 DEF j

-----------------------------------------------------------------------------
(* Each action keeps the types *)

LEMMA InitRight == Init => Right
<1> SUFFICES ASSUME Init PROVE Right
  OBVIOUS
<1>1. rows \in Seq(Row \cup {None}) /\ asked \in Seq(Requests) /\ rows = <<>>
  BY DEF Init
<1>2. work \in [Workers -> {Idle} \cup Job] /\ \A w \in Workers : Fine(work[w], asked, DOMAIN rows)
  BY DEF Init, Idle, Fine
<1>3. budget \in Budget
  BY ConstantsAssumption DEF Init, Budget
<1>4. ForeignKey
  BY <1>1 DEF ForeignKey
<1>5. blobs \in [Contents -> Int \cup {None}]
  BY DEF Init
<1> QED
  BY <1>1, <1>2, <1>3, <1>4, <1>5, RightParts DEF Init

LEMMA Spends ==
  ASSUME Right, NEW kind \in {"upload", "delete", "retry", "fail"}, Spend(kind)
  PROVE  budget' \in Budget
<1>1. budget \in Budget
  BY RightParts
<1> QED
  BY <1>1 DEF Spend, Budget

LEMMA ArrivalIsJob ==
  ASSUME NEW n \in Nat \ {0}, NEW requests, n \in DOMAIN requests, requests[n] \in Requests,
         NEW ids
  PROVE  Arrival(n, requests[n]) \in Job /\ Fine(Arrival(n, requests[n]), requests, ids)
<1> DEFINE r == requests[n]
<1>1. r.op = "upload" => r.content \in Contents
  BY DEF Requests, Uploads, Deletes
<1>2. Arrival(n, r) \in Job
  BY <1>1 DEF Arrival, Job
<1>3. /\ Arrival(n, r).pc = "arrived" /\ Arrival(n, r).n = n
      /\ r.op = "upload" => Arrival(n, r).content = r.content
  BY DEF Arrival
<1> QED
  BY <1>2, <1>3 DEF Fine, UploadSteps, DeleteSteps

\* What Next asks for is a request.
Sensible ==
  Uploads \cup [op : {"delete"}, item : Items, id : DOMAIN rows]

LEMMA SensibleIsRequest ==
  ASSUME Right, NEW r \in Sensible
  PROVE  r \in Requests /\ r.op \in {"upload", "delete"}
<1>1. DOMAIN rows \subseteq Nat \ {0}
  BY RightParts
<1> QED
  BY <1>1 DEF Sensible, Requests, Uploads, Deletes

\* Requests are only added.
LEMMA AskedAdds ==
  ASSUME Right, NEW w \in Workers, NEW r \in Sensible, Ask(w, r)
  PROVE  /\ asked' \in Seq(Requests)
         /\ Len(asked) + 1 \in Nat \ {0}
         /\ Len(asked) + 1 \in DOMAIN asked'
         /\ asked'[Len(asked) + 1] = r
         /\ \A n \in DOMAIN asked : n \in DOMAIN asked' /\ asked'[n] = asked[n]
<1>1. r \in Requests /\ asked \in Seq(Requests)
  BY SensibleIsRequest, RightParts
<1>2. /\ asked' \in Seq(Requests)
      /\ Len(asked') = Len(asked) + 1
      /\ \A n \in 1 .. Len(asked) : asked'[n] = asked[n]
      /\ asked'[Len(asked) + 1] = r
  BY <1>1, AppendProperties DEF Ask
<1>3. /\ DOMAIN asked = 1 .. Len(asked) /\ DOMAIN asked' = 1 .. Len(asked')
      /\ Len(asked) \in Nat
  BY <1>1, <1>2
<1> QED
  BY <1>2, <1>3

LEMMA AskTyped ==
  ASSUME Right, NEW w \in Workers, NEW r \in Sensible, Ask(w, r)
  PROVE  Right'
<1> DEFINE n == Len(asked) + 1
           j == Arrival(n, r)
<1>1. /\ asked' \in Seq(Requests) /\ n \in Nat \ {0} /\ n \in DOMAIN asked' /\ asked'[n] = r
      /\ \A k \in DOMAIN asked : k \in DOMAIN asked' /\ asked'[k] = asked[k]
  BY AskedAdds
<1>2. r \in Requests /\ r.op \in {"upload", "delete"}
  BY SensibleIsRequest
<1>3. j \in Job /\ Fine(j, asked', DOMAIN rows)
  <2> HIDE DEF n
  <2>1. asked'[n] \in Requests
    BY <1>1, <1>2
  <2> QED
    BY <1>1, <2>1, ArrivalIsJob
<1>4. work' = [work EXCEPT ![w] = j]
  BY DEF Ask
<1> HIDE DEF j
<1>5. work' \in [Workers -> {Idle} \cup Job]
  BY <1>3, <1>4, RightParts
<1>6. /\ rows' = rows /\ blobs' = blobs /\ files' = files /\ audited' = audited
      /\ recorded' = recorded /\ clashed' = clashed /\ torn' = torn /\ left' = left
  BY DEF Ask, table, history
<1>7. ASSUME NEW v \in Workers
      PROVE  Fine(work'[v], asked', DOMAIN rows')
  <2>1. CASE v = w
    <3>1. work'[v] = j
      BY <1>4, <2>1, RightParts
    <3> QED
      BY <1>3, <1>6, <3>1
  <2>2. CASE v # w
    <3>1. work'[v] = work[v] /\ Fine(work[v], asked, DOMAIN rows)
      BY <1>4, <2>2, RightParts
    <3> QED
      BY <1>1, <1>6, <3>1 DEF Fine
  <2> QED
    BY <2>1, <2>2
<1>8. budget' \in Budget
  <2>1. Spend(r.op)
    BY DEF Ask
  <2> QED
    BY <1>2, <2>1, Spends
<1>9. ForeignKey'
  BY <1>6, RightParts DEF ForeignKey
<1>10. recorded' \subseteq DOMAIN asked'
  BY <1>1, <1>6, RightParts
<1> QED
  BY <1>1, <1>5, <1>6, <1>7, <1>8, <1>9, <1>10, RightParts, RightPartsNext

LEMMA AskAgainTyped ==
  ASSUME Right, NEW w \in Workers, NEW n \in DOMAIN asked, AskAgain(w, n)
  PROVE  Right'
<1>1. n \in Nat \ {0} /\ asked[n] \in Requests
  BY RightParts
<1>2. Arrival(n, asked[n]) \in Job /\ Fine(Arrival(n, asked[n]), asked, DOMAIN rows)
  BY <1>1, ArrivalIsJob
<1>3. work' = [work EXCEPT ![w] = Arrival(n, asked[n])]
  BY DEF AskAgain
<1>4. budget' \in Budget
  BY Spends DEF AskAgain
<1>5. /\ rows' = rows /\ blobs' = blobs /\ files' = files /\ audited' = audited
      /\ recorded' = recorded /\ clashed' = clashed /\ torn' = torn /\ left' = left
      /\ asked' = asked
  BY DEF AskAgain, table, history
<1> QED
  BY <1>2, <1>3, <1>4, <1>5, RightParts, OneReads

\* A request that only reads, and goes on or ends.
LEMMA ReadTyped ==
  ASSUME Right, NEW w \in Workers, ~ At(w, "idle"), NEW pc \in Pcs \ {"inserted"},
         pc \in UploadSteps => Request(w).op = "upload",
         pc \in DeleteSteps => Request(w).op = "delete" /\ work[w].content # None,
         To(w, pc) \/ End(w),
         asked' = asked, rows' = rows, blobs' = blobs, audited' = audited,
         files' \subseteq Contents,
         recorded' \subseteq DOMAIN asked,
         budget' \in Budget,
         clashed' \subseteq Contents, torn' \subseteq Contents, left' \subseteq Contents
  PROVE  Right'
<1>1. \E j \in {Idle} \cup Job : Fine(j, asked, DOMAIN rows) /\ work' = [work EXCEPT ![w] = j]
  <2>1. CASE To(w, pc)
    BY <2>1, GoesOn
  <2>2. CASE End(w)
    BY <2>2, IdleFine DEF End
  <2> QED
    BY <2>1, <2>2
<1> QED
  BY <1>1, RightParts, OneReads

LEMMA GateTyped ==
  ASSUME Right, NEW w \in Workers, Gate(w)
  PROVE  Right'
<1>1. ~ At(w, "idle") /\ (To(w, "gated") \/ End(w))
  BY DEF Gate, At
<1>2. "gated" \in Pcs \ {"inserted"} /\ "gated" \notin UploadSteps \cup DeleteSteps
  BY DEF Pcs, UploadSteps, DeleteSteps
<1>3. UNCHANGED <<table, clients, history>>
  BY DEF Gate
<1> QED
  BY <1>1, <1>2, <1>3, ReadTyped, RightParts DEF table, clients, history

\* The steps of an upload that write no row.
LEMMA UploadReads ==
  ASSUME Right, NEW w \in Workers, NEW pc \in UploadSteps \ {"inserted"},
         ~ At(w, "idle"), Request(w).op = "upload",
         To(w, pc) \/ End(w),
         asked' = asked, rows' = rows, blobs' = blobs, audited' = audited,
         files' \subseteq Contents, recorded' = recorded, budget' = budget,
         clashed' \subseteq Contents, torn' = torn, left' = left
  PROVE  Right'
<1>1. pc \in Pcs \ {"inserted"} /\ pc \notin DeleteSteps
  BY DEF Pcs, UploadSteps, DeleteSteps
<1> QED
  BY <1>1, ReadTyped, RightParts

\* Who is past the count of the files handles an upload, past the load of the
\* row a deletion, and has a content in hand.
LEMMA UploadInHand ==
  ASSUME Right, NEW w \in Workers, work[w].pc \in UploadSteps
  PROVE  ~ At(w, "idle") /\ Request(w).op = "upload" /\ work[w].content \in Contents
<1>1. ~ At(w, "idle")
  BY DEF At, UploadSteps
<1> QED
  BY <1>1, InHand DEF Fine, At

LEMMA DeleteInHand ==
  ASSUME Right, NEW w \in Workers, work[w].pc \in DeleteSteps
  PROVE  /\ ~ At(w, "idle") /\ Request(w).op = "delete"
         /\ work[w].content \in Contents /\ work[w].content # None
<1>1. ~ At(w, "idle")
  BY DEF At, DeleteSteps
<1> QED
  BY <1>1, InHand, ConstantsAssumption DEF Fine, At

LEMMA CountTyped ==
  ASSUME Right, NEW w \in Workers, Count(w) \/ Sum(w)
  PROVE  Right'
<1>1. CASE Count(w)
  <2>1. /\ ~ At(w, "idle") /\ Request(w).op = "upload"
        /\ To(w, "counted") \/ End(w)
        /\ UNCHANGED <<table, clients, history>>
    BY <1>1 DEF Count, At
  <2>2. "counted" \in UploadSteps \ {"inserted"}
    BY DEF UploadSteps
  <2> QED
    BY <2>1, <2>2, UploadReads, RightParts DEF table, clients, history
<1>2. CASE Sum(w)
  <2>1. /\ work[w].pc \in UploadSteps
        /\ To(w, "summed") \/ End(w)
        /\ UNCHANGED <<table, clients, history>>
    BY <1>2 DEF Sum, At, UploadSteps
  <2>2. "summed" \in UploadSteps \ {"inserted"}
    BY DEF UploadSteps
  <2> QED
    BY <2>1, <2>2, UploadInHand, UploadReads, RightParts DEF table, clients, history
<1> QED
  BY <1>1, <1>2

LEMMA FindBlobTyped ==
  ASSUME Right, NEW w \in Workers, FindBlob(w)
  PROVE  Right'
<1>1. work[w].pc \in UploadSteps
  BY DEF FindBlob, At, UploadSteps
<1>2. PICK pc \in {"absent", "found"} : To(w, pc)
  BY DEF FindBlob
<1>3. pc \in UploadSteps \ {"inserted"}
  BY DEF UploadSteps
<1>4. clashed' \subseteq Contents
  BY <1>1, UploadInHand, RightParts DEF FindBlob
<1>5. UNCHANGED <<table, clients, torn, left>>
  BY DEF FindBlob
<1> QED
  BY <1>1, <1>2, <1>3, <1>4, <1>5, UploadInHand, UploadReads, RightParts DEF table, clients

LEMMA WriteFileTyped ==
  ASSUME Right, NEW w \in Workers, WriteFile(w)
  PROVE  Right'
<1>1. work[w].pc \in UploadSteps /\ To(w, "written")
  BY DEF WriteFile, At, UploadSteps
<1>2. "written" \in UploadSteps \ {"inserted"}
  BY DEF UploadSteps
<1>3. files' \subseteq Contents
  BY <1>1, UploadInHand, RightParts DEF WriteFile
<1>4. UNCHANGED <<rows, blobs, audited, recorded, clients, history>>
  BY DEF WriteFile
<1> QED
  BY <1>1, <1>2, <1>3, <1>4, UploadInHand, UploadReads, RightParts DEF clients, history

\* A statement that writes blob rows, and takes none away that is referred to.
LEMMA BlobTyped ==
  ASSUME Right, NEW w \in Workers, ~ At(w, "idle"), NEW pc \in Pcs \ {"inserted"},
         pc \in UploadSteps => Request(w).op = "upload",
         pc \in DeleteSteps => Request(w).op = "delete" /\ work[w].content # None,
         To(w, pc),
         UNCHANGED <<rows, files, audited, recorded, clients, history>>,
         blobs' \in [Contents -> Int \cup {None}],
         \A c \in Contents : blobs[c] # None /\ blobs'[c] = None => References(c) = {}
  PROVE  Right'
<1>1. PICK j \in Job : Fine(j, asked, DOMAIN rows) /\ work' = [work EXCEPT ![w] = j]
  BY GoesOn
<1>2. ForeignKey'
  <2>1. rows \in Seq(Row \cup {None}) /\ ForeignKey
    BY RightParts
  <2>2. ASSUME NEW a \in DOMAIN rows, rows[a] # None
        PROVE  blobs'[rows[a].content] # None
    <3>1. rows[a] \in Row
      BY <2>1, <2>2
    <3>2. rows[a].content \in Contents /\ blobs[rows[a].content] # None
      BY <2>1, <2>2, <3>1 DEF Row, ForeignKey
    <3>3. a \in References(rows[a].content)
      BY <2>2 DEF References
    <3> QED
      BY <3>2, <3>3
  <2> QED
    BY <2>2 DEF ForeignKey
<1>3. UNCHANGED <<asked, budget, clashed, torn, left>>
  BY DEF clients, history
<1> QED
  BY <1>1, <1>2, <1>3, OneWorks, RightParts

LEMMA CountedByTyped ==
  ASSUME Right, NEW c \in Contents, NEW k \in Int
  PROVE  /\ CountedBy(c, k) \in [Contents -> Int \cup {None}]
         /\ \A x \in Contents : blobs[x] # None => CountedBy(c, k)[x] # None
<1>1. blobs \in [Contents -> Int \cup {None}]
  BY RightParts
<1>2. CASE blobs[c] = None
  BY <1>1, <1>2 DEF CountedBy
<1>3. CASE blobs[c] # None
  <2>1. blobs[c] + k \in Int /\ blobs[c] + k # None
    BY <1>1, <1>3, ConstantsAssumption
  <2> QED
    BY <1>1, <1>3, <2>1 DEF CountedBy
<1> QED
  BY <1>2, <1>3

LEMMA InsertBlobTyped ==
  ASSUME Right, NEW w \in Workers, InsertBlob(w)
  PROVE  Right'
<1>1. work[w].pc \in UploadSteps
  BY DEF InsertBlob, At, UploadSteps
<1>2. "found" \in UploadSteps \ {"inserted"} /\ "found" \in Pcs \ {"inserted"} /\ "found" \notin DeleteSteps
  BY DEF UploadSteps, DeleteSteps, Pcs
<1>3. CASE End(w) /\ UNCHANGED blobs
  <2>1. UNCHANGED <<rows, files, audited, recorded, clients, history>>
    BY DEF InsertBlob
  <2> QED
    BY <1>1, <1>2, <1>3, <2>1, UploadInHand, UploadReads, RightParts DEF clients, history
<1>4. CASE To(w, "found") /\ blobs' = [blobs EXCEPT ![work[w].content] = 0]
  <2>1. UNCHANGED <<rows, files, audited, recorded, clients, history>>
    BY DEF InsertBlob
  <2>2. blobs \in [Contents -> Int \cup {None}] /\ None # 0
    BY RightParts, ConstantsAssumption
  <2>3. blobs' \in [Contents -> Int \cup {None}]
    <3>1. 0 \in Int \cup {None}
      OBVIOUS
    <3> QED
      BY <1>4, <2>2, <3>1, Zenon
  <2>4. \A c \in Contents : blobs'[c] = None => blobs[c] = None
    BY <1>4, <2>2
  <2> QED
    BY <1>1, <1>2, <1>4, <2>1, <2>3, <2>4, UploadInHand, BlobTyped
<1> QED
  BY <1>3, <1>4 DEF InsertBlob

LEMMA ReferTyped ==
  ASSUME Right, NEW w \in Workers, Refer(w)
  PROVE  Right'
<1>1. work[w].pc \in UploadSteps /\ To(w, "referred") /\ blobs' = CountedBy(work[w].content, 1)
  BY DEF Refer, At, UploadSteps
<1>2. "referred" \in Pcs \ {"inserted"} /\ "referred" \notin DeleteSteps
  BY DEF UploadSteps, DeleteSteps, Pcs
<1>3. /\ blobs' \in [Contents -> Int \cup {None}]
      /\ \A c \in Contents : blobs'[c] = None => blobs[c] = None
  BY <1>1, UploadInHand, CountedByTyped
<1>4. UNCHANGED <<rows, files, audited, recorded, clients, history>>
  BY DEF Refer
<1> QED
  BY <1>1, <1>2, <1>3, <1>4, UploadInHand, BlobTyped

LEMMA InsertRowTyped ==
  ASSUME Right, NEW w \in Workers, InsertRow(w)
  PROVE  Right'
<1>1. work[w].pc \in UploadSteps
  BY DEF InsertRow, At, UploadSteps
<1>2. UNCHANGED <<blobs, files, audited, recorded, asked, budget, clashed, torn, left>>
  BY DEF InsertRow, clients, history
<1>3. CASE End(w) /\ UNCHANGED rows
  <2>1. "found" \in UploadSteps \ {"inserted"}
    BY DEF UploadSteps
  <2> QED
    BY <1>1, <1>2, <1>3, <2>1, UploadInHand, UploadReads, RightParts
<1> DEFINE c == work[w].content
           row == [item |-> Request(w).item, content |-> c]
           j == [work[w] EXCEPT !.pc = "inserted", !.id = Len(rows) + 1]
<1>4. CASE blobs[c] # None /\ rows' = Append(rows, row) /\ work' = [work EXCEPT ![w] = j]
  <2>1. row \in Row
    BY <1>1, UploadInHand, InHand DEF Row, Requests, Uploads, Deletes
  <2>2. rows \in Seq(Row \cup {None})
    BY RightParts
  <2> HIDE DEF row
  <2>3. /\ rows' \in Seq(Row \cup {None})
        /\ Len(rows') = Len(rows) + 1
        /\ \A a \in 1 .. Len(rows) : rows'[a] = rows[a]
        /\ rows'[Len(rows) + 1] = row
    BY <1>4, <2>1, <2>2, AppendProperties
  <2>4. /\ DOMAIN rows = 1 .. Len(rows) /\ DOMAIN rows' = 1 .. Len(rows')
        /\ Len(rows) \in Nat
    BY <2>2, <2>3
  <2>5. DOMAIN rows \subseteq DOMAIN rows' /\ Len(rows) + 1 \in DOMAIN rows' /\ Len(rows) + 1 \in Nat
    BY <2>3, <2>4
  <2>6. /\ work[w] \in Job /\ Fine(work[w], asked, DOMAIN rows)
        /\ work[w].n \in DOMAIN asked /\ Request(w).op = "upload" /\ work[w].content # None
        /\ Request(w) = asked[work[w].n]
    BY <1>1, UploadInHand, InHand, ConstantsAssumption
  <2>7. /\ j \in Job /\ j.pc = "inserted" /\ j.n = work[w].n /\ j.content = work[w].content
        /\ j.id = Len(rows) + 1
    BY <2>5, <2>6 DEF Job, UploadSteps
  <2>8. asked[work[w].n].op = "upload" /\ asked[work[w].n].content = work[w].content
    BY <1>1, <2>6, UploadInHand DEF Fine, At
  <2> HIDE DEF j
  <2>9. Fine(j, asked, DOMAIN rows')
    BY <2>5, <2>6, <2>7, <2>8 DEF Fine, DeleteSteps
  <2>10. row.content = c
    BY DEF row
  <2>11. ForeignKey'
    <3>1. ASSUME NEW a \in DOMAIN rows', rows'[a] # None
          PROVE  blobs[rows'[a].content] # None
      <4>1. CASE a \in DOMAIN rows
        BY <2>3, <2>4, <3>1, <4>1, RightParts DEF ForeignKey
      <4>2. CASE a = Len(rows) + 1
        BY <1>4, <2>3, <2>10, <4>2
      <4> QED
        BY <2>3, <2>4, <4>1, <4>2
    <3> QED
      BY <1>2, <3>1 DEF ForeignKey
  <2>12. audited' \subseteq DOMAIN rows' /\ budget' \in Budget
    BY <1>2, <2>5, RightParts
  <2> QED
    BY <1>2, <1>4, <2>3, <2>5, <2>7, <2>9, <2>11, <2>12, RightParts, OneWorks
<1> QED
  BY <1>3, <1>4 DEF InsertRow

LEMMA AuditTyped ==
  ASSUME Right, NEW w \in Workers, Audit(w)
  PROVE  Right'
<1>1. At(w, "inserted") /\ ~ At(w, "idle") /\ To(w, "done")
  BY DEF Audit, At
<1>2. work[w].id \in DOMAIN rows
  BY <1>1, InHand DEF Fine, At
<1>3. "done" \in Pcs \ {"inserted"} /\ "done" \notin UploadSteps \cup DeleteSteps
  BY DEF Pcs, UploadSteps, DeleteSteps
<1>4. UNCHANGED <<rows, blobs, files, recorded, asked, budget, clashed, torn, left>>
  BY DEF Audit, clients, history
<1>5. audited' \subseteq DOMAIN rows /\ audited' = audited \cup {work[w].id}
  BY <1>2, RightParts DEF Audit
<1>6. PICK j \in Job : Fine(j, asked, DOMAIN rows) /\ work' = [work EXCEPT ![w] = j]
  BY <1>1, <1>3, GoesOn
<1> QED
  BY <1>4, <1>5, <1>6, RightParts, OneReads

LEMMA LoadRowTyped ==
  ASSUME Right, NEW w \in Workers, LoadRow(w)
  PROVE  Right'
<1> DEFINE a == Request(w).id
           c == rows[a].content
           j == [work[w] EXCEPT !.pc = "loaded", !.content = c]
<1>1. ~ At(w, "idle") /\ Request(w).op = "delete"
  BY DEF LoadRow, At
<1>2. UNCHANGED <<rows, blobs, files, audited, recorded, asked, budget, torn, left>>
  BY DEF LoadRow, table, clients
<1>3. /\ work[w] \in Job /\ Fine(work[w], asked, DOMAIN rows)
      /\ work[w].n \in DOMAIN asked /\ Request(w) = asked[work[w].n]
  BY <1>1, InHand
<1>4. CASE End(w) /\ UNCHANGED clashed
  BY <1>2, <1>4, IdleFine, RightParts, OneReads DEF End
<1>5. CASE a \in RowsOf(Request(w).item) /\ work' = [work EXCEPT ![w] = j]
           /\ clashed' \subseteq clashed \cup {c}
  <2>1. c \in Contents
    BY <1>5, RightParts DEF RowsOf, Row
  <2>2. /\ j \in Job /\ j.pc = "loaded" /\ j.n = work[w].n /\ j.content = c
    BY <1>3, <2>1 DEF Job, DeleteSteps
  <2>3. c # None
    BY <2>1, ConstantsAssumption
  <2> HIDE DEF j, c
  <2>4. Fine(j, asked, DOMAIN rows)
    BY <1>1, <1>3, <2>2, <2>3 DEF Fine, UploadSteps
  <2>5. clashed' \subseteq Contents
    BY <1>5, <2>1, RightParts
  <2> QED
    BY <1>2, <1>5, <2>2, <2>4, <2>5, RightParts, OneReads
<1> QED
  BY <1>4, <1>5 DEF LoadRow

\* A request on its way through the steps of a deletion.
LEMMA DeleteSteady ==
  ASSUME Right, NEW w \in Workers, work[w].pc \in DeleteSteps,
         NEW pc \in DeleteSteps \cup {"done"}, To(w, pc) \/ End(w),
         asked' = asked, rows' = rows, blobs' = blobs, audited' = audited,
         files' \subseteq Contents, recorded' = recorded, budget' \in Budget,
         clashed' = clashed, torn' = torn, left' \subseteq Contents
  PROVE  Right'
<1>1. pc \in Pcs \ {"inserted"} /\ pc \notin UploadSteps
  BY DEF Pcs, UploadSteps, DeleteSteps
<1> QED
  BY <1>1, DeleteInHand, ReadTyped, RightParts

LEMMA RowGone ==
  ASSUME Right, NEW w \in Workers, DeleteRow(w)
  PROVE  /\ rows' \in Seq(Row \cup {None})
         /\ DOMAIN rows' = DOMAIN rows
         /\ \A a \in DOMAIN rows : rows'[a] = IF a = Request(w).id THEN None ELSE rows[a]
<1>1. rows \in Seq(Row \cup {None}) /\ rows' = [rows EXCEPT ![Request(w).id] = None]
  BY RightParts DEF DeleteRow
<1>2. CASE Request(w).id \in DOMAIN rows
  <2>1. Request(w).id \in 1 .. Len(rows) /\ DOMAIN rows = 1 .. Len(rows)
    BY <1>1, <1>2
  <2> QED
    BY <1>1, <2>1, ExceptSeq
<1>3. CASE Request(w).id \notin DOMAIN rows
  <2>1. rows' = rows
    <3>1. rows = [a \in DOMAIN rows |-> rows[a]]
      BY <1>1
    <3> QED
      BY <1>1, <1>3, <3>1, Zenon
  <2> QED
    BY <1>1, <1>3, <2>1
<1> QED
  BY <1>2, <1>3

LEMMA DeleteRowTyped ==
  ASSUME Right, NEW w \in Workers, DeleteRow(w)
  PROVE  Right'
<1>1. work[w].pc \in DeleteSteps /\ To(w, "deleted")
  BY DEF DeleteRow, At, DeleteSteps
<1>2. "deleted" \in Pcs \ {"inserted"} /\ "deleted" \notin UploadSteps
  BY DEF Pcs, UploadSteps, DeleteSteps
<1>3. UNCHANGED <<blobs, files, audited, recorded, asked, budget, clashed, torn, left>>
  BY DEF DeleteRow, clients, history
<1>4. rows \in Seq(Row \cup {None})
  BY RightParts
<1>5. /\ rows' \in Seq(Row \cup {None})
      /\ DOMAIN rows' = DOMAIN rows
      /\ \A a \in DOMAIN rows : rows'[a] \in {rows[a], None}
  BY <1>4, RowGone
<1>6. PICK j \in Job : Fine(j, asked, DOMAIN rows') /\ work' = [work EXCEPT ![w] = j]
  <2>1. \E j \in Job : Fine(j, asked, DOMAIN rows) /\ work' = [work EXCEPT ![w] = j]
    BY <1>1, <1>2, DeleteInHand, GoesOn
  <2> QED
    BY <1>5, <2>1
<1>7. ForeignKey'
  BY <1>3, <1>5, RightParts DEF ForeignKey
<1> QED
  BY <1>3, <1>5, <1>6, <1>7, RightParts, OneWorks

LEMMA UnreferTyped ==
  ASSUME Right, NEW w \in Workers, Unrefer(w)
  PROVE  Right'
<1>1. work[w].pc \in DeleteSteps /\ To(w, "unreferred") /\ blobs' = CountedBy(work[w].content, -1)
  BY DEF Unrefer, At, DeleteSteps
<1>2. "unreferred" \in Pcs \ {"inserted"} /\ "unreferred" \notin UploadSteps
  BY DEF Pcs, UploadSteps, DeleteSteps
<1>3. /\ blobs' \in [Contents -> Int \cup {None}]
      /\ \A c \in Contents : blobs'[c] = None => blobs[c] = None
  BY <1>1, DeleteInHand, CountedByTyped
<1>4. UNCHANGED <<rows, files, audited, recorded, clients, history>>
  BY DEF Unrefer
<1> QED
  BY <1>1, <1>2, <1>3, <1>4, DeleteInHand, BlobTyped

LEMMA ReadBlobTyped ==
  ASSUME Right, NEW w \in Workers, ReadBlob(w)
  PROVE  Right'
<1>1. work[w].pc \in DeleteSteps
  BY DEF ReadBlob, At, DeleteSteps
<1>2. \E pc \in {"last", "done"} : To(w, pc) \/ End(w)
  BY DEF ReadBlob
<1>3. {"last", "done"} \subseteq DeleteSteps \cup {"done"}
  BY DEF DeleteSteps
<1>4. UNCHANGED <<table, clients, history>>
  BY DEF ReadBlob
<1> QED
  BY <1>1, <1>2, <1>3, <1>4, DeleteSteady, RightParts DEF table, clients, history

LEMMA RemoveFileTyped ==
  ASSUME Right, NEW w \in Workers, RemoveFile(w) \/ RemoveFails(w)
  PROVE  Right'
<1>1. work[w].pc \in DeleteSteps /\ To(w, "unlinked")
  BY DEF RemoveFile, RemoveFails, At, DeleteSteps
<1>2. "unlinked" \in DeleteSteps \cup {"done"}
  BY DEF DeleteSteps
<1>3. work[w].content \in Contents
  BY <1>1, DeleteInHand
<1>4. CASE RemoveFile(w)
  BY <1>1, <1>2, <1>3, <1>4, DeleteSteady, RightParts DEF RemoveFile, clients, history
<1>5. CASE RemoveFails(w)
  <2>1. budget' \in Budget
    BY <1>5, Spends DEF RemoveFails
  <2> QED
    BY <1>1, <1>2, <1>3, <1>5, <2>1, DeleteSteady, RightParts DEF RemoveFails, table
<1> QED
  BY <1>4, <1>5

LEMMA DeleteBlobTyped ==
  ASSUME Right, NEW w \in Workers, DeleteBlob(w)
  PROVE  Right'
<1> DEFINE c == work[w].content
<1>1. work[w].pc \in DeleteSteps
  BY DEF DeleteBlob, At, DeleteSteps
<1>2. "done" \in Pcs \ {"inserted"} /\ "done" \notin UploadSteps \cup DeleteSteps
  BY DEF Pcs, UploadSteps, DeleteSteps
<1>3. UNCHANGED <<rows, files, audited, recorded, clients, history>>
  BY DEF DeleteBlob
<1>4. CASE End(w) /\ UNCHANGED blobs
  BY <1>1, <1>3, <1>4, DeleteSteady, RightParts DEF clients, history
<1>5. CASE To(w, "done") /\ blobs' = [blobs EXCEPT ![c] = None] /\ References(c) = {}
  <2>1. blobs \in [Contents -> Int \cup {None}]
    BY RightParts
  <2>2. blobs' \in [Contents -> Int \cup {None}]
    BY <1>5, <2>1
  <2>3. \A x \in Contents : blobs[x] # None /\ blobs'[x] = None => References(x) = {}
    BY <1>5, <2>1
  <2> QED
    BY <1>1, <1>2, <1>3, <1>5, <2>2, <2>3, DeleteInHand, BlobTyped
<1> QED
  BY <1>4, <1>5 DEF DeleteBlob, References

LEMMA RecordTyped ==
  ASSUME Right, NEW w \in Workers, Record(w)
  PROVE  Right'
<1>1. ~ At(w, "idle")
  BY DEF Record, At
<1>2. work[w].n \in DOMAIN asked
  BY <1>1, InHand
<1>3. /\ work' = [work EXCEPT ![w] = Idle] /\ recorded' \subseteq DOMAIN asked
      /\ UNCHANGED <<rows, blobs, files, audited, asked, budget, clashed, torn, left>>
  BY <1>2, RightParts DEF Record, End, clients, history
<1> QED
  BY <1>3, IdleFine, RightParts, OneReads

LEMMA StopTyped ==
  ASSUME Right, NEW w \in Workers, Stop(w)
  PROVE  Right'
<1>1. ~ At(w, "idle") /\ budget' \in Budget
  BY Spends DEF Stop
<1>2. work[w].content \in Contents \cup {None}
  BY <1>1, InHand DEF Job
<1>3. /\ left' \subseteq Contents
      /\ torn' = torn \cup {c \in {work[w].content} : At(w, "unlinked")}
  BY <1>2, RightParts DEF Stop
<1>4. torn' \subseteq Contents
  BY <1>3, DeleteInHand, RightParts DEF At, DeleteSteps
<1>5. /\ work' = [work EXCEPT ![w] = Idle]
      /\ UNCHANGED <<rows, blobs, files, audited, recorded, asked, clashed>>
  BY DEF Stop, End, table
<1> QED
  BY <1>1, <1>3, <1>4, <1>5, IdleFine, RightParts, OneReads

-----------------------------------------------------------------------------
(* Type correctness *)

Step(w) ==
  \/ \E r \in Sensible : Ask(w, r)
  \/ \E n \in DOMAIN asked : AskAgain(w, n)
  \/ TurnAway(w)
  \/ Gate(w) \/ Upload(w) \/ Delete(w) \/ Record(w) \/ Stop(w)

LEMMA NextIsStep == Next <=> \E w \in Workers : Step(w)
<1>1. ASSUME NEW w \in Workers
      PROVE  (\E r \in Sensible : Ask(w, r))
               <=> \/ \E r \in Uploads : Ask(w, r)
                   \/ \E i \in Items, a \in DOMAIN rows :
                        Ask(w, [op |-> "delete", item |-> i, id |-> a])
  <2>1. ASSUME NEW r \in Sensible, Ask(w, r)
        PROVE  \/ \E u \in Uploads : Ask(w, u)
               \/ \E i \in Items, a \in DOMAIN rows :
                    Ask(w, [op |-> "delete", item |-> i, id |-> a])
    <3>1. CASE r \in Uploads
      BY <2>1, <3>1
    <3>2. CASE r \in [op : {"delete"}, item : Items, id : DOMAIN rows]
      <4>1. r = [op |-> "delete", item |-> r.item, id |-> r.id] /\ r.item \in Items /\ r.id \in DOMAIN rows
        BY <3>2
      <4> QED
        BY <2>1, <4>1
    <3> QED
      BY <3>1, <3>2 DEF Sensible
  <2>2. Uploads \subseteq Sensible
    BY DEF Sensible
  <2>3. \A i \in Items, a \in DOMAIN rows : [op |-> "delete", item |-> i, id |-> a] \in Sensible
    BY DEF Sensible
  <2>4. ASSUME NEW i \in Items, NEW a \in DOMAIN rows,
               Ask(w, [op |-> "delete", item |-> i, id |-> a])
        PROVE  \E r \in Sensible : Ask(w, r)
    BY <2>3, <2>4
  <2>5. ASSUME NEW u \in Uploads, Ask(w, u)
        PROVE  \E r \in Sensible : Ask(w, r)
    BY <2>2, <2>5
  <2> QED
    BY <2>1, <2>4, <2>5
<1> QED
  BY <1>1 DEF Next, Step

LEMMA RightStep ==
  ASSUME Right, [Next]_vars
  PROVE  Right'
<1>1. CASE UNCHANGED vars
  BY <1>1, RightParts, RightPartsNext DEF vars, ForeignKey
<1>2. ASSUME NEW w \in Workers, Step(w)
      PROVE  Right'
  <2>1. CASE \E r \in Sensible : Ask(w, r)
    BY <2>1, AskTyped
  <2>2. CASE \E n \in DOMAIN asked : AskAgain(w, n)
    BY <2>2, AskAgainTyped
  <2>3. CASE TurnAway(w)
    BY <1>1, <2>3 DEF TurnAway
  <2>4. CASE Upload(w)
    BY <2>4, CountTyped, FindBlobTyped, WriteFileTyped, InsertBlobTyped, ReferTyped,
       InsertRowTyped, AuditTyped DEF Upload
  <2>5. CASE Delete(w)
    BY <2>5, LoadRowTyped, DeleteRowTyped, UnreferTyped, ReadBlobTyped, RemoveFileTyped,
       DeleteBlobTyped DEF Delete
  <2>6. CASE Gate(w) \/ Record(w) \/ Stop(w)
    BY <2>6, GateTyped, RecordTyped, StopTyped
  <2> QED
    BY <1>2, <2>1, <2>2, <2>3, <2>4, <2>5, <2>6 DEF Step
<1> QED
  BY <1>1, <1>2, NextIsStep

\* Tables, requests in hand and the foreign key of attachments keep their form
\* whatever overlaps and fails.
THEOREM TypeCorrect == Spec => []TypeOK
<1>1. Right => TypeOK
  BY DEF Right
<1> QED
  BY <1>1, InitRight, RightStep, PTL DEF Spec

-----------------------------------------------------------------------------
(* What a step of a worker does to the requests in hand *)

\* Requests are only added.
LEMMA AskedStays ==
  ASSUME Right, NEW w \in Workers, Step(w), NEW n \in DOMAIN asked
  PROVE  n \in DOMAIN asked' /\ asked'[n] = asked[n]
<1>1. CASE \E r \in Sensible : Ask(w, r)
  BY <1>1, AskedAdds
<1>2. CASE \E k \in DOMAIN asked : AskAgain(w, k)
  BY <1>2 DEF AskAgain
<1>3. CASE TurnAway(w) \/ Gate(w) \/ Record(w) \/ Stop(w)
  BY <1>3 DEF TurnAway, Gate, Record, Stop, vars, clients
<1>4. CASE Upload(w)
  BY <1>4 DEF Upload, Count, Sum, FindBlob, WriteFile, InsertBlob, Refer, InsertRow,
              Audit, clients
<1>5. CASE Delete(w)
  BY <1>5 DEF Delete, LoadRow, DeleteRow, Unrefer, ReadBlob, RemoveFile, RemoveFails,
              DeleteBlob, clients
<1> QED
  BY <1>1, <1>2, <1>3, <1>4, <1>5 DEF Step

LEMMA Bystander ==
  ASSUME Right, NEW w \in Workers, Step(w), NEW v \in Workers, v # w
  PROVE  work'[v] = work[v]
<1>1. work \in [Workers -> {Idle} \cup Job]
  BY RightParts
<1>2. CASE \/ \E r \in Sensible : Ask(w, r)
           \/ \E n \in DOMAIN asked : AskAgain(w, n)
  BY <1>1, <1>2 DEF Ask, AskAgain
<1>3. CASE TurnAway(w) \/ Gate(w) \/ Record(w) \/ Stop(w)
  BY <1>1, <1>3 DEF TurnAway, Gate, Record, Stop, vars, To, End
<1>4. CASE Upload(w)
  BY <1>1, <1>4 DEF Upload, Count, Sum, FindBlob, WriteFile, InsertBlob, Refer, InsertRow,
                    Audit, To, End
<1>5. CASE Delete(w)
  BY <1>1, <1>5 DEF Delete, LoadRow, DeleteRow, Unrefer, ReadBlob, RemoveFile, RemoveFails,
                    DeleteBlob, To, End
<1> QED
  BY <1>2, <1>3, <1>4, <1>5 DEF Step

\* The worker's own request goes from one statement to the next.
Onward(w) ==
  /\ ~ At(w, "idle")
  /\ asked' = asked
  /\ work'[w].n = work[w].n
  /\ work'[w].content = work[w].content \/ LoadRow(w)
  /\ work'[w].pc = "counted" => Count(w)
  /\ work'[w].pc = "summed" => Sum(w)
  /\ work'[w].pc = "absent" => FindBlob(w)
  /\ work'[w].pc = "written" => WriteFile(w)
  /\ work'[w].pc = "found" => FindBlob(w) \/ InsertBlob(w)
  /\ work'[w].pc = "referred" => Refer(w)
  /\ work'[w].pc = "inserted" => InsertRow(w)
  /\ work'[w].pc = "loaded" => LoadRow(w)
  /\ work'[w].pc = "deleted" => DeleteRow(w)
  /\ work'[w].pc = "unreferred" => Unrefer(w)
  /\ work'[w].pc = "last" => ReadBlob(w)
  /\ work'[w].pc = "unlinked" => RemoveFile(w) \/ RemoveFails(w)

LEMMA Goes ==
  ASSUME Right, NEW w \in Workers, ~ At(w, "idle"), NEW pc, To(w, pc)
  PROVE  /\ work'[w].pc = pc
         /\ work'[w].n = work[w].n
         /\ work'[w].content = work[w].content
  BY InHand, RightParts DEF To, Job

LEMMA Actor ==
  ASSUME Right, NEW w \in Workers, Step(w), work'[w].pc # "idle"
  PROVE  Onward(w) \/ work'[w].pc = "arrived"
<1>1. work \in [Workers -> {Idle} \cup Job]
  BY RightParts
<1>2. CASE \/ \E r \in Sensible : Ask(w, r)
           \/ \E n \in DOMAIN asked : AskAgain(w, n)
  BY <1>1, <1>2 DEF Ask, AskAgain, Arrival
<1>3. ~ TurnAway(w) /\ ~ Record(w) /\ ~ Stop(w)
  BY <1>1 DEF TurnAway, Record, Stop, End, Idle, At, vars
<1>4. ~ End(w)
  BY <1>1 DEF End, Idle
<1>5. CASE Gate(w)
  <2>1. ~ At(w, "idle") /\ asked' = asked /\ To(w, "gated")
    BY <1>4, <1>5 DEF Gate, At, clients
  <2> QED
    BY <2>1, Goes DEF Onward
<1>6. CASE Count(w) \/ Sum(w) \/ FindBlob(w)
  <2>1. ~ At(w, "idle") /\ asked' = asked
    BY <1>6 DEF Count, Sum, FindBlob, At, clients
  <2>2. \/ Count(w) /\ To(w, "counted")
        \/ Sum(w) /\ To(w, "summed")
        \/ FindBlob(w) /\ To(w, "absent")
        \/ FindBlob(w) /\ To(w, "found")
    BY <1>4, <1>6 DEF Count, Sum, FindBlob
  <2> QED
    BY <2>1, <2>2, Goes DEF Onward
<1>7. CASE WriteFile(w) \/ InsertBlob(w) \/ Refer(w) \/ Audit(w)
  <2>1. ~ At(w, "idle") /\ asked' = asked
    BY <1>7 DEF WriteFile, InsertBlob, Refer, Audit, At, clients
  <2>2. \/ WriteFile(w) /\ To(w, "written")
        \/ InsertBlob(w) /\ To(w, "found")
        \/ Refer(w) /\ To(w, "referred")
        \/ To(w, "done")
    BY <1>4, <1>7 DEF WriteFile, InsertBlob, Refer, Audit
  <2> QED
    BY <2>1, <2>2, Goes DEF Onward
<1>8. CASE InsertRow(w)
  <2>1. /\ ~ At(w, "idle") /\ asked' = asked
        /\ work' = [work EXCEPT ![w].pc = "inserted", ![w].id = Len(rows) + 1]
    BY <1>4, <1>8 DEF InsertRow, At, clients
  <2>2. work'[w] = [work[w] EXCEPT !.pc = "inserted", !.id = Len(rows) + 1] /\ work[w] \in Job
    BY <1>1, <2>1, InHand
  <2>3. /\ work'[w].pc = "inserted" /\ work'[w].n = work[w].n
        /\ work'[w].content = work[w].content
    BY <2>2 DEF Job
  <2> QED
    BY <1>8, <2>1, <2>3 DEF Onward
<1>9. CASE LoadRow(w)
  <2> DEFINE c == rows[Request(w).id].content
  <2>1. /\ ~ At(w, "idle") /\ asked' = asked
        /\ work' = [work EXCEPT ![w].pc = "loaded", ![w].content = c]
    BY <1>4, <1>9 DEF LoadRow, At, clients
  <2>2. work'[w] = [work[w] EXCEPT !.pc = "loaded", !.content = c] /\ work[w] \in Job
    BY <1>1, <2>1, InHand
  <2> HIDE DEF c
  <2>3. work'[w].pc = "loaded" /\ work'[w].n = work[w].n
    BY <2>2 DEF Job
  <2> QED
    BY <1>9, <2>1, <2>3 DEF Onward
<1>10. CASE DeleteRow(w) \/ Unrefer(w) \/ ReadBlob(w) \/ RemoveFile(w) \/ RemoveFails(w)
            \/ DeleteBlob(w)
  <2>1. ~ At(w, "idle") /\ asked' = asked
    BY <1>10 DEF DeleteRow, Unrefer, ReadBlob, RemoveFile, RemoveFails, DeleteBlob, At, clients
  <2>2. \/ DeleteRow(w) /\ To(w, "deleted")
        \/ Unrefer(w) /\ To(w, "unreferred")
        \/ ReadBlob(w) /\ To(w, "last")
        \/ (RemoveFile(w) \/ RemoveFails(w)) /\ To(w, "unlinked")
        \/ To(w, "done")
    BY <1>4, <1>10 DEF DeleteRow, Unrefer, ReadBlob, RemoveFile, RemoveFails, DeleteBlob
  <2> QED
    BY <2>1, <2>2, Goes DEF Onward
<1> QED
  BY <1>2, <1>3, <1>5, <1>6, <1>7, <1>8, <1>9, <1>10 DEF Step, Upload, Delete

\* Rows are appended and deleted, never changed.
LEMMA RowsStep ==
  ASSUME Right, NEW w \in Workers, Step(w)
  PROVE  \/ rows' = rows
         \/ InsertRow(w) /\ blobs[work[w].content] # None
         \/ DeleteRow(w)
<1>1. CASE \/ \E r \in Sensible : Ask(w, r)
           \/ \E n \in DOMAIN asked : AskAgain(w, n)
  BY <1>1 DEF Ask, AskAgain, table
<1>2. CASE TurnAway(w) \/ Gate(w) \/ Record(w) \/ Stop(w)
  BY <1>2 DEF TurnAway, Gate, Record, Stop, vars, table
<1>3. CASE Upload(w)
  BY <1>3 DEF Upload, Count, Sum, FindBlob, WriteFile, InsertBlob, Refer, InsertRow,
              Audit, table
<1>4. CASE Delete(w)
  BY <1>4 DEF Delete, LoadRow, Unrefer, ReadBlob, RemoveFile, RemoveFails, DeleteBlob, table
<1> QED
  BY <1>1, <1>2, <1>3, <1>4 DEF Step

\* What an upload inserts.
LEMMA RowCome ==
  ASSUME Right, NEW w \in Workers, InsertRow(w), rows' # rows
  PROVE  /\ work[w].pc \in UploadSteps \ {"inserted"}
         /\ Request(w).item \in Items
         /\ blobs[work[w].content] # None
         /\ Len(rows) \in Nat
         /\ DOMAIN rows = 1 .. Len(rows)
         /\ DOMAIN rows' = 1 .. Len(rows) + 1
         /\ \A a \in DOMAIN rows : rows'[a] = rows[a]
         /\ rows'[Len(rows) + 1] \in Row
         /\ rows'[Len(rows) + 1] # None
         /\ rows'[Len(rows) + 1].item = Request(w).item
         /\ rows'[Len(rows) + 1].content = work[w].content
         /\ work'[w].pc = "inserted"
<1> DEFINE c == work[w].content
           row == [item |-> Request(w).item, content |-> c]
<1>1. work[w].pc \in UploadSteps \ {"inserted"}
  BY DEF InsertRow, At, UploadSteps
<1>2. Request(w).item \in Items /\ c \in Contents /\ ~ At(w, "idle") /\ work[w] \in Job
  BY <1>1, UploadInHand, InHand DEF Requests, Uploads, Deletes
<1>3. row \in Row /\ row.item = Request(w).item /\ row.content = c
  BY <1>2 DEF Row
<1>4. row # None
  BY <1>3, ConstantsAssumption DEF Row
<1>5. /\ rows' = Append(rows, row)
      /\ work' = [work EXCEPT ![w].pc = "inserted", ![w].id = Len(rows) + 1]
      /\ blobs[c] # None
  BY DEF InsertRow
<1>6. rows \in Seq(Row \cup {None}) /\ work \in [Workers -> {Idle} \cup Job]
  BY RightParts
<1>7. work'[w].pc = "inserted"
  BY <1>2, <1>5, <1>6 DEF Job
<1> HIDE DEF row
<1>8. /\ rows' \in Seq(Row \cup {None})
      /\ Len(rows') = Len(rows) + 1
      /\ \A a \in 1 .. Len(rows) : rows'[a] = rows[a]
      /\ rows'[Len(rows) + 1] = row
  BY <1>3, <1>5, <1>6, AppendProperties
<1> QED
  BY <1>1, <1>2, <1>3, <1>4, <1>5, <1>6, <1>7, <1>8

-----------------------------------------------------------------------------
(* The cap on files *)

LEMMA Sizes ==
  ASSUME Right, NEW i
  PROVE  /\ IsFiniteSet(RowsOf(i)) /\ Cardinality(RowsOf(i)) \in Nat
         /\ IsFiniteSet(Coming(i)) /\ Cardinality(Coming(i)) \in Nat
         /\ Cardinality(Coming(i)) <= Cardinality(Workers)
         /\ Cardinality(Workers) \in Nat
<1>1. rows \in Seq(Row \cup {None})
  BY RightParts
<1>2. DOMAIN rows = 1 .. Len(rows) /\ Len(rows) \in Nat
  BY <1>1
<1>3. IsFiniteSet(1 .. Len(rows))
  BY <1>2, FS_Interval
<1>4. RowsOf(i) \in SUBSET (1 .. Len(rows))
  BY <1>2 DEF RowsOf
<1>5. IsFiniteSet(Workers) /\ Coming(i) \in SUBSET Workers
  BY ConstantsAssumption DEF Coming
<1>6. IsFiniteSet(RowsOf(i)) /\ IsFiniteSet(Coming(i))
  BY <1>3, <1>4, <1>5, FS_Subset
<1> QED
  BY <1>5, <1>6, FS_Subset, FS_CardinalityType

LEMMA SizesNext ==
  ASSUME Right', NEW i
  PROVE  /\ IsFiniteSet(RowsOf(i)') /\ Cardinality(RowsOf(i)') \in Nat
         /\ IsFiniteSet(Coming(i)') /\ Cardinality(Coming(i)') \in Nat
         /\ Cardinality(Coming(i)') <= Cardinality(Workers)
<1>1. rows' \in Seq(Row \cup {None})
  BY RightPartsNext
<1>2. DOMAIN rows' = 1 .. Len(rows') /\ Len(rows') \in Nat
  BY <1>1
<1>3. IsFiniteSet(1 .. Len(rows'))
  BY <1>2, FS_Interval
<1>4. RowsOf(i)' \in SUBSET (1 .. Len(rows'))
  BY <1>2 DEF RowsOf
<1>5. IsFiniteSet(Workers) /\ Coming(i)' \in SUBSET Workers
  BY ConstantsAssumption DEF Coming
<1>6. IsFiniteSet(RowsOf(i)') /\ IsFiniteSet(Coming(i)')
  BY <1>3, <1>4, <1>5, FS_Subset
<1> QED
  BY <1>5, <1>6, FS_Subset, FS_CardinalityType

\* Who is on the way to an insertion was so before, unless it has just counted.
LEMMA ComingStep ==
  ASSUME Right, NEW w \in Workers, Step(w), NEW i,
         NEW v \in Coming(i)', v \notin Coming(i)
  PROVE  v = w /\ Count(w) /\ FilesFit(i) /\ Request(w).item = i
<1>1. /\ v \in Workers /\ work'[v].pc \in UploadSteps \ {"inserted"}
      /\ asked'[work'[v].n].item = i
  BY DEF Coming, Request
<1>2. CASE v # w
  <2>1. work'[v] = work[v]
    BY <1>1, <1>2, Bystander
  <2>2. work[v].n \in DOMAIN asked
    BY <1>1, <2>1, UploadInHand, InHand
  <2>3. Request(v).item = i
    BY <1>1, <2>1, <2>2, AskedStays DEF Request
  <2> QED
    BY <1>1, <2>1, <2>3 DEF Coming
<1>3. CASE v = w
  <2>1. Onward(w)
    BY <1>1, <1>3, Actor DEF UploadSteps
  <2>2. Request(w).item = i
    BY <1>1, <1>3, <2>1 DEF Onward, Request
  <2>3. work[w].pc \notin UploadSteps \ {"inserted"}
    BY <1>3, <2>2 DEF Coming
  <2>4. Count(w)
    BY <1>1, <1>3, <2>1, <2>3 DEF Onward, Sum, FindBlob, WriteFile, InsertBlob, Refer, At, UploadSteps
  <2>5. ~ End(w)
    BY <1>1, <1>3, RightParts DEF End, Idle, UploadSteps
  <2> QED
    BY <1>3, <2>2, <2>4, <2>5 DEF Count
<1> QED
  BY <1>2, <1>3

LEMMA CapStep ==
  ASSUME Right, Right', CapInv, NEW w \in Workers, Step(w)
  PROVE  CapInv'
<1> SUFFICES ASSUME NEW i \in Items
             PROVE  Cardinality(RowsOf(i)') + Cardinality(Coming(i)')
                      <= MaxFiles + Cardinality(Workers) - 1
  BY DEF CapInv
<1>1. /\ IsFiniteSet(RowsOf(i)) /\ Cardinality(RowsOf(i)) \in Nat
      /\ IsFiniteSet(Coming(i)) /\ Cardinality(Coming(i)) \in Nat
      /\ Cardinality(Workers) \in Nat /\ MaxFiles \in Nat
  BY Sizes, ConstantsAssumption
<1>2. /\ IsFiniteSet(RowsOf(i)') /\ Cardinality(RowsOf(i)') \in Nat
      /\ IsFiniteSet(Coming(i)') /\ Cardinality(Coming(i)') \in Nat
      /\ Cardinality(Coming(i)') <= Cardinality(Workers)
  BY SizesNext
<1>3. Cardinality(RowsOf(i)) + Cardinality(Coming(i)) <= MaxFiles + Cardinality(Workers) - 1
  BY DEF CapInv
<1>4. CASE Count(w) /\ FilesFit(i) /\ Request(w).item = i
  <2>1. Cardinality(RowsOf(i)) + 1 <= MaxFiles /\ rows' = rows
    BY <1>4 DEF Count, FilesFit, table
  <2>2. RowsOf(i)' = RowsOf(i)
    BY <2>1 DEF RowsOf
  <2> QED
    BY <1>1, <1>2, <2>1, <2>2
<1>5. CASE InsertRow(w) /\ rows' # rows /\ Request(w).item = i
  <2> DEFINE k == Len(rows) + 1
  <2>1. /\ work[w].pc \in UploadSteps \ {"inserted"} /\ work'[w].pc = "inserted"
        /\ \A a \in DOMAIN rows' : a # k => a \in DOMAIN rows /\ rows'[a] = rows[a]
    BY <1>5, RowCome
  <2>2. RowsOf(i)' \subseteq RowsOf(i) \cup {k}
    BY <2>1 DEF RowsOf
  <2>3. Cardinality(RowsOf(i)') <= Cardinality(RowsOf(i)) + 1
    <3>1. /\ IsFiniteSet(RowsOf(i) \cup {k})
          /\ Cardinality(RowsOf(i) \cup {k}) \in {Cardinality(RowsOf(i)), Cardinality(RowsOf(i)) + 1}
      BY <1>1, FS_AddElement
    <3>2. Cardinality(RowsOf(i)') <= Cardinality(RowsOf(i) \cup {k})
      BY <2>2, <3>1, FS_Subset
    <3> QED
      BY <1>1, <1>2, <3>1, <3>2
  <2>4. w \in Coming(i) /\ w \notin Coming(i)'
    BY <1>5, <2>1 DEF Coming
  <2>5. Coming(i)' \subseteq Coming(i) \ {w}
    BY <1>5, <2>4, ComingStep
  <2>6. Cardinality(Coming(i)') <= Cardinality(Coming(i)) - 1
    <3>1. /\ IsFiniteSet(Coming(i) \ {w})
          /\ Cardinality(Coming(i) \ {w}) = Cardinality(Coming(i)) - 1
      BY <1>1, <2>4, FS_RemoveElement
    <3> QED
      BY <2>5, <3>1, FS_Subset
  <2> QED
    BY <1>1, <1>2, <1>3, <2>3, <2>6
<1>6. CASE /\ ~ (Count(w) /\ FilesFit(i) /\ Request(w).item = i)
           /\ ~ (InsertRow(w) /\ rows' # rows /\ Request(w).item = i)
  <2>1. Coming(i)' \subseteq Coming(i)
    BY <1>6, ComingStep
  <2>2. RowsOf(i)' \subseteq RowsOf(i)
    <3>1. CASE rows' = rows
      BY <3>1 DEF RowsOf
    <3>2. CASE InsertRow(w) /\ rows' # rows /\ Request(w).item # i
      BY <3>2, RowCome DEF RowsOf
    <3>3. CASE DeleteRow(w)
      BY <3>3, RowGone DEF RowsOf
    <3> QED
      BY <1>6, <3>1, <3>2, <3>3, RowsStep
  <2>3. /\ Cardinality(Coming(i)') <= Cardinality(Coming(i))
        /\ Cardinality(RowsOf(i)') <= Cardinality(RowsOf(i))
    BY <1>1, <2>1, <2>2, FS_Subset
  <2> QED
    BY <1>1, <1>2, <1>3, <2>3
<1> QED
  BY <1>4, <1>5, <1>6

\* Uploads that overlap pass the cap on files by less than the number of
\* workers.
THEOREM CapHolds == Spec => []FilesCap
<1>1. Init => Right /\ CapInv
  <2> SUFFICES ASSUME Init PROVE CapInv
    BY InitRight
  <2>1. ASSUME NEW i
        PROVE  RowsOf(i) = {} /\ Coming(i) = {}
    BY DEF Init, RowsOf, Coming, Idle, UploadSteps
  <2>2. Cardinality({}) = 0 /\ Cardinality(Workers) \in Nat
    BY ConstantsAssumption, FS_EmptySet, FS_CardinalityType
  <2>3. MaxFiles \in Nat /\ MaxFiles >= 1
    BY ConstantsAssumption
  <2> QED
    BY <2>1, <2>2, <2>3 DEF CapInv
<1>2. Right /\ CapInv /\ [Next]_vars => (Right /\ CapInv)'
  <2>1. ASSUME CapInv, UNCHANGED vars
        PROVE  CapInv'
    BY <2>1 DEF vars, CapInv, RowsOf, Coming, Request
  <2> QED
    BY <2>1, RightStep, CapStep, NextIsStep
<1>3. Right /\ CapInv => FilesCap
  <2> SUFFICES ASSUME Right, CapInv, NEW i \in Items
               PROVE  Cardinality(RowsOf(i)) <= MaxFiles + Cardinality(Workers) - 1
    BY DEF FilesCap
  <2>1. Cardinality(RowsOf(i)) + Cardinality(Coming(i)) <= MaxFiles + Cardinality(Workers) - 1
    BY DEF CapInv
  <2>2. MaxFiles \in Nat
    BY ConstantsAssumption
  <2> QED
    BY <2>1, <2>2, Sizes
<1> QED
  BY <1>1, <1>2, <1>3, PTL DEF Spec

-----------------------------------------------------------------------------
(* The files and the counts *)

AttachSteps == {"absent", "written", "found", "referred"}

In(c, pcs) == {v \in Workers : work[v].pc \in pcs /\ work[v].content = c}

\* A deletion that has loaded a row is at work on its content.
Matching ==
  \A w \in Workers : At(w, "loaded") =>
     LET a == Request(w).id
     IN  a \in DOMAIN rows /\ (rows[a] # None => rows[a].content = work[w].content)

\* Rows, uploads that have counted a row to come, and deletions that have not
\* counted one that went.
Claims(c) ==
  Cardinality(References(c)) + Cardinality(In(c, {"referred"}))
    + Cardinality(In(c, {"deleted"}))

\* Unless they clashed, nobody attaches a content while another detaches it,
\* and deletions of it are about different rows.  So the count covers all
\* claims, and who finds it at zero is the last to have to do with the content.
Sound(c) ==
  c \notin clashed =>
    /\ In(c, AttachSteps) = {} \/ In(c, DeleteSteps) = {}
    /\ \A u, v \in In(c, DeleteSteps) : u # v => Request(u).id # Request(v).id
    /\ \A v \in In(c, {"loaded"}) : Request(v).id \in References(c)
    /\ In(c, {"found", "referred"}) # {} => blobs[c] # None
    /\ In(c, {"written"}) # {} => c \in files
    /\ In(c, {"last", "unlinked"}) # {} => References(c) = {}
    /\ blobs[c] # None => blobs[c] >= Claims(c)
    /\ c \notin torn /\ blobs[c] # None /\ In(c, {"unlinked"}) = {} => c \in files

\* And where nothing failed, the count is exact, and somebody is about to use
\* or to remove what nobody claims.
Exact(c) ==
  c \notin clashed \cup left =>
    /\ blobs[c] # None => blobs[c] = Claims(c)
    /\ blobs[c] # None /\ Claims(c) = 0
         => In(c, {"found", "unreferred", "last", "unlinked"}) # {}
    /\ c \in files /\ blobs[c] = None => In(c, {"written"}) # {}
    /\ c \in files => In(c, {"unlinked"}) = {}

LEMMA ClaimSizes ==
  ASSUME Right, NEW c, NEW S
  PROVE  /\ IsFiniteSet(References(c)) /\ Cardinality(References(c)) \in Nat
         /\ IsFiniteSet(In(c, S)) /\ Cardinality(In(c, S)) \in Nat
<1>1. rows \in Seq(Row \cup {None})
  BY RightParts
<1>2. DOMAIN rows = 1 .. Len(rows) /\ Len(rows) \in Nat
  BY <1>1
<1>3. IsFiniteSet(1 .. Len(rows))
  BY <1>2, FS_Interval
<1>4. References(c) \in SUBSET (1 .. Len(rows))
  BY <1>2 DEF References
<1>5. IsFiniteSet(Workers) /\ In(c, S) \in SUBSET Workers
  BY ConstantsAssumption DEF In
<1>6. IsFiniteSet(References(c)) /\ IsFiniteSet(In(c, S))
  BY <1>3, <1>4, <1>5, FS_Subset
<1> QED
  BY <1>6, FS_CardinalityType

\* Only the worker itself comes and goes.
LEMMA Moved ==
  ASSUME Right, NEW w \in Workers, Step(w), NEW c, NEW S
  PROVE  In(c, S)' = IF work'[w].pc \in S /\ work'[w].content = c
                       THEN In(c, S) \cup {w} ELSE In(c, S) \ {w}
  BY Bystander DEF In

\* A request that goes on with its content in hand.
LEMMA Motion ==
  ASSUME Right, NEW w \in Workers, Step(w), ~ At(w, "idle"), NEW pc, To(w, pc)
  PROVE  /\ work'[w].pc = pc
         /\ work'[w].content = work[w].content
         /\ \A v \in Workers : v # w => work'[v] = work[v]
  BY Goes, Bystander

LEMMA SameRequest ==
  ASSUME Right, NEW w \in Workers, Step(w), NEW v \in Workers, ~ At(v, "idle"),
         v # w \/ work'[w].n = work[w].n
  PROVE  Request(v)' = Request(v)
<1>1. work[v].n \in DOMAIN asked
  BY InHand
<1>2. work'[v].n = work[v].n
  BY Bystander
<1> QED
  BY <1>1, <1>2, AskedStays DEF Request

\* History is only added to.
LEMMA HistoryGrows ==
  ASSUME NEW w \in Workers, Step(w)
  PROVE  clashed \subseteq clashed' /\ torn \subseteq torn' /\ left \subseteq left'
<1>1. CASE \/ \E r \in Sensible : Ask(w, r)
           \/ \E n \in DOMAIN asked : AskAgain(w, n)
  BY <1>1 DEF Ask, AskAgain, history
<1>2. CASE TurnAway(w) \/ Gate(w) \/ Record(w)
  BY <1>2 DEF TurnAway, Gate, Record, vars, history
<1>3. CASE Stop(w)
  BY <1>3 DEF Stop
<1>4. CASE Upload(w)
  BY <1>4 DEF Upload, Count, Sum, FindBlob, WriteFile, InsertBlob, Refer, InsertRow,
              Audit, history
<1>5. CASE Delete(w)
  BY <1>5 DEF Delete, LoadRow, DeleteRow, Unrefer, ReadBlob, RemoveFile, RemoveFails,
              DeleteBlob, history
<1> QED
  BY <1>1, <1>2, <1>3, <1>4, <1>5 DEF Step

\* A step in which the worker has, or will have, nothing to do with the
\* content: nothing becomes wrong about it.
LEMMA Withdraws ==
  ASSUME Right, Right', NEW w \in Workers, Step(w), NEW c \in Contents, Sound(c),
         w \notin In(c, AttachSteps \cup DeleteSteps)',
         References(c)' = References(c), blobs'[c] = blobs[c],
         c \in files' <=> c \in files,
         w \in In(c, {"unlinked"}) => c \in torn'
  PROVE  Sound(c)'
<1> SUFFICES ASSUME c \notin clashed'
             PROVE  Sound(c)'
  BY DEF Sound
<1>1. c \notin clashed /\ (c \notin torn' => c \notin torn)
  BY HistoryGrows
<1>2. ASSUME NEW S \in SUBSET (AttachSteps \cup DeleteSteps)
      PROVE  In(c, S)' = In(c, S) \ {w}
  BY <1>2, Moved DEF In
<1>3. /\ In(c, AttachSteps)' = In(c, AttachSteps) \ {w}
      /\ In(c, DeleteSteps)' = In(c, DeleteSteps) \ {w}
      /\ In(c, {"loaded"})' = In(c, {"loaded"}) \ {w}
      /\ In(c, {"found", "referred"})' = In(c, {"found", "referred"}) \ {w}
      /\ In(c, {"written"})' = In(c, {"written"}) \ {w}
      /\ In(c, {"last", "unlinked"})' = In(c, {"last", "unlinked"}) \ {w}
      /\ In(c, {"referred"})' = In(c, {"referred"}) \ {w}
      /\ In(c, {"deleted"})' = In(c, {"deleted"}) \ {w}
      /\ In(c, {"unlinked"})' = In(c, {"unlinked"}) \ {w}
  BY <1>2 DEF AttachSteps, DeleteSteps
<1>4. \A v \in In(c, DeleteSteps)' : Request(v)' = Request(v) /\ v # w
  <2>1. \A v \in In(c, DeleteSteps) : v \in Workers /\ ~ At(v, "idle")
    BY DEF In, At, DeleteSteps
  <2> QED
    BY <1>3, <2>1, SameRequest
<1>5. In(c, {"loaded"}) \subseteq In(c, DeleteSteps)
  BY DEF In, DeleteSteps
<1>6. Claims(c)' <= Claims(c) /\ Claims(c) \in Nat /\ Claims(c)' \in Nat
  <2>1. /\ Cardinality(In(c, {"referred"}) \ {w}) <= Cardinality(In(c, {"referred"}))
        /\ Cardinality(In(c, {"deleted"}) \ {w}) <= Cardinality(In(c, {"deleted"}))
        /\ Cardinality(In(c, {"referred"}) \ {w}) \in Nat
        /\ Cardinality(In(c, {"deleted"}) \ {w}) \in Nat
    BY ClaimSizes, FS_Subset, FS_CardinalityType
  <2>2. /\ Cardinality(References(c)) \in Nat
        /\ Cardinality(In(c, {"referred"})) \in Nat
        /\ Cardinality(In(c, {"deleted"})) \in Nat
    BY ClaimSizes
  <2>3. Claims(c)' = Cardinality(References(c)') + Cardinality(In(c, {"referred"})')
                       + Cardinality(In(c, {"deleted"})')
    BY DEF Claims
  <2>4. /\ Cardinality(References(c)') = Cardinality(References(c))
        /\ Cardinality(In(c, {"referred"})') \in Nat
        /\ Cardinality(In(c, {"deleted"})') \in Nat
        /\ Cardinality(In(c, {"referred"})') <= Cardinality(In(c, {"referred"}))
        /\ Cardinality(In(c, {"deleted"})') <= Cardinality(In(c, {"deleted"}))
    BY <1>3, <2>1
  <2>5. Claims(c) = Cardinality(References(c)) + Cardinality(In(c, {"referred"}))
                      + Cardinality(In(c, {"deleted"}))
    BY DEF Claims
  <2> QED
    BY <2>2, <2>3, <2>4, <2>5
<1>7. blobs[c] \in Int \cup {None}
  BY RightParts
<1> QED
  BY <1>1, <1>3, <1>4, <1>5, <1>6, <1>7 DEF Sound

LEMMA ClaimsNext ==
  ASSUME Right, Right', NEW c
  PROVE  /\ Claims(c) = Cardinality(References(c)) + Cardinality(In(c, {"referred"}))
                          + Cardinality(In(c, {"deleted"}))
         /\ Claims(c)' = Cardinality(References(c)') + Cardinality(In(c, {"referred"})')
                           + Cardinality(In(c, {"deleted"})')
         /\ Cardinality(References(c)) \in Nat /\ Cardinality(References(c)') \in Nat
         /\ Cardinality(In(c, {"referred"})) \in Nat /\ Cardinality(In(c, {"referred"})') \in Nat
         /\ Cardinality(In(c, {"deleted"})) \in Nat /\ Cardinality(In(c, {"deleted"})') \in Nat
         /\ Claims(c) \in Nat /\ Claims(c)' \in Nat
<1>1. /\ Cardinality(References(c)) \in Nat
      /\ Cardinality(In(c, {"referred"})) \in Nat
      /\ Cardinality(In(c, {"deleted"})) \in Nat
  BY ClaimSizes
<1>2. rows' \in Seq(Row \cup {None})
  BY RightPartsNext
<1>3. DOMAIN rows' = 1 .. Len(rows') /\ Len(rows') \in Nat
  BY <1>2
<1>4. IsFiniteSet(1 .. Len(rows')) /\ IsFiniteSet(Workers)
  <2>1. IsFiniteSet(1 .. Len(rows'))
    BY <1>3, FS_Interval
  <2> QED
    BY <2>1, ConstantsAssumption
<1>5. References(c)' \in SUBSET (1 .. Len(rows'))
  BY <1>3 DEF References
<1>6. In(c, {"referred"})' \in SUBSET Workers /\ In(c, {"deleted"})' \in SUBSET Workers
  BY DEF In
<1>7. /\ Cardinality(References(c)') \in Nat
      /\ Cardinality(In(c, {"referred"})') \in Nat
      /\ Cardinality(In(c, {"deleted"})') \in Nat
  BY <1>4, <1>5, <1>6, FS_Subset, FS_CardinalityType
<1>8. /\ Claims(c) = Cardinality(References(c)) + Cardinality(In(c, {"referred"}))
                       + Cardinality(In(c, {"deleted"}))
      /\ Claims(c)' = Cardinality(References(c)') + Cardinality(In(c, {"referred"})')
                        + Cardinality(In(c, {"deleted"})')
  BY DEF Claims
<1> QED
  BY <1>1, <1>7, <1>8

\* Nor does the count become wrong, when the worker had nothing to do with the
\* content before.
LEMMA StaysAway ==
  ASSUME Right, Right', NEW w \in Workers, Step(w), NEW c \in Contents, Exact(c),
         w \notin In(c, AttachSteps \cup DeleteSteps),
         w \notin In(c, AttachSteps \cup DeleteSteps)',
         References(c)' = References(c), blobs'[c] = blobs[c],
         c \in files' <=> c \in files
  PROVE  Exact(c)'
<1> SUFFICES ASSUME c \notin clashed' \cup left'
             PROVE  Exact(c)'
  BY DEF Exact
<1>1. c \notin clashed \cup left
  BY HistoryGrows
<1>2. ASSUME NEW S \in SUBSET (AttachSteps \cup DeleteSteps)
      PROVE  In(c, S)' = In(c, S)
  BY <1>2, Moved DEF In
<1>3. /\ In(c, {"found", "unreferred", "last", "unlinked"})'
           = In(c, {"found", "unreferred", "last", "unlinked"})
      /\ In(c, {"written"})' = In(c, {"written"})
      /\ In(c, {"referred"})' = In(c, {"referred"})
      /\ In(c, {"deleted"})' = In(c, {"deleted"})
      /\ In(c, {"unlinked"})' = In(c, {"unlinked"})
  BY <1>2 DEF AttachSteps, DeleteSteps
<1>4. Claims(c)' = Claims(c)
  BY <1>3, ClaimsNext
<1> QED
  BY <1>1, <1>3, <1>4 DEF Exact

Fair(c) == Sound(c) /\ Exact(c)

\* The worker's step is about another content, or about none.
LEMMA Elsewhere ==
  ASSUME Right, Right', NEW w \in Workers, Step(w), NEW c \in Contents, Fair(c),
         w \notin In(c, AttachSteps \cup DeleteSteps),
         w \notin In(c, AttachSteps \cup DeleteSteps)',
         References(c)' = References(c), blobs'[c] = blobs[c],
         c \in files' <=> c \in files
  PROVE  Fair(c)'
<1>1. w \notin In(c, {"unlinked"})
  BY DEF In, DeleteSteps
<1> QED
  BY <1>1, Withdraws, StaysAway DEF Fair

LEMMA QuietKeeps ==
  ASSUME Right, Right', NEW w \in Workers, Step(w), NEW c \in Contents, Fair(c),
         \/ \E r \in Sensible : Ask(w, r)
         \/ \E n \in DOMAIN asked : AskAgain(w, n)
         \/ Gate(w) \/ Count(w) \/ Sum(w) \/ Audit(w) \/ Record(w) \/ TurnAway(w)
  PROVE  Fair(c)'
<1>1. rows' = rows /\ blobs' = blobs /\ files' = files
  BY DEF Ask, AskAgain, Gate, Count, Sum, Audit, Record, TurnAway, vars, table
<1>2. References(c)' = References(c)
  BY <1>1 DEF References
<1>3. work \in [Workers -> {Idle} \cup Job]
  BY RightParts
<1>4. work[w].pc \notin AttachSteps \cup DeleteSteps
  BY DEF Ask, AskAgain, Gate, Count, Sum, Audit, Record, TurnAway, At, AttachSteps, DeleteSteps
<1>5. work'[w].pc \notin AttachSteps \cup DeleteSteps
  <2>1. CASE \/ \E r \in Sensible : Ask(w, r)
             \/ \E n \in DOMAIN asked : AskAgain(w, n)
    BY <1>3, <2>1 DEF Ask, AskAgain, Arrival, AttachSteps, DeleteSteps
  <2>2. CASE TurnAway(w)
    BY <1>4, <2>2 DEF TurnAway, vars
  <2>3. CASE Gate(w) \/ Count(w) \/ Sum(w) \/ Audit(w) \/ Record(w)
    <3>1. ~ At(w, "idle")
      BY <2>3 DEF Gate, Count, Sum, Audit, Record, At
    <3>2. End(w) \/ To(w, "gated") \/ To(w, "counted") \/ To(w, "summed") \/ To(w, "done")
      BY <2>3 DEF Gate, Count, Sum, Audit, Record
    <3>3. CASE End(w)
      BY <1>3, <3>3 DEF End, Idle, AttachSteps, DeleteSteps
    <3> QED
      BY <3>1, <3>2, <3>3, Goes DEF AttachSteps, DeleteSteps
  <2> QED
    BY <2>1, <2>2, <2>3
<1>6. /\ w \notin In(c, AttachSteps \cup DeleteSteps)
      /\ w \notin In(c, AttachSteps \cup DeleteSteps)'
  BY <1>4, <1>5 DEF In
<1> QED
  BY <1>1, <1>2, <1>6, Elsewhere

LEMMA StopKeeps ==
  ASSUME Right, Right', NEW w \in Workers, Step(w), NEW c \in Contents, Fair(c), Stop(w)
  PROVE  Fair(c)'
<1>1. /\ rows' = rows /\ blobs' = blobs /\ files' = files
      /\ work' = [work EXCEPT ![w] = Idle]
      /\ left' = left \cup {x \in {work[w].content} : x # None}
      /\ torn' = torn \cup {x \in {work[w].content} : At(w, "unlinked")}
  BY DEF Stop, End, table
<1>2. References(c)' = References(c)
  BY <1>1 DEF References
<1>3. w \notin In(c, AttachSteps \cup DeleteSteps)'
  BY <1>1, RightParts DEF In, Idle, AttachSteps, DeleteSteps
<1>4. w \in In(c, {"unlinked"}) => c \in torn'
  BY <1>1 DEF In, At
<1>5. Sound(c)'
  BY <1>1, <1>2, <1>3, <1>4, Withdraws DEF Fair
<1>6. CASE w \in In(c, AttachSteps \cup DeleteSteps)
  <2>1. c \in left'
    BY <1>1, <1>6, ConstantsAssumption DEF In
  <2> QED
    BY <1>5, <2>1 DEF Fair, Exact
<1>7. CASE w \notin In(c, AttachSteps \cup DeleteSteps)
  BY <1>1, <1>2, <1>3, <1>7, Elsewhere
<1> QED
  BY <1>6, <1>7

-----------------------------------------------------------------------------
(* Each statement about a content, on that content *)

LEMMA FindBlobKeeps ==
  ASSUME Right, Right', NEW w \in Workers, Step(w), NEW c \in Contents, Fair(c),
         FindBlob(w), c = work[w].content
  PROVE  Fair(c)'
<1> SUFFICES ASSUME c \notin clashed'
             PROVE  Fair(c)'
  BY DEF Fair, Sound, Exact
<1>1. /\ rows' = rows /\ blobs' = blobs /\ files' = files /\ torn' = torn /\ left' = left
      /\ ~ At(w, "idle") /\ work[w].pc = "summed"
  BY DEF FindBlob, table, At
<1>2. References(c)' = References(c)
  BY <1>1 DEF References
<1>3. c \notin clashed /\ In(c, DeleteSteps) = {}
  BY DEF FindBlob, Detaching, In
<1>4. PICK pc : To(w, pc) /\ pc = IF blobs[c] = None THEN "absent" ELSE "found"
  BY DEF FindBlob
<1>5. /\ work'[w].pc = pc /\ work'[w].content = c
      /\ pc \in {"absent", "found"} /\ (pc = "found" => blobs[c] # None)
      /\ \A v \in Workers : v # w => work'[v] = work[v]
  BY <1>1, <1>4, Motion
<1>6. /\ In(c, {"written"})' = In(c, {"written"})
      /\ In(c, {"referred"})' = In(c, {"referred"})
      /\ In(c, {"deleted"})' = In(c, {"deleted"})
  BY <1>1, <1>5 DEF In
<1>7. In(c, DeleteSteps)' = {} /\ In(c, {"loaded"})' = {}
  BY <1>1, <1>3, <1>5 DEF In, DeleteSteps
<1>8. /\ In(c, {"last", "unlinked"})' = {}
       /\ In(c, {"unlinked"})' = {} /\ In(c, {"unlinked"}) = {}
  BY <1>1, <1>3, <1>5 DEF In, DeleteSteps
<1>9. In(c, {"found", "referred"})' # {} =>
           In(c, {"found", "referred"}) # {} \/ blobs[c] # None
  BY <1>1, <1>5 DEF In
<1>10. In(c, {"found", "unreferred", "last", "unlinked"})
           \subseteq In(c, {"found", "unreferred", "last", "unlinked"})'
  BY <1>1, <1>5 DEF In
<1>11. Claims(c)' = Claims(c)
  BY <1>2, <1>6, ClaimsNext
<1>12. Sound(c)'
  BY <1>1, <1>2, <1>3, <1>11, <1>6, <1>7, <1>8, <1>9 DEF Sound, Fair
<1>13. Exact(c)'
  BY <1>1, <1>2, <1>3, <1>11, <1>6, <1>8, <1>10 DEF Exact, Fair
<1> QED
  BY <1>12, <1>13 DEF Fair

\* An upload that is at work on a content keeps deletions of it away.
LEMMA AttachAlone ==
  ASSUME NEW w \in Workers, NEW c, Sound(c), c \notin clashed,
         c = work[w].content, work[w].pc \in AttachSteps
  PROVE  /\ In(c, DeleteSteps) = {} /\ In(c, {"loaded"}) = {} /\ In(c, {"deleted"}) = {}
         /\ In(c, {"last", "unlinked"}) = {} /\ In(c, {"unlinked"}) = {}
<1>1. w \in In(c, AttachSteps)
  BY DEF In
<1>2. In(c, DeleteSteps) = {}
  BY <1>1 DEF Sound
<1> QED
  BY <1>2 DEF In, DeleteSteps

LEMMA DetachAlone ==
  ASSUME NEW w \in Workers, NEW c, Sound(c), c \notin clashed,
         c = work[w].content, work[w].pc \in DeleteSteps
  PROVE  /\ In(c, AttachSteps) = {} /\ In(c, {"found", "referred"}) = {}
         /\ In(c, {"written"}) = {} /\ In(c, {"referred"}) = {}
<1>1. w \in In(c, DeleteSteps)
  BY DEF In
<1>2. In(c, AttachSteps) = {}
  BY <1>1 DEF Sound
<1> QED
  BY <1>2 DEF In, AttachSteps

\* An upload takes its next step: nobody detaches the content then either.
LEMMA StillAlone ==
  ASSUME Right, NEW w \in Workers, Step(w), NEW c, Sound(c), c \notin clashed,
         c = work[w].content, work[w].pc \in AttachSteps,
         work'[w].pc \notin DeleteSteps
  PROVE  /\ In(c, DeleteSteps)' = {} /\ In(c, {"loaded"})' = {} /\ In(c, {"deleted"})' = {}
         /\ In(c, {"last", "unlinked"})' = {} /\ In(c, {"unlinked"})' = {}
<1>1. In(c, DeleteSteps) = {}
  BY AttachAlone
<1>2. \A v \in Workers : v # w => work'[v] = work[v]
  BY Bystander
<1>3. In(c, DeleteSteps)' = {}
  BY <1>1, <1>2 DEF In
<1> QED
  BY <1>3 DEF In, DeleteSteps

LEMMA WriteFileKeeps ==
  ASSUME Right, Right', NEW w \in Workers, Step(w), NEW c \in Contents, Fair(c),
         WriteFile(w), c = work[w].content
  PROVE  Fair(c)'
<1> SUFFICES ASSUME c \notin clashed'
             PROVE  Fair(c)'
  BY DEF Fair, Sound, Exact
<1>1. /\ rows' = rows /\ blobs' = blobs /\ c \in files' /\ torn' = torn /\ left' = left
      /\ clashed' = clashed /\ ~ At(w, "idle") /\ work[w].pc = "absent" /\ To(w, "written")
  BY DEF WriteFile, At, history
<1>2. References(c)' = References(c)
  BY <1>1 DEF References
<1>3. /\ work'[w].pc = "written" /\ work'[w].content = c
      /\ \A v \in Workers : v # w => work'[v] = work[v]
  BY <1>1, Motion
<1>4. /\ In(c, DeleteSteps)' = {} /\ In(c, {"loaded"})' = {} /\ In(c, {"deleted"})' = {}
      /\ In(c, {"last", "unlinked"})' = {} /\ In(c, {"unlinked"})' = {}
      /\ In(c, {"deleted"}) = {}
  BY <1>1, <1>3, AttachAlone, StillAlone DEF Fair, AttachSteps, DeleteSteps
<1>5. /\ In(c, {"referred"})' = In(c, {"referred"})
      /\ In(c, {"found", "referred"})' = In(c, {"found", "referred"})
      /\ w \in In(c, {"written"})'
  BY <1>1, <1>3 DEF In
<1>6. In(c, {"found", "unreferred", "last", "unlinked"})'
        = In(c, {"found", "unreferred", "last", "unlinked"})
  BY <1>1, <1>3 DEF In
<1>7. Claims(c)' = Claims(c)
  BY <1>2, <1>4, <1>5, ClaimsNext
<1>8. Sound(c)'
  BY <1>1, <1>2, <1>4, <1>5, <1>7 DEF Sound, Fair
<1>9. Exact(c)'
  BY <1>1, <1>2, <1>4, <1>5, <1>6, <1>7 DEF Exact, Fair
<1> QED
  BY <1>8, <1>9 DEF Fair

\* A content without a blob row has no attachments.
LEMMA NoRowNoReference ==
  ASSUME Right, NEW c \in Contents, blobs[c] = None
  PROVE  References(c) = {}
  BY RightParts DEF ForeignKey, References

LEMMA InsertBlobKeeps ==
  ASSUME Right, Right', NEW w \in Workers, Step(w), NEW c \in Contents, Fair(c),
         InsertBlob(w), c = work[w].content
  PROVE  Fair(c)'
<1> SUFFICES ASSUME c \notin clashed'
             PROVE  Fair(c)'
  BY DEF Fair, Sound, Exact
<1>1. /\ rows' = rows /\ files' = files /\ torn' = torn /\ left' = left
      /\ clashed' = clashed /\ ~ At(w, "idle") /\ work[w].pc = "written"
  BY DEF InsertBlob, At, history
<1>2. References(c)' = References(c)
  BY <1>1 DEF References
<1>3. CASE blobs[c] = None
  <2>1. blobs' = [blobs EXCEPT ![c] = 0] /\ To(w, "found")
    BY <1>3 DEF InsertBlob
  <2>2. blobs'[c] = 0 /\ blobs'[c] # None
    BY <2>1, RightParts, ConstantsAssumption
  <2>3. /\ work'[w].pc = "found" /\ work'[w].content = c
        /\ \A v \in Workers : v # w => work'[v] = work[v]
    BY <1>1, <2>1, Motion
  <2>4. /\ In(c, DeleteSteps)' = {} /\ In(c, {"loaded"})' = {} /\ In(c, {"deleted"})' = {}
        /\ In(c, {"last", "unlinked"})' = {} /\ In(c, {"unlinked"})' = {}
    BY <1>1, <2>3, StillAlone DEF Fair, AttachSteps, DeleteSteps
  <2>5. In(c, {"found", "referred"}) = {}
    BY <1>1, <1>3 DEF Fair, Sound
  <2>6. In(c, {"referred"})' = {}
    BY <2>3, <2>5 DEF In
  <2>7. Claims(c)' = 0
    <3>1. References(c)' = {}
      BY <1>2, <1>3, NoRowNoReference
    <3>2. Cardinality({}) = 0
      BY FS_EmptySet
    <3>3. /\ Cardinality(References(c)') = 0
          /\ Cardinality(In(c, {"referred"})') = 0
          /\ Cardinality(In(c, {"deleted"})') = 0
      BY <2>4, <2>6, <3>1, <3>2
    <3> QED
      BY <3>3, ClaimsNext
  <2>8. c \in files
    <3>1. w \in In(c, {"written"})
      BY <1>1 DEF In
    <3>2. In(c, {"written"}) # {} => c \in files
      BY <1>1 DEF Fair, Sound
    <3> QED
      BY <3>1, <3>2
  <2>9. w \in In(c, {"found", "unreferred", "last", "unlinked"})'
    BY <2>3 DEF In
  <2>10. Sound(c)'
    BY <1>1, <2>2, <2>4, <2>7, <2>8 DEF Sound
  <2>11. Exact(c)'
    BY <2>2, <2>4, <2>7, <2>9 DEF Exact
  <2> QED
    BY <2>10, <2>11 DEF Fair
<1>4. CASE blobs[c] # None
  <2>1. blobs' = blobs /\ work' = [work EXCEPT ![w] = Idle]
    BY <1>4 DEF InsertBlob, End
  <2>2. work'[w] = Idle
    BY <2>1, RightParts
  <2>3. /\ w \notin In(c, AttachSteps \cup DeleteSteps)'
        /\ w \notin In(c, {"unlinked"})
    BY <1>1, <2>2 DEF In, Idle, AttachSteps, DeleteSteps
  <2>4. Sound(c)'
    BY <1>1, <1>2, <2>1, <2>3, Withdraws DEF Fair
  <2>5. \A v \in Workers : v # w => work'[v] = work[v]
    BY Bystander
  <2>6. /\ In(c, {"referred"})' = In(c, {"referred"})
        /\ In(c, {"deleted"})' = In(c, {"deleted"})
        /\ In(c, {"unlinked"})' = In(c, {"unlinked"})
    BY <1>1, <2>2, <2>5 DEF In, Idle
  <2>7. In(c, {"found", "unreferred", "last", "unlinked"})'
          = In(c, {"found", "unreferred", "last", "unlinked"})
    BY <1>1, <2>2, <2>5 DEF In, Idle
  <2>8. Claims(c)' = Claims(c)
    BY <1>2, <2>6, ClaimsNext
  <2>9. Exact(c)'
    BY <1>1, <1>4, <2>1, <2>6, <2>7, <2>8 DEF Exact, Fair
  <2> QED
    BY <2>4, <2>9 DEF Fair
<1> QED
  BY <1>3, <1>4

LEMMA Counted ==
  ASSUME Right, NEW c \in Contents, NEW k \in Int, blobs[c] # None
  PROVE  /\ CountedBy(c, k)[c] = blobs[c] + k /\ CountedBy(c, k)[c] # None
         /\ blobs[c] \in Int
<1>1. blobs \in [Contents -> Int \cup {None}]
  BY RightParts
<1>2. blobs[c] + k \in Int /\ blobs[c] + k # None
  BY <1>1, ConstantsAssumption
<1> QED
  BY <1>1, <1>2 DEF CountedBy

LEMMA NotCounted ==
  ASSUME Right, NEW c \in Contents, NEW k \in Int, blobs[c] = None
  PROVE  CountedBy(c, k) = blobs
  BY DEF CountedBy

LEMMA ReferKeeps ==
  ASSUME Right, Right', NEW w \in Workers, Step(w), NEW c \in Contents, Fair(c),
         Refer(w), c = work[w].content
  PROVE  Fair(c)'
<1> SUFFICES ASSUME c \notin clashed'
             PROVE  Fair(c)'
  BY DEF Fair, Sound, Exact
<1>1. /\ rows' = rows /\ files' = files /\ torn' = torn /\ left' = left
      /\ clashed' = clashed /\ ~ At(w, "idle") /\ work[w].pc = "found" /\ To(w, "referred")
      /\ blobs' = CountedBy(c, 1)
  BY DEF Refer, At, history
<1>2. References(c)' = References(c)
  BY <1>1 DEF References
<1>3. /\ work'[w].pc = "referred" /\ work'[w].content = c
      /\ \A v \in Workers : v # w => work'[v] = work[v]
  BY <1>1, Motion
<1>4. blobs[c] # None
  <2>1. w \in In(c, {"found", "referred"})
    BY <1>1 DEF In
  <2>2. In(c, {"found", "referred"}) # {} => blobs[c] # None
    BY <1>1 DEF Fair, Sound
  <2> QED
    BY <2>1, <2>2
<1>5. blobs'[c] = blobs[c] + 1 /\ blobs'[c] # None /\ blobs[c] \in Int
  BY <1>1, <1>4, Counted
<1>6. /\ In(c, DeleteSteps)' = {} /\ In(c, {"loaded"})' = {} /\ In(c, {"deleted"})' = {}
      /\ In(c, {"last", "unlinked"})' = {} /\ In(c, {"unlinked"})' = {}
      /\ In(c, {"deleted"}) = {} /\ In(c, {"unlinked"}) = {}
  BY <1>1, <1>3, AttachAlone, StillAlone DEF Fair, AttachSteps, DeleteSteps
<1>7. In(c, {"referred"})' = In(c, {"referred"}) \cup {w} /\ w \notin In(c, {"referred"})
  BY <1>1, <1>3 DEF In
<1>8. In(c, {"written"})' = In(c, {"written"})
  BY <1>1, <1>3 DEF In
<1>9. Claims(c)' = Claims(c) + 1
  <2>1. Cardinality(In(c, {"referred"}) \cup {w}) = Cardinality(In(c, {"referred"})) + 1
    BY <1>7, ClaimSizes, FS_AddElement
  <2>2. Cardinality(In(c, {"referred"})') = Cardinality(In(c, {"referred"})) + 1
    BY <1>7, <2>1
  <2>3. /\ Cardinality(References(c)') = Cardinality(References(c))
        /\ Cardinality(In(c, {"deleted"})') = Cardinality(In(c, {"deleted"}))
    BY <1>2, <1>6
  <2> QED
    BY <2>2, <2>3, ClaimsNext
<1>10. Claims(c) \in Nat
  BY ClaimsNext
<1>11. Sound(c)'
  BY <1>1, <1>2, <1>4, <1>5, <1>6, <1>8, <1>9, <1>10 DEF Sound, Fair
<1>12. Exact(c)'
  BY <1>1, <1>4, <1>5, <1>6, <1>9, <1>10 DEF Exact, Fair
<1> QED
  BY <1>11, <1>12 DEF Fair

LEMMA InsertRowKeeps ==
  ASSUME Right, Right', NEW w \in Workers, Step(w), NEW c \in Contents, Fair(c),
         InsertRow(w), c = work[w].content
  PROVE  Fair(c)'
<1> SUFFICES ASSUME c \notin clashed'
             PROVE  Fair(c)'
  BY DEF Fair, Sound, Exact
<1>1. /\ blobs' = blobs /\ files' = files /\ torn' = torn /\ left' = left
      /\ clashed' = clashed /\ ~ At(w, "idle") /\ work[w].pc = "referred"
  BY DEF InsertRow, At, history
<1>2. blobs[c] # None
  <2>1. w \in In(c, {"found", "referred"})
    BY <1>1 DEF In
  <2>2. In(c, {"found", "referred"}) # {} => blobs[c] # None
    BY <1>1 DEF Fair, Sound
  <2> QED
    BY <2>1, <2>2
<1> DEFINE k == Len(rows) + 1
<1>3. /\ rows \in Seq(Row \cup {None}) /\ DOMAIN rows = 1 .. Len(rows) /\ Len(rows) \in Nat
  BY RightParts
<1>4. rows' # rows
  <2>1. rows' = Append(rows, [item |-> Request(w).item, content |-> work[w].content])
    BY <1>2 DEF InsertRow
  <2>2. [item |-> Request(w).item, content |-> work[w].content] \in Row
    BY <1>1, UploadInHand, InHand DEF Row, Requests, Uploads, Deletes, UploadSteps
  <2>3. Len(rows') = Len(rows) + 1
    BY <1>3, <2>1, <2>2
  <2> QED
    BY <1>3, <2>3
<1>5. /\ DOMAIN rows' = 1 .. Len(rows) + 1
      /\ \A a \in DOMAIN rows : rows'[a] = rows[a]
      /\ rows'[k] # None /\ rows'[k].content = c
      /\ work'[w].pc = "inserted"
  BY <1>4, RowCome
<1>6. References(c)' = References(c) \cup {k} /\ k \notin References(c)
  <2>1. k \in DOMAIN rows' /\ k \notin DOMAIN rows
        /\ \A a \in DOMAIN rows' : (a = k \/ a \in DOMAIN rows)
        /\ DOMAIN rows \subseteq DOMAIN rows'
    BY <1>3, <1>5
  <2> QED
    BY <1>5, <2>1 DEF References
<1>7. \A v \in Workers : v # w => work'[v] = work[v]
  BY Bystander
<1>8. /\ In(c, DeleteSteps)' = {} /\ In(c, {"loaded"})' = {} /\ In(c, {"deleted"})' = {}
      /\ In(c, {"last", "unlinked"})' = {} /\ In(c, {"unlinked"})' = {}
      /\ In(c, {"deleted"}) = {} /\ In(c, {"unlinked"}) = {}
  BY <1>1, <1>5, AttachAlone, StillAlone DEF Fair, AttachSteps, DeleteSteps
<1>9. In(c, {"referred"})' = In(c, {"referred"}) \ {w} /\ w \in In(c, {"referred"})
  BY <1>1, <1>5, <1>7 DEF In
<1>10. In(c, {"written"})' = In(c, {"written"})
  BY <1>1, <1>5, <1>7 DEF In
<1>11. Claims(c)' = Claims(c) /\ Claims(c)' # 0
  <2>1. Cardinality(In(c, {"referred"}) \ {w}) = Cardinality(In(c, {"referred"})) - 1
    BY <1>9, ClaimSizes, FS_RemoveElement
  <2>2. Cardinality(In(c, {"referred"})') = Cardinality(In(c, {"referred"})) - 1
    BY <1>9, <2>1
  <2>3. Cardinality(References(c) \cup {k}) = Cardinality(References(c)) + 1
    BY <1>6, ClaimSizes, FS_AddElement
  <2>4. Cardinality(References(c)') = Cardinality(References(c)) + 1
    BY <1>6, <2>3
  <2>5. Cardinality(In(c, {"deleted"})') = Cardinality(In(c, {"deleted"}))
    BY <1>8
  <2> QED
    BY <2>2, <2>4, <2>5, ClaimsNext
<1>12. Claims(c) \in Nat
  BY ClaimsNext
<1>13. Sound(c)'
  BY <1>1, <1>2, <1>8, <1>10, <1>11, <1>12 DEF Sound, Fair
<1>14. Exact(c)'
  BY <1>1, <1>2, <1>8, <1>11, <1>12 DEF Exact, Fair
<1> QED
  BY <1>13, <1>14 DEF Fair

LEMMA LoadRowKeeps ==
  ASSUME Right, Right', NEW w \in Workers, Step(w), NEW c \in Contents, Fair(c),
         LoadRow(w)
  PROVE  Fair(c)'
<1> DEFINE a == Request(w).id
<1>1. /\ rows' = rows /\ blobs' = blobs /\ files' = files /\ torn' = torn /\ left' = left
      /\ ~ At(w, "idle") /\ work[w].pc = "gated"
  BY DEF LoadRow, table, At
<1>2. References(c)' = References(c)
  BY <1>1 DEF References
<1>3. w \notin In(c, AttachSteps \cup DeleteSteps)
  BY <1>1 DEF In, AttachSteps, DeleteSteps
<1>4. CASE w \notin In(c, AttachSteps \cup DeleteSteps)'
  BY <1>1, <1>2, <1>3, <1>4, Elsewhere
<1>5. CASE w \in In(c, AttachSteps \cup DeleteSteps)'
  <2> SUFFICES ASSUME c \notin clashed'
               PROVE  Fair(c)'
    BY DEF Fair, Sound, Exact
  <2>1. work'[w].content = c /\ work'[w].pc \in AttachSteps \cup DeleteSteps
    BY <1>5 DEF In
  <2>2. ~ End(w)
    BY <2>1, RightParts DEF End, Idle, AttachSteps, DeleteSteps
  <2>3. /\ a \in RowsOf(Request(w).item)
        /\ work' = [work EXCEPT ![w].pc = "loaded", ![w].content = rows[a].content]
        /\ clashed' = clashed \cup
             {x \in {rows[a].content} : \E v \in Workers :
                \/ Attaching(v, rows[a].content)
                \/ Detaching(v, rows[a].content) /\ Request(v).id = a}
    BY <2>2 DEF LoadRow
  <2>4. work'[w] = [work[w] EXCEPT !.pc = "loaded", !.content = rows[a].content] /\ work[w] \in Job
    BY <1>1, <2>3, InHand, RightParts
  <2>5. work'[w].pc = "loaded" /\ rows[a].content = c /\ work'[w].n = work[w].n
    BY <2>1, <2>4 DEF Job
  <2>6. /\ c \notin clashed
        /\ \A v \in Workers : /\ ~ Attaching(v, c)
                              /\ Detaching(v, c) => Request(v).id # a
    BY <2>3, <2>5
  <2>7. a \in References(c)
    BY <2>3, <2>5 DEF RowsOf, References
  <2>8. \A v \in Workers : v # w => work'[v] = work[v]
    BY Bystander
  <2>9. /\ In(c, AttachSteps)' = {} /\ In(c, {"found", "referred"})' = {}
        /\ In(c, {"written"})' = {} /\ In(c, {"referred"})' = {}
        /\ In(c, {"referred"}) = {} /\ In(c, {"written"}) = {}
    BY <2>5, <2>6, <2>8 DEF In, AttachSteps, Attaching
  <2>10. /\ In(c, {"last", "unlinked"})' = In(c, {"last", "unlinked"})
         /\ In(c, {"unlinked"})' = In(c, {"unlinked"})
         /\ In(c, {"deleted"})' = In(c, {"deleted"})
    BY <1>1, <2>5, <2>8 DEF In
  <2>11. In(c, {"found", "unreferred", "last", "unlinked"})'
          = In(c, {"found", "unreferred", "last", "unlinked"})
    BY <1>1, <2>5, <2>8 DEF In
  <2>12. /\ In(c, DeleteSteps)' = In(c, DeleteSteps) \cup {w}
         /\ In(c, {"loaded"})' = In(c, {"loaded"}) \cup {w}
    BY <2>1, <2>5, <2>8 DEF In, DeleteSteps
  <2>13. /\ \A v \in In(c, DeleteSteps) : ~ At(v, "idle") /\ v \in Workers /\ Detaching(v, c)
         /\ In(c, {"loaded"}) \subseteq In(c, DeleteSteps)
    BY DEF In, At, DeleteSteps, Detaching
  <2>14. /\ \A v \in In(c, DeleteSteps) : Request(v)' = Request(v) /\ Request(v).id # a
         /\ Request(w)' = Request(w)
    BY <1>1, <2>5, <2>6, <2>13, SameRequest
  <2>15. Claims(c)' = Claims(c)
    <3>1. /\ Cardinality(References(c)') = Cardinality(References(c))
          /\ Cardinality(In(c, {"referred"})') = Cardinality(In(c, {"referred"}))
          /\ Cardinality(In(c, {"deleted"})') = Cardinality(In(c, {"deleted"}))
      BY <1>2, <2>9, <2>10
    <3> QED
      BY <3>1, ClaimsNext
  <2>16. \A u, v \in In(c, DeleteSteps)' : u # v => Request(u)'.id # Request(v)'.id
    <3>1. \A u, v \in In(c, DeleteSteps) : u # v => Request(u).id # Request(v).id
      BY <2>6 DEF Fair, Sound
    <3> QED
      BY <2>12, <2>14, <3>1
  <2>17. \A v \in In(c, {"loaded"})' : Request(v)'.id \in References(c)'
    <3>1. \A v \in In(c, {"loaded"}) : Request(v).id \in References(c)
      BY <2>6 DEF Fair, Sound
    <3> QED
      BY <1>2, <2>7, <2>12, <2>13, <2>14, <3>1
  <2>18. Sound(c)'
    BY <1>1, <1>2, <2>6, <2>9, <2>10, <2>15, <2>16, <2>17 DEF Sound, Fair
  <2>19. Exact(c)'
    BY <1>1, <2>6, <2>9, <2>10, <2>11, <2>15 DEF Exact, Fair
  <2> QED
    BY <2>18, <2>19 DEF Fair
<1> QED
  BY <1>4, <1>5

\* A deletion takes its next step: the requests among it stay what they are.
LEMMA StillApart ==
  ASSUME Right, NEW w \in Workers, Step(w), NEW c, Sound(c), c \notin clashed,
         c = work[w].content, work[w].pc \in DeleteSteps,
         work'[w].pc \notin AttachSteps, work'[w].pc # "loaded",
         work'[w].n = work[w].n
  PROVE  /\ In(c, AttachSteps)' = {} /\ In(c, {"found", "referred"})' = {}
         /\ In(c, {"written"})' = {} /\ In(c, {"referred"})' = {}
         /\ In(c, {"referred"}) = {} /\ In(c, {"written"}) = {}
         /\ \A u, v \in In(c, DeleteSteps)' : u # v => Request(u)'.id # Request(v)'.id
         /\ \A v \in In(c, {"loaded"})' : /\ v \in In(c, {"loaded"}) /\ v # w
                                          /\ Request(v)' = Request(v)
                                          /\ Request(v).id # Request(w).id
<1>1. In(c, AttachSteps) = {} /\ In(c, {"referred"}) = {} /\ In(c, {"written"}) = {}
  BY DetachAlone
<1>2. \A v \in Workers : v # w => work'[v] = work[v]
  BY Bystander
<1>3. In(c, AttachSteps)' = {}
  BY <1>1, <1>2 DEF In
<1>4. In(c, {"found", "referred"})' = {} /\ In(c, {"written"})' = {} /\ In(c, {"referred"})' = {}
  BY <1>3 DEF In, AttachSteps
<1>5. w \in In(c, DeleteSteps) /\ In(c, DeleteSteps)' \subseteq In(c, DeleteSteps)
  BY <1>2 DEF In
<1>6. In(c, {"loaded"})' \subseteq In(c, {"loaded"}) \ {w}
  BY <1>2 DEF In
<1>7. /\ \A v \in In(c, DeleteSteps) : v \in Workers /\ ~ At(v, "idle")
      /\ In(c, {"loaded"}) \subseteq In(c, DeleteSteps)
  BY DEF In, At, DeleteSteps
<1>8. \A v \in In(c, DeleteSteps) : Request(v)' = Request(v)
  BY <1>7, SameRequest
<1>9. \A u, v \in In(c, DeleteSteps) : u # v => Request(u).id # Request(v).id
  BY DEF Sound
<1>10. \A u, v \in In(c, DeleteSteps)' : u # v => Request(u)'.id # Request(v)'.id
  BY <1>5, <1>8, <1>9
<1>11. \A v \in In(c, {"loaded"})' : /\ v \in In(c, {"loaded"}) /\ v # w
                                      /\ Request(v)' = Request(v)
                                      /\ Request(v).id # Request(w).id
  BY <1>5, <1>6, <1>7, <1>8, <1>9
<1> QED
  BY <1>1, <1>3, <1>4, <1>10, <1>11

LEMMA DeleteRowKeeps ==
  ASSUME Right, Right', NEW w \in Workers, Step(w), NEW c \in Contents, Fair(c),
         DeleteRow(w), c = work[w].content
  PROVE  Fair(c)'
<1> SUFFICES ASSUME c \notin clashed'
             PROVE  Fair(c)'
  BY DEF Fair, Sound, Exact
<1> DEFINE a == Request(w).id
<1>1. /\ blobs' = blobs /\ files' = files /\ torn' = torn /\ left' = left
      /\ clashed' = clashed /\ ~ At(w, "idle") /\ work[w].pc = "loaded" /\ To(w, "deleted")
  BY DEF DeleteRow, At, history
<1>2. /\ work'[w].pc = "deleted" /\ work'[w].content = c /\ work'[w].n = work[w].n
      /\ \A v \in Workers : v # w => work'[v] = work[v]
  BY <1>1, Goes, Motion
<1>3. /\ In(c, AttachSteps)' = {} /\ In(c, {"found", "referred"})' = {}
      /\ In(c, {"written"})' = {} /\ In(c, {"referred"})' = {}
      /\ In(c, {"referred"}) = {} /\ In(c, {"written"}) = {}
      /\ \A u, v \in In(c, DeleteSteps)' : u # v => Request(u)'.id # Request(v)'.id
      /\ \A v \in In(c, {"loaded"})' : /\ v \in In(c, {"loaded"}) /\ v # w
                                       /\ Request(v)' = Request(v)
                                       /\ Request(v).id # a
  BY <1>1, <1>2, StillApart DEF Fair, AttachSteps, DeleteSteps
<1>4. \A v \in In(c, {"loaded"}) : Request(v).id \in References(c)
  BY <1>1 DEF Fair, Sound
<1>5. a \in References(c)
  <2>1. w \in In(c, {"loaded"})
    BY <1>1 DEF In
  <2> QED
    BY <1>4, <2>1
<1>6. References(c)' = References(c) \ {a}
  BY RowGone DEF References
<1>7. \A v \in In(c, {"loaded"})' : Request(v)'.id \in References(c)'
  BY <1>3, <1>4, <1>6
<1>8. /\ In(c, {"last", "unlinked"})' = In(c, {"last", "unlinked"})
      /\ In(c, {"unlinked"})' = In(c, {"unlinked"})
      /\ In(c, {"deleted"})' = In(c, {"deleted"}) \cup {w}
      /\ w \notin In(c, {"deleted"})
  BY <1>1, <1>2 DEF In
<1>9. In(c, {"last", "unlinked"})' # {} => References(c)' = {}
  BY <1>1, <1>6, <1>8 DEF Fair, Sound
<1>10. Claims(c)' = Claims(c) /\ Claims(c) # 0
  <2>1. /\ Cardinality(In(c, {"deleted"}) \cup {w}) = Cardinality(In(c, {"deleted"})) + 1
        /\ Cardinality(References(c) \ {a}) = Cardinality(References(c)) - 1
    BY <1>5, <1>8, ClaimSizes, FS_AddElement, FS_RemoveElement
  <2>2. /\ Cardinality(References(c)') = Cardinality(References(c)) - 1
        /\ Cardinality(In(c, {"referred"})') = Cardinality(In(c, {"referred"}))
        /\ Cardinality(In(c, {"deleted"})') = Cardinality(In(c, {"deleted"})) + 1
    BY <1>3, <1>6, <1>8, <2>1
  <2> QED
    BY <2>2, ClaimsNext
<1>11. Sound(c)'
  BY <1>1, <1>3, <1>7, <1>8, <1>9, <1>10 DEF Sound, Fair
<1>12. Exact(c)'
  BY <1>1, <1>3, <1>8, <1>10 DEF Exact, Fair
<1> QED
  BY <1>11, <1>12 DEF Fair

LEMMA UnreferKeeps ==
  ASSUME Right, Right', NEW w \in Workers, Step(w), NEW c \in Contents, Fair(c),
         Unrefer(w), c = work[w].content
  PROVE  Fair(c)'
<1> SUFFICES ASSUME c \notin clashed'
             PROVE  Fair(c)'
  BY DEF Fair, Sound, Exact
<1>1. /\ rows' = rows /\ files' = files /\ torn' = torn /\ left' = left
      /\ clashed' = clashed /\ ~ At(w, "idle") /\ work[w].pc = "deleted" /\ To(w, "unreferred")
      /\ blobs' = CountedBy(c, -1)
  BY DEF Unrefer, At, history
<1>2. References(c)' = References(c)
  BY <1>1 DEF References
<1>3. /\ work'[w].pc = "unreferred" /\ work'[w].content = c /\ work'[w].n = work[w].n
      /\ \A v \in Workers : v # w => work'[v] = work[v]
  BY <1>1, Goes, Motion
<1>4. /\ In(c, AttachSteps)' = {} /\ In(c, {"found", "referred"})' = {}
      /\ In(c, {"written"})' = {} /\ In(c, {"referred"})' = {}
      /\ In(c, {"referred"}) = {} /\ In(c, {"written"}) = {}
      /\ \A u, v \in In(c, DeleteSteps)' : u # v => Request(u)'.id # Request(v)'.id
      /\ \A v \in In(c, {"loaded"})' : v \in In(c, {"loaded"}) /\ Request(v)' = Request(v)
  BY <1>1, <1>3, StillApart DEF Fair, AttachSteps, DeleteSteps
<1>5. \A v \in In(c, {"loaded"})' : Request(v)'.id \in References(c)'
  <2>1. \A v \in In(c, {"loaded"}) : Request(v).id \in References(c)
    BY <1>1 DEF Fair, Sound
  <2> QED
    BY <1>2, <1>4, <2>1
<1>6. /\ In(c, {"last", "unlinked"})' = In(c, {"last", "unlinked"})
      /\ In(c, {"unlinked"})' = In(c, {"unlinked"})
      /\ In(c, {"deleted"})' = In(c, {"deleted"}) \ {w}
      /\ w \in In(c, {"deleted"})
      /\ w \in In(c, {"found", "unreferred", "last", "unlinked"})'
  BY <1>1, <1>3 DEF In
<1>7. Claims(c)' = Claims(c) - 1 /\ Claims(c) \in Nat
  <2>1. Cardinality(In(c, {"deleted"}) \ {w}) = Cardinality(In(c, {"deleted"})) - 1
    BY <1>6, ClaimSizes, FS_RemoveElement
  <2>2. /\ Cardinality(References(c)') = Cardinality(References(c))
        /\ Cardinality(In(c, {"referred"})') = Cardinality(In(c, {"referred"}))
        /\ Cardinality(In(c, {"deleted"})') = Cardinality(In(c, {"deleted"})) - 1
    BY <1>2, <1>4, <1>6, <2>1
  <2> QED
    BY <2>2, ClaimsNext
<1>8. /\ blobs'[c] = None <=> blobs[c] = None
      /\ blobs[c] # None => blobs'[c] = blobs[c] - 1 /\ blobs[c] \in Int
  <2>1. CASE blobs[c] # None
    BY <1>1, <2>1, Counted
  <2>2. CASE blobs[c] = None
    BY <1>1, <2>2, NotCounted
  <2> QED
    BY <2>1, <2>2
<1>9. Sound(c)'
  BY <1>1, <1>2, <1>4, <1>5, <1>6, <1>7, <1>8 DEF Sound, Fair
<1>10. Exact(c)'
  BY <1>1, <1>4, <1>6, <1>7, <1>8 DEF Exact, Fair
<1> QED
  BY <1>9, <1>10 DEF Fair

\* A content that nobody claims has no attachments.
LEMMA Unclaimed ==
  ASSUME Right, Right', NEW c \in Contents, blobs[c] # None, blobs[c] >= Claims(c), Unused(c)
  PROVE  References(c) = {}
<1>1. blobs[c] \in Int /\ blobs[c] <= 0
  BY RightParts DEF Unused
<1>2. Cardinality(References(c)) = 0
  BY <1>1, ClaimsNext
<1> QED
  BY <1>2, ClaimSizes, FS_EmptySet

LEMMA ReadBlobKeeps ==
  ASSUME Right, Right', NEW w \in Workers, Step(w), NEW c \in Contents, Fair(c),
         ReadBlob(w), c = work[w].content
  PROVE  Fair(c)'
<1> SUFFICES ASSUME c \notin clashed'
             PROVE  Fair(c)'
  BY DEF Fair, Sound, Exact
<1>1. /\ rows' = rows /\ blobs' = blobs /\ files' = files /\ torn' = torn /\ left' = left
      /\ clashed' = clashed /\ ~ At(w, "idle") /\ work[w].pc = "unreferred"
  BY DEF ReadBlob, At, table, history
<1>2. References(c)' = References(c)
  BY <1>1 DEF References
<1>3. CASE blobs[c] # None /\ Unused(c)
  <2>1. To(w, "last")
    BY <1>3 DEF ReadBlob
  <2>2. /\ work'[w].pc = "last" /\ work'[w].content = c /\ work'[w].n = work[w].n
        /\ \A v \in Workers : v # w => work'[v] = work[v]
    BY <1>1, <2>1, Goes, Motion
  <2>3. /\ In(c, AttachSteps)' = {} /\ In(c, {"found", "referred"})' = {}
        /\ In(c, {"written"})' = {} /\ In(c, {"referred"})' = {}
        /\ In(c, {"referred"}) = {} /\ In(c, {"written"}) = {}
        /\ \A u, v \in In(c, DeleteSteps)' : u # v => Request(u)'.id # Request(v)'.id
        /\ \A v \in In(c, {"loaded"})' : v \in In(c, {"loaded"}) /\ Request(v)' = Request(v)
    BY <1>1, <2>2, StillApart DEF Fair, AttachSteps, DeleteSteps
  <2>4. \A v \in In(c, {"loaded"})' : Request(v)'.id \in References(c)'
    <3>1. \A v \in In(c, {"loaded"}) : Request(v).id \in References(c)
      BY <1>1 DEF Fair, Sound
    <3> QED
      BY <1>2, <2>3, <3>1
  <2>5. References(c)' = {}
    <3>1. blobs[c] >= Claims(c)
      BY <1>1, <1>3 DEF Fair, Sound
    <3> QED
      BY <1>2, <1>3, <3>1, Unclaimed
  <2>6. /\ In(c, {"unlinked"})' = In(c, {"unlinked"})
        /\ In(c, {"deleted"})' = In(c, {"deleted"})
        /\ w \in In(c, {"found", "unreferred", "last", "unlinked"})'
    BY <1>1, <2>2 DEF In
  <2>7. Claims(c)' = Claims(c)
    <3>1. /\ Cardinality(References(c)') = Cardinality(References(c))
          /\ Cardinality(In(c, {"referred"})') = Cardinality(In(c, {"referred"}))
          /\ Cardinality(In(c, {"deleted"})') = Cardinality(In(c, {"deleted"}))
      BY <1>2, <2>3, <2>6
    <3> QED
      BY <3>1, ClaimsNext
  <2>8. Sound(c)'
    BY <1>1, <2>3, <2>4, <2>5, <2>6, <2>7 DEF Sound, Fair
  <2>9. Exact(c)'
    BY <1>1, <2>3, <2>6, <2>7 DEF Exact, Fair
  <2> QED
    BY <2>8, <2>9 DEF Fair
<1>4. CASE ~ (blobs[c] # None /\ Unused(c))
  <2>1. To(w, "done") \/ End(w)
    BY <1>4 DEF ReadBlob
  <2>2. work'[w].pc \in {"done", "idle"}
    <3>1. CASE To(w, "done")
      BY <1>1, <3>1, Goes
    <3>2. CASE End(w)
      BY <3>2, RightParts DEF End, Idle
    <3> QED
      BY <2>1, <3>1, <3>2
  <2>3. \A v \in Workers : v # w => work'[v] = work[v]
    BY Bystander
  <2>4. /\ w \notin In(c, AttachSteps \cup DeleteSteps)'
        /\ w \notin In(c, {"unlinked"})
    BY <1>1, <2>2 DEF In, AttachSteps, DeleteSteps
  <2>5. Sound(c)'
    BY <1>1, <1>2, <2>4, Withdraws DEF Fair
  <2>6. /\ In(c, {"unlinked"})' = In(c, {"unlinked"})
        /\ In(c, {"deleted"})' = In(c, {"deleted"})
        /\ In(c, {"referred"})' = In(c, {"referred"})
        /\ In(c, {"written"})' = In(c, {"written"})
    BY <1>1, <2>2, <2>3 DEF In
  <2>7. Claims(c)' = Claims(c)
    <3>1. /\ Cardinality(References(c)') = Cardinality(References(c))
          /\ Cardinality(In(c, {"referred"})') = Cardinality(In(c, {"referred"}))
          /\ Cardinality(In(c, {"deleted"})') = Cardinality(In(c, {"deleted"}))
      BY <1>2, <2>6
    <3> QED
      BY <3>1, ClaimsNext
  <2>8. blobs[c] # None => blobs[c] \in Int /\ ~ (blobs[c] <= 0)
    BY <1>4, RightParts DEF Unused
  <2>9. Exact(c)'
    BY <1>1, <2>6, <2>7, <2>8 DEF Exact, Fair
  <2> QED
    BY <2>5, <2>9 DEF Fair
<1> QED
  BY <1>3, <1>4

LEMMA RemoveFileKeeps ==
  ASSUME Right, Right', NEW w \in Workers, Step(w), NEW c \in Contents, Fair(c),
         RemoveFile(w) \/ RemoveFails(w), c = work[w].content
  PROVE  Fair(c)'
<1> SUFFICES ASSUME c \notin clashed'
             PROVE  Fair(c)'
  BY DEF Fair, Sound, Exact
<1>1. /\ rows' = rows /\ blobs' = blobs /\ torn' = torn
      /\ clashed' = clashed /\ ~ At(w, "idle") /\ work[w].pc = "last" /\ To(w, "unlinked")
      /\ c \notin files' \/ c \in left'
  BY DEF RemoveFile, RemoveFails, At, table, history
<1>2. References(c)' = References(c)
  BY <1>1 DEF References
<1>3. /\ work'[w].pc = "unlinked" /\ work'[w].content = c /\ work'[w].n = work[w].n
      /\ \A v \in Workers : v # w => work'[v] = work[v]
  BY <1>1, Goes, Motion
<1>4. /\ In(c, AttachSteps)' = {} /\ In(c, {"found", "referred"})' = {}
      /\ In(c, {"written"})' = {} /\ In(c, {"referred"})' = {}
      /\ In(c, {"referred"}) = {}
      /\ \A u, v \in In(c, DeleteSteps)' : u # v => Request(u)'.id # Request(v)'.id
      /\ \A v \in In(c, {"loaded"})' : v \in In(c, {"loaded"}) /\ Request(v)' = Request(v)
  BY <1>1, <1>3, StillApart DEF Fair, AttachSteps, DeleteSteps
<1>5. \A v \in In(c, {"loaded"})' : Request(v)'.id \in References(c)'
  <2>1. \A v \in In(c, {"loaded"}) : Request(v).id \in References(c)
    BY <1>1 DEF Fair, Sound
  <2> QED
    BY <1>2, <1>4, <2>1
<1>6. References(c) = {}
  <2>1. w \in In(c, {"last", "unlinked"})
    BY <1>1 DEF In
  <2>2. In(c, {"last", "unlinked"}) # {} => References(c) = {}
    BY <1>1 DEF Fair, Sound
  <2> QED
    BY <2>1, <2>2
<1>7. /\ In(c, {"deleted"})' = In(c, {"deleted"})
      /\ w \in In(c, {"unlinked"})'
      /\ w \in In(c, {"found", "unreferred", "last", "unlinked"})'
  BY <1>1, <1>3 DEF In
<1>8. Claims(c)' = Claims(c)
  <2>1. /\ Cardinality(References(c)') = Cardinality(References(c))
        /\ Cardinality(In(c, {"referred"})') = Cardinality(In(c, {"referred"}))
        /\ Cardinality(In(c, {"deleted"})') = Cardinality(In(c, {"deleted"}))
    BY <1>2, <1>4, <1>7
  <2> QED
    BY <2>1, ClaimsNext
<1>9. Sound(c)'
  BY <1>1, <1>2, <1>4, <1>5, <1>6, <1>7, <1>8 DEF Sound, Fair
<1>10. Exact(c)'
  <2>1. left \subseteq left'
    BY HistoryGrows
  <2> QED
    BY <1>1, <1>7, <1>8, <2>1 DEF Exact, Fair
<1> QED
  BY <1>9, <1>10 DEF Fair

LEMMA DeleteBlobKeeps ==
  ASSUME Right, Right', NEW w \in Workers, Step(w), NEW c \in Contents, Fair(c),
         DeleteBlob(w), c = work[w].content
  PROVE  Fair(c)'
<1> SUFFICES ASSUME c \notin clashed'
             PROVE  Fair(c)'
  BY DEF Fair, Sound, Exact
<1>1. /\ rows' = rows /\ files' = files /\ torn' = torn /\ left' = left
      /\ clashed' = clashed /\ ~ At(w, "idle") /\ work[w].pc = "unlinked"
  BY DEF DeleteBlob, At, history
<1>2. References(c)' = References(c)
  BY <1>1 DEF References
<1>3. References(c) = {}
  <2>1. w \in In(c, {"last", "unlinked"})
    BY <1>1 DEF In
  <2>2. In(c, {"last", "unlinked"}) # {} => References(c) = {}
    BY <1>1 DEF Fair, Sound
  <2> QED
    BY <2>1, <2>2
<1>4. To(w, "done") /\ blobs' = [blobs EXCEPT ![c] = None]
  <2>1. ~ \E a \in DOMAIN rows : rows[a] # None /\ rows[a].content = c
    BY <1>3 DEF References
  <2> QED
    BY <2>1 DEF DeleteBlob
<1>5. blobs'[c] = None
  BY <1>4, RightParts
<1>6. /\ work'[w].pc = "done" /\ work'[w].content = c /\ work'[w].n = work[w].n
      /\ \A v \in Workers : v # w => work'[v] = work[v]
  BY <1>1, <1>4, Goes, Motion
<1>7. /\ In(c, AttachSteps)' = {} /\ In(c, {"found", "referred"})' = {}
      /\ In(c, {"written"})' = {}
      /\ \A u, v \in In(c, DeleteSteps)' : u # v => Request(u)'.id # Request(v)'.id
      /\ \A v \in In(c, {"loaded"})' : v \in In(c, {"loaded"}) /\ Request(v)' = Request(v)
  BY <1>1, <1>6, StillApart DEF Fair, AttachSteps, DeleteSteps
<1>8. \A v \in In(c, {"loaded"})' : Request(v)'.id \in References(c)'
  <2>1. \A v \in In(c, {"loaded"}) : Request(v).id \in References(c)
    BY <1>1 DEF Fair, Sound
  <2> QED
    BY <1>2, <1>7, <2>1
<1>9. c \notin left => c \notin files
  <2>1. w \in In(c, {"unlinked"})
    BY <1>1 DEF In
  <2>2. c \notin left => (c \in files => In(c, {"unlinked"}) = {})
    BY <1>1 DEF Fair, Exact
  <2> QED
    BY <2>1, <2>2
<1>10. Sound(c)'
  BY <1>2, <1>3, <1>5, <1>7, <1>8 DEF Sound
<1>11. Exact(c)'
  BY <1>1, <1>5, <1>9 DEF Exact
<1> QED
  BY <1>10, <1>11 DEF Fair

-----------------------------------------------------------------------------
(* Files stay while they are referred to, and go afterwards *)

LEMMA MatchingStep ==
  ASSUME Right, Matching, NEW w \in Workers, Step(w)
  PROVE  Matching'
<1> SUFFICES ASSUME NEW v \in Workers, work'[v].pc = "loaded", NEW a, a = asked'[work'[v].n].id
             PROVE  /\ a \in DOMAIN rows'
                    /\ rows'[a] # None => rows'[a].content = work'[v].content
  BY DEF Matching, At, Request
<1>1. /\ a \in DOMAIN rows
      /\ rows[a] # None => rows[a].content = work'[v].content
  <2>1. CASE v # w
    <3>1. work'[v] = work[v] /\ At(v, "loaded")
      BY <2>1, Bystander DEF At
    <3>2. work[v].n \in DOMAIN asked
      BY <3>1, InHand DEF At
    <3>3. a = Request(v).id
      BY <3>1, <3>2, AskedStays DEF Request
    <3> QED
      BY <3>1, <3>3 DEF Matching
  <2>2. CASE v = w
    <3>1. Onward(w) /\ LoadRow(w)
      BY <2>2, Actor DEF Onward
    <3>2. a = Request(w).id /\ ~ At(w, "idle")
      BY <2>2, <3>1 DEF Onward, Request
    <3>3. ~ End(w)
      BY <2>2, RightParts DEF End, Idle
    <3>4. /\ a \in RowsOf(Request(w).item)
          /\ work' = [work EXCEPT ![w].pc = "loaded", ![w].content = rows[a].content]
      BY <3>1, <3>2, <3>3 DEF LoadRow
    <3>5. work[w] \in Job
      BY <3>2, InHand
    <3>6. work'[w] = [work[w] EXCEPT !.pc = "loaded", !.content = rows[a].content]
      BY <3>4, RightParts
    <3>7. work'[w].content = rows[a].content
      BY <3>5, <3>6 DEF Job
    <3> QED
      BY <2>2, <3>4, <3>7 DEF RowsOf
  <2> QED
    BY <2>1, <2>2
<1>2. CASE rows' = rows
  BY <1>1, <1>2
<1>3. CASE InsertRow(w) /\ rows' # rows
  BY <1>1, <1>3, RowCome
<1>4. CASE DeleteRow(w)
  BY <1>1, <1>4, RowGone
<1> QED
  BY <1>2, <1>3, <1>4, RowsStep

\* A statement about one content leaves the others alone.
LEMMA OtherKeeps ==
  ASSUME Right, Right', Matching, NEW w \in Workers, Step(w), NEW c \in Contents, Fair(c),
         \/ FindBlob(w) \/ WriteFile(w) \/ InsertBlob(w) \/ Refer(w) \/ InsertRow(w)
         \/ DeleteRow(w) \/ Unrefer(w) \/ ReadBlob(w) \/ RemoveFile(w) \/ RemoveFails(w)
         \/ DeleteBlob(w),
         c # work[w].content
  PROVE  Fair(c)'
<1>1. work[w].pc \in UploadSteps \cup DeleteSteps /\ ~ At(w, "idle")
  BY DEF FindBlob, WriteFile, InsertBlob, Refer, InsertRow, DeleteRow, Unrefer, ReadBlob,
         RemoveFile, RemoveFails, DeleteBlob, At, UploadSteps, DeleteSteps
<1>2. work[w].content \in Contents
  BY <1>1, InHand
<1>3. blobs'[c] = blobs[c]
  <2>1. blobs \in [Contents -> Int \cup {None}]
    BY RightParts
  <2>2. ASSUME NEW k
        PROVE  CountedBy(work[w].content, k)[c] = blobs[c]
    BY <2>1 DEF CountedBy
  <2>3. CASE FindBlob(w) \/ WriteFile(w) \/ InsertRow(w) \/ DeleteRow(w)
             \/ ReadBlob(w) \/ RemoveFile(w) \/ RemoveFails(w)
    BY <2>3 DEF FindBlob, WriteFile, InsertRow, DeleteRow, ReadBlob, RemoveFile, RemoveFails, table
  <2>4. CASE Refer(w) \/ Unrefer(w)
    BY <2>2, <2>4 DEF Refer, Unrefer
  <2>5. CASE InsertBlob(w) \/ DeleteBlob(w)
    BY <2>1, <2>5 DEF InsertBlob, DeleteBlob
  <2> QED
    BY <2>3, <2>4, <2>5
<1>4. c \in files' <=> c \in files
  BY DEF FindBlob, WriteFile, InsertBlob, Refer, InsertRow, DeleteRow, Unrefer, ReadBlob,
         RemoveFile, RemoveFails, DeleteBlob, table
<1>5. References(c)' = References(c)
  <2>1. CASE rows' = rows
    BY <2>1 DEF References
  <2>2. CASE InsertRow(w) /\ rows' # rows
    BY <2>2, RowCome DEF References
  <2>3. CASE DeleteRow(w)
    <3>1. LET a == Request(w).id
          IN  rows[a] # None => rows[a].content = work[w].content
      BY <2>3 DEF Matching, DeleteRow
    <3> QED
      BY <2>3, <3>1, RowGone DEF References
  <2> QED
    BY <2>1, <2>2, <2>3, RowsStep
<1>6. work'[w].pc = "idle" \/ work'[w].content = work[w].content
  <2>1. ASSUME End(w)
        PROVE  work'[w].pc = "idle"
    BY <2>1, RightParts DEF End, Idle
  <2>2. ASSUME NEW pc, To(w, pc)
        PROVE  work'[w].content = work[w].content
    BY <1>1, <2>2, Goes
  <2>3. CASE FindBlob(w)
    BY <2>2, <2>3 DEF FindBlob
  <2>4. CASE WriteFile(w) \/ Refer(w) \/ DeleteRow(w) \/ Unrefer(w) \/ RemoveFile(w)
             \/ RemoveFails(w)
    BY <2>2, <2>4 DEF WriteFile, Refer, DeleteRow, Unrefer, RemoveFile, RemoveFails
  <2>5. CASE InsertBlob(w)
    BY <2>1, <2>2, <2>5 DEF InsertBlob
  <2>6. CASE ReadBlob(w)
    <3>1. End(w) \/ \E pc \in {"last", "done"} : To(w, pc)
      BY <2>6 DEF ReadBlob
    <3> QED
      BY <2>1, <2>2, <3>1
  <2>7. CASE DeleteBlob(w)
    BY <2>1, <2>2, <2>7 DEF DeleteBlob
  <2>8. CASE InsertRow(w)
    <3>1. CASE End(w)
      BY <2>1, <3>1
    <3>2. CASE work' = [work EXCEPT ![w].pc = "inserted", ![w].id = Len(rows) + 1]
      <4>1. work[w] \in Job
        BY <1>1, InHand
      <4>2. work'[w] = [work[w] EXCEPT !.pc = "inserted", !.id = Len(rows) + 1]
        BY <3>2, RightParts
      <4> QED
        BY <4>1, <4>2 DEF Job
    <3> QED
      BY <2>8, <3>1, <3>2 DEF InsertRow
  <2> QED
    BY <2>3, <2>4, <2>5, <2>6, <2>7, <2>8
<1>7. /\ w \notin In(c, AttachSteps \cup DeleteSteps)
      /\ w \notin In(c, AttachSteps \cup DeleteSteps)'
  BY <1>6 DEF In, AttachSteps, DeleteSteps
<1> QED
  BY <1>3, <1>4, <1>5, <1>7, Elsewhere

LEMMA FairStep ==
  ASSUME Right, Right', Matching, NEW w \in Workers, Step(w), NEW c \in Contents, Fair(c)
  PROVE  Fair(c)'
<1>1. CASE \/ \E r \in Sensible : Ask(w, r)
           \/ \E n \in DOMAIN asked : AskAgain(w, n)
           \/ Gate(w) \/ Count(w) \/ Sum(w) \/ Audit(w) \/ Record(w) \/ TurnAway(w)
  BY <1>1, QuietKeeps
<1>2. CASE Stop(w)
  BY <1>2, StopKeeps
<1>3. CASE LoadRow(w)
  BY <1>3, LoadRowKeeps
<1>4. CASE FindBlob(w) \/ WriteFile(w) \/ InsertBlob(w) \/ Refer(w) \/ InsertRow(w)
  <2>1. CASE c = work[w].content
    BY <1>4, <2>1, FindBlobKeeps, WriteFileKeeps, InsertBlobKeeps, ReferKeeps, InsertRowKeeps
  <2> QED
    BY <1>4, <2>1, OtherKeeps
<1>5. CASE DeleteRow(w) \/ Unrefer(w) \/ ReadBlob(w) \/ RemoveFile(w) \/ RemoveFails(w)
           \/ DeleteBlob(w)
  <2>1. CASE c = work[w].content
    BY <1>5, <2>1, DeleteRowKeeps, UnreferKeeps, ReadBlobKeeps, RemoveFileKeeps, DeleteBlobKeeps
  <2> QED
    BY <1>5, <2>1, OtherKeeps
<1> QED
  BY <1>1, <1>2, <1>3, <1>4, <1>5 DEF Step, Upload, Delete

AllFair == \A c \in Contents : Fair(c)

LEMMA InitFair == Init => Matching /\ AllFair
<1> SUFFICES ASSUME Init PROVE Matching /\ AllFair
  OBVIOUS
<1>1. Matching
  BY DEF Init, Matching, At, Idle
<1>2. ASSUME NEW c \in Contents
      PROVE  Fair(c)
  <2>1. /\ In(c, AttachSteps) = {} /\ In(c, DeleteSteps) = {} /\ In(c, {"loaded"}) = {}
        /\ In(c, {"found", "referred"}) = {} /\ In(c, {"written"}) = {}
        /\ In(c, {"last", "unlinked"}) = {} /\ In(c, {"unlinked"}) = {}
    BY DEF Init, In, Idle, AttachSteps, DeleteSteps
  <2>2. blobs[c] = None /\ c \notin files
    BY DEF Init
  <2> QED
    BY <2>1, <2>2 DEF Fair, Sound, Exact
<1> QED
  BY <1>1, <1>2 DEF AllFair

LEMMA AllFairStep ==
  Right /\ Matching /\ AllFair /\ [Next]_vars => (Right /\ Matching /\ AllFair)'
<1>1. ASSUME Matching, AllFair, UNCHANGED vars
      PROVE  Matching' /\ AllFair'
  <2> USE <1>1 DEF vars
  <2>1. Matching'
    BY DEF Matching, Request, At
  <2>2. ASSUME NEW c, NEW S
        PROVE  In(c, S)' = In(c, S) /\ References(c)' = References(c)
    BY DEF In, References
  <2>3. ASSUME NEW c
        PROVE  Claims(c)' = Claims(c)
    BY <2>2 DEF Claims
  <2>4. ASSUME NEW c \in Contents
        PROVE  Sound(c)' /\ Exact(c)'
    <3>1. Sound(c) /\ Exact(c)
      BY DEF AllFair, Fair
    <3>2. Sound(c)'
      BY <2>2, <2>3, <3>1 DEF Sound, Request
    <3>3. Exact(c)'
      BY <2>2, <2>3, <3>1 DEF Exact
    <3> QED
      BY <3>2, <3>3
  <2> QED
    BY <2>1, <2>4 DEF AllFair, Fair
<1>2. ASSUME Right, Matching, AllFair, NEW w \in Workers, Step(w), Right'
      PROVE  Matching' /\ AllFair'
  BY <1>2, MatchingStep, FairStep DEF AllFair
<1> QED
  BY <1>1, <1>2, RightStep, NextIsStep
\* What the store comes to as long as its counts are sound.
LEMMA FairStore ==
  ASSUME Right, AllFair
  PROVE  StorageKept
<1> SUFFICES ASSUME NEW c \in Contents \ (clashed \cup torn), References(c) # {}
             PROVE  c \in files
  BY DEF StorageKept
<1>1. Sound(c)
  BY DEF AllFair, Fair
<1>2. blobs[c] # None
  BY NoRowNoReference
<1>3. In(c, {"last", "unlinked"}) = {}
  BY <1>1 DEF Sound
<1>4. In(c, {"unlinked"}) = {}
  BY <1>3 DEF In
<1> QED
  BY <1>1, <1>2, <1>4 DEF Sound

\* A file stays as long as an attachment refers to it (attachments.rs upload,
\* delete): whatever requests run at once, are repeated or fail, unless a
\* deletion overlapped an upload of the content or its own repetition, or
\* stopped between the file and the blob row.
THEOREM FilesKept == Spec => []StorageKept
<1>1. Init => Right /\ Matching /\ AllFair
  BY InitRight, InitFair
<1>2. Right /\ Matching /\ AllFair /\ [Next]_vars => (Right /\ Matching /\ AllFair)'
  BY AllFairStep
<1>3. Right /\ Matching /\ AllFair => StorageKept
  BY FairStore
<1> QED
  BY <1>1, <1>2, <1>3, PTL DEF Spec

-----------------------------------------------------------------------------
(* What is left behind *)

\* A blob row that lost its file is among the contents a stop left.
LEMMA TornStep ==
  Right /\ torn \subseteq left /\ [Next]_vars => (torn \subseteq left)'
<1>1. ASSUME UNCHANGED vars, torn \subseteq left
      PROVE  (torn \subseteq left)'
  BY <1>1 DEF vars
<1>2. ASSUME Right, torn \subseteq left, NEW w \in Workers, Step(w)
      PROVE  (torn \subseteq left)'
  <2>1. CASE Stop(w)
    <3>1. ASSUME At(w, "unlinked")
          PROVE  work[w].content # None
      BY <1>2, <3>1, DeleteInHand DEF At, DeleteSteps
    <3> QED
      BY <1>2, <2>1, <3>1 DEF Stop
  <2>2. CASE \/ \E r \in Sensible : Ask(w, r)
             \/ \E n \in DOMAIN asked : AskAgain(w, n)
             \/ TurnAway(w) \/ Gate(w) \/ Record(w)
    BY <1>2, <2>2 DEF Ask, AskAgain, TurnAway, Gate, Record, vars, history
  <2>3. CASE Upload(w)
    BY <1>2, <2>3 DEF Upload, Count, Sum, FindBlob, WriteFile, InsertBlob, Refer, InsertRow,
                      Audit, history
  <2>4. CASE Delete(w)
    BY <1>2, <2>4 DEF Delete, LoadRow, DeleteRow, Unrefer, ReadBlob, RemoveFile, RemoveFails,
                      DeleteBlob, history
  <2> QED
    BY <1>2, <2>1, <2>2, <2>3, <2>4 DEF Step
<1> QED
  BY <1>1, <1>2, NextIsStep

LEMMA FairReclaimed ==
  ASSUME Right, AllFair, torn \subseteq left
  PROVE  Reclaimed
<1> SUFFICES ASSUME NEW c \in Contents \ (clashed \cup left), ~ Busy(c)
             PROVE  /\ c \in files <=> References(c) # {}
                    /\ blobs[c] = IF References(c) = {} THEN None
                                  ELSE Cardinality(References(c))
  BY DEF Reclaimed
<1>1. Sound(c) /\ Exact(c) /\ c \notin torn
  BY DEF AllFair, Fair
<1>2. In(c, {"referred"}) = {} /\ In(c, {"deleted"}) = {} /\ In(c, {"written"}) = {}
      /\ In(c, {"unlinked"}) = {} /\ In(c, {"found", "unreferred", "last", "unlinked"}) = {}
  BY DEF Busy, In, At
<1>3. IsFiniteSet(References(c)) /\ Cardinality(References(c)) \in Nat
  BY ClaimSizes
<1>4. Claims(c) = Cardinality(References(c))
  <2>1. Cardinality({}) = 0
    BY FS_EmptySet
  <2>2. Claims(c) = Cardinality(References(c)) + 0 + 0
    BY <1>2, <2>1, Zenon DEF Claims
  <2> QED
    BY <1>3, <2>2
<1>5. CASE References(c) = {}
  <2>1. Claims(c) = 0
    BY <1>4, <1>5, FS_EmptySet
  <2>2. blobs[c] = None
    BY <1>1, <1>2, <2>1 DEF Exact
  <2> QED
    BY <1>1, <1>2, <1>5, <2>2 DEF Exact
<1>6. CASE References(c) # {}
  <2>1. blobs[c] # None
    BY <1>6, NoRowNoReference
  <2>2. blobs[c] = Cardinality(References(c))
    BY <1>1, <1>4, <2>1 DEF Exact
  <2>3. c \in files
    BY <1>1, <1>2, <2>1 DEF Sound
  <2> QED
    BY <1>6, <2>2, <2>3
<1> QED
  BY <1>5, <1>6

\* Nothing stays behind (attachments.rs delete) and no count drifts: once
\* nobody is at work on a content that no failure and no clash touched, its
\* count is the number of its attachments, and file and blob row are there
\* exactly when there is one.
THEOREM UnusedReclaimed == Spec => []Reclaimed
<1> DEFINE Inv == Right /\ Matching /\ AllFair /\ torn \subseteq left
<1>1. Init => Inv
  BY InitRight, InitFair DEF Init
<1>2. Inv /\ [Next]_vars => Inv'
  BY AllFairStep, TornStep
<1>3. Inv => Reclaimed
  BY FairReclaimed
<1> QED
  BY <1>1, <1>2, <1>3, PTL DEF Spec
=============================================================================
