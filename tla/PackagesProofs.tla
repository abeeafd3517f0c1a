----------------------------- MODULE PackagesProofs -----------------------------
(***************************************************************************)
(* Proofs about Packages.tla, for any number of workers, any cap and any   *)
(* budget: overlapping requests, retries and failures included.            *)
(***************************************************************************)
EXTENDS Packages, FiniteSetTheorems, SequenceTheorems, TLAPS

\* What TypeOK says of a request in hand, of the schema, and of the budget.
Fine(j, requests) ==
  j.pc # "idle" =>
    LET op == requests[j.n].op
    IN  /\ j.n \in DOMAIN requests
        /\ j.pc \in {"counted", "unique"} => op = "add"
        /\ j.pc = "read" => op = "change" /\ j.links # None
        /\ j.pc = "checked" => op = "publish"
        /\ op \in {"publish", "unpublish"} /\ j.pc # "arrived" => j.seen # None

Has(table, p) == p \in DOMAIN table /\ table[p] # None

Schema ==
  \A v \in DOMAIN variants : variants[v] # None =>
    /\ Has(packages, variants[v].package)
    /\ \A u \in DOMAIN variants \ {v} : variants[u] # None =>
         <<variants[u].package, variants[u].key>>
           # <<variants[v].package, variants[v].key>>

\* Requests are about packages and variants there are, or have been.
Known ==
  \A n \in DOMAIN asked :
    /\ asked[n].op # "create" => asked[n].p \in DOMAIN packages
    /\ asked[n].op \in {"change", "remove"} => asked[n].v \in DOMAIN variants

Budget == [create : Nat, edit : Nat, move : Nat, variant : Nat, retry : Nat, fail : Nat]

LEMMA TypeParts ==
  TypeOK <=>
    /\ packages \in Seq(Row \cup {None})
    /\ variants \in Seq(Variant \cup {None})
    /\ audited \subseteq DOMAIN asked
    /\ recorded \subseteq DOMAIN asked
    /\ work \in [Workers -> {Idle} \cup Job]
    /\ \A w \in Workers : Fine(work[w], asked)
    /\ asked \in Seq(Requests)
    /\ budget \in Budget
    /\ trusted \subseteq DOMAIN packages
    /\ denied \subseteq DOMAIN asked
    /\ Schema
  BY DEF TypeOK, Fine, Schema, Budget, Has, At, Op, Request

LEMMA TypePartsNext ==
  TypeOK' <=>
    /\ packages' \in Seq(Row \cup {None})
    /\ variants' \in Seq(Variant \cup {None})
    /\ audited' \subseteq DOMAIN asked'
    /\ recorded' \subseteq DOMAIN asked'
    /\ work' \in [Workers -> {Idle} \cup Job]
    /\ \A w \in Workers : Fine(work'[w], asked')
    /\ asked' \in Seq(Requests)
    /\ budget' \in Budget
    /\ trusted' \subseteq DOMAIN packages'
    /\ denied' \subseteq DOMAIN asked'
    /\ Schema'
  BY DEF TypeOK, Fine, Schema, Budget, Has, At, Op, Request

\* What a request brings.
LEMMA RequestFields ==
  ASSUME NEW r \in Requests
  PROVE  /\ r.op \in {"create", "update"} => r.details \in Details
         /\ r.op # "create" => r.p \in Ids
         /\ r.op = "add" => r.key \in Keys /\ r.links \in Links
         /\ r.op = "change" => r.v \in Ids /\ r.links \in Links
         /\ r.op = "remove" => r.v \in Ids
         /\ r.op \in {"create", "update", "delete", "publish", "unpublish", "add",
                      "change", "remove"}
  BY DEF Requests

\* What a worker has in hand.
LEMMA InHand ==
  ASSUME TypeOK, NEW w \in Workers, ~ At(w, "idle")
  PROVE  /\ work[w] \in Job
         /\ Fine(work[w], asked)
         /\ work[w].n \in DOMAIN asked
         /\ Request(w) \in Requests
         /\ Request(w) = asked[work[w].n]
         /\ Op(w) = Request(w).op
<1>1. work[w] \in Job /\ Fine(work[w], asked)
  BY TypeParts DEF At, Idle
<1>2. work[w].n \in DOMAIN asked
  BY <1>1 DEF Fine, At
<1>3. asked \in Seq(Requests)
  BY TypeParts
<1>4. asked[work[w].n] \in Requests
  BY <1>2, <1>3
<1> QED
  BY <1>1, <1>2, <1>4 DEF Request, Op

\* A step of one worker.
LEMMA OneWorks ==
  ASSUME TypeOK, NEW w \in Workers,
         NEW j \in {Idle} \cup Job, Fine(j, asked),
         work' = [work EXCEPT ![w] = j],
         asked' = asked,
         packages' \in Seq(Row \cup {None}),
         variants' \in Seq(Variant \cup {None}),
         audited' \subseteq DOMAIN asked,
         recorded' \subseteq DOMAIN asked,
         budget' \in Budget,
         trusted' \subseteq DOMAIN packages',
         denied' \subseteq DOMAIN asked,
         Schema'
  PROVE  TypeOK'
<1>1. work' \in [Workers -> {Idle} \cup Job]
  BY TypeParts
<1>2. \A v \in Workers : Fine(work'[v], asked')
  <2>1. ASSUME NEW v \in Workers
        PROVE  Fine(work'[v], asked')
    <3>1. CASE v = w
      <4>1. work'[v] = j
        BY <3>1, TypeParts
      <4> QED
        BY <4>1
    <3>2. CASE v # w
      <4>1. work'[v] = work[v] /\ Fine(work[v], asked)
        BY <3>2, TypeParts
      <4> QED
        BY <4>1
    <3> QED
      BY <3>1, <3>2
  <2> QED
    BY <2>1
<1>3. asked' \in Seq(Requests)
  BY TypeParts
<1> QED
  BY <1>1, <1>2, <1>3, TypePartsNext

\* And one that leaves the tables alone.
LEMMA OneReads ==
  ASSUME TypeOK, NEW w \in Workers,
         NEW j \in {Idle} \cup Job, Fine(j, asked),
         work' = [work EXCEPT ![w] = j],
         UNCHANGED <<packages, variants, audited, recorded, asked, budget, trusted>>,
         denied' \subseteq DOMAIN asked
  PROVE  TypeOK'
<1>1. Schema'
  BY TypeParts DEF Schema
<1> QED
  BY <1>1, TypeParts, OneWorks

LEMMA Denies ==
  ASSUME TypeOK, NEW w \in Workers, ~ At(w, "idle"), Deny(w)
  PROVE  /\ Idle \in {Idle} \cup Job
         /\ Fine(Idle, asked)
         /\ work' = [work EXCEPT ![w] = Idle]
         /\ denied' \subseteq DOMAIN asked
<1>1. work[w].n \in DOMAIN asked
  BY InHand
<1> QED
  BY <1>1, TypeParts DEF Deny, Fine, Idle

Pcs == {"arrived", "loaded", "gated", "counted", "unique", "read", "checked",
        "written", "reloaded", "done"}

\* Going on to another statement.
LEMMA GoesOn ==
  ASSUME TypeOK, NEW w \in Workers, ~ At(w, "idle"),
         NEW pc \in Pcs \ {"arrived", "read"}, To(w, pc),
         pc \in {"counted", "unique"} => Op(w) = "add",
         pc = "checked" => Op(w) = "publish",
         Op(w) \in {"publish", "unpublish"} => work[w].seen # None
  PROVE  \E j \in Job : /\ Fine(j, asked)
                        /\ work' = [work EXCEPT ![w] = j]
<1> DEFINE j == [work[w] EXCEPT !.pc = pc]
<1>1. /\ work[w] \in Job
      /\ Fine(work[w], asked)
      /\ work[w].n \in DOMAIN asked
      /\ Op(w) = asked[work[w].n].op
  BY InHand
<1>2. j \in Job
  BY <1>1 DEF Job, Pcs
<1>3. j.pc = pc /\ j.n = work[w].n /\ j.seen = work[w].seen /\ j.links = work[w].links
  BY <1>1 DEF Job
<1>4. Fine(j, asked)
  BY <1>1, <1>3 DEF Fine, Pcs
<1>5. work' = [work EXCEPT ![w] = j]
  BY DEF To
<1> QED
  BY <1>2, <1>4, <1>5

\* What is past the first check of a status was loaded.
LEMMA Loaded ==
  ASSUME TypeOK, NEW w \in Workers, ~ At(w, "idle"), ~ At(w, "arrived"),
         Op(w) \in {"publish", "unpublish"}
  PROVE  work[w].seen # None
  BY InHand DEF Fine, At

\* Variants that keep package and key, of packages that stay.
LEMMA SchemaKept ==
  ASSUME Schema,
         \A v \in DOMAIN variants' : variants'[v] # None =>
            /\ v \in DOMAIN variants
            /\ variants[v] # None
            /\ variants'[v].package = variants[v].package
            /\ variants'[v].key = variants[v].key
            /\ Has(packages, variants[v].package) => Has(packages', variants[v].package)
  PROVE  Schema'
<1>1. ASSUME NEW v \in DOMAIN variants', variants'[v] # None
      PROVE  /\ Has(packages', variants'[v].package)
             /\ \A u \in DOMAIN variants' \ {v} : variants'[u] # None =>
                  <<variants'[u].package, variants'[u].key>>
                    # <<variants'[v].package, variants'[v].key>>
  <2>1. Has(packages, variants[v].package)
    BY <1>1 DEF Schema
  <2>2. Has(packages', variants'[v].package)
    BY <1>1, <2>1
  <2>3. ASSUME NEW u \in DOMAIN variants' \ {v}, variants'[u] # None
        PROVE  <<variants'[u].package, variants'[u].key>>
                 # <<variants'[v].package, variants'[v].key>>
    BY <1>1, <2>3 DEF Schema
  <2> QED
    BY <2>2, <2>3
<1> QED
  BY <1>1 DEF Schema, Has

\* A package written in place.
LEMMA RowWritten ==
  ASSUME TypeOK, NEW p, NEW row \in Row,
         packages' = IF There(p) THEN [packages EXCEPT ![p] = row] ELSE packages,
         variants' = variants
  PROVE  /\ packages' \in Seq(Row \cup {None})
         /\ DOMAIN packages' = DOMAIN packages
         /\ Schema'
<1>1. packages \in Seq(Row \cup {None}) /\ variants \in Seq(Variant \cup {None})
  BY TypeParts
<1>2. packages' \in Seq(Row \cup {None}) /\ DOMAIN packages' = DOMAIN packages
  <2>1. CASE There(p)
    <3>1. p \in DOMAIN packages
      BY <2>1 DEF There
    <3>2. packages' = [packages EXCEPT ![p] = row]
      BY <2>1
    <3>3. row \in Row \cup {None} /\ p \in 1 .. Len(packages)
      BY <1>1, <3>1
    <3>4. [packages EXCEPT ![p] = row] \in Seq(Row \cup {None})
      BY <1>1, <3>3, ExceptSeq
    <3> QED
      BY <3>2, <3>4
  <2>2. CASE ~ There(p)
    BY <1>1, <2>2
  <2> QED
    BY <2>1, <2>2
<1>3. row # None
  BY ConstantsAssumption
<1>4. ASSUME NEW q, Has(packages, q)
      PROVE  Has(packages', q)
  BY <1>1, <1>2, <1>3, <1>4 DEF Has, There
<1>5. Schema
  BY TypeParts
<1>6. \A v \in DOMAIN variants' : variants'[v] # None =>
            /\ v \in DOMAIN variants
            /\ variants[v] # None
            /\ variants'[v].package = variants[v].package
            /\ variants'[v].key = variants[v].key
            /\ Has(packages, variants[v].package) => Has(packages', variants[v].package)
  BY <1>4
<1> QED
  BY <1>2, <1>5, <1>6, SchemaKept

LEMMA SetsStatus ==
  ASSUME TypeOK, NEW p, NEW s \in Statuses, SetStatus(p, s), variants' = variants
  PROVE  /\ packages' \in Seq(Row \cup {None})
         /\ DOMAIN packages' = DOMAIN packages
         /\ Schema'
<1>1. CASE There(p)
  <2>1. packages[p] \in Row
    BY <1>1, TypeParts DEF There
  <2>2. [packages[p] EXCEPT !.status = s] \in Row
    BY <2>1 DEF Row
  <2>3. packages' = IF There(p) THEN [packages EXCEPT ![p] = [packages[p] EXCEPT !.status = s]] ELSE packages
    BY <1>1 DEF SetStatus
  <2> QED
    BY <2>2, <2>3, RowWritten
<1>2. CASE ~ There(p)
  <2>1. packages' = packages
    BY <1>2 DEF SetStatus
  <2> QED
    BY <2>1, TypeParts DEF Schema
<1> QED
  BY <1>1, <1>2

-----------------------------------------------------------------------------
(* Each action keeps the types *)

LEMMA InitTyped == Init => TypeOK
<1> SUFFICES ASSUME Init PROVE TypeOK
  OBVIOUS
<1>1. /\ packages \in Seq(Row \cup {None})
      /\ variants \in Seq(Variant \cup {None})
      /\ asked \in Seq(Requests)
      /\ variants = <<>>
  BY DEF Init
<1>2. work \in [Workers -> {Idle} \cup Job] /\ \A w \in Workers : Fine(work[w], asked)
  BY DEF Init, Idle, Fine
<1>3. budget \in Budget
  BY ConstantsAssumption DEF Init, Budget
<1>4. Schema
  BY <1>1 DEF Schema
<1> QED
  BY <1>1, <1>2, <1>3, <1>4, TypeParts DEF Init

LEMMA Spends ==
  ASSUME TypeOK, NEW kind \in {"create", "edit", "move", "variant", "retry", "fail"},
         Spend(kind)
  PROVE  budget' \in Budget
<1>1. budget \in Budget
  BY TypeParts
<1> QED
  BY <1>1 DEF Spend, Budget

LEMMA SensibleIsRequest ==
  ASSUME TypeOK, NEW r \in Sensible
  PROVE  r \in Requests
<1>1. DOMAIN packages \subseteq Ids /\ DOMAIN variants \subseteq Ids
  BY TypeParts DEF Ids
<1> QED
  BY <1>1 DEF Sensible, Requests

LEMMA ArrivalIsJob ==
  ASSUME NEW n \in Ids, NEW requests, n \in DOMAIN requests
  PROVE  Arrival(n) \in Job /\ Fine(Arrival(n), requests)
<1>1. Arrival(n) \in Job
  BY DEF Arrival, Job
<1>2. Arrival(n).pc = "arrived" /\ Arrival(n).n = n
  BY DEF Arrival
<1> QED
  BY <1>1, <1>2 DEF Fine

LEMMA AskTyped ==
  ASSUME TypeOK, NEW w \in Workers, NEW r \in Sensible, Ask(w, r)
  PROVE  TypeOK'
<1>1. r \in Requests
  BY SensibleIsRequest
<1>2. asked \in Seq(Requests)
  BY TypeParts
<1>3. /\ asked' \in Seq(Requests)
      /\ Len(asked') = Len(asked) + 1
      /\ \A n \in 1 .. Len(asked) : asked'[n] = asked[n]
  BY <1>1, <1>2, AppendProperties DEF Ask
<1>4. /\ DOMAIN asked = 1 .. Len(asked) /\ DOMAIN asked' = 1 .. Len(asked')
      /\ Len(asked) \in Nat
  BY <1>2, <1>3
<1>5. DOMAIN asked \subseteq DOMAIN asked' /\ Len(asked) + 1 \in DOMAIN asked' /\ Len(asked) + 1 \in Ids
  BY <1>3, <1>4 DEF Ids
<1> DEFINE j == Arrival(Len(asked) + 1)
<1>6. j \in Job /\ Fine(j, asked')
  BY <1>5, ArrivalIsJob
<1>7. work' = [work EXCEPT ![w] = j]
  BY DEF Ask
<1> HIDE DEF j
<1>8. work' \in [Workers -> {Idle} \cup Job]
  BY <1>6, <1>7, TypeParts
<1>9. ASSUME NEW v \in Workers
      PROVE  Fine(work'[v], asked')
  <2>1. CASE v = w
    <3>1. work'[v] = j
      BY <1>7, <2>1, TypeParts
    <3> QED
      BY <1>6, <3>1
  <2>2. CASE v # w
    <3>1. work'[v] = work[v] /\ Fine(work[v], asked)
      BY <1>7, <2>2, TypeParts
    <3>2. work[v].pc # "idle" => asked'[work[v].n] = asked[work[v].n]
      BY <1>3, <1>4, <3>1 DEF Fine
    <3> QED
      BY <1>5, <3>1, <3>2 DEF Fine
  <2> QED
    BY <2>1, <2>2
<1>10. budget' \in Budget
  <2>1. KindOf(r.op) \in {"create", "edit", "move", "variant", "retry", "fail"}
    BY <1>1, RequestFields DEF KindOf
  <2> QED
    BY <2>1, Spends DEF Ask
<1>11. /\ packages' = packages /\ variants' = variants /\ audited' = audited
       /\ recorded' = recorded /\ trusted' = trusted /\ denied' = denied
  BY DEF Ask, tables, trail, history
<1>12. Schema'
  BY <1>11, TypeParts DEF Schema
<1> QED
  BY <1>3, <1>5, <1>8, <1>9, <1>10, <1>11, <1>12, TypeParts, TypePartsNext

LEMMA AskAgainTyped ==
  ASSUME TypeOK, NEW w \in Workers, NEW n \in DOMAIN asked, AskAgain(w, n)
  PROVE  TypeOK'
<1>1. n \in Ids
  BY TypeParts DEF Ids
<1>2. Arrival(n) \in Job /\ Fine(Arrival(n), asked)
  BY <1>1, ArrivalIsJob
<1>3. work' = [work EXCEPT ![w] = Arrival(n)]
  BY DEF AskAgain
<1>4. budget' \in Budget
  BY Spends DEF AskAgain
<1>5. /\ packages' = packages /\ variants' = variants /\ audited' = audited
      /\ recorded' = recorded /\ trusted' = trusted /\ denied' = denied
      /\ asked' = asked
  BY DEF AskAgain, tables, trail, history
<1>6. Schema'
  BY <1>5, TypeParts DEF Schema
<1> QED
  BY <1>2, <1>3, <1>4, <1>5, <1>6, TypeParts, OneWorks

\* A statement that only reads: the request goes on, or is denied.
LEMMA ReadTyped ==
  ASSUME TypeOK, NEW w \in Workers, ~ At(w, "idle"),
         UNCHANGED <<packages, variants, audited, recorded, asked, budget, trusted>>,
         \/ Deny(w)
         \/ /\ denied' = denied
            /\ \E j \in {Idle} \cup Job :
                 Fine(j, asked) /\ work' = [work EXCEPT ![w] = j]
  PROVE  TypeOK'
<1>1. \E j \in {Idle} \cup Job : /\ Fine(j, asked)
                                 /\ work' = [work EXCEPT ![w] = j]
                                 /\ denied' \subseteq DOMAIN asked
  <2>1. CASE Deny(w)
    BY <2>1, Denies
  <2>2. CASE /\ denied' = denied
             /\ \E j \in {Idle} \cup Job :
                  Fine(j, asked) /\ work' = [work EXCEPT ![w] = j]
    BY <2>2, TypeParts
  <2> QED
    BY <2>1, <2>2
<1>2. PICK j \in {Idle} \cup Job : /\ Fine(j, asked)
                                   /\ work' = [work EXCEPT ![w] = j]
                                   /\ denied' \subseteq DOMAIN asked
  BY <1>1
<1> QED
  BY <1>2, OneReads

LEMMA LoadTyped ==
  ASSUME TypeOK, NEW w \in Workers, Load(w)
  PROVE  TypeOK'
<1>1. ~ At(w, "idle") /\ At(w, "arrived")
  BY DEF Load, At
<1>2. UNCHANGED <<packages, variants, audited, recorded, asked, budget, trusted>>
  BY DEF Load, tables, trail, clients
<1>3. CASE Op(w) = "create"
  <2>1. To(w, "loaded") /\ denied' = denied
    BY <1>3 DEF Load
  <2>2. \E j \in Job : Fine(j, asked) /\ work' = [work EXCEPT ![w] = j]
    BY <1>1, <1>3, <2>1, GoesOn DEF Pcs
  <2> QED
    BY <1>1, <1>2, <2>1, <2>2, ReadTyped
<1>4. CASE Op(w) # "create"
  <2> DEFINE p == Request(w).p
             j == [work[w] EXCEPT !.pc = "loaded", !.seen = packages[p]]
  <2>1. \/ Deny(w)
        \/ There(p) /\ work' = [work EXCEPT ![w] = j] /\ denied' = denied
    BY <1>4 DEF Load
  <2>2. ASSUME There(p)
        PROVE  j \in Job /\ Fine(j, asked)
    <3>1. packages[p] \in Row /\ packages[p] # None
      BY <2>2, TypeParts DEF There
    <3>2. work[w] \in Job /\ Fine(work[w], asked)
      BY <1>1, InHand
    <3>3. j \in Job
      BY <3>1, <3>2 DEF Job
    <3>4. j.pc = "loaded" /\ j.n = work[w].n /\ j.seen = packages[p]
      BY <3>2 DEF Job
    <3>5. work[w].n \in DOMAIN asked
      BY <1>1, InHand
    <3> QED
      BY <3>1, <3>3, <3>4, <3>5 DEF Fine
  <2> HIDE DEF j
  <2> QED
    BY <1>1, <1>2, <2>1, <2>2, ReadTyped
<1> QED
  BY <1>3, <1>4

LEMMA IdleFine == Idle \in {Idle} \cup Job /\ Fine(Idle, asked)
  BY DEF Idle, Fine

LEMMA GateTyped ==
  ASSUME TypeOK, NEW w \in Workers, Gate(w)
  PROVE  TypeOK'
<1>1. ~ At(w, "idle") /\ ~ At(w, "arrived")
  BY DEF Gate, At
<1>2. UNCHANGED <<packages, variants, audited, recorded, asked, budget, trusted>>
  BY DEF Gate, tables, trail, clients, history
<1>3. denied' = denied
  BY DEF Gate, history
<1>4. CASE work' = [work EXCEPT ![w] = Idle]
  BY <1>1, <1>2, <1>3, <1>4, IdleFine, ReadTyped
<1>5. CASE To(w, "gated")
  <2>1. \E j \in Job : Fine(j, asked) /\ work' = [work EXCEPT ![w] = j]
    BY <1>1, <1>5, Loaded, GoesOn DEF Pcs
  <2> QED
    BY <1>1, <1>2, <1>3, <2>1, ReadTyped
<1> QED
  BY <1>4, <1>5 DEF Gate

LEMMA CreateTyped ==
  ASSUME TypeOK, NEW w \in Workers, Create(w)
  PROVE  TypeOK'
<1>1. ~ At(w, "idle") /\ Op(w) = "create"
  BY DEF Create, At
<1>2. UNCHANGED <<variants, audited, recorded, asked, budget, trusted>>
  BY DEF Create, trail, clients
<1>3. CASE Deny(w) /\ packages' = packages
  BY <1>1, <1>2, <1>3, ReadTyped
<1>4. CASE /\ packages' = Append(packages, [status |-> "DRAFT", details |-> Request(w).details])
           /\ To(w, "reloaded")
           /\ denied' = denied
  <2> DEFINE row == [status |-> "DRAFT", details |-> Request(w).details]
  <2>1. row \in Row
    BY <1>1, InHand, RequestFields DEF Row, Statuses
  <2>2. packages \in Seq(Row \cup {None}) /\ trusted \subseteq DOMAIN packages /\ Schema
    BY TypeParts
  <2>3. /\ packages' \in Seq(Row \cup {None})
        /\ Len(packages') = Len(packages) + 1
        /\ \A p \in 1 .. Len(packages) : packages'[p] = packages[p]
    BY <1>4, <2>1, <2>2, AppendProperties
  <2>4. DOMAIN packages = 1 .. Len(packages) /\ DOMAIN packages' = 1 .. Len(packages')
        /\ Len(packages) \in Nat
    BY <2>2, <2>3
  <2>5. \A p : Has(packages, p) => Has(packages', p)
    BY <2>3, <2>4 DEF Has
  <2>6. Schema'
    BY <1>2, <2>2, <2>5, SchemaKept
  <2>7. PICK j \in Job : Fine(j, asked) /\ work' = [work EXCEPT ![w] = j]
    BY <1>1, <1>4, GoesOn DEF Pcs
  <2>8. trusted' \subseteq DOMAIN packages'
    BY <1>2, <2>2, <2>3, <2>4
  <2> QED
    BY <1>2, <1>4, <2>3, <2>6, <2>7, <2>8, TypeParts, OneWorks
<1> QED
  BY <1>3, <1>4 DEF Create

LEMMA UpdateTyped ==
  ASSUME TypeOK, NEW w \in Workers, Update(w)
  PROVE  TypeOK'
<1> DEFINE r == Request(w)
           row == [packages[r.p] EXCEPT !.details = r.details]
<1>1. ~ At(w, "idle") /\ Op(w) = "update" /\ r.op = "update"
  BY DEF Update, At, Op
<1>2. /\ UNCHANGED <<variants, audited, recorded, asked, budget, trusted>>
      /\ denied' = denied
  BY DEF Update, trail, clients, history
<1>3. r.details \in Details
  BY <1>1, InHand, RequestFields
<1>4. packages' = IF There(r.p) THEN [packages EXCEPT ![r.p] = row] ELSE packages
  BY DEF Update, Edited
<1>5. /\ packages' \in Seq(Row \cup {None})
      /\ DOMAIN packages' = DOMAIN packages
      /\ Schema'
  <2>1. CASE There(r.p)
    <3>1. packages[r.p] \in Row
      BY <2>1, TypeParts DEF There
    <3>2. row \in Row
      BY <1>3, <3>1 DEF Row
    <3> HIDE DEF row
    <3> QED
      BY <1>2, <1>4, <3>2, RowWritten
  <2>2. CASE ~ There(r.p)
    BY <1>2, <1>4, <2>2, TypeParts DEF Schema
  <2> QED
    BY <2>1, <2>2
<1>6. PICK j \in Job : Fine(j, asked) /\ work' = [work EXCEPT ![w] = j]
  <2>1. To(w, "written")
    BY DEF Update
  <2> QED
    BY <1>1, <2>1, GoesOn DEF Pcs
<1> HIDE DEF r, row
<1> QED
  BY <1>2, <1>5, <1>6, TypeParts, OneWorks

\* A deleted row leaves None in its place.
LEMMA Blanked ==
  ASSUME NEW S, NEW s \in Seq(S \cup {None}), NEW i
  PROVE  /\ [s EXCEPT ![i] = None] \in Seq(S \cup {None})
         /\ DOMAIN [s EXCEPT ![i] = None] = DOMAIN s
         /\ \A k \in DOMAIN s : k # i => [s EXCEPT ![i] = None][k] = s[k]
         /\ i \in DOMAIN s => [s EXCEPT ![i] = None][i] = None
<1>1. CASE i \in DOMAIN s
  <2>1. i \in 1 .. Len(s) /\ None \in S \cup {None}
    BY <1>1
  <2> QED
    BY <1>1, <2>1, ExceptSeq
<1>2. CASE i \notin DOMAIN s
  <2>1. [s EXCEPT ![i] = None] = s
    BY <1>2
  <2> QED
    BY <1>2, <2>1
<1> QED
  BY <1>1, <1>2

\* So do those of a set of rows.
LEMMA BlankedAll ==
  ASSUME NEW S, NEW s \in Seq(S \cup {None}), NEW gone
  PROVE  [k \in DOMAIN s |-> IF k \in gone THEN None ELSE s[k]] \in Seq(S \cup {None})
<1>1. s \in [1 .. Len(s) -> S \cup {None}] /\ Len(s) \in Nat /\ DOMAIN s = 1 .. Len(s)
  BY ElementOfSeq, SeqDef, LenProperties
<1>2. [k \in DOMAIN s |-> IF k \in gone THEN None ELSE s[k]]
        \in [1 .. Len(s) -> S \cup {None}]
  BY <1>1
<1> QED
  BY <1>1, <1>2, SeqDef

LEMMA DeleteTyped ==
  ASSUME TypeOK, NEW w \in Workers, Delete(w)
  PROVE  TypeOK'
<1> DEFINE p == Request(w).p
<1>1. ~ At(w, "idle") /\ Op(w) = "delete"
  BY DEF Delete, At
<1>2. /\ UNCHANGED <<audited, recorded, asked, budget, trusted>>
      /\ denied' = denied
  BY DEF Delete, trail, clients, history
<1>3. /\ packages \in Seq(Row \cup {None}) /\ variants \in Seq(Variant \cup {None})
      /\ trusted \subseteq DOMAIN packages /\ Schema
  BY TypeParts
<1>4. /\ packages' = [packages EXCEPT ![p] = None]
      /\ variants' = [v \in DOMAIN variants |->
                        IF v \in VariantsOf(p) THEN None ELSE variants[v]]
      /\ To(w, "reloaded")
  BY DEF Delete
<1> HIDE DEF p
<1>5. /\ packages' \in Seq(Row \cup {None})
      /\ DOMAIN packages' = DOMAIN packages
      /\ \A q \in DOMAIN packages : q # p => packages'[q] = packages[q]
  BY <1>3, <1>4, Blanked
<1>6. variants' \in Seq(Variant \cup {None})
  BY <1>3, <1>4, BlankedAll
<1>7. Schema'
  <2>1. ASSUME NEW v \in DOMAIN variants', variants'[v] # None
        PROVE  /\ v \in DOMAIN variants
               /\ variants[v] # None
               /\ variants'[v].package = variants[v].package
               /\ variants'[v].key = variants[v].key
               /\ Has(packages, variants[v].package) => Has(packages', variants[v].package)
    <3>1. v \in DOMAIN variants /\ v \notin VariantsOf(p) /\ variants'[v] = variants[v]
      BY <1>4, <2>1
    <3>2. variants[v].package # p
      BY <2>1, <3>1 DEF VariantsOf
    <3> QED
      BY <1>5, <2>1, <3>1, <3>2 DEF Has
  <2> QED
    BY <1>3, <2>1, SchemaKept
<1>8. PICK j \in Job : Fine(j, asked) /\ work' = [work EXCEPT ![w] = j]
  BY <1>1, <1>4, GoesOn DEF Pcs
<1> QED
  BY <1>2, <1>3, <1>5, <1>6, <1>7, <1>8, TypeParts, OneWorks

LEMMA ValidateTyped ==
  ASSUME TypeOK, NEW w \in Workers, Validate(w)
  PROVE  TypeOK'
<1>1. ~ At(w, "idle") /\ ~ At(w, "arrived") /\ Op(w) = "publish"
  BY DEF Validate, At
<1>2. UNCHANGED <<packages, variants, audited, recorded, asked, budget, trusted>>
  BY DEF Validate, tables, trail, clients
<1> DEFINE j == [work[w] EXCEPT !.pc = "checked", !.clean = TRUE]
<1>3. \/ Deny(w)
      \/ work' = [work EXCEPT ![w] = j] /\ denied' = denied
  BY DEF Validate
<1>4. /\ work[w] \in Job /\ work[w].n \in DOMAIN asked
      /\ Op(w) = asked[work[w].n].op /\ work[w].seen # None
  BY <1>1, InHand, Loaded
<1>5. j \in Job
  BY <1>4 DEF Job
<1>6. j.pc = "checked" /\ j.n = work[w].n /\ j.seen = work[w].seen
  BY <1>4 DEF Job
<1>7. Fine(j, asked)
  BY <1>1, <1>4, <1>6 DEF Fine
<1> HIDE DEF j
<1> QED
  BY <1>1, <1>2, <1>3, <1>5, <1>7, ReadTyped

LEMMA PublishTyped ==
  ASSUME TypeOK, Known, NEW w \in Workers, Publish(w)
  PROVE  TypeOK'
<1> DEFINE p == Request(w).p
<1>1. ~ At(w, "idle") /\ ~ At(w, "arrived") /\ At(w, "checked")
  BY DEF Publish, At
<1>2. Op(w) = "publish"
  BY <1>1, InHand DEF Fine, At
<1>3. /\ UNCHANGED <<variants, audited, recorded, asked, budget>>
      /\ denied' = denied /\ SetStatus(p, "PUBLISHED") /\ To(w, "written")
      /\ trusted' \subseteq trusted \cup {p}
  BY DEF Publish, trail, clients
<1>4. /\ packages' \in Seq(Row \cup {None})
      /\ DOMAIN packages' = DOMAIN packages
      /\ Schema'
  BY <1>3, SetsStatus DEF Statuses
<1>5. PICK j \in Job : Fine(j, asked) /\ work' = [work EXCEPT ![w] = j]
  BY <1>1, <1>2, <1>3, Loaded, GoesOn DEF Pcs
<1>6. p \in DOMAIN packages
  BY <1>1, <1>2, InHand DEF Known
<1> QED
  BY <1>3, <1>4, <1>5, <1>6, TypeParts, OneWorks

LEMMA UnpublishTyped ==
  ASSUME TypeOK, NEW w \in Workers, Unpublish(w)
  PROVE  TypeOK'
<1>1. ~ At(w, "idle") /\ ~ At(w, "arrived") /\ Op(w) = "unpublish"
  BY DEF Unpublish, At
<1>2. /\ UNCHANGED <<variants, audited, recorded, asked, budget, trusted>>
      /\ denied' = denied /\ SetStatus(Request(w).p, "UNPUBLISHED") /\ To(w, "written")
  BY DEF Unpublish, trail, clients, history
<1>3. /\ packages' \in Seq(Row \cup {None})
      /\ DOMAIN packages' = DOMAIN packages
      /\ Schema'
  BY <1>2, SetsStatus DEF Statuses
<1>4. PICK j \in Job : Fine(j, asked) /\ work' = [work EXCEPT ![w] = j]
  BY <1>1, <1>2, Loaded, GoesOn DEF Pcs
<1> QED
  BY <1>2, <1>3, <1>4, TypeParts, OneWorks

LEMMA CountTyped ==
  ASSUME TypeOK, NEW w \in Workers, Count(w) \/ FindDuplicate(w)
  PROVE  TypeOK'
<1>1. ~ At(w, "idle")
  BY DEF Count, FindDuplicate, At
<1>2. UNCHANGED <<packages, variants, audited, recorded, asked, budget, trusted>>
  BY DEF Count, FindDuplicate, tables, trail, clients
<1>3. Op(w) = "add"
  <2>1. CASE Count(w)
    BY <2>1 DEF Count
  <2>2. CASE FindDuplicate(w)
    BY <1>1, <2>2, InHand DEF FindDuplicate, Fine, At
  <2> QED
    BY <2>1, <2>2
<1>4. \/ Deny(w)
      \/ (To(w, "counted") \/ To(w, "unique")) /\ denied' = denied
  BY DEF Count, FindDuplicate
<1>5. ASSUME NEW pc \in {"counted", "unique"}, To(w, pc)
      PROVE  \E j \in Job : Fine(j, asked) /\ work' = [work EXCEPT ![w] = j]
  BY <1>1, <1>3, <1>5, GoesOn DEF Pcs
<1> QED
  BY <1>1, <1>2, <1>4, <1>5, ReadTyped

\* A link is written: jobs of others may lose their mark.
LEMMA WrittenTyped ==
  ASSUME TypeOK, NEW w \in Workers, ~ At(w, "idle"),
         Op(w) \notin {"publish", "unpublish"},
         NEW p, NEW pc \in {"written", "done"}, Written(w, p, pc)
  PROVE  /\ work' \in [Workers -> {Idle} \cup Job]
         /\ \A v \in Workers : Fine(work'[v], asked)
<1>1. ASSUME NEW v \in Workers
      PROVE  work'[v] \in {Idle} \cup Job /\ Fine(work'[v], asked)
  <2>1. CASE v = w
    <3>1. work'[v] = [work[w] EXCEPT !.pc = pc]
      BY <2>1 DEF Written
    <3>2. /\ work[w] \in Job /\ work[w].n \in DOMAIN asked
          /\ Op(w) = asked[work[w].n].op
      BY InHand
    <3>3. work'[v] \in Job
      BY <3>1, <3>2 DEF Job
    <3>4. work'[v].pc = pc /\ work'[v].n = work[w].n
      BY <3>1, <3>2 DEF Job
    <3> QED
      BY <3>2, <3>3, <3>4 DEF Fine
  <2>2. CASE v # w
    <3>1. work[v] \in {Idle} \cup Job /\ Fine(work[v], asked)
      BY TypeParts
    <3>2. CASE work'[v] = work[v]
      BY <3>1, <3>2
    <3>3. CASE ~ At(v, "idle") /\ work'[v] = [work[v] EXCEPT !.clean = FALSE]
      <4>1. work[v] \in Job
        BY <3>3, InHand
      <4>2. work'[v] \in Job
        BY <3>3, <4>1 DEF Job
      <4>3. /\ work'[v].pc = work[v].pc /\ work'[v].n = work[v].n
            /\ work'[v].links = work[v].links /\ work'[v].seen = work[v].seen
        BY <3>3, <4>1 DEF Job
      <4> QED
        BY <3>1, <4>2, <4>3 DEF Fine
    <3> QED
      BY <2>2, <3>2, <3>3 DEF Written
  <2> QED
    BY <2>1, <2>2
<1> QED
  BY <1>1 DEF Written

LEMMA InsertTyped ==
  ASSUME TypeOK, NEW w \in Workers, Insert(w)
  PROVE  TypeOK'
<1> DEFINE r == Request(w)
           row == [package |-> r.p, key |-> r.key, links |-> r.links]
<1>1. ~ At(w, "idle") /\ At(w, "unique")
  BY DEF Insert, At
<1>2. Op(w) = "add" /\ r.op = "add" /\ r \in Requests
  BY <1>1, InHand DEF Fine, At
<1>3. UNCHANGED <<packages, audited, recorded, asked, budget>>
  BY DEF Insert, trail, clients
<1>4. CASE Deny(w) /\ UNCHANGED <<variants, trusted>>
  BY <1>1, <1>3, <1>4, ReadTyped
<1>5. CASE There(r.p) /\ ~ Taken(r) /\ variants' = Append(variants, row) /\ Written(w, r.p, "done")
  <2>1. row \in Variant
    BY <1>2, RequestFields DEF Variant, Ids
  <2>2. variants \in Seq(Variant \cup {None}) /\ Schema
    BY TypeParts
  <2>3. /\ variants' \in Seq(Variant \cup {None})
        /\ Len(variants') = Len(variants) + 1
        /\ \A v \in 1 .. Len(variants) : variants'[v] = variants[v]
        /\ variants'[Len(variants) + 1] = row
    BY <1>5, <2>1, <2>2, AppendProperties
  <2>4. /\ DOMAIN variants = 1 .. Len(variants) /\ Len(variants) \in Nat
        /\ DOMAIN variants' = 1 .. Len(variants) + 1
    BY <2>2, <2>3
  <2>5. row.package = r.p /\ row.key = r.key
    OBVIOUS
  <2> HIDE DEF row
  <2>6. ASSUME NEW v \in DOMAIN variants, variants[v] # None
        PROVE  <<variants[v].package, variants[v].key>> # <<row.package, row.key>>
    BY <1>5, <2>5, <2>6 DEF Taken, VariantsOf
  <2>7. ASSUME NEW v \in DOMAIN variants', variants'[v] # None
        PROVE  /\ Has(packages', variants'[v].package)
               /\ \A u \in DOMAIN variants' \ {v} : variants'[u] # None =>
                    <<variants'[u].package, variants'[u].key>>
                      # <<variants'[v].package, variants'[v].key>>
    <3>1. CASE v = Len(variants) + 1
      <4>1. variants'[v] = row
        BY <2>3, <3>1
      <4>2. \A u \in DOMAIN variants' \ {v} : u \in DOMAIN variants /\ variants'[u] = variants[u]
        BY <2>3, <2>4, <3>1
      <4> QED
        BY <1>3, <1>5, <2>5, <2>6, <4>1, <4>2 DEF Has, There
    <3>2. CASE v # Len(variants) + 1
      <4>1. v \in DOMAIN variants /\ variants'[v] = variants[v]
        BY <2>3, <2>4, <3>2
      <4>2. ASSUME NEW u \in DOMAIN variants' \ {v}, variants'[u] # None
            PROVE  <<variants'[u].package, variants'[u].key>>
                     # <<variants'[v].package, variants'[v].key>>
        <5>1. CASE u = Len(variants) + 1
          BY <2>3, <2>6, <2>7, <4>1, <5>1
        <5>2. CASE u # Len(variants) + 1
          <6>1. u \in DOMAIN variants \ {v} /\ variants'[u] = variants[u]
            BY <2>3, <2>4, <5>2
          <6> QED
            BY <2>2, <2>7, <4>1, <4>2, <6>1 DEF Schema
        <5> QED
          BY <5>1, <5>2
      <4>3. Has(packages', variants'[v].package)
        BY <1>3, <2>2, <2>7, <4>1 DEF Schema
      <4> QED
        BY <4>2, <4>3
    <3> QED
      BY <3>1, <3>2
  <2>8. Schema'
    BY <2>7 DEF Schema, Has
  <2>9. /\ work' \in [Workers -> {Idle} \cup Job]
        /\ \A v \in Workers : Fine(work'[v], asked)
    BY <1>1, <1>2, <1>5, WrittenTyped
  <2>10. trusted' \subseteq trusted /\ denied' = denied
    BY <1>5 DEF Written
  <2> QED
    BY <1>3, <2>3, <2>8, <2>9, <2>10, TypeParts, TypePartsNext
<1> QED
  BY <1>4, <1>5 DEF Insert

LEMMA LoadVariantTyped ==
  ASSUME TypeOK, NEW w \in Workers, LoadVariant(w)
  PROVE  TypeOK'
<1> DEFINE r == Request(w)
           j == [work[w] EXCEPT !.pc = "read", !.links = variants[r.v].links]
<1>1. ~ At(w, "idle") /\ Op(w) = "change"
  BY DEF LoadVariant, At, Op
<1>2. UNCHANGED <<packages, variants, audited, recorded, asked, budget, trusted>>
  BY DEF LoadVariant, tables, trail, clients
<1>3. \/ Deny(w)
      \/ r.v \in VariantsOf(r.p) /\ work' = [work EXCEPT ![w] = j] /\ denied' = denied
  BY DEF LoadVariant
<1>4. ASSUME r.v \in VariantsOf(r.p)
      PROVE  j \in Job /\ Fine(j, asked)
  <2>1. variants[r.v] \in Variant
    BY <1>4, TypeParts DEF VariantsOf
  <2>2. variants[r.v].links \in Links /\ variants[r.v].links # None
    BY <2>1, ConstantsAssumption DEF Variant
  <2>3. work[w] \in Job /\ work[w].n \in DOMAIN asked /\ Op(w) = asked[work[w].n].op
    BY <1>1, InHand
  <2>4. j \in Job
    BY <2>2, <2>3 DEF Job
  <2>5. j.pc = "read" /\ j.n = work[w].n /\ j.links = variants[r.v].links
    BY <2>3 DEF Job
  <2> QED
    BY <1>1, <2>2, <2>3, <2>4, <2>5 DEF Fine
<1> HIDE DEF j
<1> QED
  BY <1>1, <1>2, <1>3, <1>4, ReadTyped

LEMMA ChangeVariantTyped ==
  ASSUME TypeOK, NEW w \in Workers, ChangeVariant(w)
  PROVE  TypeOK'
<1> DEFINE r == Request(w)
           links == Changed(work[w].links, r.links)
<1>1. ~ At(w, "idle") /\ At(w, "read")
  BY DEF ChangeVariant, At
<1>2. Op(w) = "change" /\ r.op = "change" /\ r \in Requests /\ work[w].links \in Links
  BY <1>1, InHand DEF Fine, At, Job
<1>3. UNCHANGED <<packages, audited, recorded, asked, budget>>
  BY DEF ChangeVariant, trail, clients
<1>4. /\ variants' = IF variants[r.v] # None
                       THEN [variants EXCEPT ![r.v].links = links]
                       ELSE variants
      /\ Written(w, r.p, "written")
  BY DEF ChangeVariant
<1>5. links \in Links
  BY <1>2, RequestFields DEF Changed, Kept, Links
<1> HIDE DEF links
<1>6. /\ variants' \in Seq(Variant \cup {None})
      /\ DOMAIN variants' = DOMAIN variants
      /\ \A v \in DOMAIN variants : variants'[v] # None =>
           /\ variants[v] # None
           /\ variants'[v].package = variants[v].package
           /\ variants'[v].key = variants[v].key
  <2>1. variants \in Seq(Variant \cup {None})
    BY TypeParts
  <2>2. CASE variants[r.v] # None /\ r.v \in DOMAIN variants
    <3> DEFINE row == [variants[r.v] EXCEPT !.links = links]
    <3>1. variants[r.v] \in Variant
      BY <2>1, <2>2
    <3>2. row \in Variant /\ row.package = variants[r.v].package /\ row.key = variants[r.v].key
      BY <1>5, <3>1 DEF Variant
    <3>3. variants' = [variants EXCEPT ![r.v] = row]
      BY <1>4, <2>2
    <3> HIDE DEF row
    <3>4. r.v \in 1 .. Len(variants) /\ row \in Variant \cup {None}
      BY <2>1, <2>2, <3>2
    <3>5. variants' \in Seq(Variant \cup {None})
      BY <2>1, <3>3, <3>4, ExceptSeq
    <3> QED
      BY <2>2, <3>2, <3>3, <3>5
  <2>3. CASE variants[r.v] = None \/ r.v \notin DOMAIN variants
    <3> DEFINE row == [variants[r.v] EXCEPT !.links = links]
    <3>1. variants' = IF variants[r.v] # None THEN [variants EXCEPT ![r.v] = row]
                      ELSE variants
      BY <1>4
    <3> HIDE DEF row, r
    <3>2. variants' = variants
      <4>1. CASE r.v \notin DOMAIN variants
        <5>1. [variants EXCEPT ![r.v] = row] = variants
          BY <2>1, <4>1
        <5> QED
          BY <3>1, <5>1
      <4>2. CASE variants[r.v] = None
        BY <3>1, <4>2
      <4> QED
        BY <2>3, <4>1, <4>2
    <3> QED
      BY <2>1, <3>2
  <2> QED
    BY <2>2, <2>3
<1>7. Schema'
  BY <1>3, <1>6, TypeParts, SchemaKept
<1>8. /\ work' \in [Workers -> {Idle} \cup Job]
      /\ \A v \in Workers : Fine(work'[v], asked)
  BY <1>1, <1>2, <1>4, WrittenTyped
<1>9. trusted' \subseteq trusted /\ denied' = denied
  BY <1>4 DEF Written
<1> QED
  BY <1>3, <1>6, <1>7, <1>8, <1>9, TypeParts, TypePartsNext

LEMMA RemoveVariantTyped ==
  ASSUME TypeOK, NEW w \in Workers, RemoveVariant(w)
  PROVE  TypeOK'
<1> DEFINE r == Request(w)
<1>1. ~ At(w, "idle") /\ Op(w) = "remove"
  BY DEF RemoveVariant, At, Op
<1>2. UNCHANGED <<packages, audited, recorded, asked, budget, trusted>>
  BY DEF RemoveVariant, trail, clients
<1>3. CASE Deny(w) /\ variants' = variants
  BY <1>1, <1>2, <1>3, ReadTyped
<1>4. CASE variants' = [variants EXCEPT ![r.v] = None] /\ To(w, "done") /\ denied' = denied
  <2>1. variants \in Seq(Variant \cup {None})
    BY TypeParts
  <2> HIDE DEF r
  <2>2. /\ variants' \in Seq(Variant \cup {None})
        /\ DOMAIN variants' = DOMAIN variants
        /\ \A v \in DOMAIN variants : v # r.v => variants'[v] = variants[v]
        /\ r.v \in DOMAIN variants => variants'[r.v] = None
    BY <1>4, <2>1, Blanked
  <2>3. Schema'
    BY <1>2, <2>2, TypeParts, SchemaKept
  <2>4. PICK j \in Job : Fine(j, asked) /\ work' = [work EXCEPT ![w] = j]
    BY <1>1, <1>4, GoesOn DEF Pcs
  <2> QED
    BY <1>2, <1>4, <2>2, <2>3, <2>4, TypeParts, OneWorks
<1> QED
  BY <1>3, <1>4 DEF RemoveVariant

LEMMA ReloadTyped ==
  ASSUME TypeOK, NEW w \in Workers, Reload(w)
  PROVE  TypeOK'
<1>1. ~ At(w, "idle") /\ ~ At(w, "arrived")
  BY DEF Reload, At
<1>2. UNCHANGED <<packages, variants, audited, recorded, asked, budget, trusted>>
  BY DEF Reload, tables, trail, clients
<1>3. \/ Deny(w)
      \/ (To(w, "reloaded") \/ To(w, "done")) /\ denied' = denied
  BY DEF Reload
<1>4. ASSUME NEW pc \in {"reloaded", "done"}, To(w, pc)
      PROVE  \E j \in Job : Fine(j, asked) /\ work' = [work EXCEPT ![w] = j]
  BY <1>1, <1>4, Loaded, GoesOn DEF Pcs
<1> QED
  BY <1>1, <1>2, <1>3, <1>4, ReadTyped

LEMMA AuditTyped ==
  ASSUME TypeOK, NEW w \in Workers, Audit(w)
  PROVE  TypeOK'
<1>1. ~ At(w, "idle") /\ ~ At(w, "arrived")
  BY DEF Audit, At
<1>2. /\ UNCHANGED <<packages, variants, recorded, asked, budget, trusted, denied>>
      /\ audited' = audited \cup {work[w].n} /\ To(w, "done")
  BY DEF Audit, tables, clients, history
<1>3. PICK j \in Job : Fine(j, asked) /\ work' = [work EXCEPT ![w] = j]
  BY <1>1, <1>2, Loaded, GoesOn DEF Pcs
<1>4. work[w].n \in DOMAIN asked
  BY <1>1, InHand
<1>5. Schema'
  BY <1>2, TypeParts DEF Schema
<1> QED
  BY <1>2, <1>3, <1>4, <1>5, TypeParts, OneWorks

LEMMA RecordTyped ==
  ASSUME TypeOK, NEW w \in Workers, Record(w)
  PROVE  TypeOK'
<1>1. ~ At(w, "idle")
  BY DEF Record, At
<1>2. /\ UNCHANGED <<packages, variants, audited, asked, budget, trusted, denied>>
      /\ recorded' = recorded \cup {work[w].n} /\ work' = [work EXCEPT ![w] = Idle]
  BY DEF Record, tables, clients, history
<1>3. work[w].n \in DOMAIN asked
  BY <1>1, InHand
<1>4. Schema'
  BY <1>2, TypeParts DEF Schema
<1> QED
  BY <1>2, <1>3, <1>4, IdleFine, TypeParts, OneWorks

LEMMA StopTyped ==
  ASSUME TypeOK, NEW w \in Workers, Stop(w)
  PROVE  TypeOK'
<1>1. /\ UNCHANGED <<packages, variants, audited, recorded, asked, trusted, denied>>
      /\ work' = [work EXCEPT ![w] = Idle] /\ Spend("fail")
  BY DEF Stop, tables, trail, history
<1>2. budget' \in Budget
  BY <1>1, Spends
<1>3. Schema'
  BY <1>1, TypeParts DEF Schema
<1> QED
  BY <1>1, <1>2, <1>3, IdleFine, TypeParts, OneWorks

-----------------------------------------------------------------------------
(* What a step of a worker does to the tables and to the others *)

\* The steps that change neither table.
Calmly(w) ==
  \/ Load(w) \/ Gate(w) \/ Validate(w) \/ Count(w) \/ FindDuplicate(w)
  \/ LoadVariant(w) \/ Reload(w) \/ Audit(w) \/ Record(w) \/ Stop(w)
  \/ TurnAway(w) \/ (\E n \in DOMAIN asked : AskAgain(w, n))

Step(w) ==
  \/ \E r \in Sensible : Ask(w, r)
  \/ Calmly(w)
  \/ Create(w) \/ Update(w) \/ Delete(w) \/ Publish(w) \/ Unpublish(w)
  \/ Insert(w) \/ ChangeVariant(w) \/ RemoveVariant(w)

LEMMA NextIsStep == Next <=> \E w \in Workers : Step(w)
<1>1. ASSUME NEW w \in Workers
      PROVE  Step(w) <=> \/ \E r \in Sensible : Ask(w, r)
                         \/ \E n \in DOMAIN asked : AskAgain(w, n)
                         \/ TurnAway(w) \/ Advance(w) \/ Stop(w)
  BY DEF Step, Calmly, Advance
<1> QED
  BY <1>1 DEF Next

LEMMA CalmIsCalm ==
  ASSUME NEW w \in Workers, Calmly(w)
  PROVE  UNCHANGED <<packages, variants, asked, trusted>>
<1>1. CASE Load(w)
  BY <1>1 DEF Load, tables, clients
<1>2. CASE Gate(w)
  BY <1>2 DEF Gate, tables, clients, history
<1>3. CASE Validate(w)
  BY <1>3 DEF Validate, tables, clients
<1>4. CASE Count(w) \/ FindDuplicate(w) \/ LoadVariant(w)
  BY <1>4 DEF Count, FindDuplicate, LoadVariant, tables, clients
<1>5. CASE Reload(w) \/ Audit(w) \/ Record(w)
  BY <1>5 DEF Reload, Audit, Record, tables, clients, history
<1>6. CASE Stop(w) \/ TurnAway(w)
  BY <1>6 DEF Stop, TurnAway, tables, history, vars
<1>7. CASE \E n \in DOMAIN asked : AskAgain(w, n)
  BY <1>7 DEF AskAgain, tables, history
<1> QED
  BY <1>1, <1>2, <1>3, <1>4, <1>5, <1>6, <1>7 DEF Calmly

\* TypeOK alone is not inductive: publish trusts its request to be about a
\* package that is or was there.
LEMMA TypeStep ==
  ASSUME TypeOK, Known, [Next]_vars
  PROVE  TypeOK'
<1>1. ASSUME NEW w \in Workers, Step(w)
      PROVE  TypeOK'
  <2>1. CASE \E r \in Sensible : Ask(w, r)
    BY <2>1, AskTyped
  <2>2. CASE \E n \in DOMAIN asked : AskAgain(w, n)
    BY <2>2, AskAgainTyped
  <2>3. CASE Create(w) \/ Update(w) \/ Delete(w) \/ Publish(w) \/ Unpublish(w)
    BY <2>3, CreateTyped, UpdateTyped, DeleteTyped, PublishTyped, UnpublishTyped
  <2>4. CASE Insert(w) \/ ChangeVariant(w) \/ RemoveVariant(w)
    BY <2>4, InsertTyped, ChangeVariantTyped, RemoveVariantTyped
  <2>5. CASE Load(w) \/ Gate(w) \/ Validate(w) \/ Count(w) \/ FindDuplicate(w)
    BY <2>5, LoadTyped, GateTyped, ValidateTyped, CountTyped
  <2>6. CASE LoadVariant(w) \/ Reload(w) \/ Audit(w) \/ Record(w) \/ Stop(w)
    BY <2>6, LoadVariantTyped, ReloadTyped, AuditTyped, RecordTyped, StopTyped
  <2>7. CASE TurnAway(w)
    <3>1. UNCHANGED vars
      BY <2>7 DEF TurnAway
    <3> QED
      BY <3>1, TypeParts, TypePartsNext DEF vars, Schema
  <2> QED
    BY <1>1, <2>1, <2>2, <2>3, <2>4, <2>5, <2>6, <2>7 DEF Step, Calmly
<1>2. CASE UNCHANGED vars
  BY <1>2, TypeParts, TypePartsNext DEF vars, Schema
<1> QED
  BY <1>1, <1>2, NextIsStep

\* Requests are only added.
LEMMA AskedGrows ==
  ASSUME TypeOK, NEW w \in Workers, Step(w)
  PROVE  /\ DOMAIN asked \subseteq DOMAIN asked'
         /\ \A n \in DOMAIN asked : asked'[n] = asked[n]
         /\ \/ asked' = asked
            \/ \E r \in Sensible : /\ DOMAIN asked' = DOMAIN asked \cup {Len(asked) + 1}
                                   /\ asked'[Len(asked) + 1] = r
<1>1. CASE \E r \in Sensible : Ask(w, r)
  <2>1. PICK r \in Sensible : Ask(w, r)
    BY <1>1
  <2>2. r \in Requests /\ asked \in Seq(Requests) /\ asked' = Append(asked, r)
    BY <2>1, SensibleIsRequest, TypeParts DEF Ask
  <2>3. /\ asked' \in Seq(Requests) /\ Len(asked') = Len(asked) + 1
        /\ \A n \in 1 .. Len(asked) : asked'[n] = asked[n]
        /\ asked'[Len(asked) + 1] = r
    BY <2>2, AppendProperties
  <2>4. /\ DOMAIN asked = 1 .. Len(asked) /\ Len(asked) \in Nat
        /\ DOMAIN asked' = 1 .. Len(asked) + 1
    BY <2>2, <2>3
  <2> QED
    BY <2>3, <2>4
<1>2. CASE Calmly(w)
  BY <1>2, CalmIsCalm
<1>3. CASE Create(w) \/ Update(w) \/ Delete(w) \/ Publish(w) \/ Unpublish(w)
  BY <1>3 DEF Create, Update, Delete, Publish, Unpublish, clients
<1>4. CASE Insert(w) \/ ChangeVariant(w) \/ RemoveVariant(w)
  BY <1>4 DEF Insert, ChangeVariant, RemoveVariant, clients
<1> QED
  BY <1>1, <1>2, <1>3, <1>4 DEF Step

\* What a step may do to a package's row.
RowStep(w, p) ==
  /\ p \in DOMAIN packages'
  /\ packages'[p] # None =>
       /\ packages[p] # None
       /\ \/ packages'[p].status = packages[p].status
          \/ At(w, "checked") /\ packages'[p].status = "PUBLISHED"
          \/ /\ At(w, "gated") /\ Op(w) = "unpublish" /\ Request(w).p = p
             /\ packages'[p].status = "UNPUBLISHED"

LEMMA RowSteps ==
  ASSUME TypeOK, NEW w \in Workers, Step(w), NEW p \in DOMAIN packages
  PROVE  RowStep(w, p)
<1>1. packages \in Seq(Row \cup {None})
  BY TypeParts
<1>2. CASE packages' = packages
  BY <1>2 DEF RowStep
<1>3. CASE Create(w) /\ packages' # packages
  <2>1. packages' = Append(packages, [status |-> "DRAFT", details |-> Request(w).details])
    BY <1>3 DEF Create
  <2>2. ~ At(w, "idle") /\ Op(w) = "create"
    BY <1>3 DEF Create, At
  <2>3. [status |-> "DRAFT", details |-> Request(w).details] \in Row \cup {None}
    BY <2>2, InHand, RequestFields DEF Row, Statuses
  <2>4. DOMAIN packages = 1 .. Len(packages) /\ Len(packages) \in Nat
    BY <1>1
  <2>5. /\ packages'[p] = packages[p]
        /\ DOMAIN packages' = 1 .. Len(packages) + 1
    BY <1>1, <2>1, <2>3, <2>4, AppendProperties
  <2> QED
    BY <2>4, <2>5 DEF RowStep
<1>4. CASE Update(w)
  <2> DEFINE q == Request(w).p
             row == [packages[q] EXCEPT !.details = Request(w).details]
  <2>1. packages' = IF There(q) THEN [packages EXCEPT ![q] = row] ELSE packages
    BY <1>4 DEF Update, Edited
  <2>2. There(q) => row.status = packages[q].status
    BY <1>1 DEF There, Row
  <2> HIDE DEF q, row
  <2> QED
    BY <1>1, <2>1, <2>2 DEF RowStep, There
<1>5. CASE Delete(w)
  <2>1. packages' = [packages EXCEPT ![Request(w).p] = None]
    BY <1>5 DEF Delete
  <2> QED
    BY <1>1, <2>1 DEF RowStep
<1>6. ASSUME NEW s \in Statuses, SetStatus(Request(w).p, s)
      PROVE  /\ p \in DOMAIN packages'
             /\ packages'[p] # None =>
                  /\ packages[p] # None
                  /\ \/ packages'[p] = packages[p]
                     \/ packages'[p].status = s /\ Request(w).p = p
  <2> DEFINE q == Request(w).p
             row == [packages[q] EXCEPT !.status = s]
  <2>1. packages' = IF There(q) THEN [packages EXCEPT ![q] = row] ELSE packages
    BY <1>6 DEF SetStatus
  <2>2. There(q) => row.status = s
    BY <1>1 DEF There, Row
  <2>3. q = Request(w).p
    OBVIOUS
  <2> HIDE DEF q, row
  <2>4. CASE ~ There(q)
    BY <2>1, <2>4
  <2>5. CASE There(q)
    <3>1. packages' = [packages EXCEPT ![q] = row]
      BY <2>1, <2>5
    <3>2. CASE p = q
      <4>1. packages'[p] = row
        BY <1>1, <3>1, <3>2
      <4> QED
        BY <1>1, <2>2, <2>3, <2>5, <3>1, <3>2, <4>1 DEF There
    <3>3. CASE p # q
      BY <1>1, <3>1, <3>3
    <3> QED
      BY <3>2, <3>3
  <2> QED
    BY <2>4, <2>5
<1>7. CASE Publish(w)
  BY <1>6, <1>7 DEF Publish, RowStep, Statuses
<1>8. CASE Unpublish(w)
  BY <1>6, <1>8 DEF Unpublish, RowStep, Statuses
<1>9. CASE \E r \in Sensible : Ask(w, r)
  BY <1>2, <1>9 DEF Ask, tables
<1>10. CASE Calmly(w)
  BY <1>2, <1>10, CalmIsCalm
<1>11. CASE Insert(w) \/ ChangeVariant(w) \/ RemoveVariant(w)
  BY <1>2, <1>11 DEF Insert, ChangeVariant, RemoveVariant
<1> QED
  BY <1>2, <1>3, <1>4, <1>5, <1>7, <1>8, <1>9, <1>10, <1>11 DEF Step

\* What a step may do to a variant's row: unless a link of its package is
\* written, it stays or goes.
Shrinks ==
  \A v \in DOMAIN variants' : variants'[v] # None =>
     v \in DOMAIN variants /\ variants'[v] = variants[v]

LEMMA VariantsShrink ==
  ASSUME TypeOK, NEW w \in Workers, Step(w), ~ Insert(w), ~ ChangeVariant(w)
  PROVE  Shrinks /\ DOMAIN variants' = DOMAIN variants
<1>1. variants \in Seq(Variant \cup {None})
  BY TypeParts
<1>2. CASE variants' = variants
  BY <1>2 DEF Shrinks
<1>3. CASE Delete(w)
  BY <1>1, <1>3 DEF Delete, Shrinks
<1>4. CASE RemoveVariant(w) /\ variants' # variants
  <2>1. variants' = [variants EXCEPT ![Request(w).v] = None]
    BY <1>4 DEF RemoveVariant
  <2> QED
    BY <1>1, <2>1 DEF Shrinks
<1>5. CASE Calmly(w)
  BY <1>2, <1>5, CalmIsCalm
<1>6. CASE \E r \in Sensible : Ask(w, r)
  BY <1>2, <1>6 DEF Ask, tables
<1>7. CASE Create(w) \/ Update(w) \/ Publish(w) \/ Unpublish(w)
  BY <1>2, <1>7 DEF Create, Update, Publish, Unpublish
<1> QED
  BY <1>2, <1>3, <1>4, <1>5, <1>6, <1>7 DEF Step

\* The others' requests stay where they are.
LEMMA Bystander ==
  ASSUME TypeOK, NEW w \in Workers, Step(w), NEW v \in Workers, v # w
  PROVE  /\ work'[v].pc = work[v].pc
         /\ work[v].pc # "idle" =>
              /\ work'[v].n = work[v].n
              /\ work'[v].known = work[v].known
              /\ work'[v].clean => work[v].clean
<1>1. work \in [Workers -> {Idle} \cup Job]
  BY TypeParts
<1>2. CASE Insert(w) \/ ChangeVariant(w)
  <2>1. \/ work'[v] = work[v]
        \/ ~ At(v, "idle") /\ work'[v] = [work[v] EXCEPT !.clean = FALSE]
    <3>1. CASE Deny(w)
      BY <1>1, <3>1 DEF Deny
    <3>2. ASSUME NEW p, NEW pc, Written(w, p, pc)
          PROVE  \/ work'[v] = work[v]
                 \/ ~ At(v, "idle") /\ work'[v] = [work[v] EXCEPT !.clean = FALSE]
      BY <3>2 DEF Written
    <3> QED
      BY <1>2, <3>1, <3>2 DEF Insert, ChangeVariant
  <2>2. CASE work'[v] = work[v]
    BY <2>2
  <2>3. CASE ~ At(v, "idle") /\ work'[v] = [work[v] EXCEPT !.clean = FALSE]
    BY <2>3, InHand DEF Job
  <2> QED
    BY <2>1, <2>2, <2>3
<1>3. CASE ~ Insert(w) /\ ~ ChangeVariant(w)
  <2>1. work'[v] = work[v]
    <3>1. CASE \/ Create(w) \/ Update(w) \/ Delete(w) \/ Publish(w) \/ Unpublish(w)
               \/ RemoveVariant(w) \/ Reload(w) \/ Audit(w) \/ Record(w)
      BY <1>1, <3>1 DEF Create, Update, Delete, Publish, Unpublish, RemoveVariant,
                        Reload, Audit, Record, To, Deny
    <3>2. CASE \/ Load(w) \/ Gate(w) \/ Validate(w) \/ Count(w) \/ FindDuplicate(w)
               \/ LoadVariant(w) \/ Stop(w)
      BY <1>1, <3>2 DEF Load, Gate, Validate, Count, FindDuplicate, LoadVariant, Stop, To, Deny
    <3>3. CASE TurnAway(w) \/ (\E n \in DOMAIN asked : AskAgain(w, n))
      BY <1>1, <3>3 DEF TurnAway, AskAgain, vars
    <3>4. CASE \E r \in Sensible : Ask(w, r)
      BY <1>1, <3>4 DEF Ask
    <3> QED
      BY <1>3, <3>1, <3>2, <3>3, <3>4 DEF Step, Calmly
  <2> QED
    BY <2>1
<1> QED
  BY <1>2, <1>3

\* The worker's own request goes from one statement to the next.
Onward(w) ==
  /\ ~ At(w, "idle")
  /\ asked' = asked
  /\ work'[w].n = work[w].n
  /\ work'[w].known = work[w].known
  /\ work'[w].pc # "arrived"
  /\ work'[w].pc = "loaded" => Load(w)
  /\ work'[w].pc = "gated" => Gate(w)
  /\ work'[w].pc = "checked" => Validate(w)
  /\ work'[w].pc = "counted" => Count(w)
  /\ work'[w].pc = "unique" => FindDuplicate(w)
  /\ work'[w].pc = "read" => LoadVariant(w)

LEMMA Actor ==
  ASSUME TypeOK, NEW w \in Workers, Step(w), work'[w].pc # "idle"
  PROVE  \/ Onward(w)
         \/ /\ work'[w].pc = "arrived"
            /\ work'[w].known = (work'[w].n \in recorded)
<1>1. work \in [Workers -> {Idle} \cup Job]
  BY TypeParts
<1>2. ~ At(w, "idle") => work[w] \in Job
  BY InHand
<1>3. ~ Deny(w) /\ work' # [work EXCEPT ![w] = Idle]
  BY <1>1 DEF Deny, Idle
<1>4. ASSUME NEW pc, To(w, pc), ~ At(w, "idle")
      PROVE  /\ work'[w].pc = pc
             /\ work'[w].n = work[w].n
             /\ work'[w].known = work[w].known
  <2>1. work'[w] = [work[w] EXCEPT !.pc = pc]
    BY <1>1, <1>4 DEF To
  <2> QED
    BY <1>2, <1>4, <2>1 DEF Job
<1>5. CASE \E r \in Sensible : Ask(w, r)
  <2>1. work' = [work EXCEPT ![w] = Arrival(Len(asked) + 1)]
    BY <1>5 DEF Ask
  <2> QED
    BY <1>1, <2>1 DEF Arrival
<1>6. CASE \E n \in DOMAIN asked : AskAgain(w, n)
  <2>1. PICK n \in DOMAIN asked : work' = [work EXCEPT ![w] = Arrival(n)]
    BY <1>6 DEF AskAgain
  <2> QED
    BY <1>1, <2>1 DEF Arrival
<1>7. CASE Load(w)
  <2>1. ~ At(w, "idle") /\ asked' = asked
    BY <1>7 DEF Load, At, clients
  <2>2. CASE To(w, "loaded")
    BY <1>4, <1>7, <2>1, <2>2 DEF Onward
  <2>3. CASE work' = [work EXCEPT ![w].pc = "loaded", ![w].seen = packages[Request(w).p]]
    <3>1. work'[w] = [work[w] EXCEPT !.pc = "loaded", !.seen = packages[Request(w).p]]
      BY <1>1, <2>3
    <3>2. work'[w].pc = "loaded" /\ work'[w].n = work[w].n /\ work'[w].known = work[w].known
      BY <1>2, <2>1, <3>1 DEF Job
    <3> QED
      BY <1>7, <2>1, <3>2 DEF Onward
  <2> QED
    BY <1>3, <1>7, <2>2, <2>3 DEF Load
<1>8. CASE Gate(w)
  <2>1. ~ At(w, "idle") /\ asked' = asked /\ To(w, "gated")
    BY <1>3, <1>8 DEF Gate, At, clients
  <2> QED
    BY <1>4, <1>8, <2>1 DEF Onward
<1>9. CASE Validate(w)
  <2>1. /\ ~ At(w, "idle") /\ asked' = asked
        /\ work' = [work EXCEPT ![w].pc = "checked", ![w].clean = TRUE]
    BY <1>3, <1>9 DEF Validate, At, clients
  <2>2. work'[w] = [work[w] EXCEPT !.pc = "checked", !.clean = TRUE]
    BY <1>1, <2>1
  <2>3. work[w] \in Job
    BY <1>2, <2>1
  <2>4. work'[w].pc = "checked" /\ work'[w].n = work[w].n /\ work'[w].known = work[w].known
    BY <2>2, <2>3 DEF Job
  <2> QED
    BY <1>9, <2>1, <2>4 DEF Onward
<1>10. CASE Count(w)
  <2>1. ~ At(w, "idle") /\ asked' = asked /\ To(w, "counted")
    BY <1>3, <1>10 DEF Count, At, clients
  <2> QED
    BY <1>4, <1>10, <2>1 DEF Onward
<1>11. CASE FindDuplicate(w)
  <2>1. ~ At(w, "idle") /\ asked' = asked /\ To(w, "unique")
    BY <1>3, <1>11 DEF FindDuplicate, At, clients
  <2> QED
    BY <1>4, <1>11, <2>1 DEF Onward
<1>12. CASE LoadVariant(w)
  <2> DEFINE links == variants[Request(w).v].links
  <2>1. /\ ~ At(w, "idle") /\ asked' = asked
        /\ work' = [work EXCEPT ![w].pc = "read", ![w].links = links]
    BY <1>3, <1>12 DEF LoadVariant, At, clients
  <2> HIDE DEF links
  <2>2. work'[w] = [work[w] EXCEPT !.pc = "read", !.links = links]
    BY <1>1, <2>1
  <2>3. work[w] \in Job
    BY <1>2, <2>1
  <2>4. work'[w].pc = "read" /\ work'[w].n = work[w].n /\ work'[w].known = work[w].known
    BY <2>2, <2>3 DEF Job
  <2> QED
    BY <1>12, <2>1, <2>4 DEF Onward
<1>13. CASE Insert(w) \/ ChangeVariant(w)
  <2>1. ~ At(w, "idle") /\ asked' = asked
    BY <1>13 DEF Insert, ChangeVariant, At, clients
  <2>2. \E pc \in {"done", "written"} : work'[w] = [work[w] EXCEPT !.pc = pc]
    BY <1>3, <1>13 DEF Insert, ChangeVariant, Written
  <2>3. work'[w].pc \in {"done", "written"} /\ work'[w].n = work[w].n /\ work'[w].known = work[w].known
    BY <1>2, <2>1, <2>2 DEF Job
  <2> QED
    BY <2>1, <2>3 DEF Onward
<1>14. CASE \/ Create(w) \/ Update(w) \/ Delete(w) \/ Publish(w) \/ Unpublish(w)
            \/ RemoveVariant(w) \/ Reload(w) \/ Audit(w)
  <2>1. ~ At(w, "idle") /\ asked' = asked
    BY <1>14 DEF Create, Update, Delete, Publish, Unpublish, RemoveVariant, Reload,
                 Audit, At, clients
  <2>2. \E pc \in {"written", "reloaded", "done"} : To(w, pc)
    BY <1>3, <1>14 DEF Create, Update, Delete, Publish, Unpublish, RemoveVariant,
                       Reload, Audit
  <2>3. /\ work'[w].pc \in {"written", "reloaded", "done"}
        /\ work'[w].n = work[w].n /\ work'[w].known = work[w].known
    BY <1>4, <2>1, <2>2
  <2> QED
    BY <2>1, <2>3 DEF Onward
<1>15. ~ Record(w) /\ ~ Stop(w)
  BY <1>3 DEF Record, Stop
<1>16. ~ TurnAway(w)
  BY DEF TurnAway, At, vars
<1> QED
  BY <1>5, <1>6, <1>7, <1>8, <1>9, <1>10, <1>11, <1>12, <1>13, <1>14, <1>15, <1>16
     DEF Step, Calmly

\* Ids are not used again, and variants do not change their package.
LEMMA VariantStep ==
  ASSUME TypeOK, NEW w \in Workers, Step(w), NEW v \in DOMAIN variants
  PROVE  /\ v \in DOMAIN variants'
         /\ variants'[v] # None =>
              variants[v] # None /\ variants'[v].package = variants[v].package
<1>1. variants \in Seq(Variant \cup {None})
  BY TypeParts
<1>2. CASE ~ Insert(w) /\ ~ ChangeVariant(w)
  BY <1>2, VariantsShrink DEF Shrinks
<1>3. CASE Insert(w)
  <2> DEFINE r == Request(w)
             row == [package |-> r.p, key |-> r.key, links |-> r.links]
  <2>1. CASE variants' = variants
    BY <2>1
  <2>2. CASE variants' = Append(variants, row)
    <3>1. ~ At(w, "idle") /\ At(w, "unique")
      BY <1>3 DEF Insert, At
    <3>2. r.op = "add" /\ r \in Requests
      BY <3>1, InHand DEF Fine, At
    <3>3. row \in Variant \cup {None}
      BY <3>2, RequestFields DEF Variant, Ids
    <3> HIDE DEF row
    <3>4. v \in 1 .. Len(variants) /\ Len(variants) \in Nat
      BY <1>1
    <3>5. DOMAIN variants' = 1 .. Len(variants) + 1 /\ variants'[v] = variants[v]
      BY <1>1, <2>2, <3>3, <3>4, AppendProperties
    <3> QED
      BY <3>4, <3>5
  <2> QED
    BY <1>3, <2>1, <2>2 DEF Insert
<1>4. CASE ChangeVariant(w)
  <2> DEFINE k == Request(w).v
             row == [variants[k] EXCEPT !.links = Changed(work[w].links, Request(w).links)]
  <2>1. variants' = IF variants[k] # None THEN [variants EXCEPT ![k] = row] ELSE variants
    BY <1>4 DEF ChangeVariant
  <2>2. k \in DOMAIN variants /\ variants[k] # None => row.package = variants[k].package
    BY <1>1 DEF Variant
  <2> HIDE DEF k, row
  <2>3. CASE variants[k] = None
    BY <2>1, <2>3
  <2>4. CASE variants[k] # None
    <3>1. variants' = [variants EXCEPT ![k] = row]
      BY <2>1, <2>4
    <3>2. CASE v = k
      <4>1. variants'[v] = row
        BY <1>1, <3>1, <3>2
      <4> QED
        BY <1>1, <2>2, <2>4, <3>1, <3>2, <4>1
    <3>3. CASE v # k
      BY <1>1, <3>1, <3>3
    <3> QED
      BY <3>2, <3>3
  <2> QED
    BY <2>3, <2>4
<1> QED
  BY <1>2, <1>3, <1>4

LEMMA KnownStep ==
  ASSUME TypeOK, Known, NEW w \in Workers, Step(w)
  PROVE  Known'
<1>1. DOMAIN packages \subseteq DOMAIN packages'
  BY RowSteps DEF RowStep
<1>2. DOMAIN variants \subseteq DOMAIN variants'
  BY VariantStep
<1>3. ASSUME NEW n \in DOMAIN asked'
      PROVE  /\ asked'[n].op # "create" => asked'[n].p \in DOMAIN packages'
             /\ asked'[n].op \in {"change", "remove"} => asked'[n].v \in DOMAIN variants'
  <2>1. CASE n \in DOMAIN asked
    <3>1. asked'[n] = asked[n]
      BY <2>1, AskedGrows
    <3> QED
      BY <1>1, <1>2, <2>1, <3>1 DEF Known
  <2>2. CASE n \notin DOMAIN asked
    <3>1. PICK r \in Sensible : asked'[n] = r
      BY <2>2, AskedGrows
    <3>2. /\ r.op # "create" => r.p \in DOMAIN packages
          /\ r.op \in {"change", "remove"} => r.v \in DOMAIN variants
      BY DEF Sensible
    <3> QED
      BY <1>1, <1>2, <3>1, <3>2
  <2> QED
    BY <2>1, <2>2
<1> QED
  BY <1>3 DEF Known

-----------------------------------------------------------------------------
(* Type correctness *)

\* The tables, the requests in hand and the schema's constraints keep their
\* form, whatever overlaps and fails.
THEOREM TypeCorrect == Spec => []TypeOK
<1>1. Init => TypeOK /\ Known
  BY InitTyped DEF Init, Known
<1>2. TypeOK /\ Known /\ [Next]_vars => (TypeOK /\ Known)'
  <2>1. ASSUME TypeOK, Known, UNCHANGED vars
        PROVE  Known'
    BY <2>1 DEF vars, Known
  <2> QED
    BY <2>1, TypeStep, KnownStep, NextIsStep
<1> QED
  BY <1>1, <1>2, PTL DEF Spec

-----------------------------------------------------------------------------
(* Status *)

\* What unpublish has loaded was published, and is no draft since.
NotDraft ==
  \A w \in Workers : work[w].pc \in {"loaded", "gated"} /\ Op(w) = "unpublish" =>
     LET row == packages[Request(w).p] IN row # None => row.status # "DRAFT"

LEMMA StatusStep ==
  ASSUME TypeOK, NotDraft, NEW w \in Workers, Step(w), NEW p \in DOMAIN packages,
         packages'[p] # None, packages'[p].status # packages[p].status
  PROVE  /\ packages[p] # None
         /\ <<packages[p].status, packages'[p].status>> \in Moves
<1>1. RowStep(w, p)
  BY RowSteps
<1>2. packages[p] # None /\ packages[p].status \in Statuses
  BY <1>1, TypeParts DEF RowStep, Row
<1>3. CASE packages'[p].status = "PUBLISHED"
  BY <1>2, <1>3 DEF Moves, Statuses
<1>4. CASE packages'[p].status # "PUBLISHED"
  <2>1. /\ At(w, "gated") /\ Op(w) = "unpublish" /\ Request(w).p = p
        /\ packages'[p].status = "UNPUBLISHED"
    BY <1>1, <1>4 DEF RowStep
  <2>2. packages[p].status # "DRAFT"
    BY <1>2, <2>1 DEF NotDraft, At
  <2> QED
    BY <1>2, <2>1, <2>2 DEF Moves, Statuses
<1> QED
  BY <1>3, <1>4

LEMMA NotDraftStep ==
  ASSUME TypeOK, Known, NotDraft, NEW w \in Workers, Step(w)
  PROVE  NotDraft'
<1> SUFFICES ASSUME NEW v \in Workers,
                    work'[v].pc \in {"loaded", "gated"},
                    asked'[work'[v].n].op = "unpublish",
                    packages'[asked'[work'[v].n].p] # None
             PROVE  packages'[asked'[work'[v].n].p].status # "DRAFT"
  BY DEF NotDraft, Op, Request
<1> DEFINE p == Request(v).p
<1>1. \/ Load(v) /\ v = w
      \/ work[v].pc \in {"loaded", "gated"}
  <2>1. CASE v = w
    BY <2>1, Actor DEF Onward, Gate, At
  <2>2. CASE v # w
    BY <2>2, Bystander
  <2> QED
    BY <2>1, <2>2
<1>2. ~ At(v, "idle") /\ work'[v].n = work[v].n
  <2>1. CASE v = w
    BY <2>1, Actor DEF Onward
  <2>2. CASE v # w
    BY <1>1, <2>2, Bystander DEF At
  <2> QED
    BY <2>1, <2>2
<1>3. /\ asked'[work'[v].n] = Request(v) /\ Op(v) = "unpublish"
      /\ p \in DOMAIN packages
  BY <1>2, InHand, AskedGrows DEF Known, Op
<1>4. CASE Load(v) /\ v = w
  <2>1. packages' = packages
    BY <1>4, CalmIsCalm DEF Calmly
  <2>2. There(p) /\ packages[p].status = "PUBLISHED"
    <3>1. work' # [work EXCEPT ![w] = Idle]
      BY <1>4, TypeParts DEF Idle
    <3> QED
      BY <1>3, <1>4, <3>1 DEF Load, Deny, AllowedFirst
  <2> QED
    BY <1>3, <2>1, <2>2
<1>5. CASE work[v].pc \in {"loaded", "gated"}
  <2>1. packages[p] # None => packages[p].status # "DRAFT"
    BY <1>3, <1>5 DEF NotDraft
  <2>2. packages'[p].status # packages[p].status =>
          packages[p] # None /\ <<packages[p].status, packages'[p].status>> \in Moves
    BY <1>3, StatusStep
  <2>3. packages[p] # None
    BY <1>3, RowSteps DEF RowStep
  <2> QED
    BY <1>3, <2>1, <2>2, <2>3 DEF Moves
<1> QED
  BY <1>1, <1>4, <1>5

\* A package's status moves only as the routes say, although each of them
\* writes it without looking at the row again.
THEOREM StatusOnlyMoves == Spec => StatusMoves
<1>1. Init => TypeOK /\ Known /\ NotDraft
  BY InitTyped DEF Init, Known, NotDraft, Idle
<1>2. TypeOK /\ Known /\ NotDraft /\ [Next]_vars => (TypeOK /\ Known /\ NotDraft)'
  <2>1. ASSUME TypeOK, Known, NotDraft, UNCHANGED vars
        PROVE  Known' /\ NotDraft'
    BY <2>1 DEF vars, Known, NotDraft, Op, Request
  <2> QED
    BY <2>1, TypeStep, KnownStep, NotDraftStep, NextIsStep
<1>3. ASSUME TypeOK, Known, NotDraft, [Next]_vars
      PROVE  [\A p \in DOMAIN packages :
                LET from == Status(p)
                    to == Status(p)'
                IN  from # to /\ to # None => <<from, to>> \in Moves]_vars
  <2>1. ASSUME NEW w \in Workers, Step(w), NEW p \in DOMAIN packages,
               Status(p) # Status(p)', Status(p)' # None
        PROVE  <<Status(p), Status(p)'>> \in Moves
    <3>1. packages'[p] # None /\ Status(p)' = packages'[p].status
      BY <2>1 DEF Status
    <3>2. packages[p] # None
      BY <1>3, <2>1, <3>1, RowSteps DEF RowStep
    <3>3. Status(p) = packages[p].status
      BY <3>2 DEF Status
    <3> QED
      BY <1>3, <2>1, <3>1, <3>3, StatusStep
  <2> QED
    BY <1>3, <2>1, NextIsStep
<1> QED
  BY <1>1, <1>2, <1>3, PTL DEF Spec, StatusMoves

-----------------------------------------------------------------------------
(* Retries *)

\* A request whose response was stored when it came in does not pass the gate;
\* if it is denied, it is unpublish or its package is gone.
Answered ==
  /\ \A w \in Workers : work[w].pc # "idle" /\ work[w].known =>
       work[w].n \in recorded /\ work[w].pc \in {"arrived", "loaded"}
  /\ \A n \in denied :
       \/ asked[n].op = "unpublish"
       \/ asked[n].op # "create" /\ packages[asked[n].p] = None

LEMMA RecordedGrows ==
  ASSUME NEW w \in Workers, Step(w)
  PROVE  recorded \subseteq recorded'
<1>1. CASE \E r \in Sensible : Ask(w, r)
  BY <1>1 DEF Ask, trail
<1>2. CASE \/ Create(w) \/ Update(w) \/ Delete(w) \/ Publish(w) \/ Unpublish(w)
           \/ Insert(w) \/ ChangeVariant(w) \/ RemoveVariant(w)
  BY <1>2 DEF Create, Update, Delete, Publish, Unpublish, Insert, ChangeVariant,
              RemoveVariant, trail
<1>3. CASE \/ Load(w) \/ Gate(w) \/ Validate(w) \/ Count(w) \/ FindDuplicate(w)
           \/ LoadVariant(w) \/ Reload(w) \/ Stop(w)
  BY <1>3 DEF Load, Gate, Validate, Count, FindDuplicate, LoadVariant, Reload, Stop, trail
<1>4. CASE Audit(w) \/ Record(w) \/ TurnAway(w) \/ (\E n \in DOMAIN asked : AskAgain(w, n))
  BY <1>4 DEF Audit, Record, TurnAway, AskAgain, trail, vars
<1> QED
  BY <1>1, <1>2, <1>3, <1>4 DEF Step, Calmly

LEMMA OnlyDenied ==
  ASSUME NEW w \in Workers, Step(w)
  PROVE  \/ denied' = denied
         \/ /\ denied' = denied \cup {n \in {work[w].n} : work[w].known}
            /\ ~ At(w, "idle")
            /\ Load(w) \/ work[w].pc \notin {"arrived", "loaded"}
<1>1. CASE \E r \in Sensible : Ask(w, r)
  BY <1>1 DEF Ask, history
<1>2. CASE \/ Update(w) \/ Delete(w) \/ Publish(w) \/ Unpublish(w)
           \/ Gate(w) \/ Audit(w) \/ Record(w) \/ Stop(w) \/ TurnAway(w)
           \/ (\E n \in DOMAIN asked : AskAgain(w, n))
  BY <1>2 DEF Update, Delete, Publish, Unpublish, Gate, Audit, Record, Stop,
              TurnAway, AskAgain, history, vars
<1>3. CASE \/ Create(w) \/ Validate(w) \/ Count(w) \/ FindDuplicate(w)
           \/ LoadVariant(w) \/ RemoveVariant(w) \/ Reload(w)
  BY <1>3 DEF Create, Validate, Count, FindDuplicate, LoadVariant, RemoveVariant,
              Reload, Deny, At
<1>4. CASE Insert(w) \/ ChangeVariant(w)
  BY <1>4 DEF Insert, ChangeVariant, Written, Deny, At
<1>5. CASE Load(w)
  BY <1>5 DEF Load, Deny, At
<1> QED
  BY <1>1, <1>2, <1>3, <1>4, <1>5 DEF Step, Calmly

LEMMA AnsweredStep ==
  ASSUME TypeOK, Known, Answered, NEW w \in Workers, Step(w)
  PROVE  Answered'
<1>1. ASSUME NEW v \in Workers, work'[v].pc # "idle", work'[v].known
      PROVE  work'[v].n \in recorded' /\ work'[v].pc \in {"arrived", "loaded"}
  <2>1. CASE v # w
    BY <1>1, <2>1, Bystander, RecordedGrows DEF Answered
  <2>2. CASE v = w /\ Onward(w)
    <3>1. work[w].n \in recorded /\ work[w].pc \in {"arrived", "loaded"}
      BY <1>1, <2>2 DEF Answered, Onward, At
    <3>2. work'[w].n \in recorded'
      BY <2>2, <3>1, RecordedGrows DEF Onward
    <3>3. ~ Gate(w) \/ work' = [work EXCEPT ![w] = Idle]
      BY <3>1 DEF Gate
    <3>4. ~ Gate(w)
      BY <1>1, <2>2, <3>3, TypeParts DEF Idle
    <3>5. work'[w].pc = "loaded"
      <4>1. CASE work[w].pc = "loaded"
        <5>1. Step(w) => Gate(w) \/ Stop(w)
          BY <4>1 DEF Step, Calmly, Ask, AskAgain, TurnAway, Load, Validate, Count,
             FindDuplicate, LoadVariant, Reload, Audit, Record, Create, Update, Delete,
             Publish, Unpublish, Insert, ChangeVariant, RemoveVariant, At
        <5>2. ~ Stop(w)
          BY <1>1, <2>2, TypeParts DEF Stop, Idle
        <5> QED
          BY <3>4, <5>1, <5>2
      <4>2. CASE work[w].pc = "arrived"
        <5>1. Step(w) => Load(w) \/ Stop(w)
          BY <4>2 DEF Step, Calmly, Ask, AskAgain, TurnAway, Gate, Validate, Count,
             FindDuplicate, LoadVariant, Reload, Audit, Record, Create, Update, Delete,
             Publish, Unpublish, Insert, ChangeVariant, RemoveVariant, At
        <5>2. ~ Stop(w) /\ ~ Deny(w)
          BY <1>1, <2>2, TypeParts DEF Stop, Deny, Idle
        <5>3. Load(w) /\ ~ Deny(w)
          BY <5>1, <5>2
        <5>4. work[w] \in Job
          BY <2>2, InHand DEF Onward
        <5>5. \/ To(w, "loaded")
              \/ work' = [work EXCEPT ![w].pc = "loaded", ![w].seen = packages[Request(w).p]]
          BY <5>3 DEF Load
        <5>6. \/ work'[w] = [work[w] EXCEPT !.pc = "loaded"]
              \/ work'[w] = [work[w] EXCEPT !.pc = "loaded", !.seen = packages[Request(w).p]]
          BY <5>5, TypeParts DEF To
        <5> QED
          BY <5>4, <5>6 DEF Job
      <4> QED
        BY <3>1, <4>1, <4>2
    <3> QED
      BY <2>2, <3>2, <3>5
  <2>3. CASE v = w /\ ~ Onward(w)
    BY <1>1, <2>3, Actor, RecordedGrows
  <2> QED
    BY <2>1, <2>2, <2>3
<1>2. ASSUME NEW n \in denied'
      PROVE  \/ asked'[n].op = "unpublish"
             \/ asked'[n].op # "create" /\ packages'[asked'[n].p] = None
  <2>1. CASE n \in denied
    <3>1. n \in DOMAIN asked /\ asked'[n] = asked[n]
      BY <2>1, TypeParts, AskedGrows
    <3>2. CASE asked[n].op # "unpublish"
      <4>1. asked[n].op # "create" /\ packages[asked[n].p] = None
        BY <2>1, <3>2 DEF Answered
      <4>2. asked[n].p \in DOMAIN packages
        BY <3>1, <4>1 DEF Known
      <4>3. packages'[asked[n].p] = None
        BY <4>1, <4>2, RowSteps DEF RowStep
      <4> QED
        BY <3>1, <4>1, <4>3
    <3> QED
      BY <3>1, <3>2
  <2>2. CASE n \notin denied
    <3>1. /\ n = work[w].n /\ work[w].known /\ ~ At(w, "idle")
          /\ Load(w) \/ work[w].pc \notin {"arrived", "loaded"}
          /\ denied' # denied
      BY <2>2, OnlyDenied
    <3>2. Load(w)
      BY <3>1 DEF Answered, At
    <3>3. packages' = packages /\ asked' = asked
      BY <3>2, CalmIsCalm DEF Calmly
    <3>4. /\ Op(w) # "create"
          /\ ~ (There(Request(w).p) /\ AllowedFirst(Op(w), packages[Request(w).p]))
      BY <3>1, <3>2 DEF Load
    <3>5. asked[n] = Request(w) /\ Op(w) = asked[n].op /\ n \in DOMAIN asked
      BY <3>1, InHand
    <3>6. asked[n].p \in DOMAIN packages
      BY <3>4, <3>5 DEF Known
    <3> QED
      BY <3>3, <3>4, <3>5, <3>6 DEF There, AllowedFirst
  <2> QED
    BY <2>1, <2>2
<1> QED
  BY <1>1, <1>2 DEF Answered

\* A stored response is given again, unless the routes' own first questions
\* stand before it.
THEOREM RetriesAnswered == Spec => []RetryAnswered
<1>1. Init => TypeOK /\ Known /\ Answered
  BY InitTyped DEF Init, Known, Answered, Idle
<1>2. TypeOK /\ Known /\ Answered /\ [Next]_vars => (TypeOK /\ Known /\ Answered)'
  <2>1. ASSUME TypeOK, Known, Answered, UNCHANGED vars
        PROVE  Known' /\ Answered'
    BY <2>1 DEF vars, Known, Answered
  <2> QED
    BY <2>1, TypeStep, KnownStep, AnsweredStep, NextIsStep
<1>3. Answered => RetryAnswered
  BY DEF Answered, RetryAnswered, There
<1> QED
  BY <1>1, <1>2, <1>3, PTL DEF Spec

-----------------------------------------------------------------------------
(* Publication *)

AllLocal(p) == \A v \in VariantsOf(p) : Local(variants[v].links)

\* What is trusted, and what a publication has just read, is linked within the
\* facility; a variant loaded for a change is of the package it was found in.
Checked ==
  /\ \A p \in trusted : AllLocal(p)
  /\ \A w \in Workers : At(w, "checked") /\ work[w].clean => AllLocal(Request(w).p)
  /\ \A w \in Workers : At(w, "read") =>
       LET r == Request(w)
       IN  /\ r.v \in DOMAIN variants
           /\ variants[r.v] # None => variants[r.v].package = r.p

\* Packages one of whose links a step writes.
WritesLink(w, p) ==
  /\ Insert(w) \/ ChangeVariant(w)
  /\ ~ Deny(w)
  /\ Request(w).p = p

LEMMA LocalStays ==
  ASSUME TypeOK, Checked, NEW w \in Workers, Step(w),
         NEW p, AllLocal(p), ~ WritesLink(w, p)
  PROVE  AllLocal(p)'
<1>1. ASSUME NEW v \in DOMAIN variants', variants'[v] # None, variants'[v].package = p
      PROVE  /\ v \in DOMAIN variants
             /\ variants'[v] = variants[v]
  <2>1. variants \in Seq(Variant \cup {None})
    BY TypeParts
  <2>2. CASE ~ Insert(w) /\ ~ ChangeVariant(w)
    BY <1>1, <2>2, VariantsShrink DEF Shrinks
  <2>3. CASE Deny(w) /\ (Insert(w) \/ ChangeVariant(w))
    <3>1. work'[w] = Idle
      BY <2>3, TypeParts DEF Deny
    <3>2. \A q, pc : pc \in {"done", "written"} => ~ Written(w, q, pc)
      <4>1. ASSUME NEW q, NEW pc \in {"done", "written"}, Written(w, q, pc)
            PROVE  FALSE
        <5>1. ~ At(w, "idle")
          BY <2>3 DEF Insert, ChangeVariant, At
        <5>2. work[w] \in Job
          BY <5>1, InHand
        <5>3. work'[w] = [work[w] EXCEPT !.pc = pc]
          BY <4>1 DEF Written
        <5>4. work'[w].pc = pc
          BY <5>2, <5>3 DEF Job
        <5> QED
          BY <3>1, <5>4 DEF Idle
      <4> QED
        BY <4>1
    <3>3. variants' = variants
      BY <2>3, <3>2 DEF Insert, ChangeVariant
    <3> QED
      BY <1>1, <3>3
  <2>4. CASE Insert(w) /\ ~ Deny(w)
    <3> DEFINE r == Request(w)
               row == [package |-> r.p, key |-> r.key, links |-> r.links]
    <3>1. ~ At(w, "idle") /\ At(w, "unique")
      BY <2>4 DEF Insert, At
    <3>2. r.op = "add" /\ r \in Requests
      BY <3>1, InHand DEF Fine, At
    <3>3. row \in Variant \cup {None}
      BY <3>2, RequestFields DEF Variant, Ids
    <3>4. variants' = Append(variants, row)
      BY <2>4 DEF Insert
    <3>5. row.package # p
      BY <2>4 DEF WritesLink
    <3> HIDE DEF row
    <3>6. DOMAIN variants = 1 .. Len(variants) /\ Len(variants) \in Nat
      BY <2>1
    <3>7. /\ DOMAIN variants' = 1 .. Len(variants) + 1
          /\ \A u \in 1 .. Len(variants) : variants'[u] = variants[u]
          /\ variants'[Len(variants) + 1] = row
      BY <2>1, <3>3, <3>4, <3>6, AppendProperties
    <3> QED
      BY <1>1, <3>5, <3>6, <3>7
  <2>5. CASE ChangeVariant(w) /\ ~ Deny(w)
    <3> DEFINE k == Request(w).v
               row == [variants[k] EXCEPT !.links = Changed(work[w].links, Request(w).links)]
    <3>1. /\ k \in DOMAIN variants
          /\ variants[k] # None => variants[k].package = Request(w).p
      BY <2>5 DEF Checked, ChangeVariant
    <3>2. Request(w).p # p
      BY <2>5 DEF WritesLink
    <3>3. variants' = IF variants[k] # None THEN [variants EXCEPT ![k] = row] ELSE variants
      BY <2>5 DEF ChangeVariant
    <3>4. variants[k] # None => row.package = variants[k].package
      BY <2>1, <3>1 DEF Variant
    <3> HIDE DEF k, row
    <3>5. CASE variants[k] = None
      BY <1>1, <3>3, <3>5
    <3>6. CASE variants[k] # None
      <4>1. variants' = [variants EXCEPT ![k] = row]
        BY <3>3, <3>6
      <4>2. v # k
        <5>1. variants'[k] = row
          BY <2>1, <3>1, <4>1
        <5> QED
          BY <1>1, <3>1, <3>2, <3>4, <3>6, <5>1
      <4> QED
        BY <1>1, <2>1, <4>1, <4>2
    <3> QED
      BY <3>5, <3>6
  <2> QED
    BY <2>2, <2>3, <2>4, <2>5
<1> QED
  BY <1>1 DEF AllLocal, VariantsOf

\* A publication that is past its check loses its mark.
LEMMA Unmarked ==
  ASSUME TypeOK, NEW w \in Workers, NEW p, WritesLink(w, p)
  PROVE  /\ trusted' = trusted \ {p}
         /\ \A v \in Workers : /\ v # w /\ At(v, "checked") /\ Request(v).p = p
                               => ~ work'[v].clean
<1>1. \E pc \in {"done", "written"} : Written(w, p, pc)
  BY DEF WritesLink, Insert, ChangeVariant
<1>2. ASSUME NEW v \in Workers, v # w, At(v, "checked"), Request(v).p = p
      PROVE  ~ work'[v].clean
  <2>1. ~ At(v, "idle")
    BY <1>2 DEF At
  <2>2. Op(v) = "publish" /\ work[v] \in Job
    BY <1>2, <2>1, InHand DEF Fine, At
  <2>3. work'[v] = [work[v] EXCEPT !.clean = FALSE]
    BY <1>1, <1>2, <2>1, <2>2 DEF Written
  <2> QED
    BY <2>2, <2>3 DEF Job
<1> QED
  BY <1>1, <1>2 DEF Written

\* Trust is only won by a publication.
LEMMA TrustStep ==
  ASSUME NEW w \in Workers, Step(w), NEW p \in trusted', ~ WritesLink(w, p)
  PROVE  p \in trusted \/ (At(w, "checked") /\ work[w].clean /\ p = Request(w).p)
<1>1. CASE Publish(w)
  BY <1>1 DEF Publish
<1>2. CASE Insert(w) \/ ChangeVariant(w)
  BY <1>2 DEF Insert, ChangeVariant, Written
<1>3. CASE Create(w) \/ Update(w) \/ Delete(w) \/ Unpublish(w) \/ RemoveVariant(w)
  BY <1>3 DEF Create, Update, Delete, Unpublish, RemoveVariant, history
<1>4. CASE Calmly(w)
  BY <1>4, CalmIsCalm
<1>5. CASE \E r \in Sensible : Ask(w, r)
  BY <1>5 DEF Ask, history
<1> QED
  BY <1>1, <1>2, <1>3, <1>4, <1>5 DEF Step

LEMMA CheckedStep ==
  ASSUME TypeOK, Known, Checked, NEW w \in Workers, Step(w)
  PROVE  Checked'
<1>1. ASSUME NEW p \in trusted'
      PROVE  AllLocal(p)'
  <2>1. CASE WritesLink(w, p)
    BY <1>1, <2>1, Unmarked
  <2>2. CASE ~ WritesLink(w, p)
    <3>1. AllLocal(p)
      BY <2>2, TrustStep DEF Checked
    <3> QED
      BY <2>2, <3>1, LocalStays
  <2> QED
    BY <2>1, <2>2
<1>2. ASSUME NEW v \in Workers, work'[v].pc = "checked", work'[v].clean,
             NEW p, p = asked'[work'[v].n].p
      PROVE  AllLocal(p)'
  <2>1. CASE v = w
    <3>1. Onward(w) /\ Validate(w)
      BY <1>2, <2>1, Actor DEF Onward
    <3>2. p = Request(w).p
      BY <1>2, <2>1, <3>1 DEF Onward, Request
    <3>3. ~ Deny(w)
      BY <1>2, <2>1, TypeParts DEF Deny, Idle
    <3>4. AllLocal(p)
      BY <3>1, <3>2, <3>3 DEF Validate, AllLocal
    <3>5. ~ WritesLink(w, p)
      BY <3>1 DEF WritesLink, Validate, Insert, ChangeVariant, At
    <3> QED
      BY <3>4, <3>5, LocalStays
  <2>2. CASE v # w
    <3>1. At(v, "checked") /\ work[v].clean /\ work'[v].n = work[v].n
      BY <1>2, <2>2, Bystander DEF At
    <3>2. p = Request(v).p
      <4>1. work[v].n \in DOMAIN asked
        BY <3>1, InHand DEF At
      <4> QED
        BY <1>2, <3>1, <4>1, AskedGrows DEF Request
    <3>3. AllLocal(p)
      BY <3>1, <3>2 DEF Checked
    <3>4. ~ WritesLink(w, p)
      BY <1>2, <2>2, <3>1, <3>2, Unmarked
    <3> QED
      BY <3>3, <3>4, LocalStays
  <2> QED
    BY <2>1, <2>2
<1>3. ASSUME NEW v \in Workers, work'[v].pc = "read", NEW r, r = asked'[work'[v].n]
      PROVE  /\ r.v \in DOMAIN variants'
             /\ variants'[r.v] # None => variants'[r.v].package = r.p
  <2>1. CASE v = w
    <3>1. Onward(w) /\ LoadVariant(w)
      BY <1>3, <2>1, Actor DEF Onward
    <3>2. r = Request(w) /\ ~ Deny(w)
      BY <1>3, <2>1, <3>1, TypeParts DEF Onward, Request, Deny, Idle
    <3>3. r.v \in VariantsOf(r.p) /\ variants' = variants
      BY <3>1, <3>2 DEF LoadVariant, tables
    <3> QED
      BY <3>3 DEF VariantsOf
  <2>2. CASE v # w
    <3>1. At(v, "read") /\ work'[v].n = work[v].n
      BY <1>3, <2>2, Bystander DEF At
    <3>2. r = Request(v)
      <4>1. work[v].n \in DOMAIN asked
        BY <3>1, InHand DEF At
      <4> QED
        BY <1>3, <3>1, <4>1, AskedGrows DEF Request
    <3>3. r.v \in DOMAIN variants /\ (variants[r.v] # None => variants[r.v].package = r.p)
      BY <3>1, <3>2 DEF Checked
    <3> QED
      BY <3>3, VariantStep
  <2> QED
    BY <2>1, <2>2
<1> QED
  BY <1>1, <1>2, <1>3 DEF Checked, At, Request

\* Nothing is published with links into another facility unless a variant was
\* written after the publication had read them all.
THEOREM PublicationHolds == Spec => []PublishedAsValidated
<1>1. Init => TypeOK /\ Known /\ Checked
  BY InitTyped DEF Init, Known, Checked, Idle, At
<1>2. TypeOK /\ Known /\ Checked /\ [Next]_vars => (TypeOK /\ Known /\ Checked)'
  <2>1. ASSUME TypeOK, Known, Checked, UNCHANGED vars
        PROVE  Known' /\ Checked'
    BY <2>1 DEF vars, Known, Checked, AllLocal, VariantsOf, At, Request
  <2> QED
    BY <2>1, TypeStep, KnownStep, CheckedStep, NextIsStep
<1>3. Checked => PublishedAsValidated
  BY DEF Checked, PublishedAsValidated, AllLocal, Local
<1> QED
  BY <1>1, <1>2, <1>3, PTL DEF Spec

-----------------------------------------------------------------------------
(* The cap *)

\* Creations past the count have their variant's place already.
Coming(p) == {w \in Workers : work[w].pc \in {"counted", "unique"} /\ Request(w).p = p}

Capped ==
  \A p \in Ids :
     Cardinality(VariantsOf(p)) + Cardinality(Coming(p))
       <= MaxVariants + Cardinality(Workers) - 1

LEMMA Sizes ==
  ASSUME TypeOK, NEW p
  PROVE  /\ IsFiniteSet(VariantsOf(p)) /\ Cardinality(VariantsOf(p)) \in Nat
         /\ IsFiniteSet(Coming(p)) /\ Cardinality(Coming(p)) \in Nat
         /\ Cardinality(Coming(p)) <= Cardinality(Workers)
         /\ Cardinality(Workers) \in Nat
<1>1. variants \in Seq(Variant \cup {None})
  BY TypeParts
<1>2. DOMAIN variants = 1 .. Len(variants) /\ Len(variants) \in Nat
  BY <1>1
<1>3. IsFiniteSet(1 .. Len(variants))
  BY <1>2, FS_Interval
<1>4. VariantsOf(p) \in SUBSET (1 .. Len(variants))
  BY <1>2 DEF VariantsOf
<1>5. IsFiniteSet(Workers) /\ Coming(p) \in SUBSET Workers
  BY ConstantsAssumption DEF Coming
<1>6. IsFiniteSet(VariantsOf(p)) /\ IsFiniteSet(Coming(p))
  BY <1>3, <1>4, <1>5, FS_Subset
<1> QED
  BY <1>5, <1>6, FS_Subset, FS_CardinalityType

\* Who is on the way to an insertion was so before, unless it has just counted.
LEMMA ComingStep ==
  ASSUME TypeOK, NEW w \in Workers, Step(w), NEW p,
         NEW v \in Coming(p)', v \notin Coming(p)
  PROVE  /\ v = w /\ Count(w) /\ ~ Deny(w) /\ Request(w).p = p
<1>1. /\ v \in Workers /\ work'[v].pc \in {"counted", "unique"}
      /\ asked'[work'[v].n].p = p
  BY DEF Coming, Request
<1>2. CASE v # w
  <2>1. work[v].pc \in {"counted", "unique"} /\ work'[v].n = work[v].n
    BY <1>1, <1>2, Bystander
  <2>2. work[v].n \in DOMAIN asked
    BY <1>1, <2>1, InHand DEF At
  <2>3. Request(v).p = p
    BY <1>1, <2>1, <2>2, AskedGrows DEF Request
  <2> QED
    BY <1>1, <2>1, <2>3 DEF Coming
<1>3. CASE v = w
  <2>1. Onward(w)
    BY <1>1, <1>3, Actor
  <2>2. Request(w).p = p
    BY <1>1, <1>3, <2>1 DEF Onward, Request
  <2>3. ~ FindDuplicate(w)
    BY <1>1, <1>3, <2>2 DEF FindDuplicate, Coming, At
  <2>4. Count(w)
    BY <1>1, <1>3, <2>1, <2>3 DEF Onward
  <2>5. ~ Deny(w)
    BY <1>1, <1>3, TypeParts DEF Deny, Idle
  <2> QED
    BY <1>3, <2>2, <2>4, <2>5
<1> QED
  BY <1>2, <1>3

LEMMA CappedStep ==
  ASSUME TypeOK, TypeOK', Capped, NEW w \in Workers, Step(w)
  PROVE  Capped'
<1> SUFFICES ASSUME NEW p \in Ids
             PROVE  Cardinality(VariantsOf(p)') + Cardinality(Coming(p)')
                      <= MaxVariants + Cardinality(Workers) - 1
  BY DEF Capped
<1>1. /\ IsFiniteSet(VariantsOf(p)) /\ Cardinality(VariantsOf(p)) \in Nat
      /\ IsFiniteSet(Coming(p)) /\ Cardinality(Coming(p)) \in Nat
      /\ Cardinality(Workers) \in Nat /\ MaxVariants \in Nat
  BY Sizes, ConstantsAssumption
<1>2. /\ IsFiniteSet(VariantsOf(p)') /\ Cardinality(VariantsOf(p)') \in Nat
      /\ IsFiniteSet(Coming(p)') /\ Cardinality(Coming(p)') \in Nat
      /\ Cardinality(Coming(p)') <= Cardinality(Workers)
  <2>1. variants' \in Seq(Variant \cup {None})
    BY TypePartsNext
  <2>2. DOMAIN variants' = 1 .. Len(variants') /\ Len(variants') \in Nat
    BY <2>1
  <2>3. IsFiniteSet(1 .. Len(variants'))
    BY <2>2, FS_Interval
  <2>4. VariantsOf(p)' \in SUBSET (1 .. Len(variants'))
    BY <2>2 DEF VariantsOf
  <2>5. IsFiniteSet(Workers) /\ Coming(p)' \in SUBSET Workers
    BY ConstantsAssumption DEF Coming
  <2>6. IsFiniteSet(VariantsOf(p)') /\ IsFiniteSet(Coming(p)')
    BY <2>3, <2>4, <2>5, FS_Subset
  <2> QED
    BY <2>5, <2>6, FS_Subset, FS_CardinalityType
<1>3. Cardinality(VariantsOf(p)) + Cardinality(Coming(p))
        <= MaxVariants + Cardinality(Workers) - 1
  BY DEF Capped
<1>4. CASE Count(w) /\ ~ Deny(w) /\ Request(w).p = p
  <2>1. Cardinality(VariantsOf(p)) + 1 <= MaxVariants /\ variants' = variants
    BY <1>4 DEF Count, VariantsFit, tables
  <2>2. VariantsOf(p)' = VariantsOf(p)
    BY <2>1 DEF VariantsOf
  <2> QED
    BY <1>1, <1>2, <2>1, <2>2
<1>5. CASE Insert(w) /\ variants' # variants /\ Request(w).p = p
  <2> DEFINE r == Request(w)
             row == [package |-> r.p, key |-> r.key, links |-> r.links]
             k == Len(variants) + 1
  <2>1. ~ At(w, "idle") /\ At(w, "unique")
    BY <1>5 DEF Insert, At
  <2>2. r.op = "add" /\ r \in Requests
    BY <2>1, InHand DEF Fine, At
  <2>3. row \in Variant \cup {None}
    BY <2>2, RequestFields DEF Variant, Ids
  <2>4. variants' = Append(variants, row) /\ Written(w, r.p, "done")
    BY <1>5 DEF Insert
  <2>5. variants \in Seq(Variant \cup {None})
    BY TypeParts
  <2> HIDE DEF row
  <2>6. DOMAIN variants = 1 .. Len(variants) /\ Len(variants) \in Nat
    BY <2>5
  <2>7. /\ DOMAIN variants' = 1 .. Len(variants) + 1
        /\ \A u \in 1 .. Len(variants) : variants'[u] = variants[u]
    BY <2>3, <2>4, <2>5, <2>6, AppendProperties
  <2>8. VariantsOf(p)' \subseteq VariantsOf(p) \cup {k}
    BY <2>6, <2>7 DEF VariantsOf
  <2>9. Cardinality(VariantsOf(p)') <= Cardinality(VariantsOf(p)) + 1
    <3>1. /\ IsFiniteSet(VariantsOf(p) \cup {k})
          /\ Cardinality(VariantsOf(p) \cup {k}) \in {Cardinality(VariantsOf(p)), Cardinality(VariantsOf(p)) + 1}
      BY <1>1, FS_AddElement
    <3>2. Cardinality(VariantsOf(p)') <= Cardinality(VariantsOf(p) \cup {k})
      BY <2>8, <3>1, FS_Subset
    <3> QED
      BY <1>1, <1>2, <3>1, <3>2
  <2>10. w \in Coming(p) /\ w \notin Coming(p)'
    <3>1. work'[w] = [work[w] EXCEPT !.pc = "done"] /\ work[w] \in Job
      BY <2>1, <2>4, InHand DEF Written
    <3>2. work'[w].pc = "done"
      BY <3>1 DEF Job
    <3> QED
      BY <1>5, <2>1, <3>2 DEF Coming, At
  <2>11. Coming(p)' \subseteq Coming(p) \ {w}
    BY <2>1, <2>10, ComingStep DEF Count, At
  <2>12. Cardinality(Coming(p)') <= Cardinality(Coming(p)) - 1
    <3>1. /\ IsFiniteSet(Coming(p) \ {w})
          /\ Cardinality(Coming(p) \ {w}) = Cardinality(Coming(p)) - 1
      BY <1>1, <2>10, FS_RemoveElement
    <3> QED
      BY <2>11, <3>1, FS_Subset
  <2> QED
    BY <1>1, <1>2, <1>3, <2>9, <2>12
<1>6. CASE /\ ~ (Count(w) /\ ~ Deny(w) /\ Request(w).p = p)
           /\ ~ (Insert(w) /\ variants' # variants /\ Request(w).p = p)
  <2>1. Coming(p)' \subseteq Coming(p)
    BY <1>6, ComingStep
  <2>2. VariantsOf(p)' \subseteq VariantsOf(p)
    <3>1. CASE ~ Insert(w)
      <4>1. DOMAIN variants' = DOMAIN variants
        <5>1. CASE ChangeVariant(w)
          BY <5>1, TypeParts DEF ChangeVariant
        <5>2. CASE ~ ChangeVariant(w)
          BY <3>1, <5>2, VariantsShrink
        <5> QED
          BY <5>1, <5>2
      <4> QED
        BY <4>1, VariantStep DEF VariantsOf
    <3>2. CASE Insert(w) /\ variants' = variants
      BY <3>2 DEF VariantsOf
    <3>3. CASE Insert(w) /\ variants' # variants /\ Request(w).p # p
      <4> DEFINE r == Request(w)
                 row == [package |-> r.p, key |-> r.key, links |-> r.links]
      <4>1. ~ At(w, "idle") /\ At(w, "unique")
        BY <3>3 DEF Insert, At
      <4>2. r.op = "add" /\ r \in Requests
        BY <4>1, InHand DEF Fine, At
      <4>3. row \in Variant \cup {None} /\ row.package # p
        BY <3>3, <4>2, RequestFields DEF Variant, Ids
      <4>4. variants' = Append(variants, row)
        BY <3>3 DEF Insert
      <4>5. variants \in Seq(Variant \cup {None})
        BY TypeParts
      <4> HIDE DEF row
      <4>6. DOMAIN variants = 1 .. Len(variants) /\ Len(variants) \in Nat
        BY <4>5
      <4>7. /\ DOMAIN variants' = 1 .. Len(variants) + 1
            /\ \A u \in 1 .. Len(variants) : variants'[u] = variants[u]
            /\ variants'[Len(variants) + 1] = row
        BY <4>3, <4>4, <4>5, <4>6, AppendProperties
      <4> QED
        BY <4>3, <4>6, <4>7 DEF VariantsOf
    <3> QED
      BY <1>6, <3>1, <3>2, <3>3
  <2>3. /\ Cardinality(Coming(p)') <= Cardinality(Coming(p))
        /\ Cardinality(VariantsOf(p)') <= Cardinality(VariantsOf(p))
    BY <1>1, <2>1, <2>2, FS_Subset
  <2> QED
    BY <1>1, <1>2, <1>3, <2>3
<1> QED
  BY <1>4, <1>5, <1>6

\* Creations that overlap pass the cap by less than the number of workers.
THEOREM CapHolds == Spec => []VariantCap
<1>1. Init => TypeOK /\ Known /\ Capped
  <2> SUFFICES ASSUME Init PROVE Capped
    BY InitTyped DEF Init, Known
  <2>1. ASSUME NEW p
        PROVE  VariantsOf(p) = {} /\ Coming(p) = {}
    BY DEF Init, VariantsOf, Coming, Idle
  <2>2. Cardinality({}) = 0 /\ Cardinality(Workers) \in Nat
    BY ConstantsAssumption, FS_EmptySet, FS_CardinalityType
  <2>3. MaxVariants \in Nat /\ MaxVariants >= 1
    BY ConstantsAssumption
  <2> QED
    BY <2>1, <2>2, <2>3 DEF Capped
<1>2. TypeOK /\ Known /\ Capped /\ [Next]_vars => (TypeOK /\ Known /\ Capped)'
  <2>1. ASSUME TypeOK, Known, Capped, UNCHANGED vars
        PROVE  Known' /\ Capped'
    BY <2>1 DEF vars, Known, Capped, VariantsOf, Coming, Request
  <2> QED
    BY <2>1, TypeStep, KnownStep, CappedStep, NextIsStep
<1>3. TypeOK /\ Capped => VariantCap
  <2> SUFFICES ASSUME TypeOK, Capped, NEW p \in DOMAIN packages
               PROVE  Cardinality(VariantsOf(p)) <= MaxVariants + Cardinality(Workers) - 1
    BY DEF VariantCap
  <2>1. p \in Ids
    BY TypeParts DEF Ids
  <2>2. Cardinality(VariantsOf(p)) + Cardinality(Coming(p))
          <= MaxVariants + Cardinality(Workers) - 1
    BY <2>1 DEF Capped
  <2>3. MaxVariants \in Nat
    BY ConstantsAssumption
  <2> QED
    BY <2>2, <2>3, Sizes
<1> QED
  BY <1>1, <1>2, <1>3, PTL DEF Spec
=============================================================================
