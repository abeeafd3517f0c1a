------------------------------ MODULE Attachments ------------------------------
(***************************************************************************)
(* The attachment store (services/attachments.rs) behind the upload and    *)
(* delete routes of lost-and-found items (handlers/lost_found.rs):         *)
(* attachments rows, the attachment_blobs rows they share by content hash, *)
(* with a reference count, and the files those name.  Every statement      *)
(* commits by itself and the file system takes part in no transaction.     *)
(*                                                                         *)
(* A content is a hash within a facility, so the items are those of one    *)
(* facility.  They exist throughout: an item is never removed from its     *)
(* table.  Decoding, resizing and the checks of the mime type come before  *)
(* the first statement.                                                    *)
(*                                                                         *)
(* A request is known by its number in `asked`: a client that repeats it   *)
(* sends the same X-Request-Id, and the table of Idempotency.tla is the    *)
(* set of the numbers with a stored response.                              *)
(***************************************************************************)
EXTENDS Integers, Sequences, FiniteSets, FiniteSetsExt

CONSTANTS
  Items, Contents,
  Size,         \* Size[c]: bytes of content c
  Workers,
  MaxFiles,     \* MAX_FILES_PER_PARENT
  MaxBytes,     \* MAX_BYTES_PER_PARENT
  Budgets,      \* bound: how many uploads and deletions there are, how many
                \* requests are sent again and how many fail on the way
  None          \* no row; a request that has loaded none

ASSUME ConstantsAssumption ==
  /\ IsFiniteSet(Workers) /\ Workers # {}
  /\ Size \in [Contents -> Nat]
  /\ MaxFiles \in Nat \ {0}
  /\ MaxBytes \in Nat
  /\ Budgets \subseteq [upload : Nat, delete : Nat, retry : Nat, fail : Nat]
  /\ None \notin Contents \cup Int \cup [item : Items, content : Contents]

VARIABLES
  rows,      \* attachments: rows[a] is the row with id a, None once deleted
  blobs,     \* attachment_blobs: blobs[c] is the reference count, or None
  files,     \* contents whose file is there
  audited,   \* attachments whose upload has an audit entry
  recorded,  \* requests with a stored response
  work,      \* work[w]: the request worker w handles and how far it is
  asked,     \* the requests clients have made
  budget,    \* what is left of the bounds
  clashed,   \* history: contents for which a deletion overlapped with an upload
             \* or with another deletion of the same attachment
  torn,      \* history: contents whose file went and whose blob row stayed
  left       \* history: contents a request that stopped was at work on

vars == <<rows, blobs, files, audited, recorded, work, asked, budget,
          clashed, torn, left>>

Row == [item : Items, content : Contents]

Uploads == [op : {"upload"}, item : Items, content : Contents]
Deletes == [op : {"delete"}, item : Items, id : Nat \ {0}]

UploadSteps ==
  {"counted", "summed", "absent", "written", "found", "referred", "inserted"}

DeleteSteps == {"loaded", "deleted", "unreferred", "last", "unlinked"}

\* n is the number of the request; content is what an upload brings or a
\* deletion has loaded; id is the row an upload has inserted, 0 before.
Job ==
  [pc : {"arrived", "gated", "done"} \cup UploadSteps \cup DeleteSteps,
   n : Nat \ {0}, content : Contents \cup {None}, id : Nat]

Idle == [pc |-> "idle"]

At(w, pc) == work[w].pc = pc

Request(w) == asked[work[w].n]

RowsOf(i) == {a \in DOMAIN rows : rows[a] # None /\ rows[a].item = i}

\* Rows of attachments refer to a blob row, as the foreign key has it.
TypeOK ==
  /\ rows \in Seq(Row \cup {None})
  /\ blobs \in [Contents -> Int \cup {None}]
  /\ files \subseteq Contents
  /\ audited \subseteq DOMAIN rows
  /\ recorded \subseteq DOMAIN asked
  /\ work \in [Workers -> {Idle} \cup Job]
  /\ \A w \in Workers : ~ At(w, "idle") =>
       /\ work[w].n \in DOMAIN asked
       /\ work[w].pc \in UploadSteps => Request(w).op = "upload"
       /\ work[w].pc \in DeleteSteps => Request(w).op = "delete"
       /\ work[w].pc \in UploadSteps \cup DeleteSteps => work[w].content # None
       /\ At(w, "inserted") => work[w].id \in DOMAIN rows
  /\ asked \in Seq(Uploads \cup Deletes)
  /\ budget \in [upload : Nat, delete : Nat, retry : Nat, fail : Nat]
  /\ clashed \subseteq Contents
  /\ torn \subseteq Contents
  /\ left \subseteq Contents
  /\ \A a \in DOMAIN rows : rows[a] # None => blobs[rows[a].content] # None

Init ==
  /\ rows = <<>>
  /\ blobs = [c \in Contents |-> None]
  /\ files = {}
  /\ audited = {}
  /\ recorded = {}
  /\ work = [w \in Workers |-> Idle]
  /\ asked = <<>>
  /\ budget \in Budgets
  /\ clashed = {}
  /\ torn = {}
  /\ left = {}

table   == <<rows, blobs, files, audited, recorded>>
clients == <<asked, budget>>
history == <<clashed, torn, left>>

To(w, pc) == work' = [work EXCEPT ![w].pc = pc]

End(w) == work' = [work EXCEPT ![w] = Idle]

-----------------------------------------------------------------------------
(* Clients, and the gate *)

\* One thing less of the kind may happen.
Spend(kind) ==
  /\ budget[kind] > 0
  /\ budget' = [budget EXCEPT ![kind] = @ - 1]

Arrival(n, r) ==
  [pc |-> "arrived", n |-> n,
   content |-> IF r.op = "upload" THEN r.content ELSE None, id |-> 0]

Ask(w, r) ==
  /\ At(w, "idle")
  /\ Spend(r.op)
  /\ r.op = "delete" => r.id \in DOMAIN rows
  /\ asked' = Append(asked, r)
  /\ work' = [work EXCEPT ![w] = Arrival(Len(asked) + 1, r)]
  /\ UNCHANGED <<table, history>>

\* An answer was lost, or is late.
AskAgain(w, n) ==
  /\ At(w, "idle")
  /\ Spend("retry")
  /\ work' = [work EXCEPT ![w] = Arrival(n, asked[n])]
  /\ UNCHANGED <<table, asked, history>>

\* check_before
Gate(w) ==
  /\ At(w, "arrived")
  /\ IF work[w].n \in recorded THEN End(w) ELSE To(w, "gated")
  /\ UNCHANGED <<table, clients, history>>

\* Refused before anything is read: the mime type, the encoding, the image.
TurnAway(w) ==
  /\ At(w, "idle")
  /\ UNCHANGED vars

-----------------------------------------------------------------------------
(* upload *)

\* Bug: the file that is to come is not counted.
FilesFitOver(i) == Cardinality(RowsOf(i)) <= MaxFiles

FilesFit(i) == Cardinality(RowsOf(i)) + 1 <= MaxFiles

Count(w) ==
  /\ At(w, "gated") /\ Request(w).op = "upload"
  /\ IF FilesFit(Request(w).item) THEN To(w, "counted") ELSE End(w)
  /\ UNCHANGED <<table, clients, history>>

BytesOf(i) == MapThenSumSet(LAMBDA a : Size[rows[a].content], RowsOf(i))

BytesFit(i, c) == BytesOf(i) + Size[c] <= MaxBytes

Sum(w) ==
  /\ At(w, "counted")
  /\ IF BytesFit(Request(w).item, work[w].content) THEN To(w, "summed") ELSE End(w)
  /\ UNCHANGED <<table, clients, history>>

\* Requests between the statement that decides what to do with the blob and
\* the last one that does it.
Attaching(v, c) ==
  work[v].pc \in {"absent", "written", "found", "referred"} /\ work[v].content = c

Detaching(v, c) == work[v].pc \in DeleteSteps /\ work[v].content = c

FindBlob(w) ==
  LET c == work[w].content
  IN  /\ At(w, "summed")
      /\ To(w, IF blobs[c] = None THEN "absent" ELSE "found")
      /\ clashed' = clashed \cup {x \in {c} : \E v \in Workers : Detaching(v, c)}
      /\ UNCHANGED <<table, clients, torn, left>>

WriteFile(w) ==
  /\ At(w, "absent")
  /\ files' = files \cup {work[w].content}
  /\ To(w, "written")
  /\ UNCHANGED <<rows, blobs, audited, recorded, clients, history>>

\* The primary key refuses a second row: the upload fails.
InsertBlob(w) ==
  LET c == work[w].content
  IN  /\ At(w, "written")
      /\ IF blobs[c] = None
           THEN blobs' = [blobs EXCEPT ![c] = 0] /\ To(w, "found")
           ELSE End(w) /\ UNCHANGED blobs
      /\ UNCHANGED <<rows, files, audited, recorded, clients, history>>

\* An UPDATE of no row is no error.
CountedBy(c, k) ==
  IF blobs[c] = None THEN blobs ELSE [blobs EXCEPT ![c] = @ + k]

Refer(w) ==
  /\ At(w, "found")
  /\ blobs' = CountedBy(work[w].content, 1)
  /\ To(w, "referred")
  /\ UNCHANGED <<rows, files, audited, recorded, clients, history>>

\* Bug: the schema has no foreign key.
InsertRowUnchecked(w) ==
  /\ At(w, "referred")
  /\ rows' = Append(rows, [item |-> Request(w).item, content |-> work[w].content])
  /\ work' = [work EXCEPT ![w].pc = "inserted", ![w].id = Len(rows) + 1]
  /\ UNCHANGED <<blobs, files, audited, recorded, clients, history>>

\* The foreign key refuses a row without a blob: the upload fails.
InsertRow(w) ==
  LET c == work[w].content
  IN  /\ At(w, "referred")
      /\ IF blobs[c] # None
           THEN /\ rows' = Append(rows, [item |-> Request(w).item, content |-> c])
                /\ work' = [work EXCEPT ![w].pc = "inserted",
                                        ![w].id = Len(rows) + 1]
           ELSE End(w) /\ UNCHANGED rows
      /\ UNCHANGED <<blobs, files, audited, recorded, clients, history>>

\* The entry in the audit log; the supplement notification that may follow is
\* Outbox.tla's trigger, its error ignored.
Audit(w) ==
  /\ At(w, "inserted")
  /\ audited' = audited \cup {work[w].id}
  /\ To(w, "done")
  /\ UNCHANGED <<rows, blobs, files, recorded, clients, history>>

-----------------------------------------------------------------------------
(* delete *)

\* The row by its id and the item in the path: 404 when it is not there.
LoadRow(w) ==
  LET a == Request(w).id
      c == rows[a].content
  IN  /\ At(w, "gated") /\ Request(w).op = "delete"
      /\ IF a \in RowsOf(Request(w).item)
           THEN /\ work' = [work EXCEPT ![w].pc = "loaded", ![w].content = c]
                /\ clashed' = clashed \cup
                     {x \in {c} : \E v \in Workers :
                        \/ Attaching(v, c)
                        \/ Detaching(v, c) /\ Request(v).id = a}
           ELSE End(w) /\ UNCHANGED clashed
      /\ UNCHANGED <<table, clients, torn, left>>

\* How many rows went is not looked at.
DeleteRow(w) ==
  /\ At(w, "loaded")
  /\ rows' = [rows EXCEPT ![Request(w).id] = None]
  /\ To(w, "deleted")
  /\ UNCHANGED <<blobs, files, audited, recorded, clients, history>>

Unrefer(w) ==
  /\ At(w, "deleted")
  /\ blobs' = CountedBy(work[w].content, -1)
  /\ To(w, "unreferred")
  /\ UNCHANGED <<rows, files, audited, recorded, clients, history>>

\* Bug: a blob with one reference is taken for unused.
UnusedSoon(c) == blobs[c] <= 1

Unused(c) == blobs[c] <= 0

\* The count is read again: 404 when the blob has gone meanwhile.
ReadBlob(w) ==
  LET c == work[w].content
  IN  /\ At(w, "unreferred")
      /\ IF blobs[c] = None THEN End(w)
         ELSE To(w, IF Unused(c) THEN "last" ELSE "done")
      /\ UNCHANGED <<table, clients, history>>

\* Bug: only the blob row is deleted.
KeepFile(w) ==
  /\ At(w, "last")
  /\ To(w, "unlinked")
  /\ UNCHANGED <<table, clients, history>>

RemoveFile(w) ==
  /\ At(w, "last")
  /\ files' = files \ {work[w].content}
  /\ To(w, "unlinked")
  /\ UNCHANGED <<rows, blobs, audited, recorded, clients, history>>

\* An error of the file system is ignored.
RemoveFails(w) ==
  /\ At(w, "last")
  /\ Spend("fail")
  /\ left' = left \cup {work[w].content}
  /\ To(w, "unlinked")
  /\ UNCHANGED <<table, asked, clashed, torn>>

\* The foreign key keeps a blob row that attachments refer to.
DeleteBlob(w) ==
  LET c == work[w].content
      used == \E a \in DOMAIN rows : rows[a] # None /\ rows[a].content = c
  IN  /\ At(w, "unlinked")
      /\ IF used THEN End(w) /\ UNCHANGED blobs
                ELSE To(w, "done") /\ blobs' = [blobs EXCEPT ![c] = None]
      /\ UNCHANGED <<rows, files, audited, recorded, clients, history>>

-----------------------------------------------------------------------------
(* Both *)

\* record_after, and the answer.
Record(w) ==
  /\ At(w, "done")
  /\ recorded' = recorded \cup {work[w].n}
  /\ End(w)
  /\ UNCHANGED <<rows, blobs, files, audited, clients, history>>

\* A statement or the file system fails, or the process stops: what is
\* committed stays.
Stop(w) ==
  /\ ~ At(w, "idle")
  /\ Spend("fail")
  /\ left' = left \cup {c \in {work[w].content} : c # None}
  /\ torn' = torn \cup {c \in {work[w].content} : At(w, "unlinked")}
  /\ End(w)
  /\ UNCHANGED <<table, asked, clashed>>

Upload(w) ==
  \/ Count(w) \/ Sum(w) \/ FindBlob(w) \/ WriteFile(w) \/ InsertBlob(w)
  \/ Refer(w) \/ InsertRow(w) \/ Audit(w)

Delete(w) ==
  \/ LoadRow(w) \/ DeleteRow(w) \/ Unrefer(w) \/ ReadBlob(w)
  \/ RemoveFile(w) \/ RemoveFails(w) \/ DeleteBlob(w)

Next ==
  \E w \in Workers :
     \/ \E r \in Uploads : Ask(w, r)
     \/ \E i \in Items, a \in DOMAIN rows :
          Ask(w, [op |-> "delete", item |-> i, id |-> a])
     \/ \E n \in DOMAIN asked : AskAgain(w, n)
     \/ TurnAway(w)
     \/ Gate(w) \/ Upload(w) \/ Delete(w) \/ Record(w) \/ Stop(w)

Spec == Init /\ [][Next]_vars

-----------------------------------------------------------------------------
(* Properties *)

\* Uploads that overlap may each count the files before the others insert: an
\* item gets beyond the cap by less than the number of workers, however many
\* uploads, retries and deletions there are and wherever they fail.
FilesCap ==
  \A i \in Items : Cardinality(RowsOf(i)) <= MaxFiles + Cardinality(Workers) - 1

\* What makes FilesCap inductive: an upload past the count has its row's place
\* already.
Coming(i) ==
  {w \in Workers : /\ work[w].pc \in UploadSteps \ {"inserted"}
                   /\ Request(w).item = i}

CapInv ==
  \A i \in Items :
     Cardinality(RowsOf(i)) + Cardinality(Coming(i))
       <= MaxFiles + Cardinality(Workers) - 1

References(c) == {a \in DOMAIN rows : rows[a] # None /\ rows[a].content = c}

\* A file stays as long as an attachment refers to it, however many items
\* share it and whatever fails.  Excepted are contents for which a deletion
\* overlapped an upload or its own repetition, and those a deletion left
\* between the file and the blob row: there the code does lose files.
StorageKept ==
  \A c \in Contents \ (clashed \cup torn) : References(c) # {} => c \in files

Busy(c) == \E w \in Workers : ~ At(w, "idle") /\ work[w].content = c

\* When nobody is at work on a content, and nothing failed on it or clashed,
\* its count is the number of attachments, and neither file nor blob row
\* stays behind once there is none.
Reclaimed ==
  \A c \in Contents \ (clashed \cup left) : ~ Busy(c) =>
     /\ c \in files <=> References(c) # {}
     /\ blobs[c] = IF References(c) = {} THEN None ELSE Cardinality(References(c))
=============================================================================
