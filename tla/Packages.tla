-------------------------------- MODULE Packages --------------------------------
(***************************************************************************)
(* Photography packages and their variants (handlers/packages.rs), a       *)
(* statement at a time.  Every statement commits by itself.                *)
(*                                                                         *)
(* A package row keeps its status and one value for all other columns.  A  *)
(* variant row keeps its combination key and, for its inventory item and   *)
(* its time slot, whether there is one and in which facility; those two    *)
(* tables are only read here.  Prices are left out: parse_price and a      *)
(* constraint of the schema keep them from being negative, and a variant   *)
(* cannot be without one, so what publish asks of them always holds.       *)
(*                                                                         *)
(* Callers are in scope.  A request is known by its number in `asked`: a   *)
(* client that repeats it sends the same X-Request-Id, and the table of    *)
(* Idempotency.tla is the set of the numbers with a stored response.       *)
(***************************************************************************)
EXTENDS Naturals, Sequences, FiniteSets

CONSTANTS
  Details,      \* values of the columns the status does not depend on
  Keys,         \* combination keys
  Places,       \* where a linked item or slot may be: "none", "here",
                \* "elsewhere"
  Workers,
  MaxVariants,  \* MAX_VARIANTS
  Budgets,      \* bound: how many requests of each kind there are, how many
                \* are sent again and how many fail on the way
  None          \* no row

Statuses == {"DRAFT", "PUBLISHED", "UNPUBLISHED"}

Row == [status : Statuses, details : Details]

Links == [item : Places, slot : Places]

Variant == [package : Nat \ {0}, key : Keys, links : Links]

ASSUME ConstantsAssumption ==
  /\ Places \subseteq {"none", "here", "elsewhere"}
  /\ IsFiniteSet(Workers) /\ Workers # {}
  /\ MaxVariants \in Nat \ {0}
  /\ Budgets \subseteq
       [create : Nat, edit : Nat, move : Nat, variant : Nat, retry : Nat, fail : Nat]
  /\ None \notin Row \cup Links \cup Variant

VARIABLES
  packages,  \* packages[p] is the row with id p, None once deleted
  variants,  \* package_variants: variants[v], likewise
  audited,   \* requests with an audit entry
  recorded,  \* requests with a stored response
  work,      \* work[w]: the request worker w handles and how far it is
  asked,     \* the requests clients have made
  budget,    \* what is left of the bounds
  trusted,   \* history: packages whose links were checked when they were
             \* published, and not written since
  denied     \* history: requests answered with an error although their
             \* response was stored before they came in

vars == <<packages, variants, audited, recorded, work, asked, budget, trusted,
          denied>>

Ids == Nat \ {0}

Requests ==
  [op : {"create"}, details : Details]
    \cup [op : {"update"}, p : Ids, details : Details]
    \cup [op : {"delete", "publish", "unpublish"}, p : Ids]
    \cup [op : {"add"}, p : Ids, key : Keys, links : Links]
    \cup [op : {"change"}, p : Ids, v : Ids, links : Links]
    \cup [op : {"remove"}, p : Ids, v : Ids]

\* n is the number of the request; known: its response was stored when it came
\* in; seen: the package as loaded; links: those of the variant as loaded;
\* clean: no link of the package was written since a publication read them.
Job ==
  [pc : {"arrived", "loaded", "gated", "counted", "unique", "read", "checked",
         "written", "reloaded", "done"},
   n : Ids, known : BOOLEAN, seen : Row \cup {None}, links : Links \cup {None},
   clean : BOOLEAN]

Idle == [pc |-> "idle"]

At(w, pc) == work[w].pc = pc

Request(w) == asked[work[w].n]

Op(w) == Request(w).op

\* The schema: no variant outlives its package, and none has another's key.
TypeOK ==
  /\ packages \in Seq(Row \cup {None})
  /\ variants \in Seq(Variant \cup {None})
  /\ audited \subseteq DOMAIN asked
  /\ recorded \subseteq DOMAIN asked
  /\ work \in [Workers -> {Idle} \cup Job]
  /\ \A w \in Workers : ~ At(w, "idle") =>
       /\ work[w].n \in DOMAIN asked
       /\ work[w].pc \in {"counted", "unique"} => Op(w) = "add"
       /\ At(w, "read") => Op(w) = "change" /\ work[w].links # None
       /\ At(w, "checked") => Op(w) = "publish"
       /\ Op(w) \in {"publish", "unpublish"} /\ ~ At(w, "arrived") => work[w].seen # None
  /\ asked \in Seq(Requests)
  /\ budget \in
       [create : Nat, edit : Nat, move : Nat, variant : Nat, retry : Nat, fail : Nat]
  /\ trusted \subseteq DOMAIN packages
  /\ denied \subseteq DOMAIN asked
  /\ \A v \in DOMAIN variants : variants[v] # None =>
       /\ variants[v].package \in DOMAIN packages
       /\ packages[variants[v].package] # None
       /\ \A u \in DOMAIN variants \ {v} : variants[u] # None =>
            <<variants[u].package, variants[u].key>>
              # <<variants[v].package, variants[v].key>>

Init ==
  /\ packages = <<>>
  /\ variants = <<>>
  /\ audited = {}
  /\ recorded = {}
  /\ work = [w \in Workers |-> Idle]
  /\ asked = <<>>
  /\ budget \in Budgets
  /\ trusted = {}
  /\ denied = {}

tables  == <<packages, variants>>
trail   == <<audited, recorded>>
clients == <<asked, budget>>
history == <<trusted, denied>>

To(w, pc) == work' = [work EXCEPT ![w].pc = pc]

\* The request is answered with an error.
Deny(w) ==
  /\ work' = [work EXCEPT ![w] = Idle]
  /\ denied' = denied \cup {n \in {work[w].n} : work[w].known}

There(p) == p \in DOMAIN packages /\ packages[p] # None

VariantsOf(p) == {v \in DOMAIN variants : variants[v] # None /\ variants[v].package = p}

-----------------------------------------------------------------------------
(* Clients *)

KindOf(op) ==
  CASE op = "create" -> "create"
    [] op \in {"update", "delete"} -> "edit"
    [] op \in {"publish", "unpublish"} -> "move"
    [] OTHER -> "variant"

\* One thing less of the kind may happen.
Spend(kind) ==
  /\ budget[kind] > 0
  /\ budget' = [budget EXCEPT ![kind] = @ - 1]

Arrival(n) ==
  [pc |-> "arrived", n |-> n, known |-> n \in recorded, seen |-> None,
   links |-> None, clean |-> FALSE]

Ask(w, r) ==
  /\ At(w, "idle")
  /\ Spend(KindOf(r.op))
  /\ asked' = Append(asked, r)
  /\ work' = [work EXCEPT ![w] = Arrival(Len(asked) + 1)]
  /\ UNCHANGED <<tables, trail, history>>

\* An answer was lost, or is late.
AskAgain(w, n) ==
  /\ At(w, "idle")
  /\ Spend("retry")
  /\ work' = [work EXCEPT ![w] = Arrival(n)]
  /\ UNCHANGED <<tables, trail, asked, history>>

\* Refused before anything is read: no name, too many included items, a price
\* that is none.
TurnAway(w) ==
  /\ At(w, "idle")
  /\ UNCHANGED vars

-----------------------------------------------------------------------------
(* What the handlers begin with *)

\* Bug: publish asks for the status where unpublish does.
AllowedEarly(op, row) ==
  /\ op = "unpublish" => row.status = "PUBLISHED"
  /\ op = "publish" => row.status # "PUBLISHED"

\* Asked before the gate.
AllowedFirst(op, row) == op = "unpublish" => row.status = "PUBLISHED"

\* load_package; what there is not is not found.
Load(w) ==
  /\ At(w, "arrived")
  /\ IF Op(w) = "create" THEN To(w, "loaded") /\ UNCHANGED denied
     ELSE LET p == Request(w).p
          IN  IF There(p) /\ AllowedFirst(Op(w), packages[p])
                THEN /\ work' = [work EXCEPT ![w].pc = "loaded",
                                             ![w].seen = packages[p]]
                     /\ UNCHANGED denied
                ELSE Deny(w)
  /\ UNCHANGED <<tables, trail, clients, trusted>>

\* check_before
Gate(w) ==
  /\ At(w, "loaded")
  /\ IF work[w].n \in recorded
       THEN work' = [work EXCEPT ![w] = Idle]
       ELSE To(w, "gated")
  /\ UNCHANGED <<tables, trail, clients, history>>

-----------------------------------------------------------------------------
(* create, update, delete *)

\* An unknown facility is found out after the gate.
Create(w) ==
  /\ At(w, "gated") /\ Op(w) = "create"
  /\ \/ /\ packages' = Append(packages, [status |-> "DRAFT", details |-> Request(w).details])
        /\ To(w, "reloaded")
        /\ UNCHANGED denied
     \/ Deny(w) /\ UNCHANGED packages
  /\ UNCHANGED <<variants, trail, clients, trusted>>

\* Bug: the row is written as it was loaded, the status with it.
EditedWhole(now, seen, details) == [seen EXCEPT !.details = details]

\* The columns named, and from the row loaded those the body leaves out; the
\* status is not among them.
Edited(now, seen, details) == [now EXCEPT !.details = details]

\* An UPDATE of no row is no error.
Update(w) ==
  LET r == Request(w)
  IN  /\ At(w, "gated") /\ r.op = "update"
      /\ packages' = IF There(r.p)
                       THEN [packages EXCEPT ![r.p] = Edited(@, work[w].seen, r.details)]
                       ELSE packages
      /\ To(w, "written")
      /\ UNCHANGED <<variants, trail, clients, history>>

\* Bug: the schema's foreign key does not cascade.
DeleteAlone(w) ==
  LET p == Request(w).p
  IN  /\ At(w, "gated") /\ Op(w) = "delete"
      /\ packages' = [packages EXCEPT ![p] = None]
      /\ To(w, "reloaded")
      /\ UNCHANGED <<variants, trail, clients, history>>

\* The variants go with the package.
Delete(w) ==
  LET p == Request(w).p
  IN  /\ At(w, "gated") /\ Op(w) = "delete"
      /\ packages' = [packages EXCEPT ![p] = None]
      /\ variants' = [v \in DOMAIN variants |->
                        IF v \in VariantsOf(p) THEN None ELSE variants[v]]
      /\ To(w, "reloaded")
      /\ UNCHANGED <<trail, clients, history>>

-----------------------------------------------------------------------------
(* publish, unpublish *)

\* Bug: only the inventory items are looked up.
LocalItem(links) == links.item # "elsewhere"

Local(links) == links.item # "elsewhere" /\ links.slot # "elsewhere"

\* publish asks for the status after the gate, then reads the variants and
\* looks up what they are linked with.
Validate(w) ==
  LET p == Request(w).p
  IN  /\ At(w, "gated") /\ Op(w) = "publish"
      /\ IF /\ work[w].seen.status # "PUBLISHED"
            /\ \A v \in VariantsOf(p) : Local(variants[v].links)
           THEN /\ work' = [work EXCEPT ![w].pc = "checked", ![w].clean = TRUE]
                /\ UNCHANGED denied
           ELSE Deny(w)
      /\ UNCHANGED <<tables, trail, clients, trusted>>

SetStatus(p, status) ==
  packages' = IF There(p) THEN [packages EXCEPT ![p].status = status] ELSE packages

Publish(w) ==
  LET p == Request(w).p
  IN  /\ At(w, "checked")
      /\ SetStatus(p, "PUBLISHED")
      /\ trusted' = IF work[w].clean THEN trusted \cup {p} ELSE trusted \ {p}
      /\ To(w, "written")
      /\ UNCHANGED <<variants, trail, clients, denied>>

Unpublish(w) ==
  /\ At(w, "gated") /\ Op(w) = "unpublish"
  /\ SetStatus(Request(w).p, "UNPUBLISHED")
  /\ To(w, "written")
  /\ UNCHANGED <<variants, trail, clients, history>>

-----------------------------------------------------------------------------
(* create_variant, update_variant, delete_variant *)

\* Bug: the variant that is to come is not counted.
VariantsFitOver(p) == Cardinality(VariantsOf(p)) <= MaxVariants

VariantsFit(p) == Cardinality(VariantsOf(p)) + 1 <= MaxVariants

Count(w) ==
  /\ At(w, "gated") /\ Op(w) = "add"
  /\ IF VariantsFit(Request(w).p) THEN To(w, "counted") /\ UNCHANGED denied ELSE Deny(w)
  /\ UNCHANGED <<tables, trail, clients, trusted>>

Taken(r) == \E v \in VariantsOf(r.p) : variants[v].key = r.key

FindDuplicate(w) ==
  /\ At(w, "counted")
  /\ IF Taken(Request(w)) THEN Deny(w) ELSE To(w, "unique") /\ UNCHANGED denied
  /\ UNCHANGED <<tables, trail, clients, trusted>>

\* A link of package p is written: nobody's check of them holds any longer.
Written(w, p, pc) ==
  /\ work' = [u \in Workers |->
                IF u = w THEN [work[u] EXCEPT !.pc = pc]
                ELSE IF ~ At(u, "idle") /\ Op(u) = "publish" /\ Request(u).p = p
                  THEN [work[u] EXCEPT !.clean = FALSE]
                  ELSE work[u]]
  /\ trusted' = trusted \ {p}
  /\ UNCHANGED denied

\* The unique index and the foreign key are asked once more, by the database.
Insert(w) ==
  LET r == Request(w)
  IN  /\ At(w, "unique")
      /\ IF There(r.p) /\ ~ Taken(r)
           THEN /\ variants' = Append(variants,
                     [package |-> r.p, key |-> r.key, links |-> r.links])
                /\ Written(w, r.p, "done")
           ELSE Deny(w) /\ UNCHANGED <<variants, trusted>>
      /\ UNCHANGED <<packages, trail, clients>>

LoadVariant(w) ==
  LET r == Request(w)
  IN  /\ At(w, "gated") /\ r.op = "change"
      /\ IF r.v \in VariantsOf(r.p)
           THEN /\ work' = [work EXCEPT ![w].pc = "read",
                                        ![w].links = variants[r.v].links]
                /\ UNCHANGED denied
           ELSE Deny(w)
      /\ UNCHANGED <<tables, trail, clients, trusted>>

\* A null in the body is read as if it were not there: no link is ever taken
\* away.
Kept(old, new) == IF new = "none" THEN old ELSE new

Changed(seen, patch) ==
  [item |-> Kept(seen.item, patch.item), slot |-> Kept(seen.slot, patch.slot)]

ChangeVariant(w) ==
  LET r == Request(w)
  IN  /\ At(w, "read")
      /\ variants' = IF variants[r.v] # None
                       THEN [variants EXCEPT ![r.v].links = Changed(work[w].links, r.links)]
                       ELSE variants
      /\ Written(w, r.p, "written")
      /\ UNCHANGED <<packages, trail, clients>>

RemoveVariant(w) ==
  LET r == Request(w)
  IN  /\ At(w, "gated") /\ r.op = "remove"
      /\ IF r.v \in VariantsOf(r.p)
           THEN variants' = [variants EXCEPT ![r.v] = None] /\ To(w, "done")
                /\ UNCHANGED denied
           ELSE Deny(w) /\ UNCHANGED variants
      /\ UNCHANGED <<packages, trail, clients, trusted>>

-----------------------------------------------------------------------------
(* What the handlers end with *)

\* What was written is read again; it may be gone.
Reload(w) ==
  LET r == Request(w)
  IN  /\ At(w, "written")
      /\ IF IF r.op = "change" THEN variants[r.v] # None ELSE There(r.p)
           THEN /\ To(w, IF r.op \in {"update", "publish"} THEN "reloaded" ELSE "done")
                /\ UNCHANGED denied
           ELSE Deny(w)
      /\ UNCHANGED <<tables, trail, clients, trusted>>

\* unpublish and the routes of variants are not audited.
Audit(w) ==
  /\ At(w, "reloaded")
  /\ audited' = audited \cup {work[w].n}
  /\ To(w, "done")
  /\ UNCHANGED <<tables, recorded, clients, history>>

\* record_after, and the answer.
Record(w) ==
  /\ At(w, "done")
  /\ recorded' = recorded \cup {work[w].n}
  /\ work' = [work EXCEPT ![w] = Idle]
  /\ UNCHANGED <<tables, audited, clients, history>>

\* A statement fails or the process stops: what is committed stays.
Stop(w) ==
  /\ ~ At(w, "idle")
  /\ Spend("fail")
  /\ work' = [work EXCEPT ![w] = Idle]
  /\ UNCHANGED <<tables, trail, asked, history>>

Advance(w) ==
  \/ Load(w) \/ Gate(w)
  \/ Create(w) \/ Update(w) \/ Delete(w)
  \/ Validate(w) \/ Publish(w) \/ Unpublish(w)
  \/ Count(w) \/ FindDuplicate(w) \/ Insert(w)
  \/ LoadVariant(w) \/ ChangeVariant(w) \/ RemoveVariant(w)
  \/ Reload(w) \/ Audit(w) \/ Record(w)

\* The requests that make sense by now: about packages and variants there are
\* or have been.
Sensible ==
  LET ps == DOMAIN packages
      vs == DOMAIN variants
  IN  [op : {"create"}, details : Details]
        \cup [op : {"update"}, p : ps, details : Details]
        \cup [op : {"delete", "publish", "unpublish"}, p : ps]
        \cup [op : {"add"}, p : ps, key : Keys, links : Links]
        \cup [op : {"change"}, p : ps, v : vs, links : Links]
        \cup [op : {"remove"}, p : ps, v : vs]

Next ==
  \E w \in Workers :
     \/ \E r \in Sensible : Ask(w, r)
     \/ \E n \in DOMAIN asked : AskAgain(w, n)
     \/ TurnAway(w) \/ Advance(w) \/ Stop(w)

Spec == Init /\ [][Next]_vars

-----------------------------------------------------------------------------
(* Properties *)

Status(p) == IF p \in DOMAIN packages /\ packages[p] # None THEN packages[p].status ELSE None

Moves ==
  {<<"DRAFT", "PUBLISHED">>, <<"PUBLISHED", "UNPUBLISHED">>,
   <<"UNPUBLISHED", "PUBLISHED">>}

\* Whatever overlaps: a package moves from draft to published and then between
\* published and unpublished.  A status checked on a row that has moved since,
\* or an edit begun before the move, never makes a draft of it again nor
\* unpublishes a draft.
StatusMoves ==
  [][\A p \in DOMAIN packages :
       LET from == Status(p)
           to == Status(p)'
       IN  from # to /\ to # None => <<from, to>> \in Moves]_vars

\* Creations that overlap may each count before the others insert: a package
\* gets beyond the cap by less than the number of workers.
VariantCap ==
  \A p \in DOMAIN packages :
     Cardinality(VariantsOf(p)) <= MaxVariants + Cardinality(Workers) - 1

\* A published package is linked within its facility only, unless a variant
\* was written after the publication had read them.
PublishedAsValidated ==
  \A p \in trusted : Status(p) = "PUBLISHED" =>
     \A v \in VariantsOf(p) :
        "elsewhere" \notin {variants[v].links.item, variants[v].links.slot}

\* A client that repeats a request whose response is stored is given that
\* response.  Excepted are unpublish, which asks for the status before the
\* gate, and packages that are gone, which are not found before it.
RetryAnswered ==
  \A n \in denied : asked[n].op = "unpublish" \/ ~ There(asked[n].p)
=============================================================================
