-------------------------- MODULE LostFoundWorkflow --------------------------
(***************************************************************************)
(* The lost-and-found workflow as its users are told of it: every request  *)
(* takes effect at once, on the item as it is then.  LostFound.tla, whose  *)
(* handlers read an item, validate what they read and write later,         *)
(* implements it as long as requests do not overlap.                       *)
(***************************************************************************)
CONSTANTS
  Items,
  Texts,     \* the fields that are free to change
  None       \* no such row

VARIABLE item   \* item[i]: the row of lost_found_items, or None

Statuses == {"DRAFT", "IN_REVIEW", "PUBLISHED", "UNPUBLISHED", "DELETED"}

\* "valid": eventDate and eventTime would pass the checks of submit.
Whens == {"blank", "valid"}

Rows == [status : Statuses, when : Whens, text : Texts, bounced : BOOLEAN]

Init == item = [i \in Items |-> None]

Set(i, row) == item' = [item EXCEPT ![i] = row]

In(i, status) == item[i] # None /\ item[i].status = status

\* A transition clears the bounce reason, unless it is the bounce that sets it.
Move(i, from, to, bounced) ==
  /\ In(i, from)
  /\ Set(i, [item[i] EXCEPT !.status = to, !.bounced = bounced])

Create(i) ==
  /\ item[i] = None
  /\ \E w \in Whens, t \in Texts :
        Set(i, [status |-> "DRAFT", when |-> w, text |-> t, bounced |-> FALSE])

\* Only a draft is edited, and editing moves it nowhere.
Edit(i) ==
  /\ In(i, "DRAFT")
  /\ \E w \in Whens, t \in Texts :
        Set(i, [item[i] EXCEPT !.when = w, !.text = t])

\* Only a complete draft goes to review.
Submit(i) == item[i].when = "valid" /\ Move(i, "DRAFT", "IN_REVIEW", FALSE)

Approve(i)   == Move(i, "IN_REVIEW", "PUBLISHED", FALSE)
Bounce(i)    == Move(i, "IN_REVIEW", "DRAFT", TRUE)
Unpublish(i) == Move(i, "PUBLISHED", "UNPUBLISHED", FALSE)
Republish(i) == Move(i, "UNPUBLISHED", "PUBLISHED", FALSE)

\* Deletion keeps the row, and is final.
Delete(i) ==
  /\ item[i] # None
  /\ item[i].status # "DELETED"
  /\ Set(i, [item[i] EXCEPT !.status = "DELETED"])

Next ==
  \E i \in Items :
     \/ Create(i) \/ Edit(i) \/ Delete(i)
     \/ In(i, "DRAFT") /\ Submit(i)
     \/ Approve(i) \/ Bounce(i) \/ Unpublish(i) \/ Republish(i)

Spec == Init /\ [][Next]_item
=============================================================================
