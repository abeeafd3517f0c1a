------------------------------ MODULE MCOutbox ------------------------------
(***************************************************************************)
(* A small instance of Outbox.tla for TLC.                                 *)
(***************************************************************************)
EXTENDS Outbox

\* Everything goes to one of the users, whoever that is.
ToOne == [d \in Deliveries |-> CHOOSE u \in Users : TRUE]
=============================================================================
