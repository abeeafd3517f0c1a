--------------------------- MODULE ReplayRegister ---------------------------
(***************************************************************************)
(* What the X-Request-Id mechanism of CivicOps promises its clients, with  *)
(* no table, gate or background task in sight: a register per key, whose   *)
(* entry is written once, serves every replay unchanged until it expires,  *)
(* and only then gives way to another.  Idempotency.tla implements it.     *)
(***************************************************************************)
EXTENDS Naturals

CONSTANTS
  Keys,      \* (user, request id, endpoint) triples
  Clients,   \* who receives replies
  Bodies,    \* stored responses
  TTL,       \* lifetime of an entry
  Empty      \* a register without an entry

VARIABLES
  now,       \* the clock
  reg,       \* reg[k]: Empty, or the stored response and its expiry
  reply      \* reply[c]: the replay last served to c, or Empty

vars == <<now, reg, reply>>

Entry == [body : Bodies, until : Nat]

Live(k) == reg[k] # Empty /\ reg[k].until > now

Init ==
  /\ now = 0
  /\ reg = [k \in Keys |-> Empty]
  /\ reply = [c \in Clients |-> Empty]

\* The first response stored under k; an entry in place is never replaced.
Write(c, k, b) ==
  /\ reg[k] = Empty
  /\ reg' = [reg EXCEPT ![k] = [body |-> b, until |-> now + TTL]]
  /\ reply' = [reply EXCEPT ![c] = Empty]
  /\ UNCHANGED now

\* A replay is the live entry, verbatim.
Serve(c, k) ==
  /\ Live(k)
  /\ reply' = [reply EXCEPT ![c] = [key |-> k, body |-> reg[k].body]]
  /\ UNCHANGED <<now, reg>>

\* Any other answer, or a request in progress: nothing is replayed.
Other(c) ==
  /\ reply' = [reply EXCEPT ![c] = Empty]
  /\ UNCHANGED <<now, reg>>

\* Only entries past their expiry are ever dropped.
Expire ==
  /\ \E ks \in SUBSET {k \in Keys : ~Live(k)} :
        reg' = [k \in Keys |-> IF k \in ks THEN Empty ELSE reg[k]]
  /\ UNCHANGED <<now, reply>>

Tick ==
  /\ now' = now + 1
  /\ UNCHANGED <<reg, reply>>

Next ==
  \/ \E c \in Clients :
        \/ \E k \in Keys : Serve(c, k) \/ \E b \in Bodies : Write(c, k, b)
        \/ Other(c)
  \/ Expire
  \/ Tick

Spec == Init /\ [][Next]_vars
=============================================================================
