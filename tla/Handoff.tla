------------------------------ MODULE Handoff ------------------------------
(***************************************************************************)
(* What the transactional outbox promises to the rest of the system        *)
(* (apps/events/models.py, class OutboxEvent): an event that was recorded  *)
(* has a durable row until the broker has the event, so it can always      *)
(* still be delivered.  Delivery is at least once: nothing here counts     *)
(* copies, and an event may be handed to the broker again at any time      *)
(* while it is recorded.                                                   *)
(***************************************************************************)
CONSTANT Events     \* the domain events

VARIABLES
  recorded,         \* events whose publish() committed
  durable,          \* events that still have a row in the outbox
  delivered         \* events the broker has at least one copy of

vars == <<recorded, durable, delivered>>

TypeOK ==
  /\ recorded \subseteq Events
  /\ durable \subseteq recorded
  /\ delivered \subseteq recorded

Init ==
  /\ recorded = {}
  /\ durable = {}
  /\ delivered = {}

(* publish(): the event gets its row. *)
Record(e) ==
  /\ e \notin recorded
  /\ recorded' = recorded \cup {e}
  /\ durable' = durable \cup {e}
  /\ UNCHANGED delivered

(* The broker takes copies of recorded events: one flush may carry several. *)
Deliver(S) ==
  /\ S \subseteq recorded
  /\ delivered' = delivered \cup S
  /\ UNCHANGED <<recorded, durable>>

(* purge: a row may go only once the broker has its event. *)
Discard(S) ==
  /\ S \subseteq delivered
  /\ durable' = durable \ S
  /\ UNCHANGED <<recorded, delivered>>

Next ==
  \/ \E e \in Events : Record(e)
  \/ \E S \in SUBSET Events : Deliver(S)
  \/ \E S \in SUBSET Events : Discard(S)

Spec == Init /\ [][Next]_vars

(* An event that was recorded is on the broker or still in the outbox. *)
NothingLost == recorded \subseteq durable \cup delivered
=============================================================================
