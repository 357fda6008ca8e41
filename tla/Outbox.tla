------------------------------- MODULE Outbox -------------------------------
(***************************************************************************)
(* The transactional outbox of apps/events: producers that publish() an    *)
(* event after writing their own row, relays that hand pending rows to     *)
(* Kafka through apps/events/kafka.py produce(), the retry backoff, and    *)
(* the purge of published rows.                                            *)
(*                                                                         *)
(* Time is relative: wait[e] is next_attempt_at - now and age[e] is        *)
(* now - published_at, the first stopped at 0 and the second one past the  *)
(* retention window, where the code no longer tells values apart.          *)
(***************************************************************************)
EXTENDS Integers, FiniteSets

CONSTANTS
  Events,        \* events that requests may publish, one request each
  Relays,        \* processes that run relay_pending()
  None,          \* stands for "no row held"
  MaxAttempts,   \* MAX_ATTEMPTS: failed dispatches before an event is given up
  Batch,         \* limit of one relay_pending() pass
  RetryBase,     \* RETRY_BASE_SECONDS, in ticks
  RetryCap,      \* RETRY_CAP_SECONDS, in ticks
  Retention,     \* older_than of purge_published(), in ticks
  MaxFaults      \* bound: crashes and aborted passes in one behaviour

ASSUME OutboxConstants ==
  /\ None \notin Events
  /\ IsFiniteSet(Relays)
  /\ MaxAttempts \in Nat \ {0}
  /\ Batch \in Nat \ {0}
  /\ RetryBase \in Nat \ {0}
  /\ RetryCap \in Nat \ {0}
  /\ Retention \in Nat
  /\ MaxFaults \in Nat

VARIABLES
  (* the database, and the request that writes to it *)
  writer,        \* writer[e]: progress of the request that publishes e
  domain,        \* requests whose own row (profile, follow, ...) is committed
  outbox,        \* events that have a row in the outbox table
  created,       \* created[e]: position of the row in created_at order
  stamp,         \* the last position given out
  attempts,      \* the row's attempts column
  wait,          \* time left until next_attempt_at
  published,     \* events whose published_at is set
  age,           \* time since published_at
  (* the relays *)
  pc,            \* pc[r]: where relay r stands in relay_pending()
  batch,         \* batch[r]: the ids of pending_ids r has not reached yet
  held,          \* held[r]: the row r holds FOR UPDATE, or None
  leftover,      \* leftover[r]: copies in r's producer queue, not acknowledged
  (* the broker *)
  delivered,     \* events the broker has stored at least one copy of
  (* bookkeeping of the model *)
  calls,         \* calls[e]: how often produce() was called for e
  faults         \* crashes and aborted passes so far

dbVars    == <<writer, domain, outbox, created, stamp, attempts, wait, published, age>>
relayVars == <<pc, batch, held, leftover>>
vars      == <<dbVars, relayVars, delivered, calls, faults>>

(* One call of produce() puts one copy of its event on the producer queue. *)
Copies      == Events \X (Nat \ {0})
EventOf(c)  == c[1]
EventsOf(S) == {EventOf(c) : c \in S}

Recorded  == {e \in Events : writer[e] = "returned"}
Exhausted == {e \in outbox \ published : attempts[e] >= MaxAttempts}
Locked    == {held[r] : r \in Relays} \ {None}

TypeOK ==
  /\ writer \in [Events -> {"start", "written", "returned", "lost"}]
  /\ domain \subseteq Events
  /\ outbox \subseteq Events
  /\ created \in [Events -> Nat]
  /\ stamp \in Nat
  /\ attempts \in [Events -> Nat]
  /\ wait \in [Events -> Nat]
  /\ published \subseteq Events
  /\ age \in [Events -> Nat]
  /\ pc \in [Relays -> {"scan", "claimed", "acked", "failed"}]
  /\ batch \in [Relays -> SUBSET Events]
  /\ held \in [Relays -> Events \cup {None}]
  /\ \A r \in Relays : held[r] = None <=> pc[r] = "scan"
  /\ leftover \in [Relays -> SUBSET Copies]
  /\ delivered \subseteq Events
  /\ calls \in [Events -> Nat]
  /\ faults \in Nat

Init ==
  /\ writer = [e \in Events |-> "start"]
  /\ domain = {}
  /\ outbox = {}
  /\ created = [e \in Events |-> 0]
  /\ stamp = 0
  /\ attempts = [e \in Events |-> 0]
  /\ wait = [e \in Events |-> 0]
  /\ published = {}
  /\ age = [e \in Events |-> 0]
  /\ pc = [r \in Relays |-> "scan"]
  /\ batch = [r \in Relays |-> {}]
  /\ held = [r \in Relays |-> None]
  /\ leftover = [r \in Relays |-> {}]
  /\ delivered = {}
  /\ calls = [e \in Events |-> 0]
  /\ faults = 0

-----------------------------------------------------------------------------
(* Producers.  No view or service opens a transaction around its write and *)
(* publish(), and Django runs in autocommit mode, so the two INSERTs       *)
(* commit one after the other.                                             *)

(* The service commits its own row: the profile, follow edge, review, ... *)
WriteDomain(e) ==
  /\ writer[e] = "start"
  /\ writer' = [writer EXCEPT ![e] = "written"]
  /\ domain' = domain \cup {e}
  /\ UNCHANGED <<outbox, created, stamp, attempts, wait, published, age>>
  /\ UNCHANGED <<relayVars, delivered, calls, faults>>

(* publish(): INSERT the OutboxEvent, due at once. *)
Publish(e) ==
  /\ writer[e] = "written"
  /\ writer' = [writer EXCEPT ![e] = "returned"]
  /\ outbox' = outbox \cup {e}
  /\ stamp' = stamp + 1
  /\ created' = [created EXCEPT ![e] = stamp + 1]
  /\ UNCHANGED <<domain, attempts, wait, published, age>>
  /\ UNCHANGED <<relayVars, delivered, calls, faults>>

(* The web process dies, or the second INSERT raises, between the two. *)
WriterDies(e) ==
  /\ writer[e] = "written"
  /\ writer' = [writer EXCEPT ![e] = "lost"]
  /\ UNCHANGED <<domain, outbox, created, stamp, attempts, wait, published, age>>
  /\ UNCHANGED <<relayVars, delivered, calls, faults>>

-----------------------------------------------------------------------------
(* relay_pending()                                                         *)

Least(x, y) == IF x <= y THEN x ELSE y

(* _retry_delay(): the doubled base, or the cap once that is smaller. *)
RetryDelay(a) ==
  IF RetryBase * (2 ^ a) \in 0 .. RetryCap THEN RetryBase * (2 ^ a) ELSE RetryCap

(* Variants with the fault named; the specification does not use them. *)
DueOnce           == {e \in outbox \ published : attempts[e] < MaxAttempts /\ attempts[e] = 0}
DueWithoutBackoff == {e \in outbox \ published : attempts[e] < MaxAttempts}

(* The filter of the pass's first query. *)
Due == {e \in outbox \ published : attempts[e] < MaxAttempts /\ wait[e] = 0}

(* order_by("created_at")[:limit] *)
OldestDue(S) ==
  /\ S \subseteq Due
  /\ Cardinality(S) = Least(Batch, Cardinality(Due))
  /\ \A e \in S, d \in Due \ S : created[e] <= created[d]

(* A pass reads the ids it will work on.  With none it returns, and the    *)
(* loop sleeps: nothing changes.                                           *)
Sweep(r) ==
  /\ pc[r] = "scan"
  /\ batch[r] = {}
  /\ \E S \in SUBSET Due :
       /\ S # {}
       /\ OldestDue(S)
       /\ batch' = [batch EXCEPT ![r] = S]
  /\ UNCHANGED <<pc, held, leftover, dbVars, delivered, calls, faults>>

(* The next id of the batch: the oldest. *)
IsNext(r, e) ==
  /\ pc[r] = "scan"
  /\ e \in batch[r]
  /\ \A d \in batch[r] : created[e] <= created[d]

(* Variants: the claim does not look at published_at, or not at the lock. *)
ClaimableTwice(e)   == e \in outbox /\ e \notin Locked
ClaimableUnlocked(e) == e \in outbox \ published

(* What SELECT ... FOR UPDATE SKIP LOCKED with published_at IS NULL finds. *)
Claimable(e) == e \in outbox \ published /\ e \notin Locked

(* "already claimed by another relay", published meanwhile, or purged *)
Skip(r, e) ==
  /\ IsNext(r, e)
  /\ ~Claimable(e)
  /\ batch' = [batch EXCEPT ![r] = @ \ {e}]
  /\ UNCHANGED <<pc, held, leftover, dbVars, delivered, calls, faults>>

Claim(r, e) ==
  /\ IsNext(r, e)
  /\ Claimable(e)
  /\ batch' = [batch EXCEPT ![r] = @ \ {e}]
  /\ held' = [held EXCEPT ![r] = e]
  /\ pc' = [pc EXCEPT ![r] = "claimed"]
  /\ UNCHANGED <<leftover, dbVars, delivered, calls, faults>>

(* Variant: the number of messages flush() left in the queue is ignored. *)
AckedUnlessRejected(own, stored, queued) == own \in stored \cup queued

(* produce() returns: nothing is left in the queue and the delivery        *)
(* callback of this copy saw no error.                                     *)
Acknowledged(own, stored, queued) == queued = {} /\ own \in stored

(* produce(): enqueue a copy and flush.  The flush works on the whole      *)
(* queue of the cached producer, earlier copies included.  `stored` are    *)
(* the copies the broker acknowledges, `queued` those still there when     *)
(* the timeout expires; the others were rejected.                          *)
Produce(r) ==
  /\ pc[r] = "claimed"
  /\ LET e     == held[r]
         own   == <<e, calls[e] + 1>>
         queue == leftover[r] \cup {own}
     IN \E stored \in SUBSET queue : \E queued \in SUBSET (queue \ stored) :
          /\ delivered' = delivered \cup EventsOf(stored)
          /\ leftover' = [leftover EXCEPT ![r] = queued]
          /\ calls' = [calls EXCEPT ![e] = @ + 1]
          /\ pc' = [pc EXCEPT ![r] =
                      IF Acknowledged(own, stored, queued) THEN "acked" ELSE "failed"]
  /\ UNCHANGED <<batch, held, dbVars, faults>>

(* produce() raises before anything is enqueued: no broker configured, a   *)
(* full local queue, a payload json.dumps refuses.                         *)
ProduceRaises(r) ==
  /\ pc[r] = "claimed"
  /\ calls' = [calls EXCEPT ![held[r]] = @ + 1]
  /\ pc' = [pc EXCEPT ![r] = "failed"]
  /\ UNCHANGED <<batch, held, leftover, dbVars, delivered, faults>>

(* Variant: the transaction stays open. *)
KeepRow(r) ==
  /\ pc' = [pc EXCEPT ![r] = "scan"]
  /\ UNCHANGED held

Release(r) ==
  /\ held' = [held EXCEPT ![r] = None]
  /\ pc' = [pc EXCEPT ![r] = "scan"]

(* The hand-off succeeded: set published_at, commit, release the row. *)
MarkPublished(r) ==
  /\ pc[r] = "acked"
  /\ Release(r)
  /\ published' = published \cup {held[r]}
  /\ attempts' = [attempts EXCEPT ![held[r]] = @ + 1]
  /\ age' = [age EXCEPT ![held[r]] = 0]
  /\ UNCHANGED <<writer, domain, outbox, created, stamp, wait>>
  /\ UNCHANGED <<batch, leftover, delivered, calls, faults>>

(* Variant: the failure is scheduled but not charged. *)
AttemptsUncharged(e) == attempts[e]

AttemptsAfter(e) == attempts[e] + 1

(* The hand-off failed: charge the attempt and schedule the next one. *)
RecordFailure(r) ==
  /\ pc[r] = "failed"
  /\ Release(r)
  /\ attempts' = [attempts EXCEPT ![held[r]] = AttemptsAfter(held[r])]
  /\ wait' = [wait EXCEPT ![held[r]] = RetryDelay(attempts[held[r]])]
  /\ UNCHANGED <<writer, domain, outbox, created, stamp, published, age>>
  /\ UNCHANGED <<batch, leftover, delivered, calls, faults>>

Relay(r) ==
  \/ Sweep(r)
  \/ \E e \in Events : Skip(r, e)
  \/ \E e \in Events : Claim(r, e)
  \/ Produce(r)
  \/ ProduceRaises(r)
  \/ MarkPublished(r)
  \/ RecordFailure(r)

-----------------------------------------------------------------------------
(* What can go wrong around the relay.                                     *)

(* The pass ends where it stands: the transaction rolls back and releases  *)
(* the row, the remaining ids are forgotten.                               *)
EndPass(r) ==
  /\ faults < MaxFaults
  /\ faults' = faults + 1
  /\ pc' = [pc EXCEPT ![r] = "scan"]
  /\ batch' = [batch EXCEPT ![r] = {}]
  /\ held' = [held EXCEPT ![r] = None]
  /\ UNCHANGED <<dbVars, delivered, calls>>

(* A database error escapes relay_pending(); the loop logs it and goes on, *)
(* with the producer and its queue intact.                                 *)
PassFails(r) ==
  /\ pc[r] # "scan" \/ batch[r] # {}
  /\ EndPass(r)
  /\ UNCHANGED leftover

(* The relay process dies and is restarted: its producer queue is gone. *)
Crash(r) ==
  /\ EndPass(r)
  /\ leftover' = [leftover EXCEPT ![r] = {}]

(* librdkafka's own thread: a copy left in the queue reaches the broker    *)
(* after its flush timed out, or is dropped when it expires there.         *)
LateDelivery(r, c) ==
  /\ c \in leftover[r]
  /\ leftover' = [leftover EXCEPT ![r] = @ \ {c}]
  /\ delivered' = delivered \cup {EventOf(c)}
  /\ UNCHANGED <<pc, batch, held, dbVars, calls, faults>>

LateDrop(r, c) ==
  /\ c \in leftover[r]
  /\ leftover' = [leftover EXCEPT ![r] = @ \ {c}]
  /\ UNCHANGED <<pc, batch, held, dbVars, delivered, calls, faults>>

-----------------------------------------------------------------------------
(* Variant: rows the relay has given up on are cleared out too. *)
PurgeableOrDead == {e \in outbox \cap published : age[e] > Retention} \cup Exhausted

Purgeable == {e \in outbox \cap published : age[e] > Retention}

(* purge_published(): one DELETE of the rows published before the cutoff. *)
Purge ==
  /\ Purgeable # {}
  /\ outbox' = outbox \ Purgeable
  /\ UNCHANGED <<writer, domain, created, stamp, attempts, wait, published, age>>
  /\ UNCHANGED <<relayVars, delivered, calls, faults>>

Tick ==
  /\ wait' = [e \in Events |-> IF wait[e] > 0 THEN wait[e] - 1 ELSE 0]
  /\ age' = [e \in Events |-> IF e \in published THEN Least(age[e] + 1, Retention + 1)
                                                 ELSE 0]
  /\ UNCHANGED <<writer, domain, outbox, created, stamp, attempts, published>>
  /\ UNCHANGED <<relayVars, delivered, calls, faults>>

Next ==
  \/ \E e \in Events : WriteDomain(e) \/ Publish(e) \/ WriterDies(e)
  \/ \E r \in Relays : Relay(r) \/ PassFails(r) \/ Crash(r)
  \/ \E r \in Relays : \E c \in leftover[r] : LateDelivery(r, c) \/ LateDrop(r, c)
  \/ Purge
  \/ Tick

Spec == Init /\ [][Next]_vars

(* The relay loop never stops sweeping, and time passes. Nothing makes the *)
(* broker answer, a copy arrive late or a request reach publish().         *)
FairSpec ==
  /\ Spec
  /\ \A r \in Relays : WF_vars(Relay(r))
  /\ WF_vars(Tick)

-----------------------------------------------------------------------------
(* What the outbox is for. *)

(* published_at is only ever set once the broker has the event: a timed    *)
(* out or rejected produce() must not look like a delivered one.           *)
PublishedIsDelivered == published \subseteq delivered

(* An event that publish() recorded is in the table or on the broker,      *)
(* through every crash, late delivery and purge.                           *)
NothingLost == Recorded \subseteq outbox \cup delivered

(* At most one relay holds a row, and what it holds is still to be sent.   *)
RowExclusive ==
  \A r \in Relays :
    held[r] # None =>
      /\ held[r] \in outbox \ published
      /\ \A s \in Relays : held[s] = held[r] => s = r

(* The outbox implements the promise of Handoff. *)
H == INSTANCE Handoff WITH recorded <- Recorded, durable <- outbox
HandoffSpec == H!Spec

(* "Concurrent relays never double-dispatch the same row": no produce()    *)
(* for an event that is already marked published, whichever relay did it.  *)
NoDispatchAfterPublish ==
  [][\A e \in Events : calls'[e] # calls[e] => e \notin published]_vars

(* A dispatch obeys the pass's own filter at the moment it happens: the    *)
(* row is pending, its retry budget is not spent and its backoff is over.  *)
DispatchedOnlyWhenDue ==
  [][\A e \in Events : calls'[e] # calls[e] =>
        e \in outbox \ published /\ attempts[e] < MaxAttempts /\ wait[e] = 0]_vars

(* MAX_ATTEMPTS bounds the dispatches of an event.  A relay that read the *)
(* id while it was within budget dispatches it although other relays have  *)
(* charged it since, since the claim looks at published_at only: that adds *)
(* one for each other relay, none where one is deployed.  And each crash   *)
(* or aborted pass forgets to charge at most one.                          *)
Budget == MaxAttempts + Cardinality(Relays) - 1

RetryBudget ==
  \A e \in Events :
    /\ attempts[e] <= Budget
    /\ calls[e] <= Budget + faults

(* An event that was given up on stays in the table for inspection: it is  *)
(* neither deleted nor published later.                                    *)
ExhaustedIsFinal == [][Exhausted \subseteq Exhausted']_vars

(* A recorded event is not forgotten: it is published, or it ends up among *)
(* the exhausted rows somebody is alerted about.  With more pending rows   *)
(* than one pass takes, this says that failing rows do not starve others.  *)
EventSettles ==
  \A e \in Events : e \in Recorded ~> e \in published \cup Exhausted

(* The strengthening that makes the safety properties inductive: an        *)
(* acknowledged row is on the broker, and rows and queued copies come from *)
(* publish().                                                              *)
DurableInv ==
  /\ PublishedIsDelivered
  /\ NothingLost
  /\ RowExclusive
  /\ outbox \subseteq Recorded
  /\ \A r \in Relays :
       /\ pc[r] = "acked" => held[r] \in delivered
       /\ EventsOf(leftover[r]) \subseteq Recorded

(* Relay r has produced e and not recorded the outcome yet. *)
Unsettled(e) == \E r \in Relays : held[r] = e /\ pc[r] \in {"acked", "failed"}

(* The relays that may still dispatch e: each read it within budget and    *)
(* has not charged its own dispatch yet.                                   *)
Pending(e) == {r \in Relays : e \in batch[r] \/ held[r] = e}

(* Every dispatch is charged, about to be charged, or lost to a fault, and *)
(* what the relays may still charge is within the budget.                  *)
BudgetInv ==
  /\ \A r \in Relays : held[r] \notin batch[r]
  /\ \A e \in Events :
       /\ attempts[e] + Cardinality(Pending(e)) <= Budget
       /\ calls[e] <= attempts[e] + faults + (IF Unsettled(e) THEN 1 ELSE 0)

(* With one relay, what a pass read stays true until it gets there.        *)
FreshInv ==
  \A r \in Relays :
    /\ batch[r] \subseteq Due
    /\ held[r] # None => held[r] \in Due

(* What the documents say of publish(): once the request is over, the row  *)
(* and its event both exist or neither does.                               *)
CoCommit ==
  \A e \in Events :
    writer[e] \in {"returned", "lost"} => (e \in domain <=> e \in Recorded)
=============================================================================
