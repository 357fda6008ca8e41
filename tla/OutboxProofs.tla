---------------------------- MODULE OutboxProofs ----------------------------
(***************************************************************************)
(* Proofs about Outbox, for every set of events and relays, every retry    *)
(* budget and backoff, and any number of faults.                           *)
(***************************************************************************)
EXTENDS Outbox, FiniteSetTheorems, TLAPS

(* The backoff never exceeds its cap. *)
LEMMA RetryDelayRange ==
  ASSUME NEW a
  PROVE  RetryDelay(a) \in 0 .. RetryCap
<1>1. CASE RetryBase * (2 ^ a) \in 0 .. RetryCap
  BY <1>1, Zenon DEF RetryDelay
<1>2. CASE RetryBase * (2 ^ a) \notin 0 .. RetryCap
  <2>1. RetryDelay(a) = RetryCap
    BY <1>2, Zenon DEF RetryDelay
  <2>2. QED BY <2>1, OutboxConstants
<1>3. QED BY <1>1, <1>2, Zenon

-----------------------------------------------------------------------------
(* Type correctness. *)

LEMMA ProducerTypes ==
  ASSUME TypeOK, NEW e \in Events,
         WriteDomain(e) \/ Publish(e) \/ WriterDies(e)
  PROVE  TypeOK'
BY DEF TypeOK, WriteDomain, Publish, WriterDies, relayVars

LEMMA RelayTypes ==
  ASSUME TypeOK, NEW r \in Relays, Relay(r)
  PROVE  TypeOK'
<1>1. CASE Sweep(r)
  BY <1>1 DEF TypeOK, Sweep, Due, dbVars
<1>2. ASSUME NEW e \in Events, Skip(r, e)
      PROVE  TypeOK'
  BY <1>2 DEF TypeOK, Skip, dbVars
<1>3. ASSUME NEW e \in Events, Claim(r, e)
      PROVE  TypeOK'
  BY <1>3, OutboxConstants DEF TypeOK, Claim, dbVars, IsNext
<1>4. CASE Produce(r)
  <2> DEFINE own   == <<held[r], calls[held[r]] + 1>>
             queue == leftover[r] \cup {own}
  <2>1. held[r] \in Events /\ pc[r] = "claimed"
    BY <1>4 DEF TypeOK, Produce
  <2>2. queue \in SUBSET Copies
    BY <2>1 DEF TypeOK, Copies
  <2>3. PICK stored \in SUBSET queue, queued \in SUBSET queue :
          /\ delivered' = delivered \cup EventsOf(stored)
          /\ leftover' = [leftover EXCEPT ![r] = queued]
          /\ calls' = [calls EXCEPT ![held[r]] = @ + 1]
          /\ pc' = [pc EXCEPT ![r] =
                      IF Acknowledged(own, stored, queued) THEN "acked" ELSE "failed"]
    BY <1>4 DEF Produce
  <2>4. EventsOf(stored) \subseteq Events
    BY <2>2, <2>3 DEF EventsOf, EventOf, Copies
  <2>5. pc'[r] \in {"acked", "failed"} /\ pc' \in [Relays -> {"scan", "claimed", "acked", "failed"}]
    BY <2>3 DEF TypeOK
  <2>6. leftover' \in [Relays -> SUBSET Copies]
    BY <2>2, <2>3 DEF TypeOK
  <2>7. UNCHANGED <<batch, held, dbVars, faults>>
    BY <1>4 DEF Produce
  <2>8. \A s \in Relays : held'[s] = None <=> pc'[s] = "scan"
    BY <2>1, <2>3, <2>5, <2>7 DEF TypeOK
  <2>9. delivered' \subseteq Events
    BY <2>3, <2>4 DEF TypeOK
  <2>10. calls' \in [Events -> Nat]
    BY <2>1, <2>3 DEF TypeOK
  <2>11. QED
    BY <2>5, <2>6, <2>7, <2>8, <2>9, <2>10 DEF TypeOK, dbVars
<1>5. CASE ProduceRaises(r)
  BY <1>5 DEF TypeOK, ProduceRaises, dbVars
<1>6. CASE MarkPublished(r)
  BY <1>6, OutboxConstants DEF TypeOK, MarkPublished, Release
<1>7. CASE RecordFailure(r)
  <2>1. RetryDelay(attempts[held[r]]) \in Nat
    BY RetryDelayRange, OutboxConstants
  <2>2. wait' \in [Events -> Nat]
    BY <1>7, <2>1 DEF TypeOK, RecordFailure
  <2>3. QED
    BY <1>7, <2>2, OutboxConstants DEF TypeOK, RecordFailure, Release, AttemptsAfter
<1>8. QED BY <1>1, <1>2, <1>3, <1>4, <1>5, <1>6, <1>7 DEF Relay

LEMMA EnvironmentTypes ==
  ASSUME TypeOK,
         \/ \E r \in Relays : PassFails(r) \/ Crash(r)
         \/ \E r \in Relays : \E c \in leftover[r] : LateDelivery(r, c) \/ LateDrop(r, c)
         \/ Purge
         \/ Tick
  PROVE  TypeOK'
<1>1. ASSUME NEW r \in Relays, PassFails(r)
      PROVE  TypeOK'
  BY <1>1 DEF TypeOK, PassFails, EndPass, dbVars
<1>2. ASSUME NEW r \in Relays, Crash(r)
      PROVE  TypeOK'
  BY <1>2 DEF TypeOK, Crash, EndPass, dbVars
<1>3. ASSUME NEW r \in Relays, NEW c \in leftover[r], LateDelivery(r, c)
      PROVE  TypeOK'
  BY <1>3 DEF TypeOK, LateDelivery, dbVars, EventOf, Copies
<1>4. ASSUME NEW r \in Relays, NEW c \in leftover[r], LateDrop(r, c)
      PROVE  TypeOK'
  BY <1>4 DEF TypeOK, LateDrop, dbVars
<1>5. CASE Purge
  BY <1>5 DEF TypeOK, Purge, relayVars
<1>6. CASE Tick
  BY <1>6, OutboxConstants DEF TypeOK, Tick, Least, relayVars
<1>7. QED BY <1>1, <1>2, <1>3, <1>4, <1>5, <1>6

(* Every reachable state of the outbox is well typed, and a relay holds a  *)
(* row exactly between claiming it and releasing it.                       *)
THEOREM TypeCorrect == Spec => []TypeOK
<1>1. Init => TypeOK
  BY DEF Init, TypeOK
<1>2. TypeOK /\ [Next]_vars => TypeOK'
  <2> SUFFICES ASSUME TypeOK, [Next]_vars
               PROVE  TypeOK'
    OBVIOUS
  <2>1. CASE Next
    BY <2>1, ProducerTypes, RelayTypes, EnvironmentTypes DEF Next
  <2>2. CASE UNCHANGED vars
    BY <2>2 DEF TypeOK, vars, dbVars, relayVars
  <2>3. QED BY <2>1, <2>2
<1>3. QED BY <1>1, <1>2, PTL DEF Spec

-----------------------------------------------------------------------------
(* Durability. *)

LEMMA EventsOfUnion ==
  ASSUME NEW S, NEW T
  PROVE  EventsOf(S \cup T) = EventsOf(S) \cup EventsOf(T)
BY DEF EventsOf

LEMMA EventsOfSubset ==
  ASSUME NEW T, NEW S \in SUBSET T
  PROVE  EventsOf(S) \subseteq EventsOf(T)
BY DEF EventsOf

LEMMA ProducerDurable ==
  ASSUME TypeOK, DurableInv, NEW e \in Events,
         WriteDomain(e) \/ Publish(e) \/ WriterDies(e)
  PROVE  DurableInv'
<1>1. Recorded \subseteq Recorded' /\ (Publish(e) => e \in Recorded')
  BY DEF Recorded, WriteDomain, Publish, WriterDies, TypeOK
<1>2. Recorded' \subseteq Recorded \cup outbox'
  BY DEF Recorded, WriteDomain, Publish, WriterDies, TypeOK
<1>3. UNCHANGED <<published, delivered, held, pc, leftover>>
  BY DEF WriteDomain, Publish, WriterDies, relayVars
<1>4. outbox \subseteq outbox' /\ outbox' \subseteq outbox \cup Recorded'
  BY <1>1 DEF WriteDomain, Publish, WriterDies
<1>5. \A r \in Relays : EventsOf(leftover[r])' = EventsOf(leftover[r])
  BY <1>3
<1>6. PublishedIsDelivered' /\ NothingLost'
  BY <1>2, <1>3, <1>4 DEF DurableInv, PublishedIsDelivered, NothingLost
<1>7. RowExclusive'
  BY <1>3, <1>4 DEF DurableInv, RowExclusive
<1>8. QED
  BY <1>1, <1>3, <1>4, <1>5, <1>6, <1>7 DEF DurableInv

(* The flush: what it stores and what it leaves queued was published, and  *)
(* it acknowledges the held event only by storing it.                      *)
LEMMA ProduceStep ==
  ASSUME TypeOK, DurableInv, NEW r \in Relays, Produce(r)
  PROVE  /\ held[r] \in Recorded
         /\ \E S \in SUBSET Recorded :
              /\ delivered' = delivered \cup S
              /\ pc'[r] = "acked" => held[r] \in S
         /\ EventsOf(leftover'[r]) \subseteq Recorded
         /\ \A s \in Relays \ {r} : pc'[s] = pc[s] /\ leftover'[s] = leftover[s]
<1> DEFINE own   == <<held[r], calls[held[r]] + 1>>
           queue == leftover[r] \cup {own}
<1>1. held[r] \in Recorded
  BY DEF DurableInv, RowExclusive, Produce, TypeOK
<1>2. PICK stored \in SUBSET queue, queued \in SUBSET queue :
        /\ delivered' = delivered \cup EventsOf(stored)
        /\ leftover' = [leftover EXCEPT ![r] = queued]
        /\ pc' = [pc EXCEPT ![r] =
                    IF Acknowledged(own, stored, queued) THEN "acked" ELSE "failed"]
  BY DEF Produce
<1>3. EventsOf({own}) = {held[r]}
  BY DEF EventsOf, EventOf
<1>4. EventsOf(queue) \subseteq Recorded
  BY <1>1, <1>3, EventsOfUnion DEF DurableInv
<1>5. EventsOf(stored) \subseteq Recorded /\ EventsOf(queued) \subseteq Recorded
  BY <1>2, <1>4, EventsOfSubset
<1>6. own \in stored => held[r] \in EventsOf(stored)
  BY DEF EventsOf, EventOf
<1>7. pc'[r] = "acked" => held[r] \in EventsOf(stored)
  BY <1>2, <1>6 DEF Acknowledged, TypeOK
<1>8. leftover'[r] = queued
  BY <1>2 DEF TypeOK
<1>9. \A s \in Relays \ {r} : pc'[s] = pc[s] /\ leftover'[s] = leftover[s]
  BY <1>2 DEF TypeOK
<1>10. QED
  BY <1>1, <1>2, <1>5, <1>7, <1>8, <1>9

LEMMA RelayDurable ==
  ASSUME TypeOK, DurableInv, NEW r \in Relays, Relay(r)
  PROVE  DurableInv'
<1>1. CASE Sweep(r)
  BY <1>1 DEF Sweep, dbVars, DurableInv, PublishedIsDelivered, NothingLost,
              RowExclusive, Recorded
<1>2. ASSUME NEW e \in Events, Skip(r, e)
      PROVE  DurableInv'
  BY <1>2 DEF Skip, dbVars, DurableInv, PublishedIsDelivered, NothingLost,
              RowExclusive, Recorded
<1>3. ASSUME NEW e \in Events, Claim(r, e)
      PROVE  DurableInv'
  <2>1. UNCHANGED <<Recorded, outbox, published, delivered, leftover>>
    BY <1>3 DEF Claim, dbVars, Recorded
  <2>2. PublishedIsDelivered' /\ NothingLost'
    BY <2>1 DEF DurableInv, PublishedIsDelivered, NothingLost
  <2>3. RowExclusive'
    BY <1>3, <2>1 DEF Claim, Claimable, Locked, DurableInv, RowExclusive, TypeOK
  <2>4. \A s \in Relays : pc'[s] = "acked" => held'[s] \in delivered'
    BY <1>3, <2>1 DEF Claim, DurableInv, TypeOK
  <2>5. QED BY <2>1, <2>2, <2>3, <2>4 DEF DurableInv
<1>4. CASE Produce(r)
  <2>1. UNCHANGED <<Recorded, outbox, published, held>> /\ delivered \subseteq delivered'
    BY <1>4 DEF Produce, dbVars, Recorded
  <2>2. \A s \in Relays : pc'[s] = "acked" => held'[s] \in delivered'
    BY <1>4, <2>1, ProduceStep DEF DurableInv
  <2>3. \A s \in Relays : EventsOf(leftover'[s]) \subseteq Recorded
    BY <1>4, ProduceStep DEF DurableInv
  <2>4. PublishedIsDelivered' /\ NothingLost' /\ RowExclusive'
    BY <2>1 DEF DurableInv, PublishedIsDelivered, NothingLost, RowExclusive
  <2>5. QED BY <2>1, <2>2, <2>3, <2>4 DEF DurableInv
<1>5. CASE ProduceRaises(r)
  BY <1>5 DEF ProduceRaises, dbVars, DurableInv, PublishedIsDelivered, NothingLost,
              RowExclusive, Recorded, TypeOK
<1>6. CASE MarkPublished(r)
  <2>1. UNCHANGED <<Recorded, outbox, delivered, leftover>>
    BY <1>6 DEF MarkPublished, Recorded
  <2>2. held[r] \in delivered
    BY <1>6 DEF MarkPublished, DurableInv
  <2>3. PublishedIsDelivered' /\ NothingLost'
    BY <1>6, <2>1, <2>2 DEF MarkPublished, DurableInv, PublishedIsDelivered, NothingLost
  <2>4. RowExclusive'
    BY <1>6, <2>1 DEF MarkPublished, Release, DurableInv, RowExclusive, TypeOK
  <2>5. \A s \in Relays : pc'[s] = "acked" => held'[s] \in delivered'
    BY <1>6, <2>1 DEF MarkPublished, Release, DurableInv, TypeOK
  <2>6. QED BY <2>1, <2>3, <2>4, <2>5 DEF DurableInv
<1>7. CASE RecordFailure(r)
  BY <1>7 DEF RecordFailure, Release, DurableInv, PublishedIsDelivered, NothingLost,
              RowExclusive, Recorded, TypeOK
<1>8. QED BY <1>1, <1>2, <1>3, <1>4, <1>5, <1>6, <1>7 DEF Relay

LEMMA EnvironmentDurable ==
  ASSUME TypeOK, DurableInv,
         \/ \E r \in Relays : PassFails(r) \/ Crash(r)
         \/ \E r \in Relays : \E c \in leftover[r] : LateDelivery(r, c) \/ LateDrop(r, c)
         \/ Purge
         \/ Tick
  PROVE  DurableInv'
<1>1. ASSUME NEW r \in Relays, PassFails(r)
      PROVE  DurableInv'
  BY <1>1 DEF PassFails, EndPass, dbVars, DurableInv, PublishedIsDelivered, NothingLost,
              RowExclusive, Recorded, TypeOK
<1>2. ASSUME NEW r \in Relays, Crash(r)
      PROVE  DurableInv'
  <2>1. EventsOf({}) = {}
    BY DEF EventsOf
  <2>2. UNCHANGED <<Recorded, outbox, published, delivered>>
    BY <1>2 DEF Crash, EndPass, dbVars, Recorded
  <2>3. \A s \in Relays : EventsOf(leftover'[s]) \subseteq Recorded
    BY <1>2, <2>1 DEF Crash, DurableInv, TypeOK
  <2>4. RowExclusive' /\ (\A s \in Relays : pc'[s] = "acked" => held'[s] \in delivered')
    BY <1>2, <2>2 DEF Crash, EndPass, DurableInv, RowExclusive, TypeOK
  <2>5. QED
    BY <2>2, <2>3, <2>4 DEF DurableInv, PublishedIsDelivered, NothingLost
<1>3. ASSUME NEW r \in Relays, NEW c \in leftover[r],
             LateDelivery(r, c) \/ LateDrop(r, c)
      PROVE  DurableInv'
  <2>1. UNCHANGED <<Recorded, outbox, published, held, pc>> /\ delivered \subseteq delivered'
    BY <1>3 DEF LateDelivery, LateDrop, dbVars, Recorded
  <2>2. \A s \in Relays : leftover'[s] \subseteq leftover[s]
    BY <1>3 DEF LateDelivery, LateDrop, TypeOK
  <2>3. \A s \in Relays : EventsOf(leftover'[s]) \subseteq Recorded
    BY <2>2, EventsOfSubset DEF DurableInv
  <2>4. QED
    BY <2>1, <2>3 DEF DurableInv, PublishedIsDelivered, NothingLost, RowExclusive
<1>4. CASE Purge
  BY <1>4 DEF Purge, Purgeable, relayVars, DurableInv, PublishedIsDelivered, NothingLost,
              RowExclusive, Recorded
<1>5. CASE Tick
  BY <1>5 DEF Tick, relayVars, DurableInv, PublishedIsDelivered, NothingLost,
              RowExclusive, Recorded
<1>6. QED BY <1>1, <1>2, <1>3, <1>4, <1>5

LEMMA NextDurable == TypeOK /\ DurableInv /\ [Next]_vars => DurableInv'
<1> SUFFICES ASSUME TypeOK, DurableInv, [Next]_vars
             PROVE  DurableInv'
  OBVIOUS
<1>1. CASE Next
  BY <1>1, ProducerDurable, RelayDurable, EnvironmentDurable DEF Next
<1>2. CASE UNCHANGED vars
  BY <1>2 DEF vars, dbVars, relayVars, DurableInv, PublishedIsDelivered, NothingLost,
              RowExclusive, Recorded
<1>3. QED BY <1>1, <1>2

(* The inductive invariant holds in every reachable state. *)
THEOREM Durability == Spec => []DurableInv
<1>1. Init => DurableInv
  BY DEF Init, DurableInv, PublishedIsDelivered, NothingLost, RowExclusive, Recorded,
         EventsOf
<1>2. QED BY <1>1, NextDurable, TypeCorrect, PTL DEF Spec

(* published_at never runs ahead of the broker. *)
THEOREM PublishedReachedBroker == Spec => []PublishedIsDelivered
BY Durability, PTL DEF DurableInv

(* No crash, late delivery or purge loses a recorded event. *)
THEOREM NoEventLost == Spec => []NothingLost
BY Durability, PTL DEF DurableInv

(* However many relays run, a row has one holder and it is still unsent. *)
THEOREM OneHolderPerRow == Spec => []RowExclusive
BY Durability, PTL DEF DurableInv

(* Only the two forms of produce() count calls, and only for the held row. *)
LEMMA CallsStep ==
  ASSUME TypeOK, [Next]_vars, NEW e \in Events, calls'[e] # calls[e]
  PROVE  \E r \in Relays : pc[r] = "claimed" /\ held[r] = e
<1>1. CASE \E r \in Relays : Produce(r) \/ ProduceRaises(r)
  BY <1>1 DEF Produce, ProduceRaises, TypeOK
<1>2. CASE calls' = calls
  BY <1>2
<1>3. QED
  BY <1>1, <1>2 DEF Next, vars, Relay, Sweep, Skip, Claim, MarkPublished, RecordFailure,
                    PassFails, Crash, EndPass, LateDelivery, LateDrop, Purge, Tick,
                    WriteDomain, Publish, WriterDies

(* Once any relay has marked an event published, no relay produces it      *)
(* again.                                                                  *)
THEOREM SingleHandOff == Spec => NoDispatchAfterPublish
<1>1. TypeOK /\ DurableInv /\ [Next]_vars
        => [\A e \in Events : calls'[e] # calls[e] => e \notin published]_vars
  BY CallsStep, OutboxConstants DEF DurableInv, RowExclusive, TypeOK
<1>2. QED BY <1>1, TypeCorrect, Durability, PTL DEF Spec, NoDispatchAfterPublish

-----------------------------------------------------------------------------
(* The outbox implements Handoff. *)

LEMMA ProducerRefines ==
  ASSUME TypeOK, DurableInv, NEW e \in Events,
         WriteDomain(e) \/ Publish(e) \/ WriterDies(e)
  PROVE  [H!Next]_(H!vars)
<1>1. CASE Publish(e)
  <2>1. e \notin Recorded /\ Recorded' = Recorded \cup {e}
    BY <1>1 DEF Publish, Recorded, TypeOK
  <2>2. outbox' = outbox \cup {e} /\ UNCHANGED delivered
    BY <1>1 DEF Publish
  <2>3. H!Record(e)
    BY <2>1, <2>2 DEF H!Record
  <2>4. QED BY <2>3 DEF H!Next
<1>2. CASE WriteDomain(e) \/ WriterDies(e)
  BY <1>2 DEF WriteDomain, WriterDies, Recorded, TypeOK, H!vars
<1>3. QED BY <1>1, <1>2

LEMMA DeliverRefines ==
  ASSUME TypeOK, NEW S \in SUBSET Recorded, delivered' = delivered \cup S,
         UNCHANGED <<writer, outbox>>
  PROVE  H!Next
<1>1. UNCHANGED Recorded
  BY DEF Recorded
<1>2. H!Deliver(S)
  BY <1>1 DEF H!Deliver
<1>3. S \in SUBSET Events
  BY DEF Recorded
<1>4. QED BY <1>2, <1>3 DEF H!Next

LEMMA RelayRefines ==
  ASSUME TypeOK, DurableInv, NEW r \in Relays, Relay(r)
  PROVE  [H!Next]_(H!vars)
<1>1. CASE Produce(r)
  <2>1. UNCHANGED <<writer, outbox>>
    BY <1>1 DEF Produce, dbVars
  <2>2. QED BY <1>1, <2>1, ProduceStep, DeliverRefines
<1>2. CASE ~Produce(r)
  <2>1. UNCHANGED <<writer, outbox, delivered>>
    BY <1>2 DEF Relay, Sweep, Skip, Claim, ProduceRaises, MarkPublished, RecordFailure,
                dbVars
  <2>2. QED BY <2>1 DEF H!vars, Recorded
<1>3. QED BY <1>1, <1>2

LEMMA EnvironmentRefines ==
  ASSUME TypeOK, DurableInv,
         \/ \E r \in Relays : PassFails(r) \/ Crash(r)
         \/ \E r \in Relays : \E c \in leftover[r] : LateDelivery(r, c) \/ LateDrop(r, c)
         \/ Purge
         \/ Tick
  PROVE  [H!Next]_(H!vars)
<1>1. ASSUME NEW r \in Relays, NEW c \in leftover[r], LateDelivery(r, c)
      PROVE  H!Next
  <2>1. {EventOf(c)} \subseteq Recorded
    BY <1>1 DEF DurableInv, EventsOf
  <2>2. delivered' = delivered \cup {EventOf(c)} /\ UNCHANGED <<writer, outbox>>
    BY <1>1 DEF LateDelivery, dbVars
  <2>3. QED BY <2>1, <2>2, DeliverRefines
<1>2. CASE Purge
  <2>1. Purgeable \subseteq delivered /\ Purgeable \in SUBSET Events
    BY DEF Purgeable, DurableInv, PublishedIsDelivered, TypeOK
  <2>2. outbox' = outbox \ Purgeable /\ UNCHANGED <<Recorded, delivered>>
    BY <1>2 DEF Purge, Recorded
  <2>3. H!Discard(Purgeable)
    BY <2>1, <2>2 DEF H!Discard
  <2>4. QED BY <2>1, <2>3 DEF H!Next
<1>3. CASE UNCHANGED <<writer, outbox, delivered>>
  BY <1>3 DEF H!vars, Recorded
<1>4. QED
  BY <1>1, <1>2, <1>3 DEF PassFails, Crash, EndPass, LateDrop, Tick, dbVars

(* Every behaviour of the outbox, with any number of relays, crashes, late *)
(* deliveries and purges, is a behaviour of Handoff.                       *)
THEOREM Refinement == Spec => HandoffSpec
<1>1. Init => H!Init
  BY DEF Init, H!Init, Recorded
<1>2. TypeOK /\ DurableInv /\ [Next]_vars => [H!Next]_(H!vars)
  <2> SUFFICES ASSUME TypeOK, DurableInv, [Next]_vars
               PROVE  [H!Next]_(H!vars)
    OBVIOUS
  <2>1. CASE Next
    BY <2>1, ProducerRefines, RelayRefines, EnvironmentRefines DEF Next
  <2>2. CASE UNCHANGED vars
    BY <2>2 DEF vars, dbVars, H!vars, Recorded
  <2>3. QED BY <2>1, <2>2
<1>3. QED BY <1>1, <1>2, TypeCorrect, Durability, PTL DEF Spec, HandoffSpec, H!Spec

(* The promise of Handoff: whatever is recorded, delivered and discarded,  *)
(* only recorded events have a row or reach the broker, and a recorded     *)
(* event is on the broker or still has its row.                            *)
THEOREM HandoffKeepsPromise == HandoffSpec => [](H!TypeOK /\ H!NothingLost)
<1> DEFINE Kept == H!TypeOK /\ H!NothingLost
<1>1. H!Init => Kept
  BY DEF H!Init, H!TypeOK, H!NothingLost
<1>2. Kept /\ [H!Next]_(H!vars) => Kept'
  <2> SUFFICES ASSUME Kept, [H!Next]_(H!vars)
               PROVE  Kept'
    OBVIOUS
  <2>1. ASSUME NEW e \in Events, H!Record(e)
        PROVE  Kept'
    BY <2>1 DEF H!TypeOK, H!NothingLost, H!Record
  <2>2. ASSUME NEW S \in SUBSET Events, H!Deliver(S) \/ H!Discard(S)
        PROVE  Kept'
    BY <2>2 DEF H!TypeOK, H!NothingLost, H!Deliver, H!Discard
  <2>3. CASE UNCHANGED H!vars
    BY <2>3 DEF H!TypeOK, H!NothingLost, H!vars
  <2>4. QED BY <2>1, <2>2, <2>3 DEF H!Next
<1>3. QED BY <1>1, <1>2, PTL DEF HandoffSpec, H!Spec

-----------------------------------------------------------------------------
(* The retry budget, for any number of relays. *)

(* Relays are finitely many, so those that may still dispatch e can be     *)
(* counted.                                                                *)
LEMMA PendingCount ==
  ASSUME NEW S \in SUBSET Relays
  PROVE  /\ IsFiniteSet(S)
         /\ Cardinality(S) \in Nat
         /\ Cardinality(S) <= Cardinality(Relays)
         /\ Cardinality(Relays) \in Nat
BY FS_Subset, FS_CardinalityType, OutboxConstants

(* A step that charges nothing and reads no new ids keeps the budget.      *)
LEMMA BudgetKept ==
  ASSUME BudgetInv, TypeOK, NEW e \in Events,
         attempts'[e] = attempts[e], Pending(e)' \subseteq Pending(e)
  PROVE  attempts'[e] + Cardinality(Pending(e)') <= Budget
<1>1. Pending(e) \in SUBSET Relays /\ Pending(e)' \in SUBSET Relays
  BY DEF Pending
<1>2. IsFiniteSet(Pending(e)) /\ Cardinality(Pending(e)) \in Nat
  BY <1>1, PendingCount
<1>3. Cardinality(Pending(e)') \in Nat /\ Cardinality(Relays) \in Nat
  BY <1>1, PendingCount
<1>4. Cardinality(Pending(e)') <= Cardinality(Pending(e))
  BY <1>2, FS_Subset
<1>5. attempts[e] + Cardinality(Pending(e)) <= Budget
  BY DEF BudgetInv
<1>6. attempts[e] \in Nat
  BY DEF TypeOK
<1>7. QED BY <1>2, <1>3, <1>4, <1>5, <1>6, OutboxConstants DEF Budget

(* A pass reads an id only while a further attempt is within MAX_ATTEMPTS. *)
LEMMA SweepBudget ==
  ASSUME BudgetInv, TypeOK, NEW r \in Relays, Sweep(r), NEW e \in Events
  PROVE  attempts'[e] + Cardinality(Pending(e)') <= Budget
<1>1. UNCHANGED <<attempts, held>> /\ batch'[r] \subseteq Due
  BY DEF Sweep, dbVars, TypeOK
<1>2. \A s \in Relays \ {r} : batch'[s] = batch[s]
  BY DEF Sweep, TypeOK
<1>3. CASE e \in batch'[r]
  <2>1. attempts[e] < MaxAttempts /\ attempts[e] \in Nat
    BY <1>1, <1>3 DEF Due, TypeOK
  <2>2. Pending(e)' \in SUBSET Relays
    BY DEF Pending
  <2>3. /\ Cardinality(Pending(e)') \in Nat
        /\ Cardinality(Relays) \in Nat
        /\ Cardinality(Pending(e)') <= Cardinality(Relays)
    BY <2>2, PendingCount
  <2>4. QED BY <1>1, <2>1, <2>3, OutboxConstants DEF Budget
<1>4. CASE e \notin batch'[r]
  <2>1. Pending(e)' \subseteq Pending(e)
    BY <1>1, <1>2, <1>4 DEF Pending
  <2>2. QED BY <1>1, <2>1, BudgetKept
<1>5. QED BY <1>3, <1>4

(* Recording an outcome turns the dispatch it may still charge into one    *)
(* that is charged.                                                        *)
LEMMA SettleBudget ==
  ASSUME BudgetInv, TypeOK, DurableInv, NEW r \in Relays,
         MarkPublished(r) \/ RecordFailure(r)
  PROVE  BudgetInv'
<1> DEFINE h == held[r]
<1>1. UNCHANGED <<batch, calls, faults>> /\ h \in Events /\ pc[r] \in {"acked", "failed"}
  BY DEF MarkPublished, RecordFailure, TypeOK
<1>2. /\ attempts' = [attempts EXCEPT ![h] = attempts[h] + 1]
      /\ held' = [held EXCEPT ![r] = None]
  BY DEF MarkPublished, RecordFailure, Release, AttemptsAfter, TypeOK
<1>3. h \notin batch[r] /\ \A s \in Relays : held[s] = h => s = r
  BY <1>1, OutboxConstants DEF BudgetInv, DurableInv, RowExclusive, TypeOK
<1>4. \A e \in Events : attempts'[e] + Cardinality(Pending(e)') <= Budget
  <2>1. \A e \in Events \ {h} : attempts'[e] = attempts[e] /\ Pending(e)' \subseteq Pending(e)
    BY <1>1, <1>2, OutboxConstants DEF Pending, TypeOK
  <2>2. Pending(h) \in SUBSET Relays /\ r \in Pending(h)
    BY DEF Pending
  <2>3. {s \in Relays : h \in batch'[s] \/ held'[s] = h} = Pending(h) \ {r}
    BY <1>1, <1>2, <1>3, OutboxConstants DEF Pending, TypeOK
  <2>4. /\ Cardinality(Pending(h) \ {r}) = Cardinality(Pending(h)) - 1
        /\ Cardinality(Pending(h)) \in Nat
        /\ Cardinality(Relays) \in Nat
    BY <2>2, PendingCount, FS_RemoveElement
  <2>5. attempts[h] + Cardinality(Pending(h)) <= Budget
    BY <1>1 DEF BudgetInv
  <2>6. attempts'[h] = attempts[h] + 1 /\ attempts[h] \in Nat
    BY <1>1, <1>2 DEF TypeOK
  <2>7. attempts'[h] + Cardinality(Pending(h) \ {r}) <= Budget
    BY <2>4, <2>5, <2>6, OutboxConstants DEF Budget
  <2>8. ASSUME NEW e \in Events
        PROVE  attempts'[e] + Cardinality(Pending(e)') <= Budget
    <3>1. CASE e # h
      BY <3>1, <2>1, BudgetKept
    <3>2. CASE e = h
      <4>1. Pending(e)' = Pending(h) \ {r}
        BY <3>2, <2>3 DEF Pending
      <4>2. QED BY <4>1, <3>2, <2>7
    <3>3. QED BY <3>1, <3>2
  <2>9. QED BY <2>8
<1>5. ASSUME NEW e \in Events
      PROVE  calls'[e] <= attempts'[e] + faults' + (IF Unsettled(e)' THEN 1 ELSE 0)
  <2>1. calls[e] <= attempts[e] + faults + (IF Unsettled(e) THEN 1 ELSE 0)
    BY DEF BudgetInv
  <2>2. calls[e] \in Nat /\ attempts[e] \in Nat /\ faults \in Nat
    BY DEF TypeOK
  <2>3. CASE e = h
    <3>1. attempts'[e] = attempts[e] + 1
      BY <1>1, <1>2, <2>3 DEF TypeOK
    <3>2. QED BY <1>1, <2>1, <2>2, <3>1
  <2>4. CASE e # h
    <3>1. attempts'[e] = attempts[e]
      BY <1>1, <1>2, <2>4 DEF TypeOK
    <3>2. Unsettled(e) => Unsettled(e)'
      <4>1. ASSUME NEW s \in Relays, held[s] = e, pc[s] \in {"acked", "failed"}
            PROVE  held'[s] = e /\ pc'[s] \in {"acked", "failed"}
        BY <4>1, <1>2, <2>4 DEF MarkPublished, RecordFailure, Release, TypeOK
      <4>2. QED BY <4>1 DEF Unsettled
    <3>3. QED BY <1>1, <2>1, <2>2, <3>1, <3>2
  <2>5. QED BY <2>3, <2>4
<1>6. \A s \in Relays : held'[s] \notin batch'[s]
  BY <1>1, <1>2, OutboxConstants DEF BudgetInv, TypeOK
<1>7. QED BY <1>4, <1>5, <1>6 DEF BudgetInv

(* Steps that call nothing, charge nothing, read no ids and record no      *)
(* outcome.                                                                *)
LEMMA QuietBudget ==
  ASSUME BudgetInv, TypeOK, UNCHANGED <<attempts, calls>>,
         \/ UNCHANGED faults /\ \A e \in Events : Unsettled(e) => Unsettled(e)'
         \/ faults' = faults + 1,
         \A s \in Relays : held'[s] \notin batch'[s],
         \A e \in Events : Pending(e)' \subseteq Pending(e)
  PROVE  BudgetInv'
<1>1. \A e \in Events : attempts'[e] + Cardinality(Pending(e)') <= Budget
  BY BudgetKept
<1>2. ASSUME NEW e \in Events
      PROVE  calls'[e] <= attempts'[e] + faults' + (IF Unsettled(e)' THEN 1 ELSE 0)
  <2>1. calls[e] <= attempts[e] + faults + (IF Unsettled(e) THEN 1 ELSE 0)
    BY DEF BudgetInv
  <2>2. calls[e] \in Nat /\ attempts[e] \in Nat /\ faults \in Nat
    BY DEF TypeOK
  <2>3. QED BY <2>1, <2>2
<1>3. QED BY <1>1, <1>2 DEF BudgetInv

(* A dispatch is counted, and about to be charged.                         *)
LEMMA DispatchBudget ==
  ASSUME BudgetInv, TypeOK, DurableInv, NEW r \in Relays, Produce(r) \/ ProduceRaises(r)
  PROVE  BudgetInv'
<1> DEFINE h == held[r]
<1>1. UNCHANGED <<batch, held, attempts, faults>>
  BY DEF Produce, ProduceRaises, dbVars
<1>2. pc[r] = "claimed" /\ h \in Events /\ pc'[r] \in {"acked", "failed"}
  BY DEF Produce, ProduceRaises, TypeOK
<1>3. calls' = [calls EXCEPT ![h] = @ + 1] /\ \A s \in Relays \ {r} : pc'[s] = pc[s]
  BY DEF Produce, ProduceRaises, TypeOK
<1>4. ~Unsettled(h) /\ Unsettled(h)'
  BY <1>1, <1>2, OutboxConstants DEF Unsettled, DurableInv, RowExclusive, TypeOK
<1>5. \A e \in Events : Unsettled(e) => Unsettled(e)'
  <2>1. ASSUME NEW s \in Relays, pc[s] \in {"acked", "failed"}
        PROVE  pc'[s] \in {"acked", "failed"}
    BY <1>2, <1>3, <2>1
  <2>2. QED BY <1>1, <2>1 DEF Unsettled
<1>6. ASSUME NEW e \in Events
      PROVE  calls'[e] <= attempts'[e] + faults' + (IF Unsettled(e)' THEN 1 ELSE 0)
  <2>1. calls[e] <= attempts[e] + faults + (IF Unsettled(e) THEN 1 ELSE 0)
    BY DEF BudgetInv
  <2>2. calls[e] \in Nat /\ attempts[e] \in Nat /\ faults \in Nat
    BY DEF TypeOK
  <2>3. CASE e = h
    <3>1. calls'[e] = calls[e] + 1
      BY <1>3, <2>3 DEF TypeOK
    <3>2. QED BY <1>1, <1>4, <2>1, <2>2, <2>3, <3>1
  <2>4. CASE e # h
    <3>1. calls'[e] = calls[e]
      BY <1>3, <2>4 DEF TypeOK
    <3>2. QED BY <1>1, <1>5, <2>1, <2>2, <3>1
  <2>5. QED BY <2>3, <2>4
<1>7. \A e \in Events : Pending(e)' = Pending(e)
  BY <1>1 DEF Pending
<1>8. \A e \in Events : attempts'[e] + Cardinality(Pending(e)') <= Budget
  BY <1>1, <1>7 DEF BudgetInv
<1>9. \A s \in Relays : held'[s] \notin batch'[s]
  BY <1>1 DEF BudgetInv
<1>10. QED BY <1>6, <1>8, <1>9 DEF BudgetInv

LEMMA RelayBudget ==
  ASSUME TypeOK, DurableInv, BudgetInv, NEW r \in Relays, Relay(r)
  PROVE  BudgetInv'
<1>1. CASE Sweep(r)
  <2>1. UNCHANGED <<held, pc, attempts, calls, faults>>
    BY <1>1 DEF Sweep, dbVars
  <2>2. \A e \in Events : attempts'[e] + Cardinality(Pending(e)') <= Budget
    BY <1>1, SweepBudget
  <2>3. \A s \in Relays : held'[s] \notin batch'[s]
    BY <1>1, OutboxConstants DEF Sweep, Due, BudgetInv, TypeOK
  <2>4. \A e \in Events :
          calls'[e] <= attempts'[e] + faults' + (IF Unsettled(e)' THEN 1 ELSE 0)
    BY <2>1 DEF BudgetInv, Unsettled
  <2>5. QED BY <2>2, <2>3, <2>4 DEF BudgetInv
<1>2. ASSUME NEW e \in Events, Skip(r, e)
      PROVE  BudgetInv'
  <2>1. UNCHANGED <<held, pc, attempts, calls, faults>>
    BY <1>2 DEF Skip, dbVars
  <2>2. \A s \in Relays : batch'[s] \subseteq batch[s]
    BY <1>2 DEF Skip, TypeOK
  <2>3. \A f \in Events : Pending(f)' \subseteq Pending(f)
    BY <2>1, <2>2 DEF Pending
  <2>4. \A s \in Relays : held'[s] \notin batch'[s]
    BY <2>1, <2>2 DEF BudgetInv
  <2>5. \A f \in Events : Unsettled(f) => Unsettled(f)'
    BY <2>1 DEF Unsettled
  <2>6. QED BY <2>1, <2>3, <2>4, <2>5, QuietBudget
<1>3. ASSUME NEW e \in Events, Claim(r, e)
      PROVE  BudgetInv'
  <2>1. UNCHANGED <<attempts, calls, faults>> /\ e \in batch[r] /\ pc[r] = "scan"
    BY <1>3 DEF Claim, IsNext, dbVars
  <2>2. /\ batch' = [batch EXCEPT ![r] = @ \ {e}]
        /\ held' = [held EXCEPT ![r] = e]
        /\ pc' = [pc EXCEPT ![r] = "claimed"]
    BY <1>3 DEF Claim
  <2>3. \A f \in Events : Pending(f)' \subseteq Pending(f)
    BY <2>1, <2>2 DEF Pending, TypeOK
  <2>4. \A s \in Relays : held'[s] \notin batch'[s]
    BY <2>2 DEF BudgetInv, TypeOK
  <2>5. \A f \in Events : Unsettled(f) => Unsettled(f)'
    <3>1. ASSUME NEW s \in Relays, pc[s] \in {"acked", "failed"}
          PROVE  held'[s] = held[s] /\ pc'[s] = pc[s]
      BY <3>1, <2>1, <2>2 DEF TypeOK
    <3>2. QED BY <3>1 DEF Unsettled
  <2>6. QED BY <2>1, <2>3, <2>4, <2>5, QuietBudget
<1>4. CASE Produce(r) \/ ProduceRaises(r)
  BY <1>4, DispatchBudget
<1>5. CASE MarkPublished(r) \/ RecordFailure(r)
  BY <1>5, SettleBudget
<1>6. QED BY <1>1, <1>2, <1>3, <1>4, <1>5 DEF Relay

LEMMA EnvironmentBudget ==
  ASSUME TypeOK, BudgetInv,
         \/ \E r \in Relays : PassFails(r) \/ Crash(r)
         \/ UNCHANGED <<batch, held, pc, attempts, calls, faults>>
  PROVE  BudgetInv'
<1>1. ASSUME NEW r \in Relays, PassFails(r) \/ Crash(r)
      PROVE  BudgetInv'
  <2>1. UNCHANGED <<attempts, calls>> /\ faults' = faults + 1
    BY <1>1 DEF PassFails, Crash, EndPass, dbVars
  <2>2. \A s \in Relays : /\ batch'[s] = (IF s = r THEN {} ELSE batch[s])
                          /\ held'[s] = (IF s = r THEN None ELSE held[s])
    BY <1>1 DEF PassFails, Crash, EndPass, TypeOK
  <2>3. \A e \in Events : Pending(e)' \subseteq Pending(e)
    BY <2>2, OutboxConstants DEF Pending
  <2>4. \A s \in Relays : held'[s] \notin batch'[s]
    BY <2>2 DEF BudgetInv
  <2>5. QED BY <2>1, <2>3, <2>4, QuietBudget
<1>2. CASE UNCHANGED <<batch, held, pc, attempts, calls, faults>>
  <2>1. \A e \in Events : Pending(e)' \subseteq Pending(e) /\ (Unsettled(e) => Unsettled(e)')
    BY <1>2 DEF Pending, Unsettled
  <2>2. \A s \in Relays : held'[s] \notin batch'[s]
    BY <1>2 DEF BudgetInv
  <2>3. QED BY <1>2, <2>1, <2>2, QuietBudget
<1>3. QED BY <1>1, <1>2

(* What has been charged and what the relays that read an id may still     *)
(* charge stays within the budget, however many relays there are.          *)
THEOREM BudgetInvariant == Spec => []BudgetInv
<1>1. Init => BudgetInv
  <2> SUFFICES ASSUME Init
               PROVE  BudgetInv
    OBVIOUS
  <2>1. \A e \in Events : Pending(e) = {}
    BY OutboxConstants DEF Init, Pending
  <2>2. Cardinality({}) = 0 /\ Cardinality(Relays) \in Nat
    BY FS_EmptySet, PendingCount
  <2>3. QED BY <2>1, <2>2, OutboxConstants DEF Init, BudgetInv, Budget
<1>2. TypeOK /\ DurableInv /\ BudgetInv /\ [Next]_vars => BudgetInv'
  <2> SUFFICES ASSUME TypeOK, DurableInv, BudgetInv, [Next]_vars
               PROVE  BudgetInv'
    OBVIOUS
  <2>1. CASE \E r \in Relays : Relay(r)
    BY <2>1, RelayBudget
  <2>2. CASE \E r \in Relays : PassFails(r) \/ Crash(r)
    BY <2>2, EnvironmentBudget
  <2>3. CASE UNCHANGED <<batch, held, pc, attempts, calls, faults>>
    BY <2>3, EnvironmentBudget
  <2>4. QED
    BY <2>1, <2>2, <2>3 DEF Next, vars, dbVars, relayVars, WriteDomain, Publish,
       WriterDies, LateDelivery, LateDrop, Purge, Tick
<1>3. QED BY <1>1, <1>2, TypeCorrect, Durability, PTL DEF Spec

(* However many relays run, an event is dispatched at most MAX_ATTEMPTS    *)
(* times, plus once for each relay beyond the first and for each crash or  *)
(* aborted pass.                                                           *)
THEOREM RetryBudgetHolds == Spec => []RetryBudget
<1>1. TypeOK /\ BudgetInv => RetryBudget
  <2> SUFFICES ASSUME TypeOK, BudgetInv, NEW e \in Events
               PROVE  attempts[e] <= Budget /\ calls[e] <= Budget + faults
    BY DEF RetryBudget
  <2>1. Pending(e) \in SUBSET Relays
    BY DEF Pending
  <2>2. /\ IsFiniteSet(Pending(e))
        /\ Cardinality(Pending(e)) \in Nat
        /\ Cardinality(Relays) \in Nat
    BY <2>1, PendingCount
  <2>3. attempts[e] + Cardinality(Pending(e)) <= Budget
    BY DEF BudgetInv
  <2>4. calls[e] <= attempts[e] + faults + (IF Unsettled(e) THEN 1 ELSE 0)
    BY DEF BudgetInv
  <2>5. Unsettled(e) => Cardinality(Pending(e)) # 0
    <3>1. Cardinality(Pending(e)) = 0 <=> Pending(e) = {}
      BY <2>2, FS_EmptySet
    <3>2. Unsettled(e) => Pending(e) # {}
      BY DEF Unsettled, Pending
    <3>3. QED BY <3>1, <3>2
  <2>6. attempts[e] \in Nat /\ calls[e] \in Nat /\ faults \in Nat
    BY DEF TypeOK
  <2>7. Budget \in Int
    BY <2>2, OutboxConstants DEF Budget
  <2>8. CASE Unsettled(e)
    <3>1. calls[e] <= attempts[e] + faults + 1 /\ Cardinality(Pending(e)) # 0
      BY <2>4, <2>5, <2>8
    <3>2. QED BY <3>1, <2>2, <2>3, <2>6, <2>7
  <2>9. CASE ~Unsettled(e)
    <3>1. calls[e] <= attempts[e] + faults + 0
      BY <2>4, <2>9
    <3>2. QED BY <3>1, <2>2, <2>3, <2>6, <2>7
  <2>10. QED BY <2>8, <2>9
<1>2. QED BY <1>1, BudgetInvariant, TypeCorrect, PTL

-----------------------------------------------------------------------------
(* What holds with one relay, the deployment's replica count. *)

OneRelayOnly == \A r, s \in Relays : r = s

LEMMA RelayFresh ==
  ASSUME OneRelayOnly, TypeOK, BudgetInv, FreshInv, NEW r \in Relays, Relay(r)
  PROVE  FreshInv'
<1>1. CASE Sweep(r)
  <2>1. UNCHANGED <<Due, held>>
    BY <1>1 DEF Sweep, Due, dbVars
  <2>2. batch'[r] \subseteq Due /\ held[r] = None
    BY <1>1 DEF Sweep, TypeOK
  <2>3. QED BY <2>1, <2>2 DEF FreshInv, OneRelayOnly
<1>2. ASSUME NEW e \in Events, Skip(r, e) \/ Claim(r, e)
      PROVE  FreshInv'
  <2>1. UNCHANGED Due
    BY <1>2 DEF Skip, Claim, Due, dbVars
  <2>2. e \in Due /\ batch'[r] \subseteq batch[r] /\ held'[r] \in {e, held[r]}
    BY <1>2 DEF Skip, Claim, IsNext, FreshInv, TypeOK
  <2>3. QED BY <2>1, <2>2 DEF FreshInv, OneRelayOnly
<1>3. CASE Produce(r) \/ ProduceRaises(r)
  BY <1>3 DEF Produce, ProduceRaises, Due, dbVars, FreshInv
<1>4. CASE MarkPublished(r) \/ RecordFailure(r)
  <2> DEFINE e == held[r]
  <2>1. UNCHANGED <<batch, outbox>> /\ e \notin batch[r] /\ e \in Events
    BY <1>4, OutboxConstants DEF MarkPublished, RecordFailure, BudgetInv, TypeOK
  <2>2. attempts' = [attempts EXCEPT ![e] = attempts[e] + 1] /\ held'[r] = None
    BY <1>4 DEF MarkPublished, RecordFailure, Release, AttemptsAfter, TypeOK
  <2>3. \A f \in Events \ {e} : f \in Due => f \in Due'
    BY <1>4, <2>1, <2>2 DEF Due, MarkPublished, RecordFailure, TypeOK
  <2>4. batch[r] \subseteq Due'
    BY <2>1, <2>3 DEF FreshInv, Due, TypeOK
  <2>5. QED BY <2>1, <2>2, <2>4 DEF FreshInv, OneRelayOnly
<1>5. QED BY <1>1, <1>2, <1>3, <1>4 DEF Relay

(* Whatever runs beside the relay only adds rows that are due.             *)
LEMMA EnvironmentFresh ==
  ASSUME TypeOK, FreshInv,
         \/ \E e \in Events : WriteDomain(e) \/ Publish(e) \/ WriterDies(e)
         \/ \E r \in Relays : PassFails(r) \/ Crash(r)
         \/ \E r \in Relays : \E c \in leftover[r] : LateDelivery(r, c) \/ LateDrop(r, c)
         \/ Purge
         \/ Tick
         \/ UNCHANGED vars
  PROVE  FreshInv'
<1>1. Due \subseteq Due'
  BY DEF WriteDomain, Publish, WriterDies, PassFails, Crash, EndPass, LateDelivery,
         LateDrop, Purge, Purgeable, Tick, Due, vars, dbVars, TypeOK
<1>2. \A r \in Relays : batch'[r] \subseteq batch[r] /\ held'[r] \in {held[r], None}
  BY DEF WriteDomain, Publish, WriterDies, PassFails, Crash, EndPass, LateDelivery,
         LateDrop, Purge, Tick, vars, relayVars, TypeOK
<1>3. QED BY <1>1, <1>2 DEF FreshInv

(* With one relay the pass's first read stays valid until it is used.      *)
THEOREM Freshness ==
  ASSUME OneRelayOnly
  PROVE  Spec => []FreshInv
<1>1. Init => FreshInv
  BY DEF Init, FreshInv
<1>2. TypeOK /\ BudgetInv /\ FreshInv /\ [Next]_vars => FreshInv'
  BY RelayFresh, EnvironmentFresh DEF Next
<1>3. QED BY <1>1, <1>2, TypeCorrect, BudgetInvariant, PTL DEF Spec

(* One relay never dispatches a row that is exhausted, backing off,        *)
(* published or gone.                                                      *)
THEOREM OneRelayDispatchesDue ==
  ASSUME OneRelayOnly
  PROVE  Spec => DispatchedOnlyWhenDue
<1>1. TypeOK /\ FreshInv /\ [Next]_vars
        => [\A e \in Events : calls'[e] # calls[e] =>
              e \in outbox \ published /\ attempts[e] < MaxAttempts /\ wait[e] = 0]_vars
  BY CallsStep, OutboxConstants DEF FreshInv, TypeOK, Due
<1>2. QED
  BY <1>1, Freshness, TypeCorrect, PTL DEF Spec, DispatchedOnlyWhenDue

(* With one relay an exhausted row is never published or deleted.          *)
THEOREM OneRelayExhaustedIsFinal ==
  ASSUME OneRelayOnly
  PROVE  Spec => ExhaustedIsFinal
<1>1. ASSUME TypeOK, DurableInv, FreshInv, [Next]_vars, NEW e \in Exhausted
      PROVE  e \in Exhausted'
  <2>1. e \in outbox \ published /\ attempts[e] >= MaxAttempts /\ e \in Events
    BY <1>1 DEF Exhausted, TypeOK
  <2>2. \A r \in Relays : held[r] # e
    BY <1>1, <2>1, OutboxConstants DEF FreshInv, Due, TypeOK
  <2>3. e \in outbox'
    BY <1>1, <2>1 DEF Next, vars, dbVars, Relay, Sweep, Skip, Claim, Produce, ProduceRaises,
         MarkPublished, RecordFailure, PassFails, Crash, EndPass, LateDelivery, LateDrop,
         Purge, Purgeable, Tick, WriteDomain, Publish, WriterDies
  <2>4. e \notin published' /\ attempts'[e] = attempts[e]
    BY <1>1, <2>1, <2>2 DEF Next, vars, dbVars, Relay, Sweep, Skip, Claim, Produce,
         ProduceRaises, MarkPublished, RecordFailure, AttemptsAfter, PassFails, Crash,
         EndPass, LateDelivery, LateDrop, Purge, Tick, WriteDomain, Publish, WriterDies,
         TypeOK
  <2>5. QED BY <2>1, <2>3, <2>4 DEF Exhausted
<1>2. TypeOK /\ DurableInv /\ FreshInv /\ [Next]_vars => [Exhausted \subseteq Exhausted']_vars
  BY <1>1
<1>3. QED
  BY <1>2, Freshness, TypeCorrect, Durability, PTL DEF Spec, ExhaustedIsFinal
=============================================================================
