------------------------------ MODULE Consumer ------------------------------
(***************************************************************************)
(* One consumer group of apps/events/consumer.py: the run() loops of its   *)
(* worker processes (poll, handle with bounded retry, dead-letter, commit, *)
(* shutdown on SIGTERM), and what the broker does with their group:        *)
(* assigns partitions, stores the committed offsets and evicts a member    *)
(* that stays away from poll() for too long.                               *)
(***************************************************************************)
EXTENDS Integers

CONSTANTS
  Workers,        \* processes running consume_events for the group
  Partitions,     \* partitions of the topics it subscribes to
  None,           \* stands for "no worker" and for "no message"
  Length,         \* bound: messages a partition receives
  Unhandleable,   \* messages that are not JSON, or that have no handler
  MaxAttempts,    \* KAFKA_CONSUMER_MAX_ATTEMPTS
  MaxFaults,      \* bound: crashes, evictions, failed commits and dead letters
  MaxStops        \* bound: SIGTERMs (rollouts)

Messages == Partitions \X (0 .. Length - 1)

ASSUME ConsumerConstants ==
  /\ None \notin Workers
  /\ None \notin Messages
  /\ Length \in Nat
  /\ Unhandleable \subseteq Messages
  /\ MaxAttempts \in Nat \ {0}
  /\ MaxFaults \in Nat
  /\ MaxStops \in Nat

VARIABLES
  (* the broker *)
  end,         \* end[p]: messages appended to p so far
  committed,   \* committed[p]: the group's committed offset, the next to read
  members,     \* workers the group coordinator counts as members
  owner,       \* owner[p]: the member p is assigned to, or None
  (* the workers *)
  position,    \* position[p]: next offset the owner's client will return
  pc,          \* pc[w]: where w stands in run(); "out" is not running
  current,     \* current[w]: the message in flight, or None
  tries,       \* tries[w]: failed handler calls for it
  stopping,    \* workers whose _Shutdown.requested is set
  (* effects *)
  completed,   \* completed[m]: times a handler returned from m
  parked,      \* parked[m]: copies of m in the dead-letter topic
  (* bookkeeping of the model *)
  faults,
  stops

brokerVars == <<end, committed, members, owner>>
workVars   == <<pc, current, tries, stopping>>
effectVars == <<completed, parked>>
vars == <<brokerVars, position, workVars, effectVars, faults, stops>>

Part(m)   == m[1]
Offset(m) == m[2]
InFlight  == {"handle", "deadletter", "commit"}
Settled(m) == completed[m] + parked[m] > 0

TypeOK ==
  /\ end \in [Partitions -> 0 .. Length]
  /\ committed \in [Partitions -> 0 .. Length]
  /\ members \subseteq Workers
  /\ owner \in [Partitions -> Workers \cup {None}]
  /\ position \in [Partitions -> 0 .. Length]
  /\ pc \in [Workers -> {"out", "poll"} \cup InFlight]
  /\ current \in [Workers -> Messages \cup {None}]
  /\ \A w \in Workers : current[w] # None <=> pc[w] \in InFlight
  /\ tries \in [Workers -> 0 .. MaxAttempts - 1]
  /\ stopping \subseteq Workers
  /\ completed \in [Messages -> Nat]
  /\ parked \in [Messages -> Nat]
  /\ faults \in Nat
  /\ stops \in Nat

Init ==
  /\ end = [p \in Partitions |-> 0]
  /\ committed = [p \in Partitions |-> 0]
  /\ members = {}
  /\ owner = [p \in Partitions |-> None]
  /\ position = [p \in Partitions |-> 0]
  /\ pc = [w \in Workers |-> "out"]
  /\ current = [w \in Workers |-> None]
  /\ tries = [w \in Workers |-> 0]
  /\ stopping = {}
  /\ completed = [m \in Messages |-> 0]
  /\ parked = [m \in Messages |-> 0]
  /\ faults = 0
  /\ stops = 0

-----------------------------------------------------------------------------
(* The broker.                                                             *)

(* A relay produces to p. *)
Arrive(p) ==
  /\ end[p] < Length
  /\ end' = [end EXCEPT ![p] = @ + 1]
  /\ UNCHANGED <<committed, members, owner, position, workVars, effectVars, faults, stops>>

(* w is no member any more: its partitions wait for the next rebalance. *)
Drop(w) ==
  /\ members' = members \ {w}
  /\ owner' = [p \in Partitions |-> IF owner[p] = w THEN None ELSE owner[p]]

(* No member has two partitions while another has none. *)
Shared(f) ==
  \A w \in members :
    (\A p \in Partitions : f[p] # w) => \A p, q \in Partitions : f[p] = f[q] => p = q

(* Variant: reading goes on where the last owner's client stood. *)
WhereLastOwnerStood(p) == position[p]

(* Where a newly assigned partition is read from: its committed offset. *)
ResumeAt(p) == committed[p]

(* The coordinator assigns the partitions anew.  It waits for every member *)
(* to come back to poll(), where revocation is served, so nobody has a     *)
(* message in flight.                                                      *)
Rebalance ==
  /\ \A w \in members : pc[w] = "poll"
  /\ (\E p \in Partitions : owner[p] = None) \/ ~Shared(owner)
  /\ \E f \in [Partitions -> members] : Shared(f) /\ owner' = f
  /\ position' = [p \in Partitions |-> ResumeAt(p)]
  /\ UNCHANGED <<end, committed, members, workVars, effectVars, faults, stops>>

(* A handler ran past max.poll.interval: the group goes on without w,      *)
(* which does not know it yet.                                             *)
Evict(w) ==
  /\ w \in members
  /\ pc[w] \in InFlight
  /\ faults < MaxFaults
  /\ faults' = faults + 1
  /\ Drop(w)
  /\ UNCHANGED <<end, committed, position, workVars, effectVars, stops>>

-----------------------------------------------------------------------------
(* run()                                                                   *)

(* The pod starts (or restarts) and joins the group. *)
Start(w) ==
  /\ pc[w] = "out"
  /\ pc' = [pc EXCEPT ![w] = "poll"]
  /\ members' = members \cup {w}
  /\ UNCHANGED <<end, committed, owner, position, current, tries, stopping>>
  /\ UNCHANGED <<effectVars, faults, stops>>

(* SIGTERM sets a flag; the loop looks at it before the next poll. *)
Sigterm(w) ==
  /\ pc[w] # "out"
  /\ w \notin stopping
  /\ stops < MaxStops
  /\ stops' = stops + 1
  /\ stopping' = stopping \cup {w}
  /\ UNCHANGED <<brokerVars, position, pc, current, tries, effectVars, faults>>

(* The finally clause, or the process's death: w leaves and will restart. *)
Leave(w) ==
  /\ Drop(w)
  /\ pc' = [pc EXCEPT ![w] = "out"]
  /\ current' = [current EXCEPT ![w] = None]
  /\ tries' = [tries EXCEPT ![w] = 0]
  /\ stopping' = stopping \ {w}

(* Variant: the flag is also looked at before the commit. *)
StopsAnywhere(w) == pc[w] \in {"poll", "commit"} /\ w \in stopping

SeesShutdown(w) == pc[w] = "poll" /\ w \in stopping

Shutdown(w) ==
  /\ SeesShutdown(w)
  /\ Leave(w)
  /\ UNCHANGED <<end, committed, position, effectVars, faults, stops>>

Poll(w) ==
  /\ pc[w] = "poll"
  /\ w \notin stopping
  /\ \E p \in Partitions :
       /\ owner[p] = w
       /\ position[p] < end[p]
       /\ current' = [current EXCEPT ![w] = <<p, position[p]>>]
       /\ position' = [position EXCEPT ![p] = @ + 1]
  /\ pc' = [pc EXCEPT ![w] = "handle"]
  /\ UNCHANGED <<brokerVars, tries, stopping, effectVars, faults, stops>>

(* poll() returned nothing, or an error: the loop goes round. *)
PollIdle(w) ==
  /\ pc[w] = "poll"
  /\ w \notin stopping
  /\ UNCHANGED vars

(* _handle(): no handler or malformed JSON is dead-lettered at once. *)
Reject(w) ==
  /\ pc[w] = "handle"
  /\ current[w] \in Unhandleable
  /\ pc' = [pc EXCEPT ![w] = "deadletter"]
  /\ UNCHANGED <<brokerVars, position, current, tries, stopping, effectVars, faults, stops>>

HandlerReturns(w) ==
  /\ pc[w] = "handle"
  /\ current[w] \notin Unhandleable
  /\ completed' = [completed EXCEPT ![current[w]] = @ + 1]
  /\ pc' = [pc EXCEPT ![w] = "commit"]
  /\ UNCHANGED <<brokerVars, position, current, tries, stopping, parked, faults, stops>>

(* Variants: the last attempt is retried like the others; or the message   *)
(* is logged and passed over.                                              *)
RetryForever(w) == "handle"
DropAtLast(w)   == IF tries[w] + 1 < MaxAttempts THEN "handle" ELSE "commit"

(* Where a raised handler leads: once more, or to the dead-letter topic. *)
AfterFailure(w) == IF tries[w] + 1 < MaxAttempts THEN "handle" ELSE "deadletter"

HandlerRaises(w) ==
  /\ pc[w] = "handle"
  /\ current[w] \notin Unhandleable
  /\ tries' = [tries EXCEPT ![w] = IF @ + 1 < MaxAttempts THEN @ + 1 ELSE 0]
  /\ pc' = [pc EXCEPT ![w] = AfterFailure(w)]
  /\ UNCHANGED <<brokerVars, position, current, stopping, effectVars, faults, stops>>

(* _dead_letter(): produce() was acknowledged. *)
DeadLetter(w) ==
  /\ pc[w] = "deadletter"
  /\ parked' = [parked EXCEPT ![current[w]] = @ + 1]
  /\ pc' = [pc EXCEPT ![w] = "commit"]
  /\ UNCHANGED <<brokerVars, position, current, tries, stopping, completed, faults, stops>>

(* produce() raises, and so does run(): nothing is committed, whether or   *)
(* not the record reaches the dead-letter topic after all.                 *)
DeadLetterFails(w) ==
  /\ pc[w] = "deadletter"
  /\ faults < MaxFaults
  /\ faults' = faults + 1
  /\ \/ parked' = [parked EXCEPT ![current[w]] = @ + 1]
     \/ UNCHANGED parked
  /\ Leave(w)
  /\ UNCHANGED <<end, committed, position, completed, stops>>

(* Variant: the coordinator takes the commit of an evicted member. *)
AnyoneCommits(w) == TRUE

(* The coordinator takes commits from members only. *)
CommitAccepted(w) == w \in members

(* The two sides of commit(message, asynchronous=False). *)
Commit(w) ==
  /\ pc[w] = "commit"
  /\ CommitAccepted(w)
  /\ committed' = [committed EXCEPT ![Part(current[w])] = Offset(current[w]) + 1]
  /\ pc' = [pc EXCEPT ![w] = "poll"]
  /\ current' = [current EXCEPT ![w] = None]
  /\ tries' = [tries EXCEPT ![w] = 0]
  /\ UNCHANGED <<end, members, owner, position, stopping, effectVars, faults, stops>>

(* An evicted member's commit raises out of run(). *)
CommitRefused(w) ==
  /\ pc[w] = "commit"
  /\ ~CommitAccepted(w)
  /\ Leave(w)
  /\ UNCHANGED <<end, committed, position, effectVars, faults, stops>>

(* commit() raises for a member too: the broker may have stored it. *)
CommitFails(w) ==
  /\ pc[w] = "commit"
  /\ CommitAccepted(w)
  /\ faults < MaxFaults
  /\ faults' = faults + 1
  /\ \/ committed' = [committed EXCEPT ![Part(current[w])] = Offset(current[w]) + 1]
     \/ UNCHANGED committed
  /\ Leave(w)
  /\ UNCHANGED <<end, position, effectVars, stops>>

Crash(w) ==
  /\ pc[w] # "out"
  /\ faults < MaxFaults
  /\ faults' = faults + 1
  /\ Leave(w)
  /\ UNCHANGED <<end, committed, position, effectVars, stops>>

Run(w) ==
  \/ Start(w)
  \/ Shutdown(w)
  \/ Poll(w)
  \/ PollIdle(w)
  \/ Reject(w)
  \/ HandlerReturns(w)
  \/ HandlerRaises(w)
  \/ DeadLetter(w)
  \/ Commit(w)
  \/ CommitRefused(w)

Next ==
  \/ \E p \in Partitions : Arrive(p)
  \/ Rebalance
  \/ \E w \in Workers :
       \/ Run(w)
       \/ Sigterm(w)
       \/ Evict(w) \/ DeadLetterFails(w) \/ CommitFails(w) \/ Crash(w)

Spec == Init /\ [][Next]_vars

(* Kubernetes restarts what exited and the loop keeps turning; the         *)
(* coordinator completes a rebalance that stays possible.  Handlers may    *)
(* fail every time.                                                        *)
FairSpec ==
  /\ Spec
  /\ \A w \in Workers : WF_vars(Run(w))
  /\ WF_vars(Rebalance)

-----------------------------------------------------------------------------
(* At-least-once: below the committed offset every message was handled or  *)
(* dead-lettered, across crashes, evictions and rebalances.                *)
NothingSkipped ==
  \A m \in Messages : Offset(m) < committed[Part(m)] => Settled(m)

(* A message is never handled while one before it in its partition is      *)
(* still owed: what is settled is a prefix.                                *)
SettledInOrder ==
  \A m, n \in Messages :
    Part(m) = Part(n) /\ Offset(m) < Offset(n) /\ Settled(n) => Settled(m)

(* The group goes through its partitions as AtLeastOnce promises: only     *)
(* past what was settled, and never further than one message ahead, also   *)
(* while workers that were evicted settle and commit late.                 *)
A == INSTANCE AtLeastOnce WITH
       arrived <- end, settled <- {m \in Messages : Settled(m)}, next <- committed
DeliverySpec == A!Spec

(* A rollout redoes nothing: SIGTERM lets the message in flight finish and *)
(* commit, so every repetition is owed to a fault.                         *)
RedoneOnlyAfterFault ==
  \A m \in Messages : completed[m] + parked[m] <= 1 + faults

(* A worker the group has moved on from cannot take its progress back.     *)
CommitsGoForward ==
  [][\A p \in Partitions : committed[p] <= committed'[p]]_vars

(* "Never blocking is the priority": whatever the handlers do, the group   *)
(* commits past every message.                                             *)
PartitionAdvances ==
  \A m \in Messages :
    Offset(m) < end[Part(m)] ~> Offset(m) < committed[Part(m)]
=============================================================================
