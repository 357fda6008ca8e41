----------------------------- MODULE SocialFeed -----------------------------
(***************************************************************************)
(* apps/social: the follow graph that web requests edit, and the feed      *)
(* inboxes that the group's consumers maintain from the events             *)
(* activity.recorded, follow.created and follow.removed.                   *)
(*                                                                         *)
(* The outbox, the relay and Kafka appear as a set of messages: events     *)
(* have no key, three topics of several partitions carry them, and a       *)
(* failed dispatch is retried later, so they are handled in any order and  *)
(* an unacknowledged one is handled again.                                 *)
(***************************************************************************)
EXTENDS Integers, Sequences, FiniteSets

CONSTANTS
  Users,
  Activities,     \* things users do, each recorded once
  Author,         \* Author[x]: the user who did x
  Workers,        \* consumer processes of the social group
  None,           \* stands for "no message in flight"
  Limit,          \* backfill_feed(limit=...)
  MaxRequests,    \* bound: MaxRequests[e] effective (un)follow requests of e
  MaxFaults       \* bound: lost publishes, evictions, aborted or repeated handlers

Edges == {e \in Users \X Users : e[1] # e[2]}    \* follower, followed

ASSUME SocialConstants ==
  /\ Author \in [Activities -> Users]
  /\ Limit \in Nat \ {0}
  /\ MaxRequests \in [Edges -> Nat]
  /\ MaxFaults \in Nat

VARIABLES
  follows,      \* the Follow table
  rows,         \* the Activity table, in created_at order
  feed,         \* the FeedEntry table: <<owner, activity>>, unique
  requests,     \* requests[e]: follow and unfollow requests that changed e
  recorded,     \* activities whose record_activity() was called
  unsent,       \* events of requests that have not reached publish() yet
  queue,        \* events published and not acknowledged
  task,         \* task[w]: the message w is handling, or None
  step,         \* step[w]: where w stands in the handler
  got,          \* got[w]: the feed entries w is about to insert
  evicted,      \* workers that the group has gone on without
  applied,      \* applied[e]: the last request of e whose event was applied
  broken,       \* edges with an event lost or applied after a later one
  parked,       \* messages in the dead-letter topic
  interrupted,  \* activities whose fan-out was aborted after its first step
  crossed,      \* entries that a prune met between a read and an insert
  faults

tables   == <<follows, rows, feed>>
workVars == <<task, step, got, evicted>>
history  == <<applied, broken, parked, interrupted, crossed>>
vars == <<tables, requests, recorded, unsent, queue, workVars, history, faults>>

(* The messages.  n numbers the requests that changed an edge. *)
ActivityRecorded(x) == [topic |-> "activity.recorded", activity |-> x]
FollowCreated(e, n) == [topic |-> "follow.created", edge |-> e, n |-> n]
FollowRemoved(e, n) == [topic |-> "follow.removed", edge |-> e, n |-> n]

EdgeEvents(e) ==
  {FollowCreated(e, n) : n \in 1 .. MaxRequests[e]}
    \cup {FollowRemoved(e, n) : n \in 1 .. MaxRequests[e]}

Events ==
  {ActivityRecorded(x) : x \in Activities} \cup UNION {EdgeEvents(e) : e \in Edges}

ASSUME NoneIsNoEvent == None \notin Events

Known == {rows[i] : i \in DOMAIN rows}

TypeOK ==
  /\ follows \subseteq Edges
  /\ rows \in Seq(Activities)
  /\ feed \subseteq Users \X Activities
  /\ requests \in [Edges -> Nat]
  /\ \A e \in Edges : requests[e] <= MaxRequests[e] /\ applied[e] <= requests[e]
  /\ recorded \subseteq Activities
  /\ unsent \subseteq Events
  /\ queue \subseteq Events
  /\ task \in [Workers -> Events \cup {None}]
  /\ step \in [Workers -> {"idle", "start", "recipients", "insert", "ack"}]
  /\ \A w \in Workers : /\ task[w] = None <=> step[w] = "idle"
                        /\ got[w] # {} => step[w] = "insert"
  /\ got \in [Workers -> SUBSET (Users \X Activities)]
  /\ \A w \in evicted : w \in Workers /\ step[w] # "idle"
  /\ applied \in [Edges -> Nat]
  /\ broken \subseteq Edges
  /\ parked \subseteq Events
  /\ interrupted \subseteq Activities
  /\ crossed \subseteq Users \X Activities
  /\ faults \in 0 .. MaxFaults

Init ==
  /\ follows = {} /\ rows = <<>> /\ feed = {}
  /\ requests = [e \in Edges |-> 0]
  /\ recorded = {}
  /\ unsent = {} /\ queue = {}
  /\ task = [w \in Workers |-> None]
  /\ step = [w \in Workers |-> "idle"]
  /\ got = [w \in Workers |-> {}]
  /\ applied = [e \in Edges |-> 0]
  /\ evicted = {}
  /\ broken = {} /\ parked = {} /\ interrupted = {} /\ crossed = {}
  /\ faults = 0

-----------------------------------------------------------------------------
(* Web requests: the row commits first, publish() is a second transaction. *)

(* follow_user(): a repeated follow is a no-op and emits nothing. *)
Follow(e) ==
  /\ e \notin follows
  /\ requests[e] < MaxRequests[e]
  /\ follows' = follows \cup {e}
  /\ requests' = [requests EXCEPT ![e] = @ + 1]
  /\ unsent' = unsent \cup {FollowCreated(e, requests[e] + 1)}
  /\ UNCHANGED <<rows, feed, recorded, queue, workVars, history, faults>>

(* unfollow_user(): an event only if an edge was deleted. *)
Unfollow(e) ==
  /\ e \in follows
  /\ requests[e] < MaxRequests[e]
  /\ follows' = follows \ {e}
  /\ requests' = [requests EXCEPT ![e] = @ + 1]
  /\ unsent' = unsent \cup {FollowRemoved(e, requests[e] + 1)}
  /\ UNCHANGED <<rows, feed, recorded, queue, workVars, history, faults>>

(* record_activity(): writes nothing but the event. *)
RecordActivity(x) ==
  /\ x \notin recorded
  /\ recorded' = recorded \cup {x}
  /\ unsent' = unsent \cup {ActivityRecorded(x)}
  /\ UNCHANGED <<tables, requests, queue, workVars, history, faults>>

Publish(m) ==
  /\ unsent' = unsent \ {m}
  /\ queue' = queue \cup {m}
  /\ UNCHANGED <<tables, requests, recorded, workVars, history, faults>>

EdgeOf(m) == IF m.topic = "activity.recorded" THEN {} ELSE {m.edge}

(* The request dies before publish(): the event is never recorded. *)
LosePublish(m) ==
  /\ faults < MaxFaults
  /\ faults' = faults + 1
  /\ unsent' = unsent \ {m}
  /\ broken' = broken \cup EdgeOf(m)
  /\ UNCHANGED <<tables, requests, recorded, queue, workVars, applied, parked, interrupted,
                 crossed>>

-----------------------------------------------------------------------------
(* Consumers.                                                              *)

Goto(w, s) == step' = [step EXCEPT ![w] = s]

(* A message is with one member of the group at a time.  *)
Receive(w, m) ==
  /\ step[w] = "idle"
  /\ \A v \in Workers \ evicted : task[v] # m
  /\ task' = [task EXCEPT ![w] = m]
  /\ Goto(w, "start")
  /\ UNCHANGED <<tables, requests, recorded, unsent, queue, got, evicted, history, faults>>

(* x at place i of the created_at order.  The stamp is the worker's own:   *)
(* rows of others that are committed already may have later ones.          *)
Inserted(x, i) ==
  [j \in 1 .. Len(rows) + 1 |-> IF j < i THEN rows[j] ELSE IF j = i THEN x ELSE rows[j - 1]]

(* fan_out_activity(), get_or_create: a row that is already there means    *)
(* that the fan-out was done.                                              *)
CreateActivity(w) ==
  /\ step[w] = "start"
  /\ task[w].topic = "activity.recorded"
  /\ IF task[w].activity \in Known
       THEN Goto(w, "ack") /\ UNCHANGED rows
       ELSE /\ Goto(w, "recipients")
            /\ \E i \in 1 .. Len(rows) + 1 : rows' = Inserted(task[w].activity, i)
  /\ UNCHANGED <<follows, feed, requests, recorded, unsent, queue, task, got, evicted, history,
                 faults>>

(* Variants: the actor's own copy is forgotten; the query has no filter. *)
FollowersOnly(x) == {e[1] : e \in {d \in follows : d[2] = Author[x]}}
EveryUser(x)     == Users

Recipients(x) == {e[1] : e \in {d \in follows : d[2] = Author[x]}} \cup {Author[x]}

ReadRecipients(w) ==
  /\ step[w] = "recipients"
  /\ LET x == task[w].activity
     IN got' = [got EXCEPT ![w] = {<<u, x>> : u \in Recipients(x)}]
  /\ Goto(w, "insert")
  /\ UNCHANGED <<tables, requests, recorded, unsent, queue, task, evicted, history, faults>>

(* The first `limit` activities of a user, newest first: those that fewer  *)
(* than Limit newer ones precede.                                          *)
Newer(x) ==
  {y \in Known : /\ Author[y] = Author[x]
                 /\ \E j, k \in DOMAIN rows : j < k /\ rows[j] = x /\ rows[k] = y}
Recent(a) == {x \in Known : Author[x] = a /\ Cardinality(Newer(x)) < Limit}

(* backfill_feed(): the query. *)
ReadRecent(w) ==
  /\ step[w] = "start"
  /\ task[w].topic = "follow.created"
  /\ got' = [got EXCEPT ![w] = {<<task[w].edge[1], x>> : x \in Recent(task[w].edge[2])}]
  /\ Goto(w, "insert")
  /\ UNCHANGED <<tables, requests, recorded, unsent, queue, task, evicted, history, faults>>

(* History: which request of an edge was applied last, and whether that    *)
(* was out of order.                                                       *)
Apply(m) ==
  IF m.topic = "activity.recorded"
    THEN UNCHANGED <<applied, broken>>
    ELSE IF m.n < applied[m.edge]
      THEN broken' = broken \cup {m.edge} /\ UNCHANGED applied
      ELSE applied' = [applied EXCEPT ![m.edge] = m.n] /\ UNCHANGED broken

(* bulk_create(ignore_conflicts=True) *)
InsertEntries(w) ==
  /\ step[w] = "insert"
  /\ feed' = feed \cup got[w]
  /\ got' = [got EXCEPT ![w] = {}]
  /\ Goto(w, "ack")
  /\ Apply(task[w])
  /\ UNCHANGED <<follows, rows, requests, recorded, unsent, queue, task, evicted, parked,
                 interrupted, crossed, faults>>

(* Of the entries S, those that e's follower has for following. *)
Through(e, S) == {f \in S : f[1] = e[1] /\ Author[f[2]] = e[2]}

(* Variant: the author's feed is pruned, not the follower's. *)
EntriesOfAuthor(e) == {f \in feed : f[1] = e[2] /\ Author[f[2]] = e[2]}

EntriesOf(e) == Through(e, feed)

(* History: the entries of e that the prune of e comes too early for,      *)
(* because a fan-out has yet to insert them, and those that it takes from  *)
(* a backfill which did not read them any more.                            *)
FansOut(v)      == step[v] = "insert" /\ task[v].topic = "activity.recorded"
Backfills(v, e) == step[v] = "insert" /\ task[v].topic = "follow.created" /\ task[v].edge = e

Crossing(e) ==
  {f \in Through(e, Users \X Activities) :
     \/ \E v \in Workers : FansOut(v) /\ f \in got[v]
     \/ f \in feed /\ \E v \in Workers : Backfills(v, e) /\ f \notin got[v]}

(* prune_feed() *)
Prune(w) ==
  /\ step[w] = "start"
  /\ task[w].topic = "follow.removed"
  /\ feed' = feed \ EntriesOf(task[w].edge)
  /\ Goto(w, "ack")
  /\ Apply(task[w])
  /\ crossed' = crossed \cup Crossing(task[w].edge)
  /\ UNCHANGED <<follows, rows, requests, recorded, unsent, queue, task, got, evicted, parked,
                 interrupted, faults>>

(* Variant: what the query returned is carried over to the next message. *)
KeepRows(w) ==
  /\ task' = [task EXCEPT ![w] = None]
  /\ Goto(w, "idle")
  /\ evicted' = evicted \ {w}
  /\ UNCHANGED got

(* The handler is left. *)
Leave(w) ==
  /\ task' = [task EXCEPT ![w] = None]
  /\ Goto(w, "idle")
  /\ evicted' = evicted \ {w}
  /\ got' = [got EXCEPT ![w] = {}]

(* The handler took longer than the group waits for: its message goes to   *)
(* another member.  w finds out when its commit is refused.                *)
Evict(w) ==
  /\ step[w] # "idle" /\ w \notin evicted
  /\ faults < MaxFaults
  /\ faults' = faults + 1
  /\ evicted' = evicted \cup {w}
  /\ UNCHANGED <<tables, requests, recorded, unsent, queue, task, step, got, history>>

(* What a commit of w acknowledges. *)
Settled(w) == IF w \in evicted THEN {} ELSE {task[w]}

(* The offset is committed, or the commit refused, which ends run(). *)
Acknowledge(w) ==
  /\ step[w] = "ack"
  /\ queue' = queue \ Settled(w)
  /\ Leave(w)
  /\ UNCHANGED <<tables, requests, recorded, unsent, history, faults>>

(* History: the fan-out w is at has stored the Activity and no entries yet. *)
Unfinished(w) ==
  IF step[w] \in {"recipients", "insert"} /\ task[w].topic = "activity.recorded"
    THEN {task[w].activity} ELSE {}

(* A process that dies, or whose commit fails, has the message delivered   *)
(* again; a handler that raises is called again by the same process.       *)
(* Either way the handler starts over on what it left in the tables.       *)
StartOver(w) ==
  /\ step[w] \in {"recipients", "insert", "ack"}
  /\ faults < MaxFaults
  /\ faults' = faults + 1
  /\ \/ Leave(w)
     \/ /\ step[w] # "ack"
        /\ Goto(w, "start")
        /\ got' = [got EXCEPT ![w] = {}]
        /\ UNCHANGED <<task, evicted>>
  /\ interrupted' = interrupted \cup Unfinished(w)
  /\ UNCHANGED <<tables, requests, recorded, unsent, queue, applied, broken, parked, crossed>>

(* The last attempt raises: the message goes to the dead-letter topic and  *)
(* the offset is committed.                                                *)
GiveUp(w) ==
  /\ step[w] \in {"start", "recipients", "insert"}
  /\ faults < MaxFaults
  /\ faults' = faults + 1
  /\ queue' = queue \ Settled(w)
  /\ parked' = parked \cup {task[w]}
  /\ broken' = broken \cup UNION {EdgeOf(m) : m \in Settled(w)}
  /\ interrupted' = interrupted \cup Unfinished(w)
  /\ Leave(w)
  /\ UNCHANGED <<tables, requests, recorded, unsent, applied, crossed>>

Work(w) ==
  \/ \E m \in queue : Receive(w, m)
  \/ CreateActivity(w)
  \/ ReadRecipients(w)
  \/ ReadRecent(w)
  \/ InsertEntries(w)
  \/ Prune(w)
  \/ Acknowledge(w)

Next ==
  \/ \E e \in Edges : Follow(e) \/ Unfollow(e)
  \/ \E x \in Activities : RecordActivity(x)
  \/ \E m \in unsent : Publish(m) \/ LosePublish(m)
  \/ \E w \in Workers : Work(w) \/ Evict(w) \/ StartOver(w) \/ GiveUp(w)

Spec == Init /\ [][Next]_vars

-----------------------------------------------------------------------------
(* Nothing is on its way any more, and no handler is at work. *)
Quiet == unsent = {} /\ queue = {} /\ \A w \in Workers : step[w] = "idle"

(* The feed of the follower agrees with edge e, but for the entries S: all *)
(* recent activities of a followed user, none of one who is not followed.  *)
Consistent(e, S) ==
  IF e \in follows
    THEN \A x \in Recent(e[2]) \ interrupted : <<e[1], x>> \in feed \cup S
    ELSE Through(e, feed) \subseteq S

(* An edge whose events were all published and applied in order has a      *)
(* consistent feed once the events are drained: fan-outs, requests and     *)
(* backfills of overlapping workers miss no activity between them, and a   *)
(* prune is final.  A prune that overlaps a fan-out or a backfill of the   *)
(* edge leaves wrong what crossed it, and not an entry more.               *)
OrderedEventsConverge == Quiet => \A e \in Edges \ broken : Consistent(e, crossed)

(* "keeping the feed consistent with the follow graph": the same of every  *)
(* edge, whatever the order its events arrive in, as long as nothing fails. *)
FeedFollowsGraph ==
  Quiet /\ faults = 0 => \A e \in Edges : Consistent(e, {})

(* Nobody ever sees posts of somebody they never followed. *)
NoPhantomEntries ==
  \A f \in feed : f[1] = Author[f[2]] \/ requests[<<f[1], Author[f[2]]>>] > 0

(* A fan-out that was not aborted half-way puts the post in its author's   *)
(* own feed, and it stays there.                                           *)
AuthorsSeeTheirPosts ==
  Quiet => \A x \in Known \ interrupted : <<Author[x], x>> \in feed

(* "Fully idempotent": handling the event again completes the fan-out,     *)
(* wherever an earlier attempt stopped, unless none of them succeeded.      *)
FanOutIdempotent ==
  Quiet => \A x \in Known :
             ActivityRecorded(x) \notin parked => <<Author[x], x>> \in feed
=============================================================================
