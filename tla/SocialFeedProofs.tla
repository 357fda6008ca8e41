-------------------------- MODULE SocialFeedProofs --------------------------
(* The safety of the feed inboxes, for any users, activities, requests and *)
(* faults, and any order of the events.                                    *)
EXTENDS SocialFeed, TLAPS, FiniteSetTheorems

(* Events are published after the request that they tell of, a message is  *)
(* with one worker of the group until it is acknowledged, and each handler *)
(* does its own steps.                                                     *)
Made(m) == m.topic # "activity.recorded" => m.n <= requests[m.edge]

EventInv ==
  /\ \A m \in unsent \cup queue : Made(m)
  /\ \A w \in Workers : task[w] # None => Made(task[w])
  /\ \A w \in Workers \ evicted : task[w] # None => task[w] \in queue
  /\ \A v, w \in Workers \ evicted : task[v] = task[w] /\ task[v] # None => v = w
  /\ \A w \in Workers : step[w] = "recipients" => task[w].topic = "activity.recorded"
  /\ \A w \in Workers : step[w] = "insert" => task[w].topic # "follow.removed"

Base == TypeOK /\ EventInv

-----------------------------------------------------------------------------
LEMMA EventShapes ==
  ASSUME NEW m \in Events
  PROVE  \/ /\ m.topic = "activity.recorded"
            /\ m.activity \in Activities /\ m = ActivityRecorded(m.activity)
         \/ /\ m.topic \in {"follow.created", "follow.removed"}
            /\ m.edge \in Edges /\ m.n \in Nat /\ m.n >= 1 /\ m.n <= MaxRequests[m.edge]
<1>1. CASE m \in {ActivityRecorded(x) : x \in Activities}
  BY <1>1 DEF ActivityRecorded
<1>2. ASSUME NEW e \in Edges, m \in EdgeEvents(e)
      PROVE  /\ m.topic \in {"follow.created", "follow.removed"}
             /\ m.edge = e /\ m.n \in 1 .. MaxRequests[e]
  BY <1>2 DEF EdgeEvents, FollowCreated, FollowRemoved
<1>3. m \in {ActivityRecorded(x) : x \in Activities} \/ \E e \in Edges : m \in EdgeEvents(e)
  BY DEF Events
<1> QED BY <1>1, <1>2, <1>3, SocialConstants

LEMMA EventKinds ==
  /\ \A x \in Activities : /\ ActivityRecorded(x) \in Events /\ ActivityRecorded(x) # None
                           /\ ActivityRecorded(x).topic = "activity.recorded"
                           /\ ActivityRecorded(x).activity = x
  /\ \A e \in Edges, n \in Nat : n >= 1 /\ n <= MaxRequests[e] =>
       /\ FollowCreated(e, n) \in Events /\ FollowRemoved(e, n) \in Events
       /\ FollowCreated(e, n).topic = "follow.created" /\ FollowCreated(e, n).edge = e
       /\ FollowCreated(e, n).n = n
       /\ FollowRemoved(e, n).topic = "follow.removed" /\ FollowRemoved(e, n).edge = e
       /\ FollowRemoved(e, n).n = n
<1>1. ASSUME NEW x \in Activities PROVE ActivityRecorded(x) \in Events
  BY DEF Events
<1>2. ASSUME NEW e \in Edges, NEW n \in Nat, n >= 1, n <= MaxRequests[e]
      PROVE  FollowCreated(e, n) \in Events /\ FollowRemoved(e, n) \in Events
  <2>1. n \in 1 .. MaxRequests[e]
    BY <1>2, SocialConstants
  <2>2. FollowCreated(e, n) \in EdgeEvents(e) /\ FollowRemoved(e, n) \in EdgeEvents(e)
    BY <2>1 DEF EdgeEvents
  <2> QED BY <2>2 DEF Events
<1>3. \A x : ActivityRecorded(x).topic = "activity.recorded" /\ ActivityRecorded(x).activity = x
  BY DEF ActivityRecorded
<1>4. \A e, n : /\ FollowCreated(e, n).topic = "follow.created" /\ FollowCreated(e, n).edge = e
                /\ FollowCreated(e, n).n = n
                /\ FollowRemoved(e, n).topic = "follow.removed" /\ FollowRemoved(e, n).edge = e
                /\ FollowRemoved(e, n).n = n
  BY DEF FollowCreated, FollowRemoved
<1> QED BY <1>1, <1>2, <1>3, <1>4, NoneIsNoEvent

(* What a worker that is not idle holds. *)
LEMMA Tasks ==
  ASSUME Base, NEW w \in Workers, step[w] # "idle"
  PROVE  /\ task[w] \in Events /\ task[w] # None /\ Made(task[w])
         /\ \/ /\ task[w].topic = "activity.recorded"
               /\ task[w].activity \in Activities
               /\ task[w] = ActivityRecorded(task[w].activity)
            \/ /\ task[w].topic \in {"follow.created", "follow.removed"}
               /\ task[w].edge \in Edges /\ task[w].n \in Nat /\ task[w].n >= 1
               /\ task[w].n <= requests[task[w].edge]
<1>1. task[w] \in Events /\ task[w] # None /\ Made(task[w])
  BY DEF Base, TypeOK, EventInv
<1> QED BY <1>1, EventShapes DEF Made

-----------------------------------------------------------------------------
(* Types, in parts that few steps touch together.                          *)
TablesTyped ==
  /\ follows \subseteq Edges
  /\ rows \in Seq(Activities)
  /\ feed \subseteq Users \X Activities

RequestsTyped ==
  /\ requests \in [Edges -> Nat]
  /\ applied \in [Edges -> Nat]
  /\ \A e \in Edges : requests[e] <= MaxRequests[e] /\ applied[e] <= requests[e]
  /\ recorded \subseteq Activities

EventsTyped == unsent \subseteq Events /\ queue \subseteq Events /\ parked \subseteq Events

WorkersTyped ==
  /\ task \in [Workers -> Events \cup {None}]
  /\ step \in [Workers -> {"idle", "start", "recipients", "insert", "ack"}]
  /\ \A w \in Workers : /\ task[w] = None <=> step[w] = "idle"
                        /\ got[w] # {} => step[w] = "insert"
  /\ got \in [Workers -> SUBSET (Users \X Activities)]
  /\ \A w \in evicted : w \in Workers /\ step[w] # "idle"

HistoryTyped ==
  /\ broken \subseteq Edges
  /\ interrupted \subseteq Activities
  /\ crossed \subseteq Users \X Activities
  /\ faults \in 0 .. MaxFaults

LEMMA TypeParts ==
  /\ TypeOK <=> TablesTyped /\ RequestsTyped /\ EventsTyped /\ WorkersTyped /\ HistoryTyped
  /\ TypeOK' <=> TablesTyped' /\ RequestsTyped' /\ EventsTyped' /\ WorkersTyped' /\ HistoryTyped'
BY DEF TypeOK, TablesTyped, RequestsTyped, EventsTyped, WorkersTyped, HistoryTyped

LEMMA PartsKept ==
  /\ TablesTyped /\ UNCHANGED tables => TablesTyped'
  /\ RequestsTyped /\ UNCHANGED <<requests, applied, recorded>> => RequestsTyped'
  /\ EventsTyped /\ UNCHANGED <<unsent, queue, parked>> => EventsTyped'
  /\ WorkersTyped /\ UNCHANGED workVars => WorkersTyped'
  /\ HistoryTyped /\ UNCHANGED <<broken, interrupted, crossed, faults>> => HistoryTyped'
BY DEF tables, workVars, TablesTyped, RequestsTyped, EventsTyped, WorkersTyped, HistoryTyped

LEMMA FaultTyped ==
  ASSUME HistoryTyped, faults < MaxFaults, faults' = faults + 1
  PROVE  faults' \in 0 .. MaxFaults
BY SocialConstants DEF HistoryTyped

(* A request: another number of its edge, and an event with that number.   *)
LEMMA RequestBase ==
  ASSUME Base, NEW e \in Edges, Follow(e) \/ Unfollow(e)
  PROVE  Base'
<1>1. /\ TablesTyped /\ RequestsTyped /\ EventsTyped /\ WorkersTyped /\ HistoryTyped
      /\ EventInv
  BY TypeParts DEF Base
<1>2. /\ requests[e] < MaxRequests[e] /\ requests' = [requests EXCEPT ![e] = @ + 1]
      /\ UNCHANGED <<rows, feed, recorded, queue, workVars, history, faults>>
      /\ follows' = follows \cup {e} \/ follows' = follows \ {e}
  BY DEF Follow, Unfollow
<1>3. PICK m \in {FollowCreated(e, requests[e] + 1), FollowRemoved(e, requests[e] + 1)} :
        unsent' = unsent \cup {m}
  BY DEF Follow, Unfollow
<1>4. requests[e] \in Nat /\ MaxRequests[e] \in Nat
  BY <1>1, SocialConstants DEF RequestsTyped
<1>5. m \in Events /\ m.edge = e /\ m.n = requests[e] + 1
  BY <1>2, <1>4, EventKinds
<1>6. RequestsTyped'
  BY <1>1, <1>2, <1>4 DEF RequestsTyped, history
<1>7. TablesTyped' /\ EventsTyped'
  BY <1>1, <1>2, <1>3, <1>5 DEF TablesTyped, EventsTyped, history
<1>8. WorkersTyped' /\ HistoryTyped'
  BY <1>1, <1>2, PartsKept DEF history
<1>9. \A d \in Edges : requests[d] <= requests'[d]
  BY <1>1, <1>2, <1>4 DEF RequestsTyped
<1>10. Made(m)'
  BY <1>1, <1>2, <1>5 DEF Made, RequestsTyped
<1>11. ASSUME NEW l \in Events, Made(l) PROVE Made(l)'
  <2>1. CASE l.topic = "activity.recorded"
    BY <2>1 DEF Made
  <2>2. CASE l.topic # "activity.recorded"
    <3>1. l.edge \in Edges /\ l.n \in Nat /\ l.n <= requests[l.edge]
      BY <1>11, <2>2, EventShapes DEF Made
    <3> QED BY <3>1, <1>1, <1>6, <1>9 DEF RequestsTyped, Made
  <2> QED BY <2>1, <2>2
<1>12. EventInv'
  <2>1. \A l \in unsent \cup queue : l \in Events /\ Made(l)
    BY <1>1 DEF EventsTyped, EventInv
  <2>2. \A w \in Workers : task[w] # None => task[w] \in Events /\ Made(task[w])
    BY <1>1 DEF WorkersTyped, EventInv
  <2>3. \A l \in (unsent \cup queue)' : Made(l)'
    BY <1>2, <1>3, <1>10, <1>11, <2>1
  <2>4. \A w \in Workers : task'[w] # None => Made(task[w])'
    BY <1>2, <1>11, <2>2 DEF workVars
  <2> QED BY <1>1, <1>2, <1>3, <2>3, <2>4 DEF EventInv, Made, workVars
<1> QED BY <1>6, <1>7, <1>8, <1>12, TypeParts DEF Base

LEMMA OutboxBase ==
  ASSUME Base, \/ \E x \in Activities : RecordActivity(x)
               \/ \E m \in unsent : Publish(m) \/ LosePublish(m)
  PROVE  Base'
<1>1. /\ TablesTyped /\ RequestsTyped /\ EventsTyped /\ WorkersTyped /\ HistoryTyped
      /\ EventInv
  BY TypeParts DEF Base
<1>2. ASSUME NEW x \in Activities, RecordActivity(x) PROVE Base'
  <2>1. RequestsTyped' /\ EventsTyped'
    BY <1>1, <1>2, EventKinds DEF RecordActivity, RequestsTyped, EventsTyped, history
  <2>2. TablesTyped' /\ WorkersTyped' /\ HistoryTyped'
    BY <1>1, <1>2, PartsKept DEF RecordActivity, history
  <2>3. EventInv'
    BY <1>1, <1>2, EventKinds DEF RecordActivity, EventInv, Made, workVars
  <2> QED BY <2>1, <2>2, <2>3, TypeParts DEF Base
<1>3. ASSUME NEW m \in unsent, Publish(m) PROVE Base'
  <2>1. EventsTyped'
    BY <1>1, <1>3 DEF Publish, EventsTyped, history
  <2>2. TablesTyped' /\ RequestsTyped' /\ WorkersTyped' /\ HistoryTyped'
    BY <1>1, <1>3, PartsKept DEF Publish, history
  <2>3. EventInv'
    BY <1>1, <1>3 DEF Publish, EventInv, Made, workVars
  <2> QED BY <2>1, <2>2, <2>3, TypeParts DEF Base
<1>4. ASSUME NEW m \in unsent, LosePublish(m) PROVE Base'
  <2>1. EdgeOf(m) \subseteq Edges
    BY <1>1, EventShapes DEF EdgeOf, EventsTyped
  <2>2. HistoryTyped' /\ EventsTyped'
    BY <1>1, <1>4, <2>1, FaultTyped DEF LosePublish, HistoryTyped, EventsTyped
  <2>3. TablesTyped' /\ RequestsTyped' /\ WorkersTyped'
    BY <1>1, <1>4, PartsKept DEF LosePublish
  <2>4. EventInv'
    BY <1>1, <1>4 DEF LosePublish, EventInv, Made, workVars
  <2> QED BY <2>2, <2>3, <2>4, TypeParts DEF Base
<1> QED BY <1>2, <1>3, <1>4

(* One step of a worker: what it holds, where it stands, what it has read. *)
LEMMA WorkerMoves ==
  ASSUME WorkersTyped, NEW w \in Workers, NEW m \in Events \cup {None},
         NEW s \in {"idle", "start", "recipients", "insert", "ack"},
         NEW S \in SUBSET (Users \X Activities),
         task' = [task EXCEPT ![w] = m], Goto(w, s), got' = [got EXCEPT ![w] = S],
         m = None <=> s = "idle", S # {} => s = "insert",
         evicted' \subseteq evicted, m = None => w \notin evicted'
  PROVE  WorkersTyped'
BY DEF WorkersTyped, Goto

LEMMA WorkerStays ==
  ASSUME WorkersTyped, NEW w \in Workers
  PROVE  /\ task = [task EXCEPT ![w] = task[w]] /\ got = [got EXCEPT ![w] = got[w]]
         /\ task[w] \in Events \cup {None} /\ got[w] \in SUBSET (Users \X Activities)
         /\ step[w] # "idle" => task[w] # None
         /\ step[w] # "insert" => got[w] = {}
BY DEF WorkersTyped

(* Leaving a handler, with or without settling the event. *)
LEMMA LeaveBase ==
  ASSUME Base, NEW w \in Workers, step[w] # "idle", Leave(w),
         queue' = queue \ Settled(w) \/ queue' = queue,
         UNCHANGED <<requests, unsent>>
  PROVE  WorkersTyped' /\ EventInv' /\ queue' \subseteq queue
<1>1. WorkersTyped /\ EventInv
  BY TypeParts DEF Base
<1>2. WorkersTyped'
  <2>1. None \in Events \cup {None} /\ {} \in SUBSET (Users \X Activities)
    OBVIOUS
  <2> QED BY <1>1, <2>1, WorkerMoves DEF Leave
<1>3. EventInv'
  <2>1. /\ task' = [task EXCEPT ![w] = None] /\ step' = [step EXCEPT ![w] = "idle"]
        /\ evicted' = evicted \ {w}
    BY DEF Leave, Goto
  <2>2. \A v \in Workers : /\ v # w => task'[v] = task[v] /\ step'[v] = step[v]
                           /\ v = w => task'[v] = None /\ step'[v] = "idle"
    BY <1>1, <2>1 DEF WorkersTyped
  <2>3. task[w] # None
    BY Tasks
  <2>4. ASSUME NEW v \in Workers \ evicted', task'[v] # None PROVE task'[v] \in queue'
    <3>1. v # w /\ v \notin evicted /\ task'[v] = task[v] /\ task[v] \in queue
      BY <1>1, <2>1, <2>2, <2>4 DEF EventInv
    <3>2. task[v] \notin Settled(w)
      BY <1>1, <2>3, <3>1 DEF EventInv, Settled
    <3> QED BY <3>1, <3>2
  <2>5. \A m \in (unsent \cup queue)' : Made(m)'
    BY <1>1 DEF EventInv, Made
  <2>6. \A v \in Workers : task'[v] # None => Made(task[v])' /\ task'[v] = task[v]
    BY <1>1, <2>2 DEF EventInv, Made
  <2>7. \A v, u \in Workers \ evicted' : task'[v] = task'[u] /\ task'[v] # None => v = u
    BY <1>1, <2>1, <2>2 DEF EventInv
  <2>8. \A v \in Workers : /\ step'[v] = "recipients" => task'[v].topic = "activity.recorded"
                           /\ step'[v] = "insert" => task'[v].topic # "follow.removed"
    BY <1>1, <2>2 DEF EventInv
  <2> QED BY <2>4, <2>5, <2>6, <2>7, <2>8 DEF EventInv, Made
<1> QED BY <1>2, <1>3

LEMMA HistoryOf ==
  ASSUME Base, NEW w \in Workers, step[w] # "idle"
  PROVE  /\ EdgeOf(task[w]) \subseteq Edges
         /\ UNION {EdgeOf(m) : m \in Settled(w)} \subseteq EdgeOf(task[w])
         /\ Unfinished(w) \subseteq Activities
BY Tasks DEF EdgeOf, Unfinished, Settled

-----------------------------------------------------------------------------
(* What the handlers read and write. *)

LEMMA ReadTypes ==
  ASSUME TablesTyped
  PROVE  /\ \A a : Recent(a) \subseteq Activities /\ \A x \in Recent(a) : Author[x] = a
         /\ \A x \in Activities : Recipients(x) \subseteq Users
         /\ Known \subseteq Activities /\ IsFiniteSet(Known)
<1>1. DOMAIN rows = 1 .. Len(rows) /\ \A i \in DOMAIN rows : rows[i] \in Activities
  BY DEF TablesTyped
<1>2. Known \subseteq Activities
  BY <1>1 DEF Known
<1>3. \A a : Recent(a) \subseteq Activities /\ \A x \in Recent(a) : Author[x] = a
  BY <1>2 DEF Recent
<1>4. ASSUME NEW x \in Activities PROVE Recipients(x) \subseteq Users
  <2>1. \A e \in follows : e[1] \in Users
    BY DEF TablesTyped, Edges
  <2>2. Author[x] \in Users
    BY SocialConstants
  <2> QED BY <2>1, <2>2 DEF Recipients
<1>5. IsFiniteSet(Known)
  <2>1. Len(rows) \in Nat
    BY DEF TablesTyped
  <2>2. IsFiniteSet(1 .. Len(rows))
    BY <2>1, FS_Interval
  <2>3. rows \in Surjection(1 .. Len(rows), Known)
    <3>1. rows \in [1 .. Len(rows) -> Activities]
      BY DEF TablesTyped
    <3> QED BY <1>1, <3>1 DEF Known, Surjection
  <2> QED BY <2>2, <2>3, FS_Surjection
<1> QED BY <1>2, <1>3, <1>4, <1>5

(* A new row takes a place among the others, which keep their order. *)
LEMMA RowInserted ==
  ASSUME TablesTyped, NEW x \in Activities, NEW i \in 1 .. Len(rows) + 1, rows' = Inserted(x, i)
  PROVE  /\ rows' \in Seq(Activities)
         /\ Known' = Known \cup {x}
         /\ \A j, k \in DOMAIN rows : j < k =>
              \E p, q \in DOMAIN rows' : p < q /\ rows'[p] = rows[j] /\ rows'[q] = rows[k]
<1> DEFINE n == Len(rows)
           At(j) == IF j < i THEN j ELSE j + 1
<1>1. n \in Nat /\ DOMAIN rows = 1 .. n /\ \A j \in 1 .. n : rows[j] \in Activities
  BY DEF TablesTyped
<1>2. /\ DOMAIN rows' = 1 .. n + 1
      /\ \A j \in 1 .. n + 1 :
           rows'[j] = IF j < i THEN rows[j] ELSE IF j = i THEN x ELSE rows[j - 1]
  BY DEF Inserted
<1>3. \A j \in 1 .. n + 1 : rows'[j] \in Activities
  BY <1>1, <1>2
<1>4. rows' \in Seq(Activities)
  BY <1>1, <1>3 DEF Inserted
<1>5. \A j \in 1 .. n : At(j) \in 1 .. n + 1 /\ rows'[At(j)] = rows[j]
  BY <1>1, <1>2
<1>6. \A j, k \in 1 .. n : j < k => At(j) < At(k)
  BY <1>1
<1>7. Known' = Known \cup {x}
  <2>1. \A j \in 1 .. n + 1 : rows'[j] = x \/ \E k \in 1 .. n : rows'[j] = rows[k]
    <3>1. ASSUME NEW j \in 1 .. n + 1 PROVE rows'[j] = x \/ \E k \in 1 .. n : rows'[j] = rows[k]
      <4>1. CASE j < i
        BY <1>1, <1>2, <4>1
      <4>2. CASE j > i
        <5>1. j - 1 \in 1 .. n /\ rows'[j] = rows[j - 1]
          BY <1>1, <1>2, <4>2
        <5> QED BY <5>1
      <4> QED BY <1>1, <1>2, <4>1, <4>2
    <3> QED BY <3>1
  <2>2. x = rows'[i] /\ i \in 1 .. n + 1
    BY <1>1, <1>2
  <2>3. Known' \subseteq Known \cup {x}
    BY <1>1, <1>2, <2>1 DEF Known
  <2>4. \A j \in 1 .. n : \E k \in 1 .. n + 1 : rows'[k] = rows[j]
    BY <1>5
  <2>5. Known \cup {x} \subseteq Known'
    BY <1>1, <1>2, <2>2, <2>4 DEF Known
  <2> QED BY <2>3, <2>5
<1>8. ASSUME NEW j \in DOMAIN rows, NEW k \in DOMAIN rows, j < k
      PROVE  \E p, q \in DOMAIN rows' : p < q /\ rows'[p] = rows[j] /\ rows'[q] = rows[k]
  <2>1. /\ At(j) \in DOMAIN rows' /\ At(k) \in DOMAIN rows' /\ At(j) < At(k)
        /\ rows'[At(j)] = rows[j] /\ rows'[At(k)] = rows[k]
    BY <1>1, <1>2, <1>5, <1>6, <1>8
  <2> HIDE DEF At
  <2> QED BY <2>1
<1> QED BY <1>4, <1>7, <1>8

LEMMA ApplyTypes ==
  ASSUME Base, NEW w \in Workers, step[w] # "idle", Apply(task[w]), UNCHANGED <<requests, recorded>>
  PROVE  RequestsTyped' /\ broken' \subseteq Edges
<1>1. RequestsTyped /\ broken \subseteq Edges
  BY TypeParts DEF Base, HistoryTyped
<1>2. CASE task[w].topic = "activity.recorded"
  BY <1>1, <1>2 DEF Apply, RequestsTyped
<1>3. CASE task[w].topic # "activity.recorded"
  <2>1. task[w].edge \in Edges /\ task[w].n \in Nat /\ task[w].n <= requests[task[w].edge]
    BY <1>3, Tasks
  <2> QED BY <1>1, <1>3, <2>1 DEF Apply, RequestsTyped
<1> QED BY <1>2, <1>3

(* A step of a handler: it keeps its message.                              *)
LEMMA HandlerBase ==
  ASSUME Base, NEW w \in Workers, step[w] # "idle",
         NEW s \in {"start", "recipients", "insert", "ack"}, Goto(w, s), UNCHANGED <<task, evicted>>,
         s = "recipients" => task[w].topic = "activity.recorded",
         s = "insert" => task[w].topic # "follow.removed",
         NEW S \in SUBSET (Users \X Activities), S # {} => s = "insert",
         got' = [got EXCEPT ![w] = S],
         UNCHANGED <<requests, recorded, unsent, queue, parked>>,
         interrupted' \subseteq Activities, crossed' \subseteq Users \X Activities,
         faults' \in 0 .. MaxFaults,
         TablesTyped', Apply(task[w]) \/ UNCHANGED <<applied, broken>>
  PROVE  Base'
<1>1. /\ TablesTyped /\ RequestsTyped /\ EventsTyped /\ WorkersTyped /\ HistoryTyped
      /\ EventInv
  BY TypeParts DEF Base
<1>2. WorkersTyped'
  <2>1. task' = [task EXCEPT ![w] = task[w]] /\ task[w] \in Events \cup {None} /\ task[w] # None
    BY <1>1, WorkerStays
  <2> QED BY <1>1, <2>1, WorkerMoves
<1>3. RequestsTyped' /\ broken' \subseteq Edges
  BY <1>1, ApplyTypes, PartsKept DEF HistoryTyped
<1>4. EventsTyped' /\ HistoryTyped'
  BY <1>1, <1>3 DEF EventsTyped, HistoryTyped
<1>5. EventInv'
  <2>1. \A v \in Workers : (v # w => step'[v] = step[v]) /\ (v = w => step'[v] = s)
    BY <1>1 DEF WorkersTyped, Goto
  <2> QED BY <1>1, <2>1 DEF EventInv, Made
<1> QED BY <1>2, <1>3, <1>4, <1>5, TypeParts DEF Base

LEMMA LeavingBase ==
  ASSUME Base, NEW w \in Workers,
         \/ Acknowledge(w) \/ GiveUp(w)
         \/ StartOver(w) /\ Leave(w)
  PROVE  Base'
<1>1. /\ TablesTyped /\ RequestsTyped /\ EventsTyped /\ WorkersTyped /\ HistoryTyped
      /\ EventInv
  BY TypeParts DEF Base
<1>2. /\ step[w] # "idle" /\ Leave(w) /\ (queue' = queue \ Settled(w) \/ queue' = queue)
      /\ UNCHANGED <<tables, requests, recorded, unsent, applied, crossed>>
  BY DEF Acknowledge, StartOver, GiveUp, history
<1>3. WorkersTyped' /\ EventInv' /\ queue' \subseteq queue
  BY <1>2, LeaveBase
<1>4. TablesTyped' /\ RequestsTyped'
  BY <1>1, <1>2, PartsKept
<1>5. /\ UNION {EdgeOf(m) : m \in Settled(w)} \subseteq Edges
      /\ Unfinished(w) \subseteq Activities /\ task[w] \in Events
  BY <1>2, HistoryOf, Tasks
<1>6. EventsTyped'
  BY <1>1, <1>2, <1>3, <1>5 DEF EventsTyped, Acknowledge, StartOver, GiveUp, history
<1>7. HistoryTyped'
  BY <1>1, <1>2, <1>5, FaultTyped DEF HistoryTyped, Acknowledge, StartOver, GiveUp, history
<1> QED BY <1>3, <1>4, <1>6, <1>7, TypeParts DEF Base

(* A handler that starts over in its process, and one that the group goes  *)
(* on without.                                                             *)
LEMMA FaultBase ==
  ASSUME Base, NEW w \in Workers, Evict(w) \/ StartOver(w)
  PROVE  Base'
<1>1. /\ TablesTyped /\ RequestsTyped /\ EventsTyped /\ WorkersTyped /\ HistoryTyped
      /\ EventInv
  BY TypeParts DEF Base
<1>2. CASE Evict(w)
  <2>1. /\ step[w] # "idle" /\ evicted' = evicted \cup {w}
        /\ faults < MaxFaults /\ faults' = faults + 1
        /\ UNCHANGED <<tables, requests, recorded, unsent, queue, task, step, got, history>>
    BY <1>2 DEF Evict
  <2>2. WorkersTyped' /\ HistoryTyped'
    BY <1>1, <2>1, FaultTyped DEF WorkersTyped, HistoryTyped, history
  <2>3. TablesTyped' /\ RequestsTyped' /\ EventsTyped'
    BY <1>1, <2>1, PartsKept DEF history
  <2>4. EventInv'
    BY <1>1, <2>1 DEF EventInv, Made
  <2> QED BY <2>2, <2>3, <2>4, TypeParts DEF Base
<1>3. CASE StartOver(w) /\ ~Leave(w)
  <2>1. /\ step[w] # "idle" /\ Goto(w, "start") /\ got' = [got EXCEPT ![w] = {}]
        /\ interrupted' = interrupted \cup Unfinished(w)
        /\ faults < MaxFaults /\ faults' = faults + 1
        /\ UNCHANGED <<task, evicted, tables, requests, recorded, unsent, queue, applied, broken,
                       parked, crossed>>
    BY <1>3 DEF StartOver
  <2>2. /\ Unfinished(w) \subseteq Activities /\ interrupted \subseteq Activities
        /\ crossed' \subseteq Users \X Activities
    BY <1>1, <2>1, HistoryOf DEF HistoryTyped
  <2>3. faults' \in 0 .. MaxFaults /\ TablesTyped'
    BY <1>1, <2>1, FaultTyped, PartsKept
  <2>4. {} \in SUBSET (Users \X Activities) /\ "start" # "insert" /\ "start" # "recipients"
    OBVIOUS
  <2> QED BY <2>1, <2>2, <2>3, <2>4, HandlerBase
<1> QED BY <1>2, <1>3, LeavingBase

LEMMA ReceiveBase ==
  ASSUME Base, NEW w \in Workers, NEW m \in queue, Receive(w, m)
  PROVE  Base'
<1>1. /\ TablesTyped /\ RequestsTyped /\ EventsTyped /\ WorkersTyped /\ HistoryTyped
      /\ EventInv
  BY TypeParts DEF Base
<1>2. m \in Events /\ m # None
  BY <1>1, NoneIsNoEvent DEF EventsTyped
<1>3. /\ task' = [task EXCEPT ![w] = m] /\ step' = [step EXCEPT ![w] = "start"]
      /\ \A v \in Workers \ evicted : task[v] # m
      /\ step[w] = "idle" /\ Goto(w, "start")
      /\ UNCHANGED <<tables, requests, recorded, unsent, queue, got, evicted, history, faults>>
  BY DEF Receive, Goto
<1>4. WorkersTyped'
  BY <1>1, <1>2, <1>3 DEF WorkersTyped
<1>5. TablesTyped' /\ RequestsTyped' /\ EventsTyped' /\ HistoryTyped'
  BY <1>1, <1>3, PartsKept DEF history
<1>6. EventInv'
  <2>1. \A v \in Workers : /\ v # w => task'[v] = task[v] /\ step'[v] = step[v]
                           /\ v = w => task'[v] = m /\ step'[v] = "start"
    BY <1>1, <1>3 DEF WorkersTyped
  <2>2. \A v \in Workers \ evicted' : task'[v] # None => task'[v] \in queue'
    BY <1>1, <1>3, <2>1 DEF EventInv
  <2>3. /\ \A l \in (unsent \cup queue)' : Made(l)'
        /\ \A v \in Workers : task'[v] # None => Made(task[v])'
    BY <1>1, <1>3, <2>1 DEF EventInv, Made
  <2>4. \A v, u \in Workers \ evicted' : task'[v] = task'[u] /\ task'[v] # None => v = u
    BY <1>1, <1>3, <2>1 DEF EventInv
  <2> QED BY <1>1, <2>1, <2>2, <2>3, <2>4 DEF EventInv
<1> QED BY <1>4, <1>5, <1>6, TypeParts DEF Base

LEMMA WorkBase ==
  ASSUME Base, NEW w \in Workers, Work(w)
  PROVE  Base'
<1>1. /\ TablesTyped /\ RequestsTyped /\ EventsTyped /\ WorkersTyped /\ HistoryTyped
      /\ EventInv
      /\ interrupted \subseteq Activities /\ crossed \subseteq Users \X Activities
      /\ faults \in 0 .. MaxFaults
  BY TypeParts DEF Base, HistoryTyped
<1> DEFINE Entries == SUBSET (Users \X Activities)
<1>0. {} \in Entries /\ "recipients" # "insert" /\ "ack" # "insert"
  OBVIOUS
<1>2. CASE CreateActivity(w)
  <2>1. step[w] = "start" /\ task[w].activity \in Activities
        /\ task[w].topic = "activity.recorded"
    BY <1>2, Tasks DEF CreateActivity
  <2>2. TablesTyped'
    BY <1>1, <1>2, <2>1, RowInserted DEF TablesTyped, CreateActivity
  <2>3. got' = [got EXCEPT ![w] = {}]
    BY <1>1, <1>2, <2>1, WorkerStays DEF CreateActivity
  <2>4. PICK s \in {"recipients", "ack"} : Goto(w, s)
    BY <1>2 DEF CreateActivity
  <2> QED BY <1>0, <1>1, <1>2, <2>1, <2>2, <2>3, <2>4, HandlerBase DEF CreateActivity, history
<1>3. CASE ReadRecipients(w)
  <2>1. step[w] = "recipients" /\ task[w].activity \in Activities
        /\ task[w].topic = "activity.recorded"
    BY <1>1, <1>3, Tasks DEF ReadRecipients, EventInv
  <2> DEFINE S == {<<u, task[w].activity>> : u \in Recipients(task[w].activity)}
  <2>2. S \in Entries
    BY <1>1, <2>1, ReadTypes
  <2>3. got' = [got EXCEPT ![w] = S]
    BY <1>3 DEF ReadRecipients
  <2>4. TablesTyped'
    BY <1>1, <1>3, PartsKept DEF ReadRecipients
  <2> HIDE DEF S
  <2> QED BY <1>1, <1>3, <2>1, <2>2, <2>3, <2>4, HandlerBase DEF ReadRecipients, history
<1>4. CASE ReadRecent(w)
  <2>1. step[w] = "start" /\ task[w].edge \in Edges /\ task[w].topic = "follow.created"
    BY <1>4, Tasks DEF ReadRecent
  <2> DEFINE S == {<<task[w].edge[1], x>> : x \in Recent(task[w].edge[2])}
  <2>2. S \in Entries
    BY <1>1, <2>1, ReadTypes DEF Edges
  <2>3. got' = [got EXCEPT ![w] = S]
    BY <1>4 DEF ReadRecent
  <2>4. TablesTyped'
    BY <1>1, <1>4, PartsKept DEF ReadRecent
  <2> HIDE DEF S
  <2> QED BY <1>1, <1>4, <2>1, <2>2, <2>3, <2>4, HandlerBase DEF ReadRecent, history
<1>5. CASE InsertEntries(w)
  <2>1. TablesTyped'
    BY <1>1, <1>5 DEF TablesTyped, InsertEntries, WorkersTyped
  <2> QED BY <1>0, <1>1, <1>5, <2>1, HandlerBase DEF InsertEntries
<1>6. CASE Prune(w)
  <2>1. TablesTyped'
    BY <1>1, <1>6 DEF TablesTyped, Prune
  <2>2. got' = [got EXCEPT ![w] = {}]
    BY <1>1, <1>6, WorkerStays DEF Prune
  <2>3. crossed' \subseteq Users \X Activities
    BY <1>1, <1>6 DEF Prune, Crossing, Through
  <2>4. {} \in SUBSET (Users \X Activities)
    OBVIOUS
  <2>5. step[w] # "idle" /\ Goto(w, "ack") /\ Apply(task[w])
        /\ UNCHANGED <<task, evicted, requests, recorded, unsent, queue, parked, interrupted, faults>>
    BY <1>6 DEF Prune
  <2> QED BY <1>0, <1>1, <2>1, <2>2, <2>3, <2>4, <2>5, HandlerBase
<1>7. CASE Acknowledge(w)
  BY <1>7, LeavingBase
<1>8. CASE \E m \in queue : Receive(w, m)
  BY <1>8, ReceiveBase
<1> QED BY <1>2, <1>3, <1>4, <1>5, <1>6, <1>7, <1>8 DEF Work

LEMMA BaseStep ==
  ASSUME Base, [Next]_vars
  PROVE  Base'
<1>1. CASE UNCHANGED vars
  <2>1. TypeOK'
    BY <1>1, TypeParts, PartsKept DEF Base, vars, history
  <2>2. EventInv'
    BY <1>1 DEF Base, EventInv, Made, vars, workVars
  <2> QED BY <2>1, <2>2 DEF Base
<1> QED BY <1>1, RequestBase, OutboxBase, WorkBase, FaultBase, LeavingBase DEF Next

LEMMA InitBase == Init => Base
<1>1. Init => TypeOK
  BY SocialConstants DEF Init, TypeOK
<1>2. Init => EventInv
  BY DEF Init, EventInv
<1> QED BY <1>1, <1>2 DEF Base

LEMMA BaseHolds == Spec => []Base
BY InitBase, BaseStep, PTL DEF Spec

(* Every variable keeps its type: in particular no event is applied before *)
(* the request that it tells of, and nothing is left of what a handler had *)
(* read once it inserts or gives up.                                       *)
THEOREM TypeCorrect == Spec => []TypeOK
BY BaseHolds, PTL DEF Base

-----------------------------------------------------------------------------
(* What one worker does leaves the others alone.                           *)
LEMMA OneMoves ==
  ASSUME Base, NEW w \in Workers, Work(w) \/ Evict(w) \/ StartOver(w) \/ GiveUp(w)
  PROVE  /\ \A v \in Workers : v # w => task'[v] = task[v] /\ step'[v] = step[v] /\ got'[v] = got[v]
         /\ UNCHANGED <<follows, requests, recorded, unsent>>
<1>1. WorkersTyped
  BY TypeParts DEF Base
<1>2. UNCHANGED <<follows, requests, recorded, unsent>>
  BY DEF Work, Receive, CreateActivity, ReadRecipients, ReadRecent, InsertEntries, Prune,
         Acknowledge, Evict, StartOver, GiveUp, tables
<1>3. \/ UNCHANGED task
      \/ \E m : task' = [task EXCEPT ![w] = m]
  BY DEF Work, Receive, CreateActivity, ReadRecipients, ReadRecent, InsertEntries, Prune,
         Acknowledge, Evict, StartOver, GiveUp, Leave
<1>4. \/ UNCHANGED step
      \/ \E s : step' = [step EXCEPT ![w] = s]
  BY DEF Work, Receive, CreateActivity, ReadRecipients, ReadRecent, InsertEntries, Prune,
         Acknowledge, Evict, StartOver, GiveUp, Leave, Goto
<1>5. \/ UNCHANGED got
      \/ \E S : got' = [got EXCEPT ![w] = S]
  BY DEF Work, Receive, CreateActivity, ReadRecipients, ReadRecent, InsertEntries, Prune,
         Acknowledge, Evict, StartOver, GiveUp, Leave
<1> QED BY <1>1, <1>2, <1>3, <1>4, <1>5 DEF WorkersTyped

(* The web and the outbox leave the workers and the feed alone.            *)
LEMMA WebMoves ==
  ASSUME Base,
         \/ \E e \in Edges : Follow(e) \/ Unfollow(e)
         \/ \E x \in Activities : RecordActivity(x)
         \/ \E m \in unsent : Publish(m) \/ LosePublish(m)
  PROVE  /\ UNCHANGED <<rows, feed, task, step, got, applied, interrupted, crossed>>
         /\ \A e \in Edges : requests'[e] \in Nat /\ requests[e] <= requests'[e]
<1>1. UNCHANGED <<rows, feed, task, step, got, applied, interrupted, crossed>>
  BY DEF Follow, Unfollow, RecordActivity, Publish, LosePublish, tables, workVars, history
<1>2. \/ UNCHANGED requests
      \/ \E e \in Edges : requests' = [requests EXCEPT ![e] = @ + 1]
  BY DEF Follow, Unfollow, RecordActivity, Publish, LosePublish
<1>3. requests \in [Edges -> Nat]
  BY DEF Base, TypeOK
<1>4. ASSUME NEW d \in Edges, requests' = [requests EXCEPT ![d] = @ + 1], NEW e \in Edges
      PROVE  requests'[e] \in Nat /\ requests[e] <= requests'[e]
  BY <1>3, <1>4
<1> QED BY <1>1, <1>2, <1>3, <1>4

(* Nobody sees posts of somebody they never followed: nor will anybody by  *)
(* what a worker has read and not yet inserted.                            *)
Entitled(S) == \A f \in S : f[1] = Author[f[2]] \/ requests[<<f[1], Author[f[2]]>>] > 0

PhantomInv ==
  /\ \A e \in follows : requests[e] > 0
  /\ Entitled(feed)
  /\ \A w \in Workers : Entitled(got[w])

LEMMA EntitledKept ==
  ASSUME RequestsTyped, \A e \in Edges : requests'[e] \in Nat /\ requests[e] <= requests'[e],
         NEW S \in SUBSET (Users \X Activities), Entitled(S)
  PROVE  \A f \in S : f[1] = Author[f[2]] \/ requests'[<<f[1], Author[f[2]]>>] > 0
<1> SUFFICES ASSUME NEW f \in S, f[1] # Author[f[2]]
             PROVE  requests'[<<f[1], Author[f[2]]>>] > 0
  OBVIOUS
<1>1. <<f[1], Author[f[2]]>> \in Edges
  BY SocialConstants DEF Edges
<1>2. requests[<<f[1], Author[f[2]]>>] > 0
  BY DEF Entitled
<1> QED BY <1>1, <1>2 DEF RequestsTyped

LEMMA PhantomStep ==
  ASSUME Base, PhantomInv, [Next]_vars
  PROVE  PhantomInv'
<1>1. TablesTyped /\ RequestsTyped /\ WorkersTyped
  BY TypeParts DEF Base
<1>2. \A e \in follows : e \in Edges /\ e = <<e[1], e[2]>> /\ requests[e] > 0
  BY <1>1 DEF TablesTyped, PhantomInv, Edges
<1>3. CASE \/ \E e \in Edges : Follow(e) \/ Unfollow(e)
           \/ \E x \in Activities : RecordActivity(x)
           \/ \E m \in unsent : Publish(m) \/ LosePublish(m)
  <2>1. /\ UNCHANGED <<feed, got>>
        /\ \A e \in Edges : requests'[e] \in Nat /\ requests[e] <= requests'[e]
    BY <1>3, WebMoves
  <2>2. Entitled(feed)'
    <3>1. feed \in SUBSET (Users \X Activities)
      BY <1>1 DEF TablesTyped
    <3> QED BY <1>1, <2>1, <3>1, EntitledKept DEF PhantomInv, Entitled
  <2>3. ASSUME NEW w \in Workers PROVE Entitled(got[w])'
    <3>1. got[w] \in SUBSET (Users \X Activities)
      BY <1>1 DEF WorkersTyped
    <3> QED BY <1>1, <2>1, <3>1, EntitledKept DEF PhantomInv, Entitled
  <2>4. \A e \in follows' : requests'[e] > 0
    <3>1. \A e \in follows : requests'[e] > 0
      BY <1>1, <1>2, <2>1 DEF RequestsTyped
    <3>2. ASSUME NEW e \in Edges, Follow(e) PROVE requests'[e] > 0
      BY <1>1, <3>2 DEF Follow, RequestsTyped
    <3>3. \/ follows' \subseteq follows
          \/ \E e \in Edges : Follow(e) /\ follows' = follows \cup {e}
      BY <1>3 DEF Follow, Unfollow, RecordActivity, Publish, LosePublish, tables
    <3> QED BY <3>1, <3>2, <3>3
  <2> QED BY <2>1, <2>2, <2>3, <2>4 DEF PhantomInv
<1>4. ASSUME NEW w \in Workers, Work(w) \/ Evict(w) \/ StartOver(w) \/ GiveUp(w) PROVE PhantomInv'
  <2>1. /\ UNCHANGED <<follows, requests>>
        /\ \A v \in Workers : v # w => got'[v] = got[v]
    BY <1>4, OneMoves
  <2>2. Entitled(feed)'
    <3>1. feed' \subseteq feed \cup got[w]
      BY <1>4 DEF Work, Receive, CreateActivity, ReadRecipients, ReadRecent, InsertEntries, Prune,
         Acknowledge, Evict, StartOver, GiveUp, tables
    <3> QED BY <2>1, <3>1 DEF PhantomInv, Entitled
  <2>3. Entitled(got'[w])
    <3>1. CASE ReadRecipients(w)
      <4>1. task[w].activity \in Activities
        BY <3>1, Tasks DEF ReadRecipients, Base, EventInv
      <4>2. got'[w] = {<<u, task[w].activity>> : u \in Recipients(task[w].activity)}
        BY <1>1, <3>1 DEF ReadRecipients, WorkersTyped
      <4>3. \A u \in Recipients(task[w].activity) :
              \/ u = Author[task[w].activity]
              \/ requests[<<u, Author[task[w].activity]>>] > 0
        BY <1>2 DEF Recipients
      <4> QED BY <4>2, <4>3 DEF Entitled
    <3>2. CASE ReadRecent(w)
      <4>1. /\ task[w].edge \in Edges /\ task[w].n \in Nat /\ task[w].n >= 1
            /\ task[w].n <= requests[task[w].edge]
        BY <3>2, Tasks DEF ReadRecent
      <4>2. got'[w] = {<<task[w].edge[1], x>> : x \in Recent(task[w].edge[2])}
        BY <1>1, <3>2 DEF ReadRecent, WorkersTyped
      <4>3. \A x \in Recent(task[w].edge[2]) : Author[x] = task[w].edge[2]
        BY <1>1, ReadTypes
      <4>4. task[w].edge = <<task[w].edge[1], task[w].edge[2]>>
        BY <4>1 DEF Edges
      <4>5. requests[task[w].edge] > 0
        BY <1>1, <4>1 DEF RequestsTyped
      <4> QED BY <4>2, <4>3, <4>4, <4>5 DEF Entitled
    <3>3. CASE ~ReadRecipients(w) /\ ~ReadRecent(w)
      <4>1. got'[w] = got[w] \/ got'[w] = {}
        BY <1>1, <1>4, <3>3 DEF Work, Receive, CreateActivity, InsertEntries, Prune,
         Acknowledge, Evict, StartOver, GiveUp, Leave, WorkersTyped
      <4> QED BY <4>1 DEF PhantomInv, Entitled
    <3> QED BY <3>1, <3>2, <3>3
  <2> QED BY <2>1, <2>2, <2>3 DEF PhantomInv, Entitled
<1>5. CASE UNCHANGED vars
  BY <1>5 DEF PhantomInv, Entitled, vars, tables, workVars
<1> QED BY <1>3, <1>4, <1>5 DEF Next

(* Nobody ever sees posts of somebody they never followed, whatever order  *)
(* the events come in and however many workers handle them.                *)
THEOREM NoPhantomEntriesHolds == Spec => []NoPhantomEntries
<1>1. Init => PhantomInv
  BY DEF Init, PhantomInv, Entitled
<1>2. PhantomInv => NoPhantomEntries
  BY DEF PhantomInv, Entitled, NoPhantomEntries
<1> QED BY <1>1, <1>2, PhantomStep, BaseHolds, PTL DEF Spec

-----------------------------------------------------------------------------
(* A post that was stored is in the feed of its author, or a worker is     *)
(* about to put it there, unless its fan-out was aborted.                  *)
Carries(w, x) ==
  /\ task[w] = ActivityRecorded(x)
  /\ step[w] = "recipients" \/ (step[w] = "insert" /\ <<Author[x], x>> \in got[w])

AuthorsInv ==
  \A x \in Known \ interrupted : <<Author[x], x>> \in feed \/ \E w \in Workers : Carries(w, x)

(* An insert that was read stays wanted; a prune takes nobody's own posts. *)
LEMMA OwnStays ==
  ASSUME Base, NEW w \in Workers, Work(w) \/ Evict(w) \/ StartOver(w) \/ GiveUp(w), NEW x \in Activities,
         <<Author[x], x>> \in feed
  PROVE  <<Author[x], x>> \in feed'
<1>1. CASE Prune(w)
  <2>1. task[w].edge[1] # task[w].edge[2]
    BY <1>1, Tasks DEF Prune, Edges
  <2> QED BY <1>1, <2>1 DEF Prune, EntriesOf, Through
<1>2. CASE ~Prune(w)
  <2>1. feed \subseteq feed'
    BY <1>2 DEF Work, Receive, CreateActivity, ReadRecipients, ReadRecent, InsertEntries,
         Acknowledge, Evict, StartOver, GiveUp, tables
  <2> QED BY <2>1
<1> QED BY <1>1, <1>2

LEMMA CarriedOn ==
  ASSUME Base, NEW w \in Workers, Work(w) \/ Evict(w) \/ StartOver(w) \/ GiveUp(w),
         NEW x \in Activities, Carries(w, x)
  PROVE  Carries(w, x)' \/ <<Author[x], x>> \in feed' \/ x \in interrupted'
<1>0. WorkersTyped
  BY TypeParts DEF Base
<1>1. /\ task[w].topic = "activity.recorded" /\ task[w].activity = x
      /\ step[w] \in {"recipients", "insert"}
  BY EventKinds DEF Carries
<1>2. CASE ReadRecipients(w)
  <2>1. /\ got'[w] = {<<u, x>> : u \in Recipients(x)} /\ step'[w] = "insert"
        /\ task'[w] = task[w]
    BY <1>0, <1>1, <1>2 DEF ReadRecipients, WorkersTyped, Goto
  <2>2. Author[x] \in Recipients(x)
    BY DEF Recipients
  <2> QED BY <2>1, <2>2 DEF Carries
<1>3. CASE InsertEntries(w)
  BY <1>3 DEF InsertEntries, Carries
<1>4. CASE StartOver(w) \/ GiveUp(w)
  <2>1. x \in Unfinished(w)
    BY <1>1 DEF Unfinished
  <2> QED BY <1>4, <2>1 DEF Evict, StartOver, GiveUp
<1>5. CASE Work(w) /\ ~ReadRecipients(w) /\ ~InsertEntries(w)
  BY <1>1, <1>5 DEF Work, Receive, CreateActivity, ReadRecent, Prune, Acknowledge
<1>6. CASE Evict(w)
  BY <1>6 DEF Evict, Carries
<1> QED BY <1>2, <1>3, <1>4, <1>5, <1>6

LEMMA AuthorsStep ==
  ASSUME Base, AuthorsInv, [Next]_vars
  PROVE  AuthorsInv'
<1>1. TablesTyped /\ WorkersTyped
  BY TypeParts DEF Base
<1>2. CASE \/ \E e \in Edges : Follow(e) \/ Unfollow(e)
           \/ \E x \in Activities : RecordActivity(x)
           \/ \E m \in unsent : Publish(m) \/ LosePublish(m)
           \/ UNCHANGED vars
  <2>1. UNCHANGED <<rows, feed, task, step, got, interrupted>>
    BY <1>2, WebMoves DEF vars, tables, workVars, history
  <2> QED BY <2>1 DEF AuthorsInv, Carries, Known
<1>3. ASSUME NEW w \in Workers, Work(w) \/ Evict(w) \/ StartOver(w) \/ GiveUp(w),
             NEW x \in Known', x \notin interrupted'
      PROVE  <<Author[x], x>> \in feed' \/ \E v \in Workers : Carries(v, x)'
  <2>1. interrupted \subseteq interrupted'
    BY <1>3 DEF Work, Receive, CreateActivity, ReadRecipients, ReadRecent, InsertEntries, Prune,
         Acknowledge, Evict, StartOver, GiveUp, history
  <2>2. CASE x \in Known
    <3>1. x \in Activities
      BY <1>1, <2>2, ReadTypes
    <3>2. CASE <<Author[x], x>> \in feed
      BY <1>3, <3>1, <3>2, OwnStays
    <3>3. ASSUME NEW v \in Workers, Carries(v, x), v # w PROVE Carries(v, x)'
      BY <1>3, <3>3, OneMoves DEF Carries
    <3>4. CASE Carries(w, x)
      BY <1>3, <3>1, <3>4, CarriedOn
    <3> QED BY <1>3, <2>1, <2>2, <3>2, <3>3, <3>4 DEF AuthorsInv
  <2>3. CASE x \notin Known
    <3>1. CreateActivity(w)
      BY <1>3, <2>3 DEF Work, Receive, ReadRecipients, ReadRecent, InsertEntries, Prune,
         Acknowledge, Evict, StartOver, GiveUp, tables, Known
    <3>2. /\ task[w].activity \in Activities /\ task[w] = ActivityRecorded(task[w].activity)
      BY <3>1, Tasks DEF CreateActivity
    <3>3. /\ \E i \in 1 .. Len(rows) + 1 : rows' = Inserted(task[w].activity, i)
          /\ Goto(w, "recipients") /\ UNCHANGED task
      BY <1>3, <2>3, <3>1 DEF CreateActivity, Known
    <3>4. x = task[w].activity
      BY <1>1, <1>3, <2>3, <3>2, <3>3, RowInserted
    <3> QED BY <1>1, <3>2, <3>3, <3>4 DEF Carries, Goto, WorkersTyped
  <2> QED BY <2>2, <2>3
<1>4. CASE \E w \in Workers : Work(w) \/ Evict(w) \/ StartOver(w) \/ GiveUp(w)
  BY <1>3, <1>4 DEF AuthorsInv
<1> QED BY <1>2, <1>4 DEF Next

(* Once the events are drained, a post whose fan-out was not aborted is in *)
(* the feed of its author, however many workers raced.                     *)
THEOREM AuthorsSeeTheirPostsHolds == Spec => []AuthorsSeeTheirPosts
<1>1. Init => AuthorsInv
  BY DEF Init, AuthorsInv, Known
<1>2. Base /\ AuthorsInv => AuthorsSeeTheirPosts
  <2> SUFFICES ASSUME Base, AuthorsInv, Quiet, NEW x \in Known \ interrupted
               PROVE  <<Author[x], x>> \in feed
    BY DEF AuthorsSeeTheirPosts
  <2>1. ASSUME NEW w \in Workers, Carries(w, x) PROVE FALSE
    BY <2>1 DEF Carries, Quiet
  <2> QED BY <2>1 DEF AuthorsInv
<1> QED BY <1>1, <1>2, AuthorsStep, BaseHolds, PTL DEF Spec

-----------------------------------------------------------------------------
(* The feed of the follower agrees with an edge whose last request has     *)
(* been applied, but for the posts that a worker is fanning out and those  *)
(* that crossed a prune.                                                   *)
TellsOf(m, e) == m.topic # "activity.recorded" /\ m.edge = e

(* The event of the last request of an edge is applied or on its way, and  *)
(* says what the Follow table says.                                        *)
PendingInv ==
  /\ \A e \in Edges \ broken : requests[e] # applied[e] =>
       \E m \in unsent \cup queue : TellsOf(m, e) /\ m.n = requests[e]
  /\ \A m \in unsent \cup queue, e \in Edges : TellsOf(m, e) /\ m.n = requests[e] =>
       (m.topic = "follow.created" <=> e \in follows)
  /\ \A w \in Workers, e \in Edges :
       step[w] # "idle" /\ TellsOf(task[w], e) /\ task[w].n = requests[e] =>
         (task[w].topic = "follow.created" <=> e \in follows)
  /\ \A w \in Workers, e \in Edges :
       step[w] = "ack" /\ TellsOf(task[w], e) => task[w].n <= applied[e]

(* What a worker does to the history of an edge.                           *)
LEMMA Applied ==
  ASSUME Base, NEW w \in Workers, step[w] # "idle", Apply(task[w]), UNCHANGED requests,
         NEW e \in Edges
  PROVE  /\ broken \subseteq broken'
         /\ applied[e] \in Nat /\ applied'[e] \in Nat /\ requests[e] \in Nat
         /\ applied[e] <= applied'[e] /\ applied'[e] <= requests[e]
         /\ TellsOf(task[w], e) =>
              /\ task[w].n \in Nat /\ task[w].n <= applied'[e]
              /\ e \notin broken' => applied'[e] = task[w].n
         /\ ~TellsOf(task[w], e) => applied'[e] = applied[e]
<1>1. RequestsTyped
  BY TypeParts DEF Base
<1>2. CASE task[w].topic = "activity.recorded"
  BY <1>1, <1>2 DEF Apply, TellsOf, RequestsTyped
<1>3. CASE task[w].topic # "activity.recorded"
  <2>1. task[w].edge \in Edges /\ task[w].n \in Nat /\ task[w].n <= requests[task[w].edge]
    BY <1>3, Tasks
  <2>2. CASE task[w].n < applied[task[w].edge]
    BY <1>1, <1>3, <2>1, <2>2 DEF Apply, TellsOf, RequestsTyped
  <2>3. CASE ~(task[w].n < applied[task[w].edge])
    <3>1. applied' = [applied EXCEPT ![task[w].edge] = task[w].n] /\ UNCHANGED broken
      BY <1>3, <2>3 DEF Apply
    <3> QED BY <1>1, <1>3, <2>1, <2>3, <3>1 DEF TellsOf, RequestsTyped
  <2> QED BY <2>2, <2>3
<1> QED BY <1>2, <1>3

LEMMA HistoryGoesOn ==
  ASSUME Base, NEW w \in Workers, Work(w) \/ Evict(w) \/ StartOver(w) \/ GiveUp(w), NEW e \in Edges
  PROVE  /\ broken \subseteq broken' /\ interrupted \subseteq interrupted'
         /\ crossed \subseteq crossed'
         /\ applied[e] \in Nat /\ applied'[e] \in Nat /\ requests[e] \in Nat
         /\ applied[e] <= applied'[e] /\ applied'[e] <= requests[e]
<1>1. CASE InsertEntries(w) \/ Prune(w)
  BY <1>1, Applied DEF InsertEntries, Prune
<1>2. CASE ~InsertEntries(w) /\ ~Prune(w)
  <2>1. /\ UNCHANGED <<applied, crossed>>
        /\ broken \subseteq broken' /\ interrupted \subseteq interrupted'
    BY <1>2 DEF Work, Receive, CreateActivity, ReadRecipients, ReadRecent, Acknowledge,
         Evict, StartOver, GiveUp, history
  <2> QED BY <2>1 DEF Base, TypeOK
<1> QED BY <1>1, <1>2

LEMMA PendingRequest ==
  ASSUME Base, PendingInv, NEW d \in Edges, Follow(d) \/ Unfollow(d)
  PROVE  PendingInv'
<1>1. RequestsTyped /\ EventsTyped /\ TablesTyped
  BY TypeParts DEF Base
<1>2. /\ requests[d] < MaxRequests[d] /\ requests' = [requests EXCEPT ![d] = @ + 1]
      /\ UNCHANGED <<queue, broken, applied, task, step>>
  BY DEF Follow, Unfollow, workVars, history
<1>3. PICK m \in {FollowCreated(d, requests[d] + 1), FollowRemoved(d, requests[d] + 1)} :
        /\ unsent' = unsent \cup {m}
        /\ m = FollowCreated(d, requests[d] + 1) => follows' = follows \cup {d}
        /\ m = FollowRemoved(d, requests[d] + 1) => follows' = follows \ {d}
  BY EventKinds DEF Follow, Unfollow, FollowCreated, FollowRemoved
<1>4. requests[d] \in Nat /\ MaxRequests[d] \in Nat /\ requests'[d] = requests[d] + 1
      /\ \A e \in Edges : e # d => requests'[e] = requests[e]
  BY <1>1, <1>2, SocialConstants DEF RequestsTyped
<1>5. /\ m.edge = d /\ m.n = requests'[d] /\ TellsOf(m, d)
      /\ m.topic = "follow.created" <=> d \in follows'
      /\ \A e \in Edges : e # d => ~TellsOf(m, e) /\ (e \in follows' <=> e \in follows)
  <2>1. requests[d] + 1 \in Nat /\ requests[d] + 1 >= 1 /\ requests[d] + 1 <= MaxRequests[d]
    BY <1>2, <1>4
  <2> QED BY <1>3, <1>4, <2>1, EventKinds DEF TellsOf
<1>6. ASSUME NEW e \in Edges \ broken', requests'[e] # applied'[e]
      PROVE  \E l \in unsent' \cup queue' : TellsOf(l, e) /\ l.n = requests'[e]
  BY <1>2, <1>3, <1>4, <1>5, <1>6 DEF PendingInv
<1>7. ASSUME NEW l \in unsent' \cup queue', NEW e \in Edges, TellsOf(l, e), l.n = requests'[e]
      PROVE  l.topic = "follow.created" <=> e \in follows'
  <2>1. CASE l = m
    BY <1>5, <1>7, <2>1
  <2>2. CASE l # m /\ e # d
    BY <1>2, <1>3, <1>4, <1>5, <1>7, <2>2 DEF PendingInv
  <2>3. CASE l # m /\ e = d
    <3>1. l \in unsent \cup queue
      BY <1>2, <1>3, <1>7, <2>3
    <3>2. l \in Events /\ Made(l)
      BY <1>1, <3>1 DEF EventsTyped, Base, EventInv
    <3>3. l.n \in Nat /\ l.n <= requests[d]
      BY <1>7, <2>3, <3>2, EventShapes DEF TellsOf, Made
    <3> QED BY <1>4, <1>7, <2>3, <3>3
  <2> QED BY <2>1, <2>2, <2>3
<1>8. ASSUME NEW w \in Workers, NEW e \in Edges, step[w] # "idle", TellsOf(task[w], e),
             task[w].n = requests'[e]
      PROVE  task[w].topic = "follow.created" <=> e \in follows'
  <2>1. task[w].n \in Nat /\ task[w].n <= requests[e]
    BY <1>8, Tasks DEF TellsOf
  <2>2. e # d
    BY <1>4, <1>8, <2>1
  <2> QED BY <1>4, <1>5, <1>8, <2>2 DEF PendingInv
<1> QED BY <1>2, <1>6, <1>7, <1>8 DEF PendingInv, TellsOf

LEMMA PendingOutbox ==
  ASSUME Base, PendingInv, \/ \E x \in Activities : RecordActivity(x)
                           \/ \E m \in unsent : Publish(m) \/ LosePublish(m)
  PROVE  PendingInv'
<1>1. ASSUME NEW x \in Activities, RecordActivity(x) PROVE PendingInv'
  <2>1. ~\E e : TellsOf(ActivityRecorded(x), e)
    BY EventKinds DEF TellsOf
  <2>2. /\ unsent' = unsent \cup {ActivityRecorded(x)}
        /\ UNCHANGED <<follows, queue, broken, applied, requests, task, step>>
    BY <1>1 DEF RecordActivity, tables, workVars, history
  <2>3. ASSUME NEW e \in Edges \ broken', requests'[e] # applied'[e]
        PROVE  \E l \in unsent' \cup queue' : TellsOf(l, e) /\ l.n = requests'[e]
    BY <2>2, <2>3 DEF PendingInv
  <2>4. ASSUME NEW l \in unsent' \cup queue', NEW e \in Edges, TellsOf(l, e), l.n = requests'[e]
        PROVE  l.topic = "follow.created" <=> e \in follows'
    BY <2>1, <2>2, <2>4 DEF PendingInv
  <2> QED BY <2>2, <2>3, <2>4 DEF PendingInv, TellsOf
<1>2. ASSUME NEW m \in unsent, Publish(m) PROVE PendingInv'
  <2>1. /\ unsent' \cup queue' = unsent \cup queue
        /\ UNCHANGED <<follows, broken, applied, requests, task, step>>
    BY <1>2 DEF Publish, tables, workVars, history
  <2> QED BY <2>1 DEF PendingInv, TellsOf
<1>3. ASSUME NEW m \in unsent, LosePublish(m) PROVE PendingInv'
  <2>1. /\ unsent' = unsent \ {m} /\ broken' = broken \cup EdgeOf(m)
        /\ UNCHANGED <<follows, queue, applied, requests, task, step>>
    BY <1>3 DEF LosePublish, tables, workVars
  <2>2. \A e \in Edges : TellsOf(m, e) => e \in broken'
    BY <2>1 DEF TellsOf, EdgeOf
  <2>3. ASSUME NEW e \in Edges \ broken', requests'[e] # applied'[e]
        PROVE  \E l \in unsent' \cup queue' : TellsOf(l, e) /\ l.n = requests'[e]
    BY <2>1, <2>2, <2>3 DEF PendingInv
  <2> QED BY <2>1, <2>3 DEF PendingInv, TellsOf
<1> QED BY <1>1, <1>2, <1>3

LEMMA PendingWorker ==
  ASSUME Base, PendingInv, NEW w \in Workers, Work(w) \/ Evict(w) \/ StartOver(w) \/ GiveUp(w)
  PROVE  PendingInv'
<1>1. WorkersTyped /\ UNCHANGED <<follows, requests, unsent>>
  BY TypeParts, OneMoves DEF Base
<1>2. queue' \subseteq queue
  BY DEF Work, Receive, CreateActivity, ReadRecipients, ReadRecent, InsertEntries, Prune,
         Acknowledge, Evict, StartOver, GiveUp
<1>3. ASSUME NEW e \in Edges \ broken', requests'[e] # applied'[e]
      PROVE  \E l \in unsent' \cup queue' : TellsOf(l, e) /\ l.n = requests'[e]
  <2>1. e \notin broken /\ requests[e] # applied[e]
    BY <1>1, <1>3, HistoryGoesOn
  <2>2. PICK l \in unsent \cup queue : TellsOf(l, e) /\ l.n = requests[e]
    BY <2>1 DEF PendingInv
  <2>3. CASE l \in unsent' \cup queue'
    BY <1>1, <2>2, <2>3
  <2>4. CASE l \notin unsent' \cup queue'
    <3>1. l \in Settled(w) /\ l = task[w] /\ (Acknowledge(w) \/ GiveUp(w))
      BY <1>1, <2>4 DEF Work, Receive, CreateActivity, ReadRecipients, ReadRecent, InsertEntries,
         Prune, Acknowledge, Evict, StartOver, GiveUp, Settled
    <3>2. CASE GiveUp(w)
      BY <1>3, <2>2, <3>1, <3>2 DEF GiveUp, EdgeOf, TellsOf
    <3>3. CASE Acknowledge(w)
      <4>1. l.n <= applied[e]
        BY <2>2, <3>1, <3>3 DEF Acknowledge, PendingInv
      <4> QED BY <2>1, <2>2, <4>1, HistoryGoesOn
    <3> QED BY <3>1, <3>2, <3>3
  <2> QED BY <2>3, <2>4
<1>4. ASSUME NEW v \in Workers, NEW e \in Edges, step'[v] = "ack", TellsOf(task'[v], e)
      PROVE  task'[v].n <= applied'[e]
  <2>1. CASE step[v] = "ack" /\ task'[v] = task[v]
    <3>1. task[v].n <= applied[e]
      BY <1>4, <2>1 DEF PendingInv
    <3>2. task[v].n \in Nat
      BY <1>4, <2>1, Tasks DEF TellsOf
    <3> QED BY <2>1, <3>1, <3>2, HistoryGoesOn
  <2>2. CASE v = w /\ step[w] # "ack"
    <3>1. /\ step[w] # "idle" /\ task'[w] = task[w]
          /\ \/ Apply(task[w])
             \/ task[w].topic = "activity.recorded"
      BY <1>1, <1>4, <2>2 DEF Work, Receive, CreateActivity, ReadRecipients, ReadRecent,
         InsertEntries, Prune, Acknowledge, Evict, StartOver, GiveUp, Leave, Goto, WorkersTyped
    <3> QED BY <1>1, <1>4, <2>2, <3>1, Applied DEF TellsOf
  <2>3. v # w => step[v] = "ack" /\ task'[v] = task[v]
    BY <1>4, OneMoves
  <2>4. step[w] = "ack" => task'[w] = task[w] \/ step'[w] = "idle"
    BY <1>1 DEF Work, Receive, CreateActivity, ReadRecipients, ReadRecent,
         InsertEntries, Prune, Acknowledge, Evict, StartOver, GiveUp, Leave, Goto, WorkersTyped
  <2> QED BY <1>4, <2>1, <2>2, <2>3, <2>4
<1>5. ASSUME NEW v \in Workers, NEW e \in Edges, step'[v] # "idle", TellsOf(task'[v], e),
             task'[v].n = requests[e]
      PROVE  task'[v].topic = "follow.created" <=> e \in follows
  <2>1. CASE step[v] # "idle" /\ task'[v] = task[v]
    BY <1>5, <2>1 DEF PendingInv
  <2>2. CASE task'[v] \in queue
    BY <1>5, <2>2 DEF PendingInv
  <2>3. v = w => (step[w] # "idle" /\ task'[w] = task[w]) \/ task'[w] \in queue
    BY <1>1, <1>5 DEF Work, Receive, CreateActivity, ReadRecipients, ReadRecent,
         InsertEntries, Prune, Acknowledge, Evict, StartOver, GiveUp, Leave, Goto, WorkersTyped
  <2>4. v # w => step[v] # "idle" /\ task'[v] = task[v]
    BY <1>5, OneMoves
  <2> QED BY <2>1, <2>2, <2>3, <2>4
<1>6. \A m \in unsent' \cup queue', e \in Edges : TellsOf(m, e) /\ m.n = requests[e] =>
        (m.topic = "follow.created" <=> e \in follows)
  BY <1>1, <1>2 DEF PendingInv
<1> QED BY <1>1, <1>3, <1>4, <1>5, <1>6 DEF PendingInv, TellsOf

LEMMA PendingHolds == Spec => []PendingInv
<1>1. Init => PendingInv
  BY DEF Init, PendingInv
<1>2. Base /\ PendingInv /\ [Next]_vars => PendingInv'
  <2>1. CASE UNCHANGED vars
    BY <2>1 DEF PendingInv, TellsOf, vars, tables, workVars, history
  <2> QED BY <2>1, PendingRequest, PendingOutbox, PendingWorker DEF Next
<1> QED BY <1>1, <1>2, BaseHolds, PTL DEF Spec

-----------------------------------------------------------------------------
(* A fan-out is on its way to the follower of e with the post x.           *)
Carrying(e, x) ==
  \E w \in Workers : /\ task[w] = ActivityRecorded(x)
                     /\ step[w] = "recipients" \/ (step[w] = "insert" /\ <<e[1], x>> \in got[w])

(* The follower of e has every recent activity, or gets it from a fan-out, *)
(* from a backfill that has read S, or not at all because a prune met it.  *)
Reached(e, S) ==
  \A x \in Recent(e[2]) \ interrupted :
    <<e[1], x>> \in S \cup feed \cup crossed \/ Carrying(e, x)

(* The follower of e has no activity for following, and gets none, but for *)
(* those that a prune came too early for.                                  *)
Cleared(e) ==
  /\ Through(e, feed) \subseteq crossed
  /\ \A w \in Workers : FansOut(w) => Through(e, got[w]) \subseteq crossed

(* What a worker has read is of the post, or the edge, that it handles. *)
GotInv ==
  \A w \in Workers :
    /\ FansOut(w) => \A f \in got[w] : f[2] = task[w].activity
    /\ \A e \in Edges : Backfills(w, e) => Through(e, got[w]) = got[w]

(* A backfill for the last request of its edge has read what is missing.   *)
BackInv ==
  \A w \in Workers, e \in Edges :
    Backfills(w, e) /\ task[w].n = requests[e] => Reached(e, got[w])

AgreeInv ==
  \A e \in Edges \ broken : applied[e] = requests[e] =>
    IF e \in follows THEN Reached(e, {}) ELSE Cleared(e)

LEMMA RecentKept ==
  ASSUME UNCHANGED rows
  PROVE  \A a : Recent(a)' = Recent(a)
BY DEF Recent, Newer, Known

(* A new post can only push older ones out. *)
LEMMA RecentGrows ==
  ASSUME TablesTyped, NEW x \in Activities, NEW i \in 1 .. Len(rows) + 1,
         rows' = Inserted(x, i), NEW a
  PROVE  Recent(a)' \subseteq Recent(a) \cup {x}
<1> SUFFICES ASSUME NEW y \in Recent(a)', y # x
             PROVE  y \in Recent(a)
  OBVIOUS
<1>1. /\ Known' = Known \cup {x}
      /\ \A j, k \in DOMAIN rows : j < k =>
           \E p, q \in DOMAIN rows' : p < q /\ rows'[p] = rows[j] /\ rows'[q] = rows[k]
  BY RowInserted
<1>2. y \in Known /\ Author[y] = a /\ Cardinality(Newer(y)') < Limit
  BY <1>1 DEF Recent
<1>3. Newer(y) \subseteq Newer(y)'
  BY <1>1 DEF Newer
<1>4. IsFiniteSet(Newer(y)')
  <2>1. IsFiniteSet(Known')
    BY <1>1, ReadTypes, FS_AddElement
  <2>2. Newer(y)' \in SUBSET Known'
    BY DEF Newer
  <2> QED BY <2>1, <2>2, FS_Subset
<1>5. /\ Cardinality(Newer(y)) \in Nat /\ Cardinality(Newer(y)') \in Nat
      /\ Cardinality(Newer(y)) <= Cardinality(Newer(y)')
  BY <1>3, <1>4, FS_Subset, FS_CardinalityType
<1> QED BY <1>2, <1>5, SocialConstants DEF Recent

LEMMA WebKeepsEdges ==
  ASSUME Base,
         \/ \E e \in Edges : Follow(e) \/ Unfollow(e)
         \/ \E x \in Activities : RecordActivity(x)
         \/ \E m \in unsent : Publish(m) \/ LosePublish(m),
         NEW e \in Edges, applied'[e] = requests'[e]
  PROVE  /\ applied[e] = requests[e] /\ (e \in follows' <=> e \in follows)
         /\ broken \subseteq broken'
<1>1. RequestsTyped /\ UNCHANGED applied
  BY TypeParts, WebMoves DEF Base
<1>2. ASSUME NEW d \in Edges, Follow(d) \/ Unfollow(d)
      PROVE  /\ applied[e] = requests[e] /\ (e \in follows' <=> e \in follows)
             /\ broken \subseteq broken'
  <2>1. requests' = [requests EXCEPT ![d] = @ + 1] /\ UNCHANGED broken
        /\ (follows' = follows \cup {d} \/ follows' = follows \ {d})
    BY <1>2 DEF Follow, Unfollow, history
  <2>2. e # d
    BY <1>1, <2>1 DEF RequestsTyped
  <2> QED BY <1>1, <2>1, <2>2 DEF RequestsTyped
<1>3. CASE \/ \E x \in Activities : RecordActivity(x)
           \/ \E m \in unsent : Publish(m) \/ LosePublish(m)
  BY <1>1, <1>3 DEF RecordActivity, Publish, LosePublish, tables, history
<1> QED BY <1>2, <1>3

LEMMA GotStep ==
  ASSUME Base, GotInv, [Next]_vars
  PROVE  GotInv'
<1>1. WorkersTyped /\ TablesTyped
  BY TypeParts DEF Base
<1>2. CASE \/ \E e \in Edges : Follow(e) \/ Unfollow(e)
           \/ \E x \in Activities : RecordActivity(x)
           \/ \E m \in unsent : Publish(m) \/ LosePublish(m)
           \/ UNCHANGED vars
  <2>1. UNCHANGED <<task, step, got>>
    BY <1>2, WebMoves DEF vars, workVars
  <2> QED BY <2>1 DEF GotInv, FansOut, Backfills, Through
<1>3. ASSUME NEW w \in Workers, Work(w) \/ Evict(w) \/ StartOver(w) \/ GiveUp(w) PROVE GotInv'
  <2>1. ASSUME NEW v \in Workers,
               task'[v] = task[v] /\ step'[v] = step[v] /\ got'[v] = got[v]
        PROVE  /\ FansOut(v)' => \A f \in got'[v] : f[2] = task'[v].activity
               /\ \A e \in Edges : Backfills(v, e)' => Through(e, got[v])' = got'[v]
    BY <2>1 DEF GotInv, FansOut, Backfills, Through
  <2>2. \A v \in Workers \ {w} : task'[v] = task[v] /\ step'[v] = step[v] /\ got'[v] = got[v]
    BY <1>3, OneMoves
  <2>3. CASE step'[w] = "insert" /\ ReadRecipients(w)
    <3>1. /\ task'[w] = task[w] /\ task[w].topic = "activity.recorded"
          /\ got'[w] = {<<u, task[w].activity>> : u \in Recipients(task[w].activity)}
      BY <1>1, <2>3, Tasks DEF ReadRecipients, WorkersTyped, Base, EventInv
    <3> QED BY <2>1, <2>2, <3>1 DEF GotInv, FansOut, Backfills
  <2>4. CASE step'[w] = "insert" /\ ReadRecent(w)
    <3>1. /\ task'[w] = task[w] /\ task[w].topic = "follow.created"
          /\ got'[w] = {<<task[w].edge[1], x>> : x \in Recent(task[w].edge[2])}
      BY <1>1, <2>4 DEF ReadRecent, WorkersTyped
    <3>2. \A x \in Recent(task[w].edge[2]) : Author[x] = task[w].edge[2]
      BY <1>1, ReadTypes
    <3>3. \A e \in Edges : Backfills(w, e)' => Through(e, got[w])' = got'[w]
      BY <3>1, <3>2 DEF Backfills, Through
    <3> QED BY <2>1, <2>2, <3>1, <3>3 DEF GotInv, FansOut
  <2>5. CASE step'[w] = "insert" /\ ~ReadRecipients(w) /\ ~ReadRecent(w)
    <3>1. task'[w] = task[w] /\ step'[w] = step[w] /\ got'[w] = got[w]
      BY <1>1, <1>3, <2>5 DEF Work, Receive, CreateActivity, InsertEntries, Prune, Acknowledge,
           Evict, StartOver, GiveUp, Leave, Goto, WorkersTyped
    <3> QED BY <2>1, <2>2, <3>1 DEF GotInv
  <2>6. CASE step'[w] # "insert"
    BY <2>1, <2>2, <2>6 DEF GotInv, FansOut, Backfills
  <2> QED BY <2>3, <2>4, <2>5, <2>6
<1> QED BY <1>2, <1>3 DEF Next

(* A fan-out of a followed user's post gets to the follower. *)
LEMMA CarriedTo ==
  ASSUME Base, NEW w \in Workers, Work(w) \/ Evict(w) \/ StartOver(w) \/ GiveUp(w),
         NEW e \in Edges, e \in follows, NEW x \in Activities, Author[x] = e[2], Carrying(e, x)
  PROVE  Carrying(e, x)' \/ <<e[1], x>> \in feed' \/ x \in interrupted'
<1>1. WorkersTyped
  BY TypeParts DEF Base
<1>2. PICK v \in Workers :
        /\ task[v] = ActivityRecorded(x)
        /\ step[v] = "recipients" \/ (step[v] = "insert" /\ <<e[1], x>> \in got[v])
  BY DEF Carrying
<1>3. CASE v # w \/ Evict(w)
  <2>1. task'[v] = task[v] /\ step'[v] = step[v] /\ got'[v] = got[v]
    BY <1>3, OneMoves DEF Evict
  <2> QED BY <1>2, <2>1 DEF Carrying
<1>4. CASE v = w /\ ~Evict(w)
  <2>1. task[w].topic = "activity.recorded" /\ task[w].activity = x
    BY <1>2, <1>4, EventKinds
  <2>2. CASE ReadRecipients(w)
    <3>1. /\ got'[w] = {<<u, x>> : u \in Recipients(x)} /\ step'[w] = "insert"
          /\ task'[w] = task[w]
      BY <1>1, <2>1, <2>2 DEF ReadRecipients, WorkersTyped, Goto
    <3>2. e[1] \in Recipients(x)
      BY DEF Recipients
    <3> QED BY <1>2, <1>4, <3>1, <3>2 DEF Carrying
  <2>3. CASE InsertEntries(w)
    BY <1>2, <1>4, <2>3 DEF InsertEntries
  <2>4. CASE StartOver(w) \/ GiveUp(w)
    BY <1>2, <1>4, <2>1, <2>4 DEF StartOver, GiveUp, Unfinished
  <2> QED BY <1>2, <1>4, <2>1, <2>2, <2>3, <2>4 DEF Work, Receive, CreateActivity, ReadRecent,
        Prune, Acknowledge
<1> QED BY <1>3, <1>4

(* A post that becomes recent is being fanned out. *)
LEMMA NewRecent ==
  ASSUME Base, NEW w \in Workers, Work(w) \/ Evict(w) \/ StartOver(w) \/ GiveUp(w),
         NEW e \in Edges, NEW x \in Recent(e[2])', x \notin Recent(e[2])
  PROVE  Carrying(e, x)'
<1>1. TablesTyped /\ WorkersTyped
  BY TypeParts DEF Base
<1>2. ~UNCHANGED rows
  BY RecentKept
<1>3. /\ CreateActivity(w) /\ task[w].activity \in Activities
      /\ task[w] = ActivityRecorded(task[w].activity)
  BY <1>2, Tasks DEF Work, Receive, CreateActivity, ReadRecipients, ReadRecent, InsertEntries,
       Prune, Acknowledge, Evict, StartOver, GiveUp, tables
<1>4. /\ \E i \in 1 .. Len(rows) + 1 : rows' = Inserted(task[w].activity, i)
      /\ task'[w] = task[w] /\ step'[w] = "recipients"
  BY <1>1, <1>2, <1>3 DEF CreateActivity, Goto, WorkersTyped
<1>5. x = task[w].activity
  BY <1>1, <1>3, <1>4, RecentGrows
<1> QED BY <1>3, <1>4, <1>5 DEF Carrying

(* No step but a prune of the edge itself takes anything from a follower.  *)
LEMMA ReachedOn ==
  ASSUME Base, NEW w \in Workers, Work(w) \/ Evict(w) \/ StartOver(w) \/ GiveUp(w),
         NEW e \in Edges, e \in follows, NEW S, Reached(e, S),
         \A x \in Activities :
           /\ Author[x] = e[2] /\ <<e[1], x>> \in feed
           => <<e[1], x>> \in S \cup feed' \cup crossed'
  PROVE  \A x \in Recent(e[2])' \ interrupted' :
           <<e[1], x>> \in S \cup feed' \cup crossed' \/ Carrying(e, x)'
<1> SUFFICES ASSUME NEW x \in Recent(e[2])' \ interrupted'
             PROVE  <<e[1], x>> \in S \cup feed' \cup crossed' \/ Carrying(e, x)'
  OBVIOUS
<1>1. TablesTyped /\ interrupted \subseteq interrupted' /\ crossed \subseteq crossed'
  BY TypeParts, HistoryGoesOn DEF Base
<1>2. CASE x \notin Recent(e[2])
  BY <1>2, NewRecent
<1>3. CASE x \in Recent(e[2])
  <2>1. x \in Activities /\ Author[x] = e[2]
    BY <1>1, <1>3, ReadTypes
  <2>2. <<e[1], x>> \in S \cup feed \cup crossed \/ Carrying(e, x)
    BY <1>1, <1>3 DEF Reached
  <2> QED BY <1>1, <2>1, <2>2, CarriedTo
<1> QED BY <1>2, <1>3

(* What leaves the feed is of the edge that is pruned. *)
LEMMA FeedKept ==
  ASSUME Base, NEW w \in Workers, Work(w) \/ Evict(w) \/ StartOver(w) \/ GiveUp(w),
         NEW e \in Edges, ~(Prune(w) /\ task[w].edge = e),
         NEW x \in Activities, Author[x] = e[2], <<e[1], x>> \in feed
  PROVE  <<e[1], x>> \in feed'
<1>1. CASE Prune(w)
  <2>1. task[w].edge \in Edges /\ task[w].edge # e
    BY <1>1, Tasks DEF Prune
  <2>2. /\ task[w].edge = <<task[w].edge[1], task[w].edge[2]>> /\ e = <<e[1], e[2]>>
    BY <2>1 DEF Edges
  <2> QED BY <1>1, <2>1, <2>2 DEF Prune, EntriesOf, Through
<1>2. CASE ~Prune(w)
  BY <1>2 DEF Work, Receive, CreateActivity, ReadRecipients, ReadRecent, InsertEntries,
       Acknowledge, Evict, StartOver, GiveUp, tables
<1> QED BY <1>1, <1>2

(* An earlier unfollow that is pruned only now: the backfill brings back   *)
(* what it has read, and the rest has crossed.                             *)
LEMMA FeedPruned ==
  ASSUME Base, NEW w \in Workers, NEW e \in Edges, Prune(w), task[w].edge = e,
         NEW v \in Workers, Backfills(v, e), NEW x, Author[x] = e[2], <<e[1], x>> \in feed
  PROVE  <<e[1], x>> \in got[v] \cup crossed'
<1>1. <<e[1], x>> \in Through(e, feed)
  BY DEF Through
<1>2. crossed' = crossed \cup Crossing(e)
  BY DEF Prune
<1>3. Through(e, feed) \ got[v] \subseteq Crossing(e)
  BY DEF Crossing, Through, Base, TypeOK
<1> QED BY <1>1, <1>2, <1>3

LEMMA BackStep ==
  ASSUME Base, PendingInv, BackInv, [Next]_vars
  PROVE  BackInv'
<1>1. WorkersTyped /\ TablesTyped /\ RequestsTyped
  BY TypeParts DEF Base
<1>2. CASE \/ \E e \in Edges : Follow(e) \/ Unfollow(e)
           \/ \E x \in Activities : RecordActivity(x)
           \/ \E m \in unsent : Publish(m) \/ LosePublish(m)
           \/ UNCHANGED vars
  <2>1. /\ UNCHANGED <<rows, feed, task, step, got, interrupted, crossed>>
        /\ \A a : Recent(a)' = Recent(a)
        /\ \A e \in Edges : requests'[e] \in Nat /\ requests[e] <= requests'[e]
    BY <1>1, <1>2, WebMoves, RecentKept DEF vars, tables, workVars, history, RequestsTyped
  <2>2. ASSUME NEW v \in Workers, NEW e \in Edges, Backfills(v, e)', task'[v].n = requests'[e]
        PROVE  Backfills(v, e) /\ task[v].n = requests[e]
    <3>1. Backfills(v, e)
      BY <2>1, <2>2 DEF Backfills
    <3>2. task[v].n \in Nat /\ task[v].n <= requests[e]
      BY <3>1, Tasks DEF Backfills
    <3> QED BY <1>1, <2>1, <2>2, <3>1, <3>2 DEF RequestsTyped
  <2> QED BY <2>1, <2>2 DEF BackInv, Reached, Carrying
<1>3. ASSUME NEW w \in Workers, Work(w) \/ Evict(w) \/ StartOver(w) \/ GiveUp(w),
             NEW v \in Workers, NEW e \in Edges, Backfills(v, e)', task'[v].n = requests'[e]
      PROVE  Reached(e, got[v])'
  <2>1. UNCHANGED <<follows, requests>>
    BY <1>3, OneMoves
  <2>2. CASE Backfills(v, e) /\ task'[v] = task[v] /\ got'[v] = got[v]
    <3>1. e \in follows
      BY <1>3, <2>1, <2>2 DEF PendingInv, Backfills, TellsOf
    <3>2. Reached(e, got[v])
      BY <1>3, <2>1, <2>2 DEF BackInv
    <3>3. \A x \in Activities :
            /\ Author[x] = e[2] /\ <<e[1], x>> \in feed
            => <<e[1], x>> \in got[v] \cup feed' \cup crossed'
      BY <1>3, <2>2, FeedKept, FeedPruned
    <3> HIDE DEF Reached
    <3>4. \A x \in Recent(e[2])' \ interrupted' :
            <<e[1], x>> \in got[v] \cup feed' \cup crossed' \/ Carrying(e, x)'
      BY <1>3, <3>1, <3>2, <3>3, ReachedOn
    <3> QED BY <2>2, <3>4 DEF Reached
  <2>3. CASE ReadRecent(w) /\ v = w
    <3>1. /\ task'[w] = task[w]
          /\ got'[w] = {<<task[w].edge[1], x>> : x \in Recent(task[w].edge[2])}
          /\ UNCHANGED rows
      BY <1>1, <2>3 DEF ReadRecent, WorkersTyped, tables
    <3>2. task[w].edge = e
      BY <1>3, <2>3, <3>1 DEF Backfills
    <3> QED BY <2>3, <3>1, <3>2, RecentKept DEF Reached
  <2>4. v # w \/ Evict(w) => Backfills(v, e) /\ task'[v] = task[v] /\ got'[v] = got[v]
    BY <1>3, OneMoves DEF Evict, Backfills
  <2>5. v = w /\ ~Evict(w) => ReadRecent(w)
    BY <1>1, <1>3 DEF Work, Receive, CreateActivity, ReadRecipients, InsertEntries, Prune,
         Acknowledge, StartOver, GiveUp, Leave, Goto, WorkersTyped, Backfills, Base, EventInv
  <2> QED BY <2>2, <2>3, <2>4, <2>5
<1> QED BY <1>2, <1>3 DEF BackInv, Next

(* A followed user, after a step of a worker. *)
LEMMA AgreeFollowed ==
  ASSUME Base, PendingInv, BackInv, AgreeInv, NEW w \in Workers,
         Work(w) \/ Evict(w) \/ StartOver(w) \/ GiveUp(w),
         NEW e \in Edges, e \in follows, e \notin broken', applied'[e] = requests[e]
  PROVE  Reached(e, {})'
<1>1. e \notin broken /\ UNCHANGED requests
  BY HistoryGoesOn, OneMoves
<1>2. CASE InsertEntries(w) /\ TellsOf(task[w], e)
  <2>1. /\ step[w] = "insert" /\ Apply(task[w]) /\ feed' = feed \cup got[w]
    BY <1>2 DEF InsertEntries
  <2>2. task[w].n = requests[e]
    BY <1>1, <1>2, <2>1, Applied
  <2>3. Backfills(w, e)
    BY <1>2, <2>1, Tasks DEF Backfills, TellsOf, Base, EventInv
  <2>4. Reached(e, got[w])
    BY <2>2, <2>3 DEF BackInv
  <2>5. \A x \in Recent(e[2])' \ interrupted' :
          <<e[1], x>> \in got[w] \cup feed' \cup crossed' \/ Carrying(e, x)'
    BY <1>2, <2>1, <2>4, ReachedOn DEF Work
  <2> QED BY <2>1, <2>5 DEF Reached
<1>3. ~(Prune(w) /\ TellsOf(task[w], e))
  <2> SUFFICES ASSUME Prune(w), TellsOf(task[w], e) PROVE FALSE
    OBVIOUS
  <2>1. step[w] = "start" /\ task[w].topic = "follow.removed" /\ Apply(task[w])
    BY DEF Prune
  <2>2. task[w].n = requests[e]
    BY <1>1, <2>1, Applied
  <2> QED BY <2>1, <2>2 DEF PendingInv
<1>4. CASE ~(InsertEntries(w) /\ TellsOf(task[w], e))
  <2>1. applied'[e] = applied[e]
    <3>1. CASE InsertEntries(w) \/ Prune(w)
      BY <1>1, <1>3, <1>4, <3>1, Applied DEF InsertEntries, Prune
    <3>2. CASE ~InsertEntries(w) /\ ~Prune(w)
      BY <3>2 DEF Work, Receive, CreateActivity, ReadRecipients, ReadRecent, Acknowledge,
           Evict, StartOver, GiveUp, history
    <3> QED BY <3>1, <3>2
  <2>2. Reached(e, {})
    BY <1>1, <2>1 DEF AgreeInv
  <2>3. ~(Prune(w) /\ task[w].edge = e)
    BY <1>3 DEF Prune, TellsOf
  <2>4. \A x \in Activities : /\ Author[x] = e[2] /\ <<e[1], x>> \in feed
                              => <<e[1], x>> \in {} \cup feed' \cup crossed'
    BY <2>3, FeedKept
  <2>5. \A x \in Recent(e[2])' \ interrupted' :
          <<e[1], x>> \in {} \cup feed' \cup crossed' \/ Carrying(e, x)'
    BY <2>2, <2>4, ReachedOn
  <2> QED BY <2>5 DEF Reached
<1> QED BY <1>2, <1>4

(* A user who is not followed, after a step of a worker. *)
LEMMA AgreeUnfollowed ==
  ASSUME Base, PendingInv, GotInv, AgreeInv, NEW w \in Workers,
         Work(w) \/ Evict(w) \/ StartOver(w) \/ GiveUp(w),
         NEW e \in Edges, e \notin follows, e \notin broken', applied'[e] = requests[e]
  PROVE  Cleared(e)'
<1>1. /\ e \notin broken /\ UNCHANGED requests /\ crossed \subseteq crossed'
      /\ \A v \in Workers : v # w => task'[v] = task[v] /\ step'[v] = step[v] /\ got'[v] = got[v]
  BY HistoryGoesOn, OneMoves
<1>2. TablesTyped /\ WorkersTyped
  BY TypeParts DEF Base
<1>3. CASE Prune(w) /\ TellsOf(task[w], e)
  <2>1. /\ task[w].edge = e /\ feed' = feed \ EntriesOf(e) /\ crossed' = crossed \cup Crossing(e)
        /\ UNCHANGED <<task, got>> /\ step'[w] = "ack"
    BY <1>2, <1>3 DEF Prune, TellsOf, Goto, WorkersTyped
  <2>2. Through(e, feed)' = {}
    BY <2>1 DEF EntriesOf, Through
  <2>3. ASSUME NEW v \in Workers, FansOut(v)' PROVE Through(e, got[v])' \subseteq crossed'
    <3>1. FansOut(v)
      BY <1>1, <2>1, <2>3 DEF FansOut
    <3>2. Through(e, got[v]) \subseteq Crossing(e)
      BY <1>2, <3>1 DEF Crossing, Through, WorkersTyped
    <3> QED BY <2>1, <3>2 DEF Through
  <2> QED BY <2>2, <2>3 DEF Cleared
<1>4. ~(InsertEntries(w) /\ TellsOf(task[w], e))
  <2> SUFFICES ASSUME InsertEntries(w), TellsOf(task[w], e) PROVE FALSE
    OBVIOUS
  <2>1. step[w] = "insert" /\ Apply(task[w])
    BY DEF InsertEntries
  <2>2. task[w].n = requests[e] /\ task[w].topic = "follow.created"
    BY <1>1, <2>1, Applied, Tasks DEF TellsOf, Base, EventInv
  <2> QED BY <2>1, <2>2 DEF PendingInv
<1>5. CASE ~(Prune(w) /\ TellsOf(task[w], e))
  <2>1. applied'[e] = applied[e]
    <3>1. CASE InsertEntries(w) \/ Prune(w)
      BY <1>1, <1>4, <1>5, <3>1, Applied DEF InsertEntries, Prune
    <3>2. CASE ~InsertEntries(w) /\ ~Prune(w)
      BY <3>2 DEF Work, Receive, CreateActivity, ReadRecipients, ReadRecent, Acknowledge,
           Evict, StartOver, GiveUp, history
    <3> QED BY <3>1, <3>2
  <2>2. Cleared(e)
    BY <1>1, <2>1 DEF AgreeInv
  <2>3. Through(e, feed)' \subseteq crossed'
    <3>1. CASE InsertEntries(w)
      <4>1. Through(e, got[w]) \subseteq crossed
        <5>1. CASE task[w].topic = "activity.recorded"
          BY <2>2, <3>1, <5>1 DEF Cleared, FansOut, InsertEntries
        <5>2. CASE task[w].topic # "activity.recorded"
          <6>1. /\ task[w].edge \in Edges /\ Backfills(w, task[w].edge) /\ task[w].edge # e
            BY <1>4, <3>1, <5>2, Tasks DEF InsertEntries, Backfills, TellsOf, Base, EventInv
          <6>2. Through(task[w].edge, got[w]) = got[w]
            BY <6>1 DEF GotInv
          <6>3. /\ task[w].edge = <<task[w].edge[1], task[w].edge[2]>> /\ e = <<e[1], e[2]>>
            BY <6>1 DEF Edges
          <6> QED BY <6>1, <6>2, <6>3 DEF Through
        <5> QED BY <5>1, <5>2
      <4>2. Through(e, feed)' \subseteq Through(e, feed) \cup Through(e, got[w])
        BY <3>1 DEF InsertEntries, Through
      <4> QED BY <1>1, <2>2, <4>1, <4>2 DEF Cleared
    <3>2. CASE ~InsertEntries(w)
      <4>1. feed' \subseteq feed
        BY <3>2 DEF Work, Receive, CreateActivity, ReadRecipients, ReadRecent, Prune, Acknowledge,
             Evict, StartOver, GiveUp, tables
      <4>2. Through(e, feed)' \subseteq Through(e, feed)
        BY <4>1 DEF Through
      <4> QED BY <1>1, <2>2, <4>2 DEF Cleared
    <3> QED BY <3>1, <3>2
  <2>4. ASSUME NEW v \in Workers, FansOut(v)' PROVE Through(e, got[v])' \subseteq crossed'
    <3>1. CASE v # w \/ Evict(w)
      <4>1. FansOut(v) /\ got'[v] = got[v]
        BY <1>1, <2>4, <3>1 DEF FansOut, Evict
      <4> QED BY <1>1, <2>2, <4>1 DEF Cleared, Through
    <3>2. CASE v = w /\ ~Evict(w)
      <4>1. ReadRecipients(w)
        BY <1>2, <2>4, <3>2, Tasks DEF FansOut, Work, Receive, CreateActivity, ReadRecent,
             InsertEntries, Prune, Acknowledge, StartOver, GiveUp, Leave, Goto, WorkersTyped
      <4>2. got'[w] = {<<u, task[w].activity>> : u \in Recipients(task[w].activity)}
        BY <1>2, <4>1 DEF ReadRecipients, WorkersTyped
      <4>3. ASSUME NEW f \in got'[w], f[1] = e[1], Author[f[2]] = e[2] PROVE FALSE
        <5>1. e[1] \in Recipients(task[w].activity) /\ Author[task[w].activity] = e[2]
          BY <4>2, <4>3
        <5>2. e = <<e[1], e[2]>> /\ e[1] # e[2] /\ \A d \in follows : d = <<d[1], d[2]>>
          BY <1>2 DEF TablesTyped, Edges
        <5> QED BY <5>1, <5>2 DEF Recipients
      <4> QED BY <3>2, <4>3 DEF Through
    <3> QED BY <3>1, <3>2
  <2> QED BY <2>3, <2>4 DEF Cleared
<1> QED BY <1>3, <1>5

LEMMA AgreeStep ==
  ASSUME Base, PendingInv, GotInv, BackInv, AgreeInv, [Next]_vars
  PROVE  AgreeInv'
<1>1. CASE \/ \E e \in Edges : Follow(e) \/ Unfollow(e)
           \/ \E x \in Activities : RecordActivity(x)
           \/ \E m \in unsent : Publish(m) \/ LosePublish(m)
  <2>1. /\ UNCHANGED <<rows, feed, task, step, got, interrupted, crossed>>
        /\ \A a : Recent(a)' = Recent(a)
    BY <1>1, WebMoves, RecentKept
  <2>2. \A e \in Edges : applied'[e] = requests'[e] =>
          /\ applied[e] = requests[e] /\ (e \in follows' <=> e \in follows)
          /\ broken \subseteq broken'
    BY <1>1, WebKeepsEdges
  <2> QED BY <2>1, <2>2 DEF AgreeInv, Reached, Cleared, Carrying, FansOut, Through
<1>2. ASSUME NEW w \in Workers, Work(w) \/ Evict(w) \/ StartOver(w) \/ GiveUp(w) PROVE AgreeInv'
  <2>1. UNCHANGED <<follows, requests>>
    BY <1>2, OneMoves
  <2> QED BY <1>2, <2>1, AgreeFollowed, AgreeUnfollowed DEF AgreeInv
<1>3. CASE UNCHANGED vars
  <2>1. \A a : Recent(a)' = Recent(a)
    BY <1>3, RecentKept DEF vars, tables
  <2> QED BY <1>3, <2>1 DEF AgreeInv, Reached, Cleared, Carrying, FansOut, Through, vars, tables,
        workVars, history
<1> QED BY <1>1, <1>2, <1>3 DEF Next

(* An edge whose events were all published and applied in order has a      *)
(* consistent feed once the events are drained, but for the entries that a *)
(* prune met on their way, for any number of workers, overlaps, evictions, *)
(* users, posts and requests, and any backfill limit.                      *)
THEOREM OrderedEventsConvergeHolds == Spec => []OrderedEventsConverge
<1>1. Init => GotInv /\ BackInv /\ AgreeInv
  BY DEF Init, GotInv, BackInv, AgreeInv, FansOut, Backfills, Cleared, Through
<1>2. Base /\ PendingInv /\ GotInv /\ BackInv /\ AgreeInv /\ [Next]_vars
        => GotInv' /\ BackInv' /\ AgreeInv'
  BY GotStep, BackStep, AgreeStep
<1>3. Base /\ PendingInv /\ AgreeInv => OrderedEventsConverge
  <2> SUFFICES ASSUME Base, PendingInv, AgreeInv, Quiet, NEW e \in Edges \ broken
               PROVE  Consistent(e, crossed)
    BY DEF OrderedEventsConverge
  <2>1. IF e \in follows THEN Reached(e, {}) ELSE Cleared(e)
    BY DEF PendingInv, AgreeInv, Quiet
  <2>2. ASSUME NEW x, Carrying(e, x) PROVE FALSE
    BY <2>2 DEF Carrying, Quiet
  <2> QED BY <2>1, <2>2 DEF Reached, Cleared, Consistent
<1> QED BY <1>1, <1>2, <1>3, BaseHolds, PendingHolds, PTL DEF Spec
=============================================================================
