---------------------------- MODULE RatingsProofs ----------------------------
(* The convergence of ratings and the repair by the backfill, for any      *)
(* number of users, consumers, edits and faults.                           *)
EXTENDS Ratings, TLAPS

(* A review has one event; it is waiting to be published, or queued and    *)
(* with at most one consumer.                                              *)
EventInv ==
  /\ \A m \in unsent \cup queue : m.n <= reviews[m.user]
  /\ unsent \cap queue = {}
  /\ \A w \in Workers : task[w] # Nothing => task[w] \in queue
  /\ \A v, w \in Workers : task[v] = task[w] /\ task[v] # Nothing => v = w

(* A writer has an aggregate for u, not yet written to its profile. *)
Writing(w, u) == step[w] = "write" /\ task[w].user = u

(* An edit holds a row that exists, an aggregate may be old but never      *)
(* counts reviews that are not there.                                      *)
HeldInv ==
  /\ \A e \in Editors : copy[e] # NoCopy => copy[e].user \in profiles
  /\ \A w \in Writers : step[w] = "write" => got[w] <= reviews[task[w].user]

Base == TypeOK /\ EventInv /\ HeldInv

(* An event of u waits, or its consumer has not read the reviews yet. *)
Owed(u) ==
  \/ \E m \in unsent : m.user = u
  \/ \E m \in queue : m.user = u /\ \A w \in Workers : task[w] = m => step[w] = "aggregate"

(* While nothing has set u back: edits hold the rating of the row, one     *)
(* process at most is about to write it, and unless an event is owed, the  *)
(* row shows all reviews or a consumer is about to make it so.  It has to  *)
(* be a consumer: the backfill may fail before it writes.                  *)
OnItsWay(u) ==
  /\ \A e \in Editors : copy[e].user = u => copy[e].rating = rating[u]
  /\ \A v, w \in Writers : Writing(v, u) /\ Writing(w, u) => v = w
  /\ u \in profiles /\ ~Owed(u) =>
       /\ \A w \in Writers : Writing(w, u) => got[w] = reviews[u]
       /\ rating[u] = reviews[u] \/ \E w \in Workers : Writing(w, u)

WayInv == \A u \in Users : cause[u] = {} => OnItsWay(u)

-----------------------------------------------------------------------------
LEMMA WriterKinds == Workers \subseteq Writers /\ Backfill \in Writers /\ Backfill \notin Workers
BY RatingsConstants DEF Writers

LEMMA NothingIsNone == Nothing \notin Events /\ \A m \in Events : m.user \in Users /\ m # Nothing
BY RatingsConstants DEF Nothing, Events

(* A writer that takes something up, and one that drops what it had.       *)
LEMMA TakeTypes ==
  ASSUME TypeOK, NEW w \in Writers, NEW m \in Events, step[w] \in {"idle", "ack"},
         task' = [task EXCEPT ![w] = m], Goto(w, "aggregate"), got' = got
  PROVE  /\ task' \in [Writers -> Events \cup {Nothing}]
         /\ step' \in [Writers -> {"idle", "aggregate", "write", "ack"}]
         /\ \A v \in Writers : /\ step'[v] = "idle" <=> task'[v] = Nothing
                               /\ got'[v] # 0 => step'[v] = "write"
BY NothingIsNone DEF TypeOK, Goto

LEMMA LeaveTypes ==
  ASSUME TypeOK, NEW w \in Writers, Leave(w)
  PROVE  /\ task' \in [Writers -> Events \cup {Nothing}]
         /\ step' \in [Writers -> {"idle", "aggregate", "write", "ack"}]
         /\ got' \in [Writers -> 0 .. MaxReviews]
         /\ \A v \in Writers : /\ step'[v] = "idle" <=> task'[v] = Nothing
                               /\ got'[v] # 0 => step'[v] = "write"
BY RatingsConstants DEF TypeOK, Goto, Leave

LEMMA BlameTypes ==
  ASSUME TypeOK, NEW u \in Users, NEW what \in SUBSET {"lost", "overlap", "edit", "late"},
         Blame(u, what)
  PROVE  cause' \in [Users -> SUBSET {"lost", "overlap", "edit", "late"}]
BY DEF TypeOK, Blame

LEMMA TypesStep ==
  ASSUME TypeOK, EventInv, HeldInv, [Next]_vars
  PROVE  TypeOK'
<1> USE RatingsConstants, WriterKinds, NothingIsNone DEF workVars, NoCopy
<1>1. ASSUME NEW u \in Users, CreateProfile(u)
      PROVE  TypeOK'
  <2>1. calm' \in BOOLEAN
    BY <1>1, Zenon DEF CreateProfile
  <2>2. rating' \in [Users -> 0 .. MaxReviews]
    BY <1>1 DEF CreateProfile, TypeOK
  <2>3. cause' \in [Users -> SUBSET {"lost", "overlap", "edit", "late"}]
    BY <1>1, BlameTypes DEF CreateProfile
  <2> QED BY <1>1, <2>1, <2>2, <2>3 DEF CreateProfile, TypeOK
<1>2. ASSUME NEW u \in Users, CreateReview(u)
      PROVE  TypeOK'
  <2>1. Event(u, reviews[u] + 1) \in Events
    BY <1>2 DEF CreateReview, TypeOK, Event, Events
  <2>2. calm' \in BOOLEAN
    BY <1>2, Zenon DEF CreateReview
  <2>3. reviews' \in [Users -> 0 .. MaxReviews]
    BY <1>2 DEF CreateReview, TypeOK
  <2> QED BY <1>2, <2>1, <2>2, <2>3 DEF CreateReview, TypeOK
<1>3. ASSUME NEW m \in unsent, Publish(m) \/ LosePublish(m)
      PROVE  TypeOK'
  <2>1. m \in Events
    BY DEF TypeOK
  <2> QED BY <1>3, <2>1, BlameTypes DEF Publish, LosePublish, TypeOK
<1>4. ASSUME NEW e \in Editors, NoSave(e) \/ Save(e)
      PROVE  TypeOK'
  <2>1. copy[e] # NoCopy => copy[e].user \in Users /\ copy[e].rating \in 0 .. MaxReviews
    BY DEF HeldInv, TypeOK
  <2>2. calm' \in BOOLEAN
    <3>1. Save(e) => calm' \in BOOLEAN
      BY Zenon DEF Save
    <3> QED BY <1>4, <3>1 DEF NoSave, TypeOK
  <2>3. rating' \in [Users -> 0 .. MaxReviews]
    BY <1>4, <2>1 DEF NoSave, Save, TypeOK
  <2> QED BY <1>4, <2>2, <2>3 DEF NoSave, Save, TypeOK
<1>5. ASSUME NEW e \in Editors, NEW u \in Users, Load(e, u)
      PROVE  TypeOK'
  BY <1>5 DEF Load, TypeOK
<1>6. ASSUME NEW w \in Workers, NEW m \in queue, Receive(w, m)
      PROVE  TypeOK'
  BY <1>6, TakeTypes DEF Receive, TypeOK
<1>7. ASSUME NEW w \in Writers, step[w] # "idle"
      PROVE  task[w] \in Events /\ task[w].user \in Users
  BY <1>7 DEF TypeOK
<1>8. ASSUME NEW w \in Writers, Aggregate(w)
      PROVE  TypeOK'
  <2>1. cause' \in [Users -> SUBSET {"lost", "overlap", "edit", "late"}]
    BY <1>7, <1>8, BlameTypes DEF Aggregate, Overlap
  <2>2. Summary(task[w].user) \in 0 .. MaxReviews
    BY <1>7, <1>8 DEF Aggregate, Summary, TypeOK
  <2> QED BY <1>8, <2>1, <2>2 DEF Aggregate, Goto, TypeOK
<1>9. ASSUME NEW w \in Writers, WriteRating(w)
      PROVE  TypeOK'
  <2>1. cause' \in [Users -> SUBSET {"lost", "overlap", "edit", "late"}]
    BY <1>7, <1>9 DEF WriteRating, Overlap, HeldByEdit, TypeOK
  <2>2. rating' \in [Users -> 0 .. MaxReviews]
    BY <1>9 DEF WriteRating, TypeOK
  <2> QED BY <1>9, <2>1, <2>2 DEF WriteRating, Goto, TypeOK
<1>10. ASSUME NEW w \in Workers, Acknowledge(w) \/ StartOver(w) \/ GiveUp(w)
       PROVE  TypeOK'
  <2>1. cause' \in [Users -> SUBSET {"lost", "overlap", "edit", "late"}]
    BY <1>7, <1>10, BlameTypes DEF Acknowledge, StartOver, GiveUp, TypeOK
  <2>2. Leave(w)
    BY <1>10 DEF Acknowledge, StartOver, GiveUp
  <2> QED BY <1>10, <2>1, <2>2, LeaveTypes DEF Acknowledge, StartOver, GiveUp, TypeOK
<1>11. CASE StartBackfill
  BY <1>11 DEF StartBackfill, ToRebuild, TypeOK
<1>12. ASSUME NEW u \in Users, BackfillNext(u)
       PROVE  TypeOK'
  <2>1. Event(u, 0) \in Events
    BY DEF Event, Events
  <2> QED BY <1>12, <2>1, TakeTypes DEF BackfillNext, TypeOK
<1>13. CASE BackfillEnds
  <2>1. faults' \in 0 .. MaxFaults /\ (calm' = FALSE \/ calm' = calm)
    BY <1>13 DEF BackfillEnds, TypeOK
  <2>2. calm' \in BOOLEAN
    BY <2>1, Zenon DEF TypeOK
  <2> QED BY <1>13, <2>1, <2>2, LeaveTypes DEF BackfillEnds, TypeOK
<1>14. CASE UNCHANGED vars
  BY <1>14 DEF vars, TypeOK
<1> QED
  BY <1>1, <1>2, <1>3, <1>4, <1>5, <1>6, <1>8, <1>9, <1>10, <1>11, <1>12, <1>13, <1>14
  DEF Next, Propagate, Receive, Acknowledge, StartOver, GiveUp, Writers

-----------------------------------------------------------------------------
LEMMA EventStep ==
  ASSUME TypeOK, EventInv, [Next]_vars
  PROVE  EventInv'
<1> USE WriterKinds, NothingIsNone DEF EventInv, workVars
<1>1. ASSUME UNCHANGED <<reviews, unsent, queue>>, \A w \in Workers : task'[w] \in {task[w], Nothing}
      PROVE  EventInv'
  BY <1>1 DEF TypeOK
<1>2. ASSUME NEW u \in Users, CreateReview(u)
      PROVE  EventInv'
  <2>1. /\ unsent' = unsent \cup {Event(u, reviews[u] + 1)}
        /\ reviews' = [reviews EXCEPT ![u] = @ + 1]
        /\ UNCHANGED <<queue, task>>
    BY <1>2 DEF CreateReview
  <2>2. Event(u, reviews[u] + 1).user = u /\ Event(u, reviews[u] + 1).n = reviews[u] + 1
    BY DEF Event
  <2>3. reviews[u] \in Nat /\ \A m \in unsent \cup queue : m.n \in Nat /\ m.user \in Users
    BY DEF TypeOK, Events
  <2>4. Event(u, reviews[u] + 1) \notin queue
    BY <2>2, <2>3
  <2>5. \A v \in Users : reviews[v] \in Nat /\ reviews[v] <= reviews'[v]
    BY <2>1 DEF TypeOK
  <2>6. reviews'[u] = reviews[u] + 1
    BY <2>1 DEF TypeOK
  <2>7. \A m \in unsent \cup queue : m.n <= reviews'[m.user]
    <3> SUFFICES ASSUME NEW m \in unsent \cup queue
                 PROVE  m.n <= reviews'[m.user]
      OBVIOUS
    <3>1. m.n \in Nat /\ m.user \in Users /\ m.n <= reviews[m.user]
      BY <2>3
    <3>2. reviews'[m.user] \in Nat
      BY <2>1, <2>3, <3>1 DEF TypeOK
    <3> QED BY <2>5, <3>1, <3>2
  <2>8. \A m \in unsent' \cup queue' : m.n <= reviews'[m.user]
    BY <2>1, <2>2, <2>3, <2>6, <2>7
  <2> QED BY <2>1, <2>4, <2>8
<1>3. ASSUME NEW m \in unsent, Publish(m) \/ LosePublish(m)
      PROVE  EventInv'
  BY <1>3 DEF Publish, LosePublish, TypeOK
<1>4. ASSUME NEW w \in Workers, NEW m \in queue, Receive(w, m)
      PROVE  EventInv'
  BY <1>4 DEF Receive, TypeOK
<1>5. ASSUME NEW w \in Workers, Acknowledge(w) \/ GiveUp(w)
      PROVE  EventInv'
  <2>1. /\ UNCHANGED <<reviews, unsent>> /\ queue' = queue \ {task[w]}
        /\ task[w] # Nothing
        /\ task' = [task EXCEPT ![w] = Nothing]
    BY <1>5 DEF Acknowledge, GiveUp, Leave, TypeOK
  <2> QED BY <2>1 DEF TypeOK
<1>6. ASSUME NEW w \in Workers, StartOver(w)
      PROVE  EventInv'
  BY <1>1, <1>6 DEF StartOver, Leave, TypeOK
<1>7. ASSUME NEW w \in Writers, Aggregate(w) \/ WriteRating(w)
      PROVE  EventInv'
  BY <1>1, <1>7 DEF Aggregate, WriteRating
<1>8. ASSUME NEW u \in Users, CreateProfile(u)
      PROVE  EventInv'
  BY <1>1, <1>8 DEF CreateProfile
<1>9. ASSUME NEW e \in Editors, NoSave(e) \/ Save(e) \/ \E u \in Users : Load(e, u)
      PROVE  EventInv'
  BY <1>1, <1>9 DEF NoSave, Save, Load
<1>10. ASSUME StartBackfill \/ BackfillEnds \/ \E u \in Users : BackfillNext(u)
       PROVE  EventInv'
  BY <1>1, <1>10 DEF StartBackfill, BackfillEnds, BackfillNext, Leave, TypeOK
<1>11. CASE UNCHANGED vars
  BY <1>1, <1>11 DEF vars
<1> QED
  BY <1>2, <1>3, <1>4, <1>5, <1>6, <1>7, <1>8, <1>9, <1>10, <1>11
  DEF Next, Propagate, Receive, Acknowledge, StartOver, GiveUp, Writers

LEMMA HeldStep ==
  ASSUME TypeOK, HeldInv, [Next]_vars
  PROVE  HeldInv'
<1> USE WriterKinds, NothingIsNone DEF HeldInv, workVars
<1>1. ASSUME copy' = copy, profiles \subseteq profiles'
      PROVE  \A e \in Editors : copy'[e] # NoCopy => copy'[e].user \in profiles'
  BY <1>1
<1>2. ASSUME UNCHANGED reviews,
             \A w \in Writers : step'[w] = "write" =>
               step[w] = "write" /\ task'[w] = task[w] /\ got'[w] = got[w]
      PROVE  \A w \in Writers : step'[w] = "write" => got'[w] <= reviews'[task'[w].user]
  BY <1>2
<1>3. ASSUME NEW u \in Users, CreateReview(u)
      PROVE  HeldInv'
  <2>1. /\ reviews' = [reviews EXCEPT ![u] = @ + 1]
        /\ UNCHANGED <<task, step, got, copy, profiles>>
    BY <1>3 DEF CreateReview
  <2>2. ASSUME NEW w \in Writers, step[w] = "write"
        PROVE  got[w] <= reviews'[task[w].user]
    <3>1. task[w].user \in Users /\ got[w] \in Nat /\ got[w] <= reviews[task[w].user]
      BY <2>2 DEF TypeOK
    <3>2. /\ reviews[task[w].user] \in Nat /\ reviews'[task[w].user] \in Nat
          /\ reviews[task[w].user] <= reviews'[task[w].user]
      BY <2>1, <3>1 DEF TypeOK
    <3> QED BY <3>1, <3>2
  <2> QED BY <1>1, <2>1, <2>2
<1>4. ASSUME NEW w \in Writers, Aggregate(w)
      PROVE  HeldInv'
  <2>1. /\ UNCHANGED <<reviews, profiles, task, copy>>
        /\ got' = [got EXCEPT ![w] = reviews[task[w].user]]
        /\ step' = [step EXCEPT ![w] = "write"]
        /\ task[w].user \in Users
    BY <1>4 DEF Aggregate, Summary, Goto, TypeOK
  <2>2. got'[w] <= reviews[task[w].user]
    BY <2>1 DEF TypeOK
  <2>3. \A v \in Writers \ {w} : got'[v] = got[v] /\ step'[v] = step[v]
    BY <2>1 DEF TypeOK
  <2> QED BY <2>1, <2>2, <2>3
<1>5. ASSUME NEW w \in Writers, WriteRating(w)
      PROVE  HeldInv'
  BY <1>1, <1>2, <1>5 DEF WriteRating, Goto, TypeOK
<1>6. ASSUME NEW w \in Writers, Leave(w), UNCHANGED <<reviews, profiles, copy>>
      PROVE  HeldInv'
  BY <1>1, <1>2, <1>6 DEF Leave, Goto, TypeOK
<1>7. ASSUME NEW w \in Workers, Acknowledge(w) \/ StartOver(w) \/ GiveUp(w)
      PROVE  HeldInv'
  BY <1>6, <1>7 DEF Acknowledge, StartOver, GiveUp
<1>8. CASE BackfillEnds
  BY <1>6, <1>8 DEF BackfillEnds
<1>9. ASSUME NEW w \in Workers, NEW m \in queue, Receive(w, m)
      PROVE  HeldInv'
  BY <1>1, <1>2, <1>9 DEF Receive, Goto, TypeOK
<1>10. ASSUME NEW u \in Users, BackfillNext(u)
       PROVE  HeldInv'
  BY <1>1, <1>2, <1>10 DEF BackfillNext, Goto, TypeOK
<1>11. ASSUME NEW e \in Editors, NoSave(e) \/ Save(e) \/ \E u \in Users : Load(e, u)
       PROVE  HeldInv'
  <2>1. UNCHANGED <<reviews, profiles, workVars>>
    BY <1>11 DEF NoSave, Save, Load
  <2>2. \/ copy' = [copy EXCEPT ![e] = NoCopy]
        \/ \E u \in profiles : copy' = [copy EXCEPT ![e] = [user |-> u, rating |-> rating[u]]]
    BY <1>11 DEF NoSave, Save, Load
  <2>3. \A d \in Editors : copy'[d] # NoCopy => copy'[d].user \in profiles
    BY <2>2 DEF TypeOK
  <2> QED BY <1>2, <2>1, <2>3
<1>12. ASSUME StartBackfill \/ (\E u \in Users : CreateProfile(u))
              \/ (\E m \in unsent : Publish(m) \/ LosePublish(m)) \/ UNCHANGED vars
       PROVE  HeldInv'
  BY <1>1, <1>2, <1>12 DEF StartBackfill, CreateProfile, Publish, LosePublish, vars
<1> QED
  BY <1>3, <1>4, <1>5, <1>7, <1>8, <1>9, <1>10, <1>11, <1>12
  DEF Next, Propagate, Receive, Acknowledge, StartOver, GiveUp, Writers

LEMMA BaseHolds == Spec => []Base
<1>1. Init => Base
  <2> SUFFICES ASSUME Init
               PROVE  Base
    OBVIOUS
  <2>1. calm \in BOOLEAN
    BY Zenon DEF Init
  <2>2. TypeOK
    BY <2>1, RatingsConstants DEF Init, TypeOK, NoCopy
  <2>3. EventInv
    BY WriterKinds DEF Init, EventInv
  <2>4. HeldInv
    BY DEF Init, HeldInv
  <2> QED BY <2>2, <2>3, <2>4 DEF Base
<1>2. Base /\ [Next]_vars => Base'
  BY TypesStep, EventStep, HeldStep DEF Base
<1> QED BY <1>1, <1>2, PTL DEF Spec

(* Every variable keeps its type: a writer has an aggregate only between   *)
(* reading the reviews and writing the rating.                             *)
THEOREM TypeCorrect == Spec => []TypeOK
BY BaseHolds, PTL DEF Base

-----------------------------------------------------------------------------
(* The convergence of the rating of one user.  Blame is taken back by none *)
(* but the process that writes a rating of all reviews.                    *)
Repairs(w, u) == WriteRating(w) /\ task[w].user = u /\ got[w] = reviews[u]

LEMMA BlameStays ==
  ASSUME TypeOK, [Next]_vars, NEW u \in Users, cause'[u] = {}
  PROVE  cause[u] = {} \/ \E w \in Writers : Repairs(w, u)
<1>1. ASSUME NEW v, NEW what, Blame(v, what)
      PROVE  cause[u] = {}
  BY <1>1 DEF Blame, TypeOK
<1>2. ASSUME NEW w \in Writers, WriteRating(w), ~Repairs(w, u)
      PROVE  cause[u] = {}
  <2> DEFINE t == task[w].user
  <2>1. cause' = [cause EXCEPT ![t] =
                    (IF got[w] = reviews[t] THEN Overlap(w, t) ELSE cause[t]) \cup HeldByEdit(t)]
    BY <1>2 DEF WriteRating
  <2>2. t # u \/ got[w] # reviews[u]
    BY <1>2 DEF Repairs
  <2> QED BY <2>1, <2>2 DEF TypeOK
<1>3. \/ UNCHANGED cause
      \/ \E v, what : Blame(v, what)
      \/ \E w \in Writers : WriteRating(w)
  BY DEF Next, Propagate, CreateProfile, CreateReview, Publish, LosePublish, Load, NoSave, Save,
         Receive, Aggregate, WriteRating, Acknowledge, StartOver, GiveUp, StartBackfill,
         BackfillNext, BackfillEnds, vars
<1> QED BY <1>1, <1>2, <1>3

(* Once a rating of all reviews is written and no edit or other process    *)
(* holds an older one, the rating is on its way whatever was before.       *)
LEMMA RepairedWay ==
  ASSUME TypeOK, NEW u \in Users, cause'[u] = {}, NEW w \in Writers, Repairs(w, u)
  PROVE  OnItsWay(u)'
<1>1. /\ UNCHANGED <<reviews, profiles, task, copy>>
      /\ task[w].user = u /\ step' = [step EXCEPT ![w] = "ack"]
      /\ u \in profiles => rating'[u] = reviews[u]
      /\ cause'[u] = Overlap(w, u) \cup HeldByEdit(u)
  BY DEF Repairs, WriteRating, Goto, TypeOK
<1>2. Overlap(w, u) = {} /\ HeldByEdit(u) = {}
  BY <1>1
<1>3. \A v \in Writers : ~Writing(v, u)'
  BY <1>1, <1>2 DEF Writing, Overlap, TypeOK
<1>4. \A e \in Editors : copy'[e].user # u
  BY <1>1, <1>2 DEF HeldByEdit
<1> QED BY <1>1, <1>3, <1>4 DEF OnItsWay

(* A step that leaves the row of u, its reviews and what edits hold of it  *)
(* alone, and no consumer's aggregate is dropped without its event owed.   *)
LEMMA WayKept ==
  ASSUME TypeOK, NEW u \in Users, OnItsWay(u),
         reviews'[u] = reviews[u], rating'[u] = rating[u], u \in profiles' => u \in profiles,
         \A e \in Editors : copy'[e].user = u => copy'[e] = copy[e],
         \A w \in Writers : Writing(w, u)' => Writing(w, u) /\ got'[w] = got[w],
         Owed(u) => Owed(u)',
         \A w \in Workers : Writing(w, u) => Writing(w, u)' \/ Owed(u)'
  PROVE  OnItsWay(u)'
BY DEF OnItsWay

LEMMA OwedKept ==
  ASSUME NEW u \in Users, Owed(u), unsent \subseteq unsent',
         \A m \in queue : m.user = u /\ (\A w \in Workers : task[w] = m => step[w] = "aggregate") =>
           m \in queue' /\ \A w \in Workers : task'[w] = m => step'[w] = "aggregate"
  PROVE  Owed(u)'
BY DEF Owed

LEMMA WebWay ==
  ASSUME Base, NEW u \in Users, OnItsWay(u), cause'[u] = {},
         \/ \E v \in Users : CreateProfile(v) \/ CreateReview(v)
         \/ \E m \in unsent : Publish(m) \/ LosePublish(m)
         \/ \E e \in Editors : NoSave(e) \/ Save(e) \/ \E v \in Users : Load(e, v)
  PROVE  OnItsWay(u)'
<1> USE WriterKinds, NothingIsNone DEF workVars
<1> TypeOK /\ EventInv /\ HeldInv
  BY DEF Base
<1>1. ASSUME UNCHANGED <<unsent, queue, task, step>>
      PROVE  Owed(u) <=> Owed(u)'
  BY <1>1 DEF Owed
<1>2. ASSUME UNCHANGED workVars
      PROVE  \A w \in Writers, v \in Users : (Writing(w, v)' <=> Writing(w, v)) /\ got'[w] = got[w]
  BY <1>2 DEF Writing
<1>3. ASSUME NEW v \in Users, CreateProfile(v)
      PROVE  OnItsWay(u)'
  <2>1. /\ UNCHANGED <<reviews, unsent, queue, workVars, copy>>
        /\ profiles' = profiles \cup {v} /\ v \notin profiles
        /\ rating' = [rating EXCEPT ![v] = 0]
        /\ cause' = [cause EXCEPT ![v] = @ \cup (IF reviews[v] > 0 THEN {"late"} ELSE {})]
    BY <1>3 DEF CreateProfile, Blame
  <2>2. CASE v # u
    <3>1. rating'[u] = rating[u] /\ (u \in profiles' => u \in profiles)
      BY <2>1, <2>2 DEF TypeOK
    <3> QED BY <1>1, <1>2, <2>1, <3>1, WayKept
  <2>3. CASE v = u
    <3>1. rating'[u] = 0 /\ reviews[u] = 0
      <4>1. cause'[u] = cause[u] \cup (IF reviews[u] > 0 THEN {"late"} ELSE {})
        BY <2>1, <2>3 DEF TypeOK
      <4>2. ~(reviews[u] > 0)
        BY <4>1
      <4> QED BY <2>1, <2>3, <4>2 DEF TypeOK
    <3>2. \A e \in Editors : copy'[e].user # u
      BY <2>1, <2>3 DEF HeldInv, NoCopy, TypeOK, Nothing, Events
    <3>3. \A w \in Writers : Writing(w, u)' => Writing(w, u) /\ got'[w] = reviews'[u]
      BY <1>2, <2>1, <3>1 DEF HeldInv, Writing, TypeOK
    <3> QED BY <2>1, <3>1, <3>2, <3>3 DEF OnItsWay
  <2> QED BY <2>2, <2>3
<1>4. ASSUME NEW v \in Users, CreateReview(v)
      PROVE  OnItsWay(u)'
  <2>1. /\ UNCHANGED <<profiles, rating, queue, workVars, copy>>
        /\ reviews' = [reviews EXCEPT ![v] = @ + 1]
        /\ unsent' = unsent \cup {Event(v, reviews[v] + 1)}
    BY <1>4 DEF CreateReview
  <2>2. CASE v # u
    <3>1. Owed(u) => Owed(u)'
      BY <2>1, OwedKept
    <3> QED BY <1>2, <2>1, <2>2, <3>1, WayKept DEF TypeOK
  <2>3. CASE v = u
    <3>1. Owed(u)'
      <4>1. Event(v, reviews[v] + 1) \in unsent' /\ Event(v, reviews[v] + 1).user = u
        BY <2>1, <2>3 DEF Event
      <4> QED BY <4>1 DEF Owed
    <3> QED BY <1>2, <2>1, <3>1 DEF OnItsWay
  <2> QED BY <2>2, <2>3
<1>5. ASSUME NEW m \in unsent, Publish(m)
      PROVE  OnItsWay(u)'
  <2>1. /\ UNCHANGED <<reviews, profiles, rating, workVars, copy>>
        /\ unsent' = unsent \ {m} /\ queue' = queue \cup {m}
    BY <1>5 DEF Publish
  <2>2. \A w \in Workers : task[w] # m
    BY DEF EventInv, TypeOK
  <2>3. Owed(u) => Owed(u)'
    BY <2>1, <2>2 DEF Owed
  <2> QED BY <1>2, <2>1, <2>3, WayKept
<1>6. ASSUME NEW m \in unsent, LosePublish(m)
      PROVE  OnItsWay(u)'
  <2>1. /\ UNCHANGED <<reviews, profiles, rating, queue, workVars, copy>>
        /\ unsent' = unsent \ {m}
        /\ cause' = [cause EXCEPT ![m.user] = @ \cup {"lost"}]
        /\ m.user \in Users
    BY <1>6 DEF LosePublish, Blame, TypeOK
  <2>2. m.user # u
    BY <2>1 DEF TypeOK
  <2>3. Owed(u) => Owed(u)'
    BY <2>1, <2>2 DEF Owed
  <2> QED BY <1>2, <2>1, <2>3, WayKept
<1>7. ASSUME NEW e \in Editors, NoSave(e) \/ \E v \in Users : Load(e, v)
      PROVE  OnItsWay(u)'
  <2>1. /\ UNCHANGED <<reviews, profiles, rating, unsent, queue, workVars>>
        /\ \/ copy' = [copy EXCEPT ![e] = NoCopy]
           \/ \E v \in Users : copy' = [copy EXCEPT ![e] = [user |-> v, rating |-> rating[v]]]
    BY <1>7 DEF NoSave, Load
  <2>2. \A d \in Editors : copy'[d].user = u => copy'[d].rating = rating[u]
    BY <2>1, RatingsConstants DEF OnItsWay, NoCopy, TypeOK
  <2> QED BY <1>1, <1>2, <2>1, <2>2 DEF OnItsWay
<1>8. ASSUME NEW e \in Editors, Save(e)
      PROVE  OnItsWay(u)'
  <2>1. /\ UNCHANGED <<reviews, profiles, unsent, queue, workVars>>
        /\ copy[e] # NoCopy
        /\ rating' = [rating EXCEPT ![copy[e].user] = copy[e].rating]
        /\ copy' = [copy EXCEPT ![e] = NoCopy]
    BY <1>8 DEF Save
  <2>2. rating'[u] = rating[u]
    BY <2>1 DEF OnItsWay, TypeOK
  <2>3. \A d \in Editors : copy'[d].user = u => copy'[d] = copy[d]
    BY <2>1, RatingsConstants DEF NoCopy, TypeOK
  <2> QED BY <1>1, <1>2, <2>1, <2>2, <2>3, WayKept
<1> QED BY <1>3, <1>4, <1>5, <1>6, <1>7, <1>8

LEMMA WorkWay ==
  ASSUME Base, NEW u \in Users, OnItsWay(u), cause'[u] = {},
         \/ \E w \in Writers : Propagate(w)
         \/ StartBackfill \/ BackfillEnds \/ \E v \in Users : BackfillNext(v)
  PROVE  OnItsWay(u)'
<1> USE WriterKinds, NothingIsNone DEF workVars
<1> TypeOK /\ EventInv /\ HeldInv
  BY DEF Base
<1>1. ASSUME NEW w \in Writers, UNCHANGED <<unsent, queue, task>>,
             \A v \in Workers \ {w} : step'[v] = step[v],
             w = Backfill \/ task[w].user # u \/ step[w] # "aggregate"
      PROVE  Owed(u) => Owed(u)'
  BY <1>1, OwedKept
<1>2. ASSUME NEW w \in Workers, NEW m \in queue, Receive(w, m)
      PROVE  OnItsWay(u)'
  <2>1. /\ UNCHANGED <<reviews, profiles, rating, unsent, queue, got, copy>>
        /\ task' = [task EXCEPT ![w] = m] /\ step' = [step EXCEPT ![w] = "aggregate"]
        /\ step[w] = "idle"
    BY <1>2 DEF Receive, Goto
  <2>2. \A v \in Writers : Writing(v, u)' <=> Writing(v, u)
    BY <2>1 DEF Writing, TypeOK
  <2>3. Owed(u) => Owed(u)'
    BY <2>1, OwedKept DEF TypeOK
  <2> QED BY <2>1, <2>2, <2>3, WayKept
<1>3. ASSUME NEW w \in Writers, Aggregate(w)
      PROVE  OnItsWay(u)'
  <2> DEFINE t == task[w].user
  <2>1. /\ UNCHANGED <<reviews, profiles, rating, unsent, queue, task, copy>>
        /\ step[w] = "aggregate" /\ step' = [step EXCEPT ![w] = "write"]
        /\ got' = [got EXCEPT ![w] = reviews[t]]
        /\ t \in Users
        /\ cause'[t] = cause[t] \cup Overlap(w, t)
    BY <1>3 DEF Aggregate, Summary, Goto, Blame, TypeOK
  <2>2. \A v \in Writers \ {w} : (Writing(v, u)' <=> Writing(v, u)) /\ got'[v] = got[v]
    BY <2>1 DEF Writing, TypeOK
  <2>3. CASE t # u
    <3>1. ~Writing(w, u) /\ ~Writing(w, u)'
      BY <2>1, <2>3 DEF Writing
    <3>2. Owed(u) => Owed(u)'
      BY <1>1, <2>1, <2>3 DEF TypeOK
    <3> QED BY <2>1, <2>2, <3>1, <3>2, WayKept
  <2>4. CASE t = u
    <3>1. \A v \in Writers \ {w} : ~Writing(v, u)
      BY <2>1, <2>4 DEF Writing, Overlap
    <3>2. Writing(w, u)' /\ got'[w] = reviews[u] /\ ~Writing(w, u)
      BY <2>1, <2>4 DEF Writing, TypeOK
    <3>3. w \in Workers \/ (w = Backfill /\ (Owed(u) => Owed(u)'))
      BY <1>1, <2>1 DEF Writers, TypeOK
    <3>4. u \in profiles' /\ ~Owed(u)' => rating'[u] = reviews'[u] \/ \E v \in Workers : Writing(v, u)'
      BY <2>1, <3>1, <3>2, <3>3 DEF OnItsWay
    <3>5. \A v \in Writers : Writing(v, u)' => v = w
      BY <2>2, <3>1
    <3> QED BY <2>1, <3>2, <3>4, <3>5 DEF OnItsWay
  <2> QED BY <2>3, <2>4
<1>4. ASSUME NEW w \in Writers, WriteRating(w)
      PROVE  OnItsWay(u)'
  <2> DEFINE t == task[w].user
  <2>1. /\ UNCHANGED <<reviews, profiles, unsent, queue, task, copy>>
        /\ step[w] = "write" /\ step' = [step EXCEPT ![w] = "ack"]
        /\ got' = [got EXCEPT ![w] = 0]
        /\ t \in Users
        /\ rating' = IF t \in profiles THEN [rating EXCEPT ![t] = got[w]] ELSE rating
        /\ HeldByEdit(t) \subseteq cause'[t]
    BY <1>4 DEF WriteRating, Goto, TypeOK
  <2>2. /\ ~Writing(w, u)'
        /\ \A v \in Writers \ {w} : (Writing(v, u)' <=> Writing(v, u)) /\ got'[v] = got[v]
    BY <2>1 DEF Writing, TypeOK
  <2>3. Owed(u) => Owed(u)'
    BY <1>1, <2>1 DEF TypeOK
  <2>4. CASE t # u
    <3>1. rating'[u] = rating[u] /\ ~Writing(w, u)
      BY <2>1, <2>4 DEF Writing, TypeOK
    <3> QED BY <2>1, <2>2, <2>3, <3>1, WayKept
  <2>5. CASE t = u
    <3>1. Writing(w, u) /\ \A v \in Writers : Writing(v, u) => v = w
      BY <2>1, <2>5 DEF Writing, OnItsWay
    <3>2. \A v \in Writers : ~Writing(v, u)'
      BY <2>2, <3>1
    <3>3. \A e \in Editors : copy'[e].user # u
      BY <2>1, <2>5 DEF HeldByEdit
    <3>4. u \in profiles' /\ ~Owed(u)' => rating'[u] = reviews'[u]
      BY <2>1, <2>3, <2>5, <3>1 DEF OnItsWay, TypeOK
    <3> QED BY <3>2, <3>3, <3>4 DEF OnItsWay
  <2> QED BY <2>4, <2>5
<1>5. ASSUME NEW w \in Writers, Leave(w), UNCHANGED <<reviews, profiles, rating, copy>>,
             Owed(u) => Owed(u)', w \in Workers /\ Writing(w, u) => Owed(u)'
      PROVE  OnItsWay(u)'
  <2>1. /\ ~Writing(w, u)'
        /\ \A v \in Writers \ {w} : (Writing(v, u)' <=> Writing(v, u)) /\ got'[v] = got[v]
    BY <1>5 DEF Leave, Goto, Writing, TypeOK
  <2> QED BY <1>5, <2>1, WayKept
<1>6. ASSUME NEW w \in Workers, Acknowledge(w)
      PROVE  OnItsWay(u)'
  <2>1. /\ Leave(w) /\ step[w] = "ack"
        /\ UNCHANGED <<reviews, profiles, rating, unsent, copy>>
        /\ queue' = queue \ {task[w]}
    BY <1>6 DEF Acknowledge
  <2>2. Owed(u) => Owed(u)'
    BY <2>1, OwedKept DEF Leave, Goto, TypeOK
  <2> QED BY <1>5, <2>1, <2>2 DEF Writing
<1>7. ASSUME NEW w \in Workers, StartOver(w)
      PROVE  OnItsWay(u)'
  <2>1. /\ Leave(w) /\ step[w] # "idle"
        /\ UNCHANGED <<reviews, profiles, rating, unsent, queue, copy>>
        /\ task' = [task EXCEPT ![w] = Nothing]
        /\ \A v \in Workers \ {w} : step'[v] = step[v]
    BY <1>7 DEF StartOver, Leave, Goto, TypeOK
  <2>2. task[w] \in queue /\ task[w] \in Events /\ \A v \in Workers : task'[v] # task[w]
    BY <2>1 DEF EventInv, TypeOK
  <2>3. task[w].user = u => Owed(u)'
    BY <2>1, <2>2 DEF Owed
  <2>4. Owed(u) => Owed(u)'
    BY <2>1, OwedKept DEF TypeOK
  <2> QED BY <1>5, <2>1, <2>3, <2>4 DEF Writing
<1>8. ASSUME NEW w \in Workers, GiveUp(w)
      PROVE  OnItsWay(u)'
  <2>1. /\ Leave(w) /\ step[w] # "idle"
        /\ UNCHANGED <<reviews, profiles, rating, unsent, copy>>
        /\ queue' = queue \ {task[w]}
        /\ cause' = [cause EXCEPT ![task[w].user] = @ \cup {"lost"}]
        /\ task[w].user \in Users
    BY <1>8 DEF GiveUp, Blame, TypeOK
  <2>2. task[w].user # u
    BY <2>1 DEF TypeOK
  <2>3. Owed(u) => Owed(u)'
    BY <2>1, <2>2, OwedKept DEF Leave, Goto, TypeOK
  <2> QED BY <1>5, <2>1, <2>2, <2>3 DEF Writing
<1>9. CASE StartBackfill
  <2>1. UNCHANGED <<reviews, profiles, rating, unsent, queue, workVars, copy>>
    BY <1>9 DEF StartBackfill
  <2>2. Owed(u) => Owed(u)'
    BY <2>1, OwedKept
  <2>3. \A v \in Writers : Writing(v, u)' <=> Writing(v, u)
    BY <2>1 DEF Writing
  <2> QED BY <2>1, <2>2, <2>3, WayKept
<1>10. ASSUME UNCHANGED <<unsent, queue>>,
              \A v \in Workers : task'[v] = task[v] /\ step'[v] = step[v]
       PROVE  Owed(u) => Owed(u)'
  BY <1>10, OwedKept
<1>11. ASSUME NEW v \in Users, BackfillNext(v)
       PROVE  OnItsWay(u)'
  <2>1. /\ UNCHANGED <<reviews, profiles, rating, unsent, queue, got, copy>>
        /\ task' = [task EXCEPT ![Backfill] = Event(v, 0)]
        /\ step' = [step EXCEPT ![Backfill] = "aggregate"]
        /\ step[Backfill] \in {"idle", "ack"}
    BY <1>11 DEF BackfillNext, Goto
  <2>2. \A w \in Writers : Writing(w, u)' <=> Writing(w, u)
    BY <2>1 DEF Writing, TypeOK
  <2> QED BY <1>10, <2>1, <2>2, WayKept DEF TypeOK
<1>12. CASE BackfillEnds
  <2>1. Leave(Backfill) /\ UNCHANGED <<reviews, profiles, rating, unsent, queue, copy>>
    BY <1>12 DEF BackfillEnds
  <2>2. Owed(u) => Owed(u)'
    BY <1>10, <2>1 DEF Leave, Goto, TypeOK
  <2> QED BY <1>5, <2>1, <2>2
<1> QED
  BY <1>2, <1>3, <1>4, <1>6, <1>7, <1>8, <1>9, <1>11, <1>12
  DEF Propagate, Receive, Acknowledge, StartOver, GiveUp, Writers

LEMMA WayStep ==
  ASSUME Base, WayInv, [Next]_vars
  PROVE  WayInv'
<1> SUFFICES ASSUME NEW u \in Users, cause'[u] = {}
             PROVE  OnItsWay(u)'
  BY DEF WayInv
<1>1. OnItsWay(u) \/ OnItsWay(u)'
  BY BlameStays, RepairedWay DEF Base, WayInv
<1>2. CASE UNCHANGED vars
  <2>1. UNCHANGED <<reviews, profiles, rating, unsent, queue, task, step, got, copy>>
    BY <1>2 DEF vars, workVars
  <2>2. Owed(u) => Owed(u)'
    BY <2>1, OwedKept
  <2>3. \A w \in Writers : Writing(w, u)' <=> Writing(w, u)
    BY <2>1 DEF Writing
  <2> QED BY <1>1, <2>1, <2>2, <2>3, WayKept, WriterKinds DEF Base
<1> QED BY <1>1, <1>2, WebWay, WorkWay DEF Next

(* Handled however often and in whatever order, the events of the reviews  *)
(* of a user leave the profile with the rating of all of them, once        *)
(* everything is drained, unless one of the listed causes has set it back  *)
(* since the reviews were last counted.                                    *)
THEOREM RatingsConvergeHolds == Spec => []RatingsConverge
<1>1. Init => WayInv
  BY RatingsConstants DEF Init, WayInv, OnItsWay, Writing, NoCopy
<1>2. Base /\ WayInv /\ [Next]_vars => WayInv'
  BY WayStep
<1>3. Base /\ WayInv => RatingsConverge
  <2> SUFFICES ASSUME Base, WayInv, Quiet, NEW u \in profiles, cause[u] = {}
               PROVE  rating[u] = reviews[u]
    BY DEF RatingsConverge
  <2>1. ~Owed(u) /\ \A w \in Writers : ~Writing(w, u)
    BY DEF Quiet, Owed, Writing
  <2>2. u \in Users /\ OnItsWay(u)
    BY DEF Base, TypeOK, WayInv
  <2> QED BY <2>1, <2>2, WriterKinds DEF OnItsWay
<1> QED BY <1>1, <1>2, <1>3, BaseHolds, PTL DEF Spec

-----------------------------------------------------------------------------
(* The repair.  While the backfill runs undisturbed no consumer comes to   *)
(* write, and every profile is still to do, being done, or right.          *)
CalmInv ==
  calm =>
    /\ \A w \in Workers : step[w] \in {"idle", "aggregate"}
    /\ \A u \in profiles :
         \/ u \in todo
         \/ step[Backfill] \in {"aggregate", "write"} /\ task[Backfill].user = u
         \/ rating[u] = reviews[u]
    /\ step[Backfill] = "write" => got[Backfill] = reviews[task[Backfill].user]

LEMMA CalmStep ==
  ASSUME Base, CalmInv, [Next]_vars, calm'
  PROVE  CalmInv'
<1> USE WriterKinds DEF workVars
<1> TypeOK /\ HeldInv
  BY DEF Base
<1>1. ASSUME calm, UNCHANGED <<reviews, profiles, rating, todo>>,
             step'[Backfill] = step[Backfill], task'[Backfill] = task[Backfill],
             got'[Backfill] = got[Backfill],
             \A w \in Workers : step'[w] \in {step[w], "idle", "aggregate"}
      PROVE  CalmInv'
  BY <1>1 DEF CalmInv
<1>2. ASSUME NEW e \in Editors, NoSave(e) \/ (\E u \in Users : Load(e, u))
      PROVE  CalmInv'
  BY <1>1, <1>2 DEF NoSave, Load
<1>3. ASSUME NEW m \in unsent, Publish(m) \/ LosePublish(m)
      PROVE  CalmInv'
  BY <1>1, <1>3 DEF Publish, LosePublish
<1>4. ASSUME NEW w \in Workers,
             (\E m \in queue : Receive(w, m)) \/ Acknowledge(w) \/ StartOver(w) \/ GiveUp(w)
      PROVE  CalmInv'
  BY <1>1, <1>4 DEF Receive, Acknowledge, StartOver, GiveUp, Leave, Goto, TypeOK
<1>5. CASE Aggregate(Backfill)
  <2>1. /\ calm /\ UNCHANGED <<reviews, profiles, rating, todo, task>>
        /\ step[Backfill] = "aggregate" /\ step' = [step EXCEPT ![Backfill] = "write"]
        /\ got'[Backfill] = reviews[task[Backfill].user]
    BY <1>5 DEF Aggregate, Summary, Goto, TypeOK
  <2> QED BY <2>1 DEF CalmInv, TypeOK
<1>6. CASE WriteRating(Backfill)
  <2> DEFINE t == task[Backfill].user
  <2>1. /\ calm /\ UNCHANGED <<reviews, profiles, todo, task>>
        /\ step[Backfill] = "write" /\ step' = [step EXCEPT ![Backfill] = "ack"]
        /\ rating' = IF t \in profiles THEN [rating EXCEPT ![t] = got[Backfill]] ELSE rating
    BY <1>6 DEF WriteRating, Goto
  <2>2. got[Backfill] = reviews[t]
    BY <2>1 DEF CalmInv
  <2>3. \A u \in profiles : u \in todo \/ rating'[u] = reviews[u]
    BY <2>1, <2>2 DEF CalmInv, TypeOK
  <2> QED BY <2>1, <2>3 DEF CalmInv, TypeOK
<1>7. CASE StartBackfill
  <2>1. \A w \in Workers : step[w] = "idle"
    BY <1>7, Zenon DEF StartBackfill
  <2>2. /\ UNCHANGED <<step, profiles>> /\ todo' = profiles
        /\ step[Backfill] = "idle"
    BY <1>7 DEF StartBackfill, ToRebuild
  <2> QED BY <2>1, <2>2 DEF CalmInv
<1>8. ASSUME NEW u \in Users, BackfillNext(u)
      PROVE  CalmInv'
  <2>1. /\ calm /\ UNCHANGED <<reviews, profiles, rating>>
        /\ todo' = todo \ {u}
        /\ task'[Backfill].user = u /\ step'[Backfill] = "aggregate"
        /\ step[Backfill] \in {"idle", "ack"}
        /\ \A w \in Workers : step'[w] = step[w]
    BY <1>8 DEF BackfillNext, Event, Goto, TypeOK
  <2> QED BY <2>1 DEF CalmInv
<1>9. CASE BackfillEnds
  <2>1. /\ calm /\ UNCHANGED <<reviews, profiles, rating>>
        /\ step[Backfill] = "ack" /\ todo = {} /\ todo' = {}
        /\ step'[Backfill] = "idle"
        /\ \A w \in Workers : step'[w] = step[w]
    BY <1>9 DEF BackfillEnds, Leave, Goto, TypeOK
  <2> QED BY <2>1 DEF CalmInv
<1>10. ASSUME \/ \E u \in Users : CreateProfile(u) \/ CreateReview(u)
              \/ \E e \in Editors : Save(e)
              \/ \E w \in Workers : Aggregate(w) \/ WriteRating(w)
       PROVE  FALSE
  BY <1>10 DEF CreateProfile, CreateReview, Save, Aggregate, WriteRating
<1>11. CASE UNCHANGED vars
  <2>1. calm /\ UNCHANGED <<reviews, profiles, rating, todo, task, step, got>>
    BY <1>11 DEF vars
  <2> QED BY <1>1, <2>1
<1>12. ASSUME NEW w \in Writers, Propagate(w)
       PROVE  CalmInv'
  <2>1. CASE w \in Workers
    BY <1>4, <1>10, <1>12, <2>1 DEF Propagate
  <2>2. CASE w = Backfill
    BY <1>5, <1>6, <1>12, <2>2 DEF Propagate, Receive, Acknowledge, StartOver, GiveUp
  <2> QED BY <2>1, <2>2 DEF Writers
<1> QED BY <1>2, <1>3, <1>7, <1>8, <1>9, <1>10, <1>11, <1>12 DEF Next

(* A run of backfill_profile_ratings beside which nothing else is written  *)
(* leaves every profile with the rating of all its reviews, whatever set   *)
(* it back before.                                                         *)
THEOREM BackfillRepairsHolds == Spec => []BackfillRepairs
<1>1. Init => CalmInv
  BY Zenon DEF Init, CalmInv
<1>2. Base /\ CalmInv /\ [Next]_vars => CalmInv'
  <2>1. ~calm' => CalmInv'
    BY DEF CalmInv
  <2> QED BY <2>1, CalmStep
<1>3. CalmInv => BackfillRepairs
  BY DEF CalmInv, BackfillRepairs
<1> QED BY <1>1, <1>2, <1>3, BaseHolds, PTL DEF Spec
=============================================================================
