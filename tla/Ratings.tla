------------------------------ MODULE Ratings -------------------------------
(***************************************************************************)
(* The rating that a musician's profile shows: a copy of an aggregate over *)
(* the reviews, kept up to date by the consumers of review.created and by  *)
(* the command backfill_profile_ratings, in a row that profile edits save  *)
(* as a whole.                                                             *)
(*                                                                         *)
(* A rating is represented by the number of reviews it was computed from.  *)
(* Outbox, relay and Kafka are a set of messages, as in SocialFeed.        *)
(***************************************************************************)
EXTENDS Integers, FiniteSets

CONSTANTS
  Users,
  Workers,      \* consumer processes of the reviews group
  Backfill,     \* the process that runs the command
  Editors,      \* web requests that edit a profile, one at a time each
  None,
  MaxReviews,   \* bound: reviews of a user
  MaxEdits,     \* bound: profile edits
  MaxFaults     \* bound: lost publishes, repeated and given up handlers

Writers == Workers \cup {Backfill}

ASSUME RatingsConstants ==
  /\ Backfill \notin Workers
  /\ MaxReviews \in Nat /\ MaxEdits \in Nat /\ MaxFaults \in Nat
  /\ None \notin Users

VARIABLES
  reviews,     \* reviews[u]: rows about u
  profiles,    \* users that have a profile
  rating,      \* rating[u]: rating_avg and rating_count of the profile of u
  unsent,      \* events of reviews that have not reached publish() yet
  queue,       \* events published and not acknowledged
  task,        \* task[w]: the event w is handling, or the user it is at
  step,        \* step[w]: where w stands
  got,         \* got[w]: the aggregate w has read
  todo,        \* user ids the backfill still has to go through
  copy,        \* copy[e]: the profile row e has loaded, or None
  edits,
  cause,       \* cause[u]: what may have set the rating of u back since it
               \* was last written from all reviews, a history
  calm,        \* nobody but the backfill took a step since it started
  faults

vars == <<reviews, profiles, rating, unsent, queue, task, step, got, todo, copy, edits,
          cause, calm, faults>>

workVars == <<task, step, got>>

Event(u, n) == [user |-> u, n |-> n]
Events == [user : Users, n : 0 .. MaxReviews]     \* n = 0: a user of the backfill
Nothing == [user |-> None, n |-> 0]

TypeOK ==
  /\ reviews \in [Users -> 0 .. MaxReviews]
  /\ profiles \subseteq Users
  /\ rating \in [Users -> 0 .. MaxReviews]
  /\ unsent \subseteq Events /\ queue \subseteq Events
  /\ task \in [Writers -> Events \cup {Nothing}]
  /\ step \in [Writers -> {"idle", "aggregate", "write", "ack"}]
  /\ got \in [Writers -> 0 .. MaxReviews]
  /\ \A w \in Writers : /\ step[w] = "idle" <=> task[w] = Nothing
                        /\ got[w] # 0 => step[w] = "write"
  /\ todo \subseteq Users
  /\ copy \in [Editors -> [user : Users \cup {None}, rating : 0 .. MaxReviews]]
  /\ edits \in 0 .. MaxEdits
  /\ cause \in [Users -> SUBSET {"lost", "overlap", "edit", "late"}]
  /\ calm \in BOOLEAN
  /\ faults \in 0 .. MaxFaults

NoCopy == [user |-> None, rating |-> 0]

Init ==
  /\ reviews = [u \in Users |-> 0]
  /\ profiles = {} /\ rating = [u \in Users |-> 0]
  /\ unsent = {} /\ queue = {}
  /\ task = [w \in Writers |-> Nothing]
  /\ step = [w \in Writers |-> "idle"]
  /\ got = [w \in Writers |-> 0]
  /\ todo = {}
  /\ copy = [e \in Editors |-> NoCopy]
  /\ edits = 0
  /\ cause = [u \in Users |-> {}]
  /\ calm = FALSE
  /\ faults = 0

Blame(u, what) == cause' = [cause EXCEPT ![u] = @ \cup what]

-----------------------------------------------------------------------------
(* Web requests.                                                           *)

(* create_profile(): a new row has no rating, whatever reviews there are.  *)
CreateProfile(u) ==
  /\ u \notin profiles
  /\ profiles' = profiles \cup {u}
  /\ rating' = [rating EXCEPT ![u] = 0]
  /\ Blame(u, IF reviews[u] > 0 THEN {"late"} ELSE {})
  /\ calm' = FALSE
  /\ UNCHANGED <<reviews, unsent, queue, workVars, todo, copy, edits, faults>>

(* create_review(): the INSERT, then publish() in a transaction of its own. *)
CreateReview(u) ==
  /\ reviews[u] < MaxReviews
  /\ reviews' = [reviews EXCEPT ![u] = @ + 1]
  /\ unsent' = unsent \cup {Event(u, reviews[u] + 1)}
  /\ calm' = FALSE
  /\ UNCHANGED <<profiles, rating, queue, workVars, todo, copy, edits, cause, faults>>

Publish(m) ==
  /\ unsent' = unsent \ {m}
  /\ queue' = queue \cup {m}
  /\ UNCHANGED <<reviews, profiles, rating, workVars, todo, copy, edits, cause, calm, faults>>

LosePublish(m) ==
  /\ faults < MaxFaults
  /\ faults' = faults + 1
  /\ unsent' = unsent \ {m}
  /\ Blame(m.user, {"lost"})
  /\ UNCHANGED <<reviews, profiles, rating, queue, workVars, todo, copy, edits, calm>>

(* The view loads the profile, update_profile() sets what the request      *)
(* names and calls save().                                                 *)
Load(e, u) ==
  /\ copy[e] = NoCopy
  /\ u \in profiles
  /\ edits < MaxEdits
  /\ edits' = edits + 1
  /\ copy' = [copy EXCEPT ![e] = [user |-> u, rating |-> rating[u]]]
  /\ UNCHANGED <<reviews, profiles, rating, unsent, queue, workVars, todo, cause, calm, faults>>

(* The request names no column of the row, is refused, or dies.            *)
NoSave(e) ==
  /\ copy[e] # NoCopy
  /\ copy' = [copy EXCEPT ![e] = NoCopy]
  /\ UNCHANGED <<reviews, profiles, rating, unsent, queue, workVars, todo, edits, cause, calm,
                 faults>>

(* save() without update_fields: every column, the rating too.             *)
Save(e) ==
  /\ copy[e] # NoCopy
  /\ rating' = [rating EXCEPT ![copy[e].user] = copy[e].rating]
  /\ copy' = [copy EXCEPT ![e] = NoCopy]
  /\ calm' = FALSE
  /\ UNCHANGED <<reviews, profiles, unsent, queue, workVars, todo, edits, cause, faults>>

-----------------------------------------------------------------------------
(* propagate_rating_to_profile(), in a consumer or in the backfill.        *)

Goto(w, s) == step' = [step EXCEPT ![w] = s]

Receive(w, m) ==
  /\ w # Backfill
  /\ step[w] = "idle"
  /\ \A v \in Workers : task[v] # m
  /\ task' = [task EXCEPT ![w] = m]
  /\ Goto(w, "aggregate")
  /\ UNCHANGED <<reviews, profiles, rating, unsent, queue, got, todo, copy, edits, cause,
                 calm, faults>>

(* Variant: the rating of the profile counted on by one. *)
Incremented(u) == IF rating[u] < MaxReviews THEN rating[u] + 1 ELSE rating[u]

(* rating_summary(): over all reviews of the user. *)
Summary(u) == reviews[u]

(* History: another process is about to write an aggregate of u. *)
Overlap(w, u) ==
  IF \E v \in Writers \ {w} : step[v] = "write" /\ task[v].user = u THEN {"overlap"} ELSE {}

(* History: an edit holds the rating that is replaced. *)
HeldByEdit(u) == IF \E e \in Editors : copy[e].user = u THEN {"edit"} ELSE {}

Aggregate(w) ==
  /\ step[w] = "aggregate"
  /\ got' = [got EXCEPT ![w] = Summary(task[w].user)]
  /\ Goto(w, "write")
  /\ Blame(task[w].user, Overlap(w, task[w].user))
  /\ calm' = (calm /\ w = Backfill)
  /\ UNCHANGED <<reviews, profiles, rating, unsent, queue, task, todo, copy, edits, faults>>

(* set_profile_rating(): one UPDATE, of no row if there is no profile.     *)
(* What set the rating back is over if all reviews are in it again.        *)
WriteRating(w) ==
  /\ step[w] = "write"
  /\ LET u == task[w].user IN
     /\ rating' = IF u \in profiles THEN [rating EXCEPT ![u] = got[w]] ELSE rating
     /\ cause' = [cause EXCEPT ![u] =
                    (IF got[w] = reviews[u] THEN Overlap(w, u) ELSE @) \cup HeldByEdit(u)]
  /\ got' = [got EXCEPT ![w] = 0]
  /\ Goto(w, "ack")
  /\ calm' = (calm /\ w = Backfill)
  /\ UNCHANGED <<reviews, profiles, unsent, queue, task, todo, copy, edits, faults>>

(* Variant: the aggregate is carried over to the next event. *)
KeepGot(w) ==
  /\ task' = [task EXCEPT ![w] = Nothing]
  /\ Goto(w, "idle")
  /\ UNCHANGED got

Leave(w) ==
  /\ task' = [task EXCEPT ![w] = Nothing]
  /\ Goto(w, "idle")
  /\ got' = [got EXCEPT ![w] = 0]

Acknowledge(w) ==
  /\ w # Backfill
  /\ step[w] = "ack"
  /\ queue' = queue \ {task[w]}
  /\ Leave(w)
  /\ UNCHANGED <<reviews, profiles, rating, unsent, todo, copy, edits, cause, calm, faults>>

(* The handler raises, or the process dies: the event is handled again.    *)
StartOver(w) ==
  /\ w # Backfill
  /\ step[w] # "idle"
  /\ faults < MaxFaults
  /\ faults' = faults + 1
  /\ Leave(w)
  /\ UNCHANGED <<reviews, profiles, rating, unsent, queue, todo, copy, edits, cause, calm>>

(* The last attempt raises: the event goes to the dead-letter topic. *)
GiveUp(w) ==
  /\ w # Backfill
  /\ step[w] \in {"aggregate", "write"}
  /\ faults < MaxFaults
  /\ faults' = faults + 1
  /\ queue' = queue \ {task[w]}
  /\ Blame(task[w].user, {"lost"})
  /\ Leave(w)
  /\ UNCHANGED <<reviews, profiles, rating, unsent, todo, copy, edits, calm>>

(* Variant: profiles that have a rating are left out. *)
Unrated == {u \in profiles : rating[u] = 0}

ToRebuild == profiles

StartBackfill ==
  /\ step[Backfill] = "idle" /\ todo = {} /\ ~calm
  /\ todo' = ToRebuild
  /\ calm' = \A w \in Workers : step[w] = "idle"
  /\ UNCHANGED <<reviews, profiles, rating, unsent, queue, workVars, copy, edits, cause, faults>>

(* The loop goes on to the next user id. *)
BackfillNext(u) ==
  /\ step[Backfill] \in {"idle", "ack"}
  /\ u \in todo
  /\ todo' = todo \ {u}
  /\ task' = [task EXCEPT ![Backfill] = Event(u, 0)]
  /\ Goto(Backfill, "aggregate")
  /\ UNCHANGED <<reviews, profiles, rating, unsent, queue, got, copy, edits, cause, calm, faults>>

(* The loop is through, or the command fails. *)
BackfillEnds ==
  /\ step[Backfill] # "idle"
  /\ \/ step[Backfill] = "ack" /\ todo = {} /\ UNCHANGED <<faults, calm>>
     \/ faults < MaxFaults /\ faults' = faults + 1 /\ calm' = FALSE
  /\ todo' = {}
  /\ Leave(Backfill)
  /\ UNCHANGED <<reviews, profiles, rating, unsent, queue, copy, edits, cause>>

Propagate(w) ==
  \/ \E m \in queue : Receive(w, m)
  \/ Aggregate(w)
  \/ WriteRating(w)
  \/ Acknowledge(w)
  \/ StartOver(w)
  \/ GiveUp(w)

Next ==
  \/ \E u \in Users : CreateProfile(u) \/ CreateReview(u) \/ BackfillNext(u)
  \/ \E m \in unsent : Publish(m) \/ LosePublish(m)
  \/ \E e \in Editors : NoSave(e) \/ Save(e) \/ \E u \in Users : Load(e, u)
  \/ \E w \in Writers : Propagate(w)
  \/ StartBackfill \/ BackfillEnds

Spec == Init /\ [][Next]_vars

-----------------------------------------------------------------------------
Quiet ==
  /\ unsent = {} /\ queue = {}
  /\ \A w \in Writers : step[w] = "idle"
  /\ \A e \in Editors : copy[e] = NoCopy

(* "a retried task, a lost event, or a manual backfill all converge to the *)
(* same value": when everything is drained, a profile shows the rating of  *)
(* all its reviews, however often and in whatever order the events were    *)
(* handled.  Excepted are ratings whose event was lost, whose profile came *)
(* after a review, that two processes recomputed at the same time, or that *)
(* were written while an edit held the row: these may be older, but not    *)
(* for longer than until anyone counts the reviews again undisturbed.      *)
RatingsConverge ==
  Quiet => \A u \in profiles : cause[u] = {} => rating[u] = reviews[u]

(* A backfill during which nothing else is written repairs all of them.    *)
BackfillRepairs ==
  calm /\ step[Backfill] = "idle" /\ todo = {} =>
    \A u \in profiles : rating[u] = reviews[u]

(* set_profile_rating() "cannot race with a concurrent profile edit".      *)
EditsKeepRatings ==
  Quiet => \A u \in profiles : cause[u] \subseteq {"edit"} => rating[u] = reviews[u]
=============================================================================
