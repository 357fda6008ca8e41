------------------------------ MODULE Requests ------------------------------
(***************************************************************************)
(* apps/connections, apps/listings, apps/bands, apps/engagements and the   *)
(* gate of apps/reviews: rows with a status that one party sends and the   *)
(* other answers, by web requests that run side by side.                   *)
(*                                                                         *)
(* Every service function reads a row without a lock, checks it, writes in *)
(* a second statement and publishes its event in a third; each of these is *)
(* a transaction of its own.  A call that is refused changes nothing, so   *)
(* refusals are the guards below.                                          *)
(***************************************************************************)
EXTENDS Integers, FiniteSets

CONSTANTS
  Requests,     \* rows that may be sent
  Users,
  Places,       \* listings and bands
  Calls,        \* web requests, each made once
  None,         \* stands for "not called yet"
  Kind,         \* "contact", "application", "invite" or "engagement"
  Asker,        \* Asker[r]: the user who sends r
  Answerer,     \* Answerer[r]: the user who accepts or declines it
  Place         \* Place[r]: the listing applied to, the band invited to

Statuses == {"none", "pending", "accepted", "declined", "completed"}
Placed   == {r \in Requests : Kind[r] \in {"application", "invite"}}

Ops == {"send", "accept", "decline", "complete", "review", "edit", "close"}

CallRecord == [op : Ops, on : Requests \cup Places, by : Users \cup {None}]

ASSUME RequestsConstants ==
  /\ Kind \in [Requests -> {"contact", "application", "invite", "engagement"}]
  /\ Asker \in [Requests -> Users]
  /\ Answerer \in [Requests -> Users]
  /\ \A r \in Requests : Asker[r] # Answerer[r]
  /\ \A r \in Placed : Place[r] \in Places
  /\ Requests \cap Places = {}
  /\ None \notin CallRecord

VARIABLES
  status,      \* status[r]: the column; "none" while there is no row
  open,        \* the listings and bands whose is_active is set
  call,        \* call[c]: what c was called for, or None
  pc,          \* pc[c]: the statement c comes to next
  copy,        \* copy[c]: is_active of the listing or band as c read it
  saved,       \* calls whose row was written
  published,   \* calls whose event was published
  dead,        \* calls that died half-way
  contended    \* requests read for an answer while another call was about to write

rows == <<status, open>>
vars == <<rows, call, pc, copy, saved, published, dead, contended>>

On(c, op, r) == call[c] # None /\ call[c].op = op /\ call[c].on = r
Made(op, r)  == {c \in Calls : On(c, op, r)}
Answers(r)   == Made("accept", r) \cup Made("decline", r)

Parties(r) == {Asker[r], Answerer[r]}

TypeOK ==
  /\ status \in [Requests -> Statuses]
  /\ open \subseteq Places
  /\ call \in [Calls -> CallRecord \cup {None}]
  /\ pc \in [Calls -> {"idle", "insert", "save", "update", "publish", "done"}]
  /\ \A c \in Calls : call[c] = None <=> pc[c] = "idle"
  /\ copy \in [Calls -> BOOLEAN]
  /\ saved \subseteq Calls /\ published \subseteq saved /\ dead \subseteq Calls
  /\ contended \subseteq Requests

Init ==
  /\ status = [r \in Requests |-> "none"]
  /\ open = Places
  /\ call = [c \in Calls |-> None]
  /\ pc = [c \in Calls |-> "idle"]
  /\ copy = [c \in Calls |-> FALSE]
  /\ saved = {} /\ published = {} /\ dead = {} /\ contended = {}

Begin(c, op, on, by, next) ==
  /\ pc[c] = "idle"
  /\ call' = [call EXCEPT ![c] = [op |-> op, on |-> on, by |-> by]]
  /\ pc' = [pc EXCEPT ![c] = next]

Goto(c, next) == pc' = [pc EXCEPT ![c] = next]

-----------------------------------------------------------------------------
(* Sending: the checks that need a row, then the INSERT.                   *)

Fresh(r) == Made("send", r) = {}

SendContactRequest(c, r) ==
  /\ Kind[r] = "contact" /\ Fresh(r)
  /\ Begin(c, "send", r, Asker[r], "insert")
  /\ UNCHANGED <<rows, copy, saved, published, dead, contended>>

SendEngagementRequest(c, r) ==
  /\ Kind[r] = "engagement" /\ Fresh(r)
  /\ Begin(c, "send", r, Asker[r], "insert")
  /\ UNCHANGED <<rows, copy, saved, published, dead, contended>>

(* Only the listing and the band are looked up before the INSERT.          *)
ApplyToListing(c, r) ==
  /\ Kind[r] = "application" /\ Fresh(r)
  /\ Place[r] \in open
  /\ Begin(c, "send", r, Asker[r], "insert")
  /\ UNCHANGED <<rows, copy, saved, published, dead, contended>>

InviteMember(c, r) ==
  /\ Kind[r] = "invite" /\ Fresh(r)
  /\ Place[r] \in open
  /\ Begin(c, "send", r, Asker[r], "insert")
  /\ UNCHANGED <<rows, copy, saved, published, dead, contended>>

(* The unique constraint of the row: who asks, and whom or where.  Hire    *)
(* requests have none.                                                     *)
SameRow(r, q) ==
  /\ Kind[r] = Kind[q] /\ Kind[r] # "engagement"
  /\ IF r \in Placed
       THEN /\ Place[r] = Place[q]
            /\ IF Kind[r] = "invite" THEN Answerer[r] = Answerer[q] ELSE Asker[r] = Asker[q]
       ELSE Asker[r] = Asker[q] /\ Answerer[r] = Answerer[q]

(* Variant: a request that was declined may be sent again. *)
TakenUnlessDeclined(r) ==
  \E q \in Requests : SameRow(r, q) /\ status[q] \notin {"none", "declined"}

Taken(r) == \E q \in Requests : SameRow(r, q) /\ status[q] # "none"

InsertRequest(c) ==
  /\ pc[c] = "insert" /\ call[c].op = "send"
  /\ IF Taken(call[c].on)
       THEN Goto(c, "done") /\ UNCHANGED <<status, saved>>
       ELSE /\ status' = [status EXCEPT ![call[c].on] = "pending"]
            /\ saved' = saved \cup {c}
            /\ Goto(c, "publish")
  /\ UNCHANGED <<open, call, copy, published, dead, contended>>

-----------------------------------------------------------------------------
(* Answering: read and check, then save(update_fields=["status", ...]).    *)

(* History: another call has read r and is about to write it. *)
BeingWritten(r) ==
  \E d \in Calls : pc[d] = "save" /\ call[d].on = r

Contend(r) == contended' = contended \cup (IF BeingWritten(r) THEN {r} ELSE {})

(* Variant: the check is that the row exists. *)
AnyRow(r) == status[r] # "none"

MayAnswer(r) == status[r] = "pending"

(* _resolve() up to its check, the same in the four apps. *)
ReadPending(c, r, answer) ==
  /\ MayAnswer(r)
  /\ Begin(c, answer, r, Answerer[r], "save")
  /\ Contend(r)
  /\ UNCHANGED <<rows, copy, saved, published, dead>>

ResolveContact(c, r, answer)     == Kind[r] = "contact"     /\ ReadPending(c, r, answer)
ResolveApplication(c, r, answer) == Kind[r] = "application" /\ ReadPending(c, r, answer)
ResolveMembership(c, r, answer)  == Kind[r] = "invite"      /\ ReadPending(c, r, answer)
ResolveEngagement(c, r, answer)  == Kind[r] = "engagement"  /\ ReadPending(c, r, answer)

(* complete_engagement_request(), by either party. *)
CompleteEngagement(c, r, u) ==
  /\ Kind[r] = "engagement"
  /\ status[r] = "accepted"
  /\ Begin(c, "complete", r, u, "save")
  /\ Contend(r)
  /\ UNCHANGED <<rows, copy, saved, published, dead>>

(* Variant: the name of the action is stored. *)
ActionName(op) == op

Written(op) ==
  CASE op = "accept"   -> "accepted"
    [] op = "decline"  -> "declined"
    [] op = "complete" -> "completed"

(* Variant: a decline is announced like an acceptance. *)
EveryAnswer(op) == op \in {"accept", "decline"}

Announced(op) == op = "accept"

SaveStatus(c) ==
  /\ pc[c] = "save"
  /\ status' = [status EXCEPT ![call[c].on] = Written(call[c].op)]
  /\ saved' = saved \cup {c}
  /\ Goto(c, IF Announced(call[c].op) THEN "publish" ELSE "done")
  /\ UNCHANGED <<open, call, copy, published, dead, contended>>

-----------------------------------------------------------------------------
(* Reviewing: parties_of_completed_engagement(), then the INSERT.          *)

(* Variant: an accepted hire is enough. *)
HasParties(r) == status[r] \in {"accepted", "completed"}

Completed(r) == status[r] = "completed"

CreateReview(c, r, u) ==
  /\ Kind[r] = "engagement"
  /\ Completed(r)
  /\ u \in Parties(r)
  /\ Begin(c, "review", r, u, "insert")
  /\ UNCHANGED <<rows, copy, saved, published, dead, contended>>

(* Review rows, by author and engagement. *)
Reviewed(u, r) == \E d \in saved : On(d, "review", r) /\ call[d].by = u

InsertReview(c) ==
  /\ pc[c] = "insert" /\ call[c].op = "review"
  /\ IF Reviewed(call[c].by, call[c].on)
       THEN Goto(c, "done") /\ UNCHANGED saved
       ELSE saved' = saved \cup {c} /\ Goto(c, "publish")
  /\ UNCHANGED <<rows, call, copy, published, dead, contended>>

-----------------------------------------------------------------------------
(* Listings and bands: edited and taken down by their owner.               *)

Edit(c, p) ==
  /\ p \in open
  /\ Begin(c, "edit", p, None, "update")
  /\ copy' = [copy EXCEPT ![c] = TRUE]
  /\ UNCHANGED <<rows, saved, published, dead, contended>>

Deactivate(c, p) ==
  /\ p \in open
  /\ Begin(c, "close", p, None, "update")
  /\ copy' = [copy EXCEPT ![c] = FALSE]
  /\ UNCHANGED <<rows, saved, published, dead, contended>>

(* Variant: save() of every column. *)
AllColumns(c) == {"is_active"}

(* update_fields: an edit names the columns that it changes. *)
UpdateFields(c) == IF call[c].op = "close" THEN {"is_active"} ELSE {}

SavePlace(c) ==
  /\ pc[c] = "update"
  /\ open' = IF "is_active" \notin UpdateFields(c) THEN open
             ELSE IF copy[c] THEN open \cup {call[c].on} ELSE open \ {call[c].on}
  /\ saved' = saved \cup {c}
  /\ Goto(c, "done")
  /\ UNCHANGED <<status, call, copy, published, dead, contended>>

-----------------------------------------------------------------------------
Publish(c) ==
  /\ pc[c] = "publish"
  /\ published' = published \cup {c}
  /\ Goto(c, "done")
  /\ UNCHANGED <<rows, call, copy, saved, dead, contended>>

(* The process dies, or a statement fails, before the call has ended. *)
Die(c) ==
  /\ pc[c] \notin {"idle", "done"}
  /\ dead' = dead \cup {c}
  /\ Goto(c, "done")
  /\ UNCHANGED <<rows, call, copy, saved, published, contended>>

Send(c, r) ==
  \/ SendContactRequest(c, r)
  \/ SendEngagementRequest(c, r)
  \/ ApplyToListing(c, r)
  \/ InviteMember(c, r)

Resolve(c, r, answer) ==
  \/ ResolveContact(c, r, answer)
  \/ ResolveApplication(c, r, answer)
  \/ ResolveMembership(c, r, answer)
  \/ ResolveEngagement(c, r, answer)

Start(c) ==
  \/ \E r \in Requests :
       \/ Send(c, r)
       \/ \E answer \in {"accept", "decline"} : Resolve(c, r, answer)
       \/ \E u \in Parties(r) : CompleteEngagement(c, r, u) \/ CreateReview(c, r, u)
  \/ \E p \in Places : Edit(c, p) \/ Deactivate(c, p)

Continue(c) ==
  \/ InsertRequest(c) \/ InsertReview(c)
  \/ SaveStatus(c) \/ SavePlace(c)
  \/ Publish(c)

Next == \E c \in Calls : Start(c) \/ Continue(c) \/ Die(c)

Spec == Init /\ [][Next]_vars

-----------------------------------------------------------------------------
(* What the row may show once answer c was saved. *)
After(c) == IF call[c].op = "accept" THEN {"accepted", "completed"} ELSE {"declined"}

(* "An accept/decline was attempted on a request that is not pending": a   *)
(* request is answered once and the answer stands.  It is the status check *)
(* of _resolve() and of complete_engagement_request() that makes it so,    *)
(* whatever else runs, provided no two calls hold a copy of the row at the *)
(* same time.                                                              *)
StandsFor(r) ==
  \A c \in saved \cap Answers(r) :
    /\ status[r] \in After(c)
    /\ \A d \in saved \cap Answers(r) : d = c

AnswerStands == \A r \in Requests \ contended : StandsFor(r)

(* The same without the proviso.                                           *)
AnsweredOnce == \A r \in Requests : StandsFor(r)

(* The asker is told of an acceptance once, and of nothing else: while the *)
(* calls run there is at most one notice, and it is true; when they have   *)
(* ended without dying there is one.                                       *)
Notices(r) == published \cap Answers(r)

AskerIsTold ==
  \A r \in Requests \ contended :
    /\ Notices(r) # {} => status[r] \in {"accepted", "completed"}
    /\ \A c, d \in Notices(r) : c = d
    /\ /\ \A c \in Answers(r) : pc[c] = "done" /\ c \notin dead
       /\ status[r] \in {"accepted", "completed"}
       => Notices(r) # {}

(* "A review is gated on a real completed interaction": a review was       *)
(* written after some call completed the engagement and after another      *)
(* accepted it, by one of its two parties.                                 *)
ReviewGate ==
  \A r \in Requests, c \in saved :
    On(c, "review", r) =>
      /\ call[c].by \in Parties(r)
      /\ saved \cap Made("complete", r) # {}
      /\ saved \cap Made("accept", r) # {}

(* Duplicates are refused, also when two calls send them at the same time. *)
NoDuplicates ==
  /\ \A r, q \in Requests :
       SameRow(r, q) /\ status[r] # "none" /\ status[q] # "none" => r = q
  /\ \A r \in Requests, c, d \in saved :
       On(c, "review", r) /\ On(d, "review", r) /\ call[c].by = call[d].by => c = d

(* A listing or band that was taken down stays down, although edits that   *)
(* read it before are saved after.                                         *)
ClosedForGood == [][open' \subseteq open]_vars
=============================================================================
