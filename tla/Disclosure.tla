----------------------------- MODULE Disclosure -----------------------------
(***************************************************************************)
(* What the parties of a request get to see: the responses of the views of *)
(* apps/connections, apps/listings, apps/bands and apps/engagements, and   *)
(* the mails of apps/notifications.  The state machine of Requests goes on *)
(* underneath; everything here reads it.                                   *)
(*                                                                         *)
(* An address is revealed by get_contact_email() from the status of an     *)
(* object in memory: the one that the view has read, or the one that the   *)
(* service has just saved.  Outbox, relay and consumer are the set         *)
(* published: every event is handled, once or more often, or never.        *)
(***************************************************************************)
EXTENDS Requests

CONSTANT Viewers   \* GET requests under way at the same time

VARIABLES
  page,        \* page[v]: the rows that view v has read for whom, or None
  replied,     \* calls that were answered with the row they wrote
  mailed,      \* calls whose event was delivered as a mail
  shown        \* <<u, r>>: u was shown the address of the other party of r;
               \* <<None, r>>: the public was shown that r was accepted

reading == <<page, replied, mailed, shown>>
allVars == <<vars, reading>>

(* Rows as an evaluated query holds them: requests with their status.      *)
RowSets == UNION {[R -> Statuses] : R \in SUBSET Requests}

PageRecord == [by : Users \cup {None}, seen : RowSets]

ASSUME DisclosureConstants == None \notin Users /\ None \notin PageRecord

DisclosureTypeOK ==
  /\ TypeOK
  /\ page \in [Viewers -> PageRecord \cup {None}]
  /\ replied \subseteq saved
  /\ mailed \subseteq published
  /\ shown \subseteq (Users \cup {None}) \X Requests

DisclosureInit ==
  /\ Init
  /\ page = [v \in Viewers |-> None]
  /\ replied = {} /\ mailed = {} /\ shown = {}

-----------------------------------------------------------------------------
(* get_contact_email().                                                    *)

(* Variant: any request that was answered shows the address. *)
Answered(r) == {"accepted", "declined", "completed"}

(* Variant: accepted only, also for hires. *)
AcceptedOnly(r) == {"accepted"}

RevealAt(r) == IF Kind[r] = "engagement" THEN {"accepted", "completed"} ELSE {"accepted"}

Reveals(u, r, st) == u \in Parties(r) /\ st \in RevealAt(r)

-----------------------------------------------------------------------------
(* Reading: a list, a single request, the roster of a band.  The query and *)
(* the response are separate; the response shows what the query found.     *)

Incoming(u, k) == {r \in Requests : Kind[r] = k /\ Answerer[r] = u}
Outgoing(u, k) == {r \in Requests : Kind[r] = k /\ Asker[r] = u}
Rows(R) == {r \in R : status[r] # "none"}

(* An empty page, or a 404, shows nothing and is left out. *)
Query(v, u, R) ==
  /\ page[v] = None /\ Rows(R) # {}
  /\ page' = [page EXCEPT ![v] = [by |-> u, seen |-> [r \in Rows(R) |-> status[r]]]]
  /\ UNCHANGED <<vars, replied, mailed, shown>>

(* ?box=incoming or outgoing. *)
ListBoxes(v, u, k) == Query(v, u, Incoming(u, k)) \/ Query(v, u, Outgoing(u, k))

ListContactRequests(v, u)    == ListBoxes(v, u, "contact")
ListApplications(v, u)       == ListBoxes(v, u, "application")
ListEngagementRequests(v, u) == ListBoxes(v, u, "engagement")

(* A band has no list of the invitations sent.                             *)
ListMemberships(v, u) == Query(v, u, Incoming(u, "invite"))

(* One row, which only its parties find.                                   *)
GetOne(v, u, r, k) == Kind[r] = k /\ u \in Parties(r) /\ Query(v, u, {r})

GetContactRequest(v, u, r)    == GetOne(v, u, r, "contact")
GetApplication(v, u, r)       == GetOne(v, u, r, "application")
GetMembership(v, u, r)        == GetOne(v, u, r, "invite")
GetEngagementRequest(v, u, r) == GetOne(v, u, r, "engagement")

(* The band is looked up first, which any band has passed at some time.    *)
GetRoster(v, b) ==
  Query(v, None, {r \in Placed : /\ Kind[r] = "invite" /\ Place[r] = b
                                 /\ status[r] = "accepted"})

Visible(p) == {r \in DOMAIN p.seen : p.by = None \/ Reveals(p.by, r, p.seen[r])}

RespondPage(v) ==
  /\ page[v] # None
  /\ shown' = shown \cup ({page[v].by} \X Visible(page[v]))
  /\ page' = [page EXCEPT ![v] = None]
  /\ UNCHANGED <<vars, replied, mailed>>

-----------------------------------------------------------------------------
(* The response of a POST shows the object that the service returned: with *)
(* the status that it has saved, whatever the row says by now.             *)
Reply(c, u, st) ==
  /\ replied' = replied \cup {c}
  /\ shown' = IF Reveals(u, call[c].on, st) THEN shown \cup {<<u, call[c].on>>} ELSE shown
  /\ UNCHANGED <<vars, page, mailed>>

Returned(c, k, ops) ==
  /\ pc[c] = "done" /\ c \in saved \ (dead \cup replied)
  /\ call[c].op \in ops /\ Kind[call[c].on] = k

Sent(c, k) == Returned(c, k, {"send"}) /\ Reply(c, Asker[call[c].on], "pending")

Resolved(c, k) ==
  /\ Returned(c, k, {"accept", "decline"})
  /\ Reply(c, Answerer[call[c].on], Written(call[c].op))

ContactRequestSent(c)      == Sent(c, "contact")
ApplicationSent(c)         == Sent(c, "application")
InviteSent(c)              == Sent(c, "invite")
EngagementRequestSent(c)   == Sent(c, "engagement")
ContactRequestResolved(c)  == Resolved(c, "contact")
ApplicationResolved(c)     == Resolved(c, "application")
MembershipResolved(c)      == Resolved(c, "invite")
EngagementResolved(c)      == Resolved(c, "engagement")

EngagementCompleted(c) ==
  Returned(c, "engagement", {"complete"}) /\ Reply(c, call[c].by, "completed")

RespondCall(c) ==
  \/ ContactRequestSent(c) \/ ContactRequestResolved(c)
  \/ ApplicationSent(c) \/ ApplicationResolved(c)
  \/ InviteSent(c) \/ MembershipResolved(c)
  \/ EngagementRequestSent(c) \/ EngagementResolved(c) \/ EngagementCompleted(c)

-----------------------------------------------------------------------------
(* Mails.  A request that was sent is announced to who may answer it, an   *)
(* acceptance to who asked, with the address except for an invitation.     *)

Renderers == {"send", "accept"}

CarriesAddress(c) == call[c].op = "accept" /\ Kind[call[c].on] # "invite"

(* deliver(); after a crash the event is handled again. *)
DeliverMail(c) ==
  /\ c \in published
  /\ call[c].op \in Renderers
  /\ mailed' = mailed \cup {c}
  /\ shown' = IF CarriesAddress(c)
              THEN shown \cup {<<Asker[call[c].on], call[c].on>>} ELSE shown
  /\ UNCHANGED <<vars, page, replied>>

-----------------------------------------------------------------------------
Read(v) ==
  \/ \E u \in Users :
       \/ ListContactRequests(v, u) \/ ListApplications(v, u)
       \/ ListMemberships(v, u) \/ ListEngagementRequests(v, u)
       \/ \E r \in Requests :
            \/ GetContactRequest(v, u, r) \/ GetApplication(v, u, r)
            \/ GetMembership(v, u, r) \/ GetEngagementRequest(v, u, r)
  \/ \E b \in Places : GetRoster(v, b)
  \/ RespondPage(v)

DisclosureNext ==
  \/ Next /\ UNCHANGED reading
  \/ \E v \in Viewers : Read(v)
  \/ \E c \in Calls : RespondCall(c) \/ DeliverMail(c)

DisclosureSpec == DisclosureInit /\ [][DisclosureNext]_allVars

-----------------------------------------------------------------------------
(* Reveal-on-accept: the address of the other party is shown, in a list, a *)
(* response or a mail, only to the two parties, and only after a call has  *)
(* accepted the request; the public sees a member only after that, too.    *)
RevealOnAccept ==
  \A s \in shown :
    /\ s[1] \in Parties(s[2]) \cup (IF Kind[s[2]] = "invite" THEN {None} ELSE {})
    /\ saved \cap Made("accept", s[2]) # {}

(* "The email reflects the state at the moment the event was published",   *)
(* a page what was read: both may be late, but what they have shown is     *)
(* still to be seen, through completion, and a request that was declined   *)
(* has revealed nothing.  Excepted are rows that two calls held at a time. *)
WhatWasShownStays ==
  \A s \in shown : s[2] \notin contended => status[s[2]] \in RevealAt(s[2])
=============================================================================
