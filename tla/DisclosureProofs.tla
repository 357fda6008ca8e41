-------------------------- MODULE DisclosureProofs --------------------------
(* Reveal-on-accept holds for any number of requests, calls and views.  A  *)
(* page keeps what its query found and an acceptance is never forgotten,   *)
(* so it does not matter how late a response or a mail is.                 *)
EXTENDS Disclosure, RequestsProofs

(* Every view that reads makes one of four queries. *)
LEMMA Queries ==
  ASSUME NEW v, Read(v)
  PROVE  \/ RespondPage(v)
         \/ \E u \in Users : \E k : Query(v, u, Incoming(u, k)) \/ Query(v, u, Outgoing(u, k))
         \/ \E u \in Users, r \in Requests : Query(v, u, {r})
         \/ \E b \in Places : GetRoster(v, b)
BY DEF Read, ListContactRequests, ListApplications, ListEngagementRequests, ListBoxes,
       ListMemberships, GetContactRequest, GetApplication, GetMembership,
       GetEngagementRequest, GetOne

(* Every view that writes replies with what was saved. *)
LEMMA Replies ==
  ASSUME NEW c, RespondCall(c)
  PROVE  /\ c \in saved
         /\ \/ /\ call[c].op = "send"
               /\ Reply(c, Asker[call[c].on], "pending")
            \/ /\ call[c].op \in {"accept", "decline"}
               /\ Reply(c, Answerer[call[c].on], Written(call[c].op))
            \/ /\ call[c].op = "complete"
               /\ Reply(c, call[c].by, "completed")
BY DEF RespondCall, ContactRequestSent, ContactRequestResolved, ApplicationSent,
       ApplicationResolved, InviteSent, MembershipResolved, EngagementRequestSent,
       EngagementResolved, EngagementCompleted, Sent, Resolved, Returned

(* Below, everything goes on as in Requests. *)
LEMMA StepsBelow == DisclosureNext => Next \/ UNCHANGED vars
<1>1. ASSUME NEW v \in Viewers, Read(v)
      PROVE  UNCHANGED vars
  BY <1>1, Queries DEF GetRoster, Query, RespondPage
<1>2. ASSUME NEW c \in Calls, RespondCall(c) \/ DeliverMail(c)
      PROVE  UNCHANGED vars
  BY <1>2, Replies DEF Reply, DeliverMail
<1> QED BY <1>1, <1>2 DEF DisclosureNext

(* A call that was saved stays what it was. *)
LEMMA WasStays ==
  ASSUME TypeInv, [Next]_vars, NEW op, NEW r, Was(op, r)
  PROVE  Was(op, r)'
<1>1. ASSUME call' = call, saved \subseteq saved'
      PROVE  Was(op, r)'
  BY <1>1 DEF Was, On
<1>2. ASSUME NEW c \in Calls, StepOf(c)
      PROVE  Was(op, r)'
  <2>1. ASSUME NEW o \in Ops, NEW on \in Requests \cup Places, NEW by \in Users \cup {None},
               NEW s \in {"insert", "save", "update"},
               Begin(c, o, on, by, s), saved' = saved
        PROVE  Was(op, r)'
    <3>1. c \notin saved /\ \A d \in Calls \ {c} : call'[d] = call[d]
      BY <2>1, BeginMade
    <3> QED BY <2>1, <3>1 DEF Was, On, TypeInv, TypeOK
  <2>2. ASSUME NEW q \in Requests,
               \/ SendStep(c, q)
               \/ \E a \in {"accept", "decline"} : ReadPending(c, q, a)
               \/ \E u \in Parties(q) : CompleteEngagement(c, q, u) \/ CreateReview(c, q, u)
        PROVE  Was(op, r)'
    <3>1. Parties(q) \subseteq Users
      BY RequestsConstants DEF Parties
    <3>2. \E o \in Ops, u \in Users, s \in {"insert", "save"} : Begin(c, o, q, u, s)
      BY <2>2, <3>1 DEF SendStep, ReadPending, CompleteEngagement, CreateReview, Ops, Parties
    <3>3. saved' = saved
      BY <2>2 DEF SendStep, ReadPending, CompleteEngagement, CreateReview
    <3> QED BY <2>1, <3>2, <3>3
  <2>3. ASSUME NEW p \in Places, Edit(c, p) \/ Deactivate(c, p)
        PROVE  Was(op, r)'
    <3>1. PICK o \in {"edit", "close"} : Begin(c, o, p, None, "update")
      BY <2>3 DEF Edit, Deactivate
    <3>2. saved' = saved
      BY <2>3 DEF Edit, Deactivate
    <3> QED BY <2>1, <3>1, <3>2 DEF Ops
  <2>4. CASE \/ InsertRequest(c) \/ InsertReview(c) \/ SaveStatus(c) \/ SavePlace(c)
             \/ Publish(c) \/ Die(c)
    BY <1>1, <2>4 DEF InsertRequest, InsertReview, SaveStatus, SavePlace, Publish, Die, rows
  <2> QED BY <1>2, <2>2, <2>3, <2>4 DEF StepOf
<1>3. CASE UNCHANGED vars
  BY <1>1, <1>3 DEF vars
<1> QED BY <1>2, <1>3, NextSteps

LEMMA RowsGrow == [Next]_vars => saved \subseteq saved' /\ published \subseteq published'
<1>1. ASSUME NEW c \in Calls, StepOf(c)
      PROVE  saved \subseteq saved' /\ published \subseteq published'
  BY <1>1 DEF StepOf, SendStep, ReadPending, CompleteEngagement, CreateReview, Edit, Deactivate,
              InsertRequest, InsertReview, SaveStatus, SavePlace, Publish, Die
<1> QED BY <1>1, NextSteps DEF vars

(* What a call is about; only hires are completed. *)
KindInv ==
  \A c \in Calls : call[c] # None =>
    /\ call[c].op \notin {"edit", "close"} => call[c].on \in Requests
    /\ call[c].op = "complete" => Kind[call[c].on] = "engagement"

LEMMA KindStep == TypeInv /\ KindInv /\ [Next]_vars => KindInv'
<1> SUFFICES ASSUME TypeInv, KindInv, [Next]_vars PROVE KindInv'
  OBVIOUS
<1>1. ASSUME call' = call
      PROVE  KindInv'
  BY <1>1 DEF KindInv
<1>2. ASSUME NEW c \in Calls, StepOf(c)
      PROVE  KindInv'
  <2>1. ASSUME NEW o \in Ops, NEW on \in Requests \cup Places, NEW by \in Users \cup {None},
               NEW s \in {"insert", "save", "update"},
               Begin(c, o, on, by, s), saved' = saved,
               o \notin {"edit", "close"} => on \in Requests,
               o = "complete" => Kind[on] = "engagement"
        PROVE  KindInv'
    <3>1. /\ call'[c].op = o /\ call'[c].on = on
          /\ \A d \in Calls \ {c} : call'[d] = call[d]
      BY <2>1, BeginType
    <3> QED BY <2>1, <3>1 DEF KindInv
  <2>2. ASSUME NEW q \in Requests,
               \/ SendStep(c, q)
               \/ \E a \in {"accept", "decline"} : ReadPending(c, q, a)
               \/ \E u \in Parties(q) : CompleteEngagement(c, q, u) \/ CreateReview(c, q, u)
        PROVE  KindInv'
    <3>1. Parties(q) \subseteq Users
      BY RequestsConstants DEF Parties
    <3>2. \E o \in Ops, u \in Users, s \in {"insert", "save"} :
            Begin(c, o, q, u, s) /\ (o = "complete" => Kind[q] = "engagement")
      BY <2>2, <3>1 DEF SendStep, ReadPending, CompleteEngagement, CreateReview, Ops, Parties
    <3>3. saved' = saved
      BY <2>2 DEF SendStep, ReadPending, CompleteEngagement, CreateReview
    <3> QED BY <2>1, <3>2, <3>3
  <2>3. ASSUME NEW p \in Places, Edit(c, p) \/ Deactivate(c, p)
        PROVE  KindInv'
    <3>1. PICK o \in {"edit", "close"} : Begin(c, o, p, None, "update")
      BY <2>3 DEF Edit, Deactivate
    <3>2. saved' = saved
      BY <2>3 DEF Edit, Deactivate
    <3> QED BY <2>1, <3>1, <3>2 DEF Ops
  <2>4. CASE \/ InsertRequest(c) \/ InsertReview(c) \/ SaveStatus(c) \/ SavePlace(c)
             \/ Publish(c) \/ Die(c)
    BY <1>1, <2>4 DEF InsertRequest, InsertReview, SaveStatus, SavePlace, Publish, Die
  <2> QED BY <1>2, <2>2, <2>3, <2>4 DEF StepOf
<1>3. CASE UNCHANGED vars
  BY <1>1, <1>3 DEF vars
<1> QED BY <1>2, <1>3, NextSteps

-----------------------------------------------------------------------------
(* A page holds a revealing status only of a request that was accepted,    *)
(* and a page for the public holds accepted invitations only.              *)
PageInv ==
  \A v \in Viewers : page[v] # None =>
    \A r \in DOMAIN page[v].seen :
      /\ page[v].seen[r] \in {"accepted", "completed"} => Was("accept", r)
      /\ page[v].by = None => Kind[r] = "invite" /\ page[v].seen[r] = "accepted"

Audience(r) == Parties(r) \cup (IF Kind[r] = "invite" THEN {None} ELSE {})

ShownInv == \A s \in shown : s[1] \in Audience(s[2]) /\ Was("accept", s[2])

DisclosureInv ==
  TypeInv /\ LifeInv /\ GateInv /\ KindInv /\ DisclosureTypeOK /\ PageInv /\ ShownInv

LEMMA InitDisclosure == DisclosureInit => DisclosureInv
<1> SUFFICES ASSUME DisclosureInit PROVE DisclosureInv
  OBVIOUS
<1>1. TypeInv /\ LifeInv /\ GateInv
  BY InitType, InitLife, InitGate DEF DisclosureInit
<1>2. KindInv
  BY DEF DisclosureInit, Init, KindInv
<1> QED BY <1>1, <1>2 DEF DisclosureInit, DisclosureInv, DisclosureTypeOK, PageInv, ShownInv,
                          TypeInv

LEMMA ReadRows ==
  ASSUME DisclosureInv, NEW R, R \subseteq Requests, NEW u \in Users \cup {None},
         u = None => \A r \in R : Kind[r] = "invite" /\ status[r] = "accepted",
         NEW v \in Viewers, Query(v, u, R)
  PROVE  DisclosureTypeOK' /\ PageInv'
<1> DEFINE seen == [r \in Rows(R) |-> status[r]]
           p == [by |-> u, seen |-> seen]
<1>1. Rows(R) \subseteq R
  BY DEF Rows
<1>2. seen \in [Rows(R) -> Statuses] /\ Rows(R) \in SUBSET Requests
  BY <1>1 DEF DisclosureInv, TypeInv, TypeOK
<1>3. p \in PageRecord
  BY <1>2 DEF PageRecord, RowSets
<1>4. page \in [Viewers -> PageRecord \cup {None}] /\ page' = [page EXCEPT ![v] = p]
  BY DEF DisclosureInv, DisclosureTypeOK, Query
<1>5. UNCHANGED <<vars, replied, mailed, shown>>
  BY DEF Query
<1>6. TypeOK'
  BY <1>5 DEF DisclosureInv, TypeInv, TypeOK, vars, rows
<1>7. DisclosureTypeOK'
  BY <1>3, <1>4, <1>5, <1>6 DEF DisclosureInv, DisclosureTypeOK, vars
<1>8. \A r : Was("accept", r)' <=> Was("accept", r)
  BY <1>5 DEF Was, On, vars
<1>9. \A r \in Rows(R) : status[r] \in {"accepted", "completed"} => Was("accept", r)
  BY <1>1 DEF DisclosureInv, GateInv
<1>10. page'[v] = p /\ \A w \in Viewers \ {v} : page'[w] = page[w]
  BY <1>4
<1>11. DOMAIN p.seen = Rows(R) /\ p.by = u /\ \A r \in Rows(R) : p.seen[r] = status[r]
  OBVIOUS
<1> HIDE DEF p
<1> QED BY <1>1, <1>7, <1>8, <1>9, <1>10, <1>11 DEF DisclosureInv, PageInv

LEMMA DisclosureStep == DisclosureInv /\ [DisclosureNext]_allVars => DisclosureInv'
<1> SUFFICES ASSUME DisclosureInv, [DisclosureNext]_allVars PROVE DisclosureInv'
  OBVIOUS
<1>1. [Next]_vars
  BY StepsBelow DEF allVars
<1>2. TypeInv' /\ LifeInv' /\ KindInv'
  BY <1>1, TypeStep, LifeStep, KindStep DEF DisclosureInv
<1>3. GateInv'
  BY <1>1, <1>2, GateStep DEF DisclosureInv
<1>4. \A r : Was("accept", r) => Was("accept", r)'
  BY <1>1, WasStays DEF DisclosureInv
<1>5. CASE UNCHANGED reading
  <2>1. saved \subseteq saved' /\ published \subseteq published'
    BY <1>1, RowsGrow
  <2>2. TypeOK'
    BY <1>2 DEF TypeInv
  <2>3. DisclosureTypeOK'
    BY <1>5, <2>1, <2>2 DEF DisclosureInv, DisclosureTypeOK, reading
  <2>4. PageInv'
    BY <1>4, <1>5 DEF DisclosureInv, PageInv, reading
  <2>5. ShownInv'
    BY <1>4, <1>5 DEF DisclosureInv, ShownInv, reading
  <2> QED BY <1>2, <1>3, <2>3, <2>4, <2>5 DEF DisclosureInv
<1>6. ASSUME NEW v \in Viewers, Read(v)
      PROVE  DisclosureInv'
  <2>1. ASSUME NEW u \in Users \cup {None}, NEW R, R \subseteq Requests,
               u = None => \A r \in R : Kind[r] = "invite" /\ status[r] = "accepted",
               Query(v, u, R)
        PROVE  DisclosureInv'
    <3>1. DisclosureTypeOK' /\ PageInv'
      BY <2>1, ReadRows
    <3>2. ShownInv'
      BY <1>4, <2>1 DEF DisclosureInv, ShownInv, Query
    <3> QED BY <1>2, <1>3, <3>1, <3>2 DEF DisclosureInv
  <2>2. ASSUME NEW u \in Users, NEW R, R \subseteq Requests, Query(v, u, R)
        PROVE  DisclosureInv'
    BY <2>1, <2>2, DisclosureConstants
  <2>3. \A u, k : Incoming(u, k) \subseteq Requests /\ Outgoing(u, k) \subseteq Requests
    BY DEF Incoming, Outgoing
  <2>4. ASSUME NEW b \in Places, GetRoster(v, b)
        PROVE  DisclosureInv'
    BY <2>1, <2>4 DEF GetRoster, Placed
  <2>5. CASE RespondPage(v)
    <3>1. page[v] # None /\ UNCHANGED <<vars, replied, mailed>>
      BY <2>5 DEF RespondPage
    <3>2. page' = [page EXCEPT ![v] = None]
      BY <2>5 DEF RespondPage
    <3>3. page[v] \in PageRecord /\ DOMAIN page[v].seen \subseteq Requests
      BY <3>1 DEF DisclosureInv, DisclosureTypeOK, PageRecord, RowSets
    <3>4. \A r \in Visible(page[v]) : /\ r \in Requests
                                      /\ page[v].by \in Audience(r)
                                      /\ Was("accept", r)
      BY <3>1, <3>3 DEF DisclosureInv, PageInv, Visible, Reveals, RevealAt, Audience
    <3>5. page[v].by \in Users \cup {None}
      BY <3>3 DEF PageRecord
    <3>6. \A s \in shown' : s \in shown \/ \E r \in Visible(page[v]) : s = <<page[v].by, r>>
      BY <2>5 DEF RespondPage
    <3>7. TypeOK'
      BY <1>2 DEF TypeInv
    <3>8. shown' \subseteq (Users \cup {None}) \X Requests
      BY <3>4, <3>5, <3>6 DEF DisclosureInv, DisclosureTypeOK
    <3>9. DisclosureTypeOK'
      BY <3>1, <3>2, <3>7, <3>8 DEF DisclosureInv, DisclosureTypeOK, vars
    <3>10. PageInv'
      <4>1. page'[v] = None /\ \A w \in Viewers \ {v} : page'[w] = page[w]
        BY <3>2 DEF DisclosureInv, DisclosureTypeOK
      <4> QED BY <1>4, <4>1 DEF DisclosureInv, PageInv
    <3>11. ShownInv'
      BY <1>4, <3>4, <3>6 DEF DisclosureInv, ShownInv, Audience
    <3> QED BY <1>2, <1>3, <3>9, <3>10, <3>11 DEF DisclosureInv
  <2>6. ASSUME NEW u \in Users, NEW r \in Requests, Query(v, u, {r})
        PROVE  DisclosureInv'
    BY <2>2, <2>6
  <2> QED BY <1>6, <2>2, <2>3, <2>4, <2>5, <2>6, Queries
<1>7. ASSUME NEW c \in Calls, RespondCall(c) \/ DeliverMail(c)
      PROVE  DisclosureInv'
  <2>1. c \in saved /\ UNCHANGED <<vars, page>>
    BY <1>7, Replies DEF Reply, DeliverMail, DisclosureInv, TypeInv, TypeOK
  <2>2. call[c] # None
    BY <2>1 DEF DisclosureInv, TypeInv, TypeOK, Planned, PlanOf
  <2> DEFINE r == call[c].on
  <2>3. \A s \in shown' : s \in shown \/ (/\ s[1] \in Parties(r) /\ s[2] = r
                                         /\ s \in Parties(r) \X {r} /\ Was("accept", r)
                                         /\ r \in Requests)
    <3>1. CASE RespondCall(c)
      <4>1. PICK u, st :
              /\ Reply(c, u, st)
              /\ \/ call[c].op = "send" /\ st = "pending"
                 \/ call[c].op \in {"accept", "decline"} /\ st = Written(call[c].op)
                 \/ call[c].op = "complete" /\ st = "completed"
        BY <3>1, Replies
      <4>2. r \in Requests
        BY <2>2, <4>1 DEF DisclosureInv, KindInv
      <4>3. \A s \in shown' : s \in shown \/ (Reveals(u, r, st) /\ s = <<u, r>>)
        BY <4>1 DEF Reply
      <4>4. st \in RevealAt(r) => call[c].op \in {"accept", "complete"}
        BY <4>1 DEF Written, RevealAt
      <4>5. call[c].op \in {"accept", "complete"} => Was("accept", r)
        BY <2>1, <2>2, <4>2 DEF Was, On, DisclosureInv, GateInv, TypeInv, TypeOK
      <4> QED BY <4>2, <4>3, <4>4, <4>5 DEF Reveals
    <3>2. CASE DeliverMail(c)
      <4>1. \A s \in shown' : s \in shown \/ (call[c].op = "accept" /\ s = <<Asker[r], r>>)
        BY <3>2 DEF DeliverMail, CarriesAddress
      <4>2. call[c].op = "accept" => r \in Requests /\ Was("accept", r)
        BY <2>1, <2>2 DEF Was, On, DisclosureInv, KindInv
      <4> QED BY <4>1, <4>2 DEF Parties
    <3> QED BY <1>7, <3>1, <3>2
  <2>4. DisclosureTypeOK'
    <3>1. shown' \subseteq (Users \cup {None}) \X Requests
      BY <2>3, RequestsConstants DEF DisclosureInv, DisclosureTypeOK, Parties
    <3>2. replied' \subseteq saved' /\ mailed' \subseteq published'
      BY <1>7, <2>1, Replies DEF Reply, DeliverMail, DisclosureInv, DisclosureTypeOK, vars
    <3>3. TypeOK'
      BY <1>2 DEF TypeInv
    <3> QED BY <2>1, <3>1, <3>2, <3>3 DEF DisclosureInv, DisclosureTypeOK
  <2>5. PageInv'
    BY <1>4, <2>1 DEF DisclosureInv, PageInv
  <2>6. ShownInv'
    BY <1>4, <2>3 DEF DisclosureInv, ShownInv, Audience
  <2> QED BY <1>2, <1>3, <2>4, <2>5, <2>6 DEF DisclosureInv
<1>8. DisclosureNext => UNCHANGED reading \/ (\E v \in Viewers : Read(v))
                        \/ (\E c \in Calls : RespondCall(c) \/ DeliverMail(c))
  BY DEF DisclosureNext
<1> QED BY <1>5, <1>6, <1>7, <1>8 DEF allVars

(* The parts of Requests and Disclosure keep their types. *)
THEOREM DisclosureTypeCorrect == DisclosureSpec => []DisclosureTypeOK
<1>1. DisclosureInv => DisclosureTypeOK
  BY DEF DisclosureInv
<1> QED BY <1>1, InitDisclosure, DisclosureStep, PTL DEF DisclosureSpec

(* Whatever happens in between and however late a response or a mail is:   *)
(* only parties see an address, and only of a request that was accepted.   *)
THEOREM OnlyAfterAcceptance == DisclosureSpec => []RevealOnAccept
<1>1. DisclosureInv => RevealOnAccept
  BY DEF DisclosureInv, ShownInv, Audience, RevealOnAccept, Was, Made, TypeInv, TypeOK
<1> QED BY <1>1, InitDisclosure, DisclosureStep, PTL DEF DisclosureSpec

(* What was shown is still to be seen: an answer stands, and only a hire   *)
(* moves on, to a status that reveals as well.                             *)
THEOREM ShownForGood == DisclosureSpec => []WhatWasShownStays
<1>1. ASSUME DisclosureInv, NEW s \in shown, s[2] \notin contended
      PROVE  status[s[2]] \in RevealAt(s[2])
  <2> DEFINE r == s[2]
  <2>1. r \in Requests /\ Was("accept", r)
    BY <1>1 DEF DisclosureInv, DisclosureTypeOK, ShownInv
  <2>2. PICK c \in saved : On(c, "accept", r)
    BY <2>1 DEF Was
  <2>3. c \in Answers(r) /\ After(c) = {"accepted", "completed"}
    BY <1>1, <2>2 DEF Answers, Made, On, After, DisclosureInv, TypeInv, TypeOK
  <2>4. status[r] \in {"accepted", "completed"}
    BY <1>1, <2>1, <2>3 DEF DisclosureInv, LifeInv, AnswerStands, StandsFor
  <2>5. status[r] = "completed" => Kind[r] = "engagement"
    BY <1>1, <2>1 DEF DisclosureInv, GateInv, KindInv, Was, On, TypeInv, TypeOK
  <2> QED BY <2>4, <2>5 DEF RevealAt
<1>2. DisclosureInv => WhatWasShownStays
  BY <1>1 DEF WhatWasShownStays
<1> QED BY <1>2, InitDisclosure, DisclosureStep, PTL DEF DisclosureSpec

(* Reading and mailing do not interfere with the requests. *)
THEOREM RunsRequests == DisclosureSpec => Spec
<1>1. DisclosureInit => Init
  BY DEF DisclosureInit
<1>2. [DisclosureNext]_allVars => [Next]_vars
  BY StepsBelow DEF allVars
<1> QED BY <1>1, <1>2, PTL DEF DisclosureSpec, Spec
=============================================================================
