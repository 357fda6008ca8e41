--------------------------- MODULE RequestsProofs ---------------------------
(* The request lifecycle holds for any number of requests and calls.       *)
EXTENDS Requests, TLAPS

(* The twelve kinds of step.  Sending and resolving take the same step in  *)
(* every app.                                                              *)
SendStep(c, r) ==
  /\ Fresh(r)
  /\ Begin(c, "send", r, Asker[r], "insert")
  /\ UNCHANGED <<rows, copy, saved, published, dead, contended>>

LEMMA SendSteps ==
  ASSUME NEW c \in Calls, NEW r \in Requests, Send(c, r)
  PROVE  SendStep(c, r)
BY DEF Send, SendStep, SendContactRequest, SendEngagementRequest, ApplyToListing, InviteMember

LEMMA ResolveSteps ==
  ASSUME NEW c \in Calls, NEW r \in Requests, NEW a \in {"accept", "decline"}, Resolve(c, r, a)
  PROVE  ReadPending(c, r, a)
BY DEF Resolve, ResolveContact, ResolveApplication, ResolveMembership, ResolveEngagement

StepOf(c) ==
  \/ \E r \in Requests :
       \/ SendStep(c, r)
       \/ \E a \in {"accept", "decline"} : ReadPending(c, r, a)
       \/ \E u \in Parties(r) : CompleteEngagement(c, r, u) \/ CreateReview(c, r, u)
  \/ \E p \in Places : Edit(c, p) \/ Deactivate(c, p)
  \/ InsertRequest(c) \/ InsertReview(c) \/ SaveStatus(c) \/ SavePlace(c)
  \/ Publish(c) \/ Die(c)

LEMMA NextSteps ==
  ASSUME Next
  PROVE  \E c \in Calls : StepOf(c)
<1>1. PICK c \in Calls : Start(c) \/ Continue(c) \/ Die(c)
  BY DEF Next
<1>2. CASE Start(c)
  BY <1>2, SendSteps, ResolveSteps DEF Start, StepOf
<1>3. CASE Continue(c) \/ Die(c)
  BY <1>3 DEF Continue, StepOf
<1> QED BY <1>1, <1>2, <1>3

-----------------------------------------------------------------------------
(* What a call may do at each statement.                                   *)
PlanOf(c) ==
  /\ pc[c] = "insert" => call[c].op \in {"send", "review"} /\ call[c].on \in Requests
  /\ pc[c] = "save" => call[c].op \in {"accept", "decline", "complete"} /\ call[c].on \in Requests
  /\ pc[c] = "update" => call[c].op \in {"edit", "close"} /\ call[c].on \in Places
  /\ pc[c] = "publish" => c \in saved
  /\ c \in saved => pc[c] \in {"publish", "done"}

Planned == \A c \in Calls : PlanOf(c)

TypeInv == TypeOK /\ Planned

LEMMA InitType == Init => TypeInv
BY RequestsConstants DEF Init, TypeInv, TypeOK, Planned, PlanOf, Statuses

LEMMA BeginType ==
  ASSUME TypeInv, NEW c \in Calls, NEW op \in Ops, NEW on \in Requests \cup Places,
         NEW by \in Users \cup {None},
         NEW s \in {"insert", "save", "update"},
         Begin(c, op, on, by, s), saved' = saved
  PROVE  /\ call' \in [Calls -> CallRecord \cup {None}]
         /\ pc' \in [Calls -> {"idle", "insert", "save", "update", "publish", "done"}]
         /\ \A d \in Calls : call'[d] = None <=> pc'[d] = "idle"
         /\ call'[c].op = op /\ call'[c].on = on /\ call'[c].by = by
         /\ pc'[c] = s /\ pc[c] = "idle" /\ call[c] = None /\ c \notin saved
         /\ \A d \in Calls \ {c} : call'[d] = call[d] /\ pc'[d] = pc[d]
<1> DEFINE rec == [op |-> op, on |-> on, by |-> by]
<1>1. rec \in CallRecord /\ rec # None
  <2>1. rec \in CallRecord
    BY DEF CallRecord
  <2> QED BY <2>1, RequestsConstants
<1>2. /\ call' = [call EXCEPT ![c] = rec] /\ pc' = [pc EXCEPT ![c] = s]
      /\ pc[c] = "idle"
  BY DEF Begin
<1>3. /\ call \in [Calls -> CallRecord \cup {None}]
      /\ pc \in [Calls -> {"idle", "insert", "save", "update", "publish", "done"}]
      /\ \A d \in Calls : call[d] = None <=> pc[d] = "idle"
  BY DEF TypeInv, TypeOK
<1>4. \A d \in Calls \ {c} : call'[d] = call[d] /\ pc'[d] = pc[d]
  BY <1>2, <1>3
<1>5. c \notin saved
  BY <1>2 DEF TypeInv, Planned, PlanOf
<1> HIDE DEF rec
<1>6. call'[c] = rec /\ pc'[c] = s
  BY <1>2, <1>3
<1>7. rec.op = op /\ rec.on = on /\ rec.by = by
  BY DEF rec
<1>8. /\ call' \in [Calls -> CallRecord \cup {None}]
      /\ pc' \in [Calls -> {"idle", "insert", "save", "update", "publish", "done"}]
  BY <1>1, <1>2, <1>3
<1>9. \A d \in Calls : call'[d] = None <=> pc'[d] = "idle"
  BY <1>1, <1>3, <1>4, <1>6
<1> QED BY <1>2, <1>3, <1>4, <1>5, <1>6, <1>7, <1>8, <1>9

(* Beginning a call keeps the type when the rest does. *)
LEMMA BeginTypeInv ==
  ASSUME TypeInv, NEW c \in Calls, NEW op \in Ops, NEW on \in Requests \cup Places,
         NEW by \in Users \cup {None},
         NEW s \in {"insert", "save", "update"},
         Begin(c, op, on, by, s),
         status' = status, open' = open, saved' = saved, published' = published, dead' = dead,
         copy' \in [Calls -> BOOLEAN], contended' \subseteq Requests,
         s = "insert" => op \in {"send", "review"} /\ on \in Requests,
         s = "save" => op \in {"accept", "decline", "complete"} /\ on \in Requests,
         s = "update" => op \in {"edit", "close"} /\ on \in Places
  PROVE  TypeInv'
<1>1. /\ call'[c].op = op /\ call'[c].on = on /\ pc'[c] = s /\ c \notin saved
      /\ \A d \in Calls \ {c} : call'[d] = call[d] /\ pc'[d] = pc[d]
      /\ call' \in [Calls -> CallRecord \cup {None}]
      /\ pc' \in [Calls -> {"idle", "insert", "save", "update", "publish", "done"}]
      /\ \A d \in Calls : call'[d] = None <=> pc'[d] = "idle"
  BY BeginType
<1>2. PlanOf(c)'
  BY <1>1 DEF PlanOf
<1>3. \A d \in Calls \ {c} : PlanOf(d)'
  BY <1>1 DEF TypeInv, Planned, PlanOf
<1> QED BY <1>1, <1>2, <1>3 DEF TypeInv, TypeOK, Planned

(* So does going on to publish() or ending. *)
LEMMA GotoTypeInv ==
  ASSUME TypeInv, NEW c \in Calls, NEW s \in {"publish", "done"}, pc[c] # "idle",
         Goto(c, s), call' = call, copy' = copy, contended' = contended,
         status' \in [Requests -> Statuses], open' \subseteq Places,
         saved' = saved \/ saved' = saved \cup {c}, s = "publish" => c \in saved',
         published' \subseteq saved', dead' \subseteq Calls
  PROVE  TypeInv'
<1>1. /\ pc' = [pc EXCEPT ![c] = s]
      /\ pc \in [Calls -> {"idle", "insert", "save", "update", "publish", "done"}]
      /\ \A d \in Calls : call[d] = None <=> pc[d] = "idle"
  BY DEF Goto, TypeInv, TypeOK
<1>2. /\ pc' \in [Calls -> {"idle", "insert", "save", "update", "publish", "done"}]
      /\ pc'[c] = s
      /\ \A d \in Calls \ {c} : pc'[d] = pc[d]
  BY <1>1
<1>3. \A d \in Calls : call'[d] = None <=> pc'[d] = "idle"
  BY <1>1, <1>2
<1>4. PlanOf(c)'
  BY <1>2 DEF PlanOf
<1>5. \A d \in Calls \ {c} : PlanOf(d)'
  BY <1>2 DEF TypeInv, Planned, PlanOf
<1>6. saved' \subseteq Calls
  BY DEF TypeInv, TypeOK
<1> QED BY <1>2, <1>3, <1>4, <1>5, <1>6 DEF TypeInv, TypeOK, Planned

LEMMA TypeStep == TypeInv /\ [Next]_vars => TypeInv'
<1> SUFFICES ASSUME TypeInv, [Next]_vars PROVE TypeInv'
  OBVIOUS
<1> USE DEF TypeInv
<1>1. CASE UNCHANGED vars
  BY <1>1 DEF vars, rows, TypeOK, Planned, PlanOf
<1>2. ASSUME NEW c \in Calls, StepOf(c)
      PROVE  TypeInv'
  <2> USE DEF rows
  <2>1. ASSUME NEW r \in Requests, SendStep(c, r)
        PROVE  TypeInv'
    <3>1. Asker[r] \in Users
      BY RequestsConstants
    <3>2. Begin(c, "send", r, Asker[r], "insert") /\ UNCHANGED <<rows, copy, saved, published, dead, contended>>
      BY <2>1 DEF SendStep
    <3> QED BY <3>1, <3>2, BeginTypeInv DEF TypeOK, Ops
  <2>2. ASSUME NEW r \in Requests, NEW a \in {"accept", "decline"}, ReadPending(c, r, a)
        PROVE  TypeInv'
    <3>1. Answerer[r] \in Users
      BY RequestsConstants
    <3>2. /\ Begin(c, a, r, Answerer[r], "save")
          /\ contended' \subseteq Requests
          /\ UNCHANGED <<rows, copy, saved, published, dead>>
      BY <2>2 DEF ReadPending, Contend, TypeOK
    <3> QED BY <3>1, <3>2, BeginTypeInv DEF TypeOK, Ops
  <2>3. ASSUME NEW r \in Requests, NEW u \in Parties(r), CompleteEngagement(c, r, u)
        PROVE  TypeInv'
    <3>1. u \in Users
      BY RequestsConstants DEF Parties
    <3>2. /\ Begin(c, "complete", r, u, "save")
          /\ contended' \subseteq Requests
          /\ UNCHANGED <<rows, copy, saved, published, dead>>
      BY <2>3 DEF CompleteEngagement, Contend, TypeOK
    <3> QED BY <3>1, <3>2, BeginTypeInv DEF TypeOK, Ops
  <2>4. ASSUME NEW r \in Requests, NEW u \in Parties(r), CreateReview(c, r, u)
        PROVE  TypeInv'
    <3>1. u \in Users
      BY RequestsConstants DEF Parties
    <3>2. /\ Begin(c, "review", r, u, "insert")
          /\ UNCHANGED <<rows, copy, saved, published, dead, contended>>
      BY <2>4 DEF CreateReview
    <3> QED BY <3>1, <3>2, BeginTypeInv DEF TypeOK, Ops
  <2>5. ASSUME NEW p \in Places, Edit(c, p) \/ Deactivate(c, p)
        PROVE  TypeInv'
    <3>1. PICK op \in {"edit", "close"} : Begin(c, op, p, None, "update")
      BY <2>5 DEF Edit, Deactivate
    <3>2. /\ copy' \in [Calls -> BOOLEAN]
          /\ UNCHANGED <<rows, saved, published, dead, contended>>
      BY <2>5 DEF Edit, Deactivate, TypeOK
    <3> QED BY <3>1, <3>2, BeginTypeInv DEF TypeOK, Ops
  <2>6. CASE InsertRequest(c)
    <3>1. PICK s \in {"publish", "done"} :
            /\ Goto(c, s)
            /\ saved' = saved \/ saved' = saved \cup {c}
            /\ s = "publish" => c \in saved'
      BY <2>6 DEF InsertRequest
    <3>2. /\ pc[c] = "insert" /\ UNCHANGED <<open, call, copy, published, dead, contended>>
          /\ status' \in [Requests -> Statuses]
      BY <2>6 DEF InsertRequest, TypeOK, Statuses
    <3> QED BY <3>1, <3>2, GotoTypeInv DEF TypeOK
  <2>7. CASE InsertReview(c)
    <3>1. PICK s \in {"publish", "done"} :
            /\ Goto(c, s)
            /\ saved' = saved \/ saved' = saved \cup {c}
            /\ s = "publish" => c \in saved'
      BY <2>7 DEF InsertReview
    <3>2. /\ pc[c] = "insert" /\ UNCHANGED <<rows, call, copy, published, dead, contended>>
      BY <2>7 DEF InsertReview
    <3> QED BY <3>1, <3>2, GotoTypeInv DEF TypeOK
  <2>8. CASE SaveStatus(c)
    <3>1. PICK s \in {"publish", "done"} : Goto(c, s)
      BY <2>8 DEF SaveStatus
    <3>2. Written(call[c].op) \in Statuses
      BY <2>8 DEF SaveStatus, Planned, PlanOf, Written, Statuses
    <3>3. /\ pc[c] = "save" /\ UNCHANGED <<open, call, copy, published, dead, contended>>
          /\ status' \in [Requests -> Statuses]
          /\ saved' = saved \cup {c}
      BY <2>8, <3>2 DEF SaveStatus, TypeOK
    <3> QED BY <3>1, <3>3, GotoTypeInv DEF TypeOK
  <2>9. CASE SavePlace(c)
    <3>1. call[c].on \in Places
      BY <2>9 DEF SavePlace, Planned, PlanOf
    <3>2. /\ pc[c] = "update" /\ Goto(c, "done")
          /\ UNCHANGED <<status, call, copy, published, dead, contended>>
          /\ open' \subseteq Places
          /\ saved' = saved \cup {c}
      BY <2>9, <3>1 DEF SavePlace, TypeOK
    <3> QED BY <3>2, GotoTypeInv DEF TypeOK
  <2>10. CASE Publish(c)
    <3>1. /\ pc[c] = "publish" /\ Goto(c, "done")
          /\ published' \subseteq saved
          /\ UNCHANGED <<rows, call, copy, saved, dead, contended>>
      BY <2>10 DEF Publish, TypeOK, Planned, PlanOf
    <3> QED BY <3>1, GotoTypeInv DEF TypeOK
  <2>11. CASE Die(c)
    <3>1. /\ pc[c] # "idle" /\ Goto(c, "done")
          /\ dead' = dead \cup {c}
          /\ UNCHANGED <<rows, call, copy, saved, published, contended>>
      BY <2>11 DEF Die
    <3> QED BY <3>1, GotoTypeInv DEF TypeOK
  <2> QED BY <1>2, <2>1, <2>2, <2>3, <2>4, <2>5, <2>6, <2>7, <2>8, <2>9, <2>10, <2>11 DEF StepOf
<1> QED BY <1>1, <1>2, NextSteps

(* Every variable of Requests keeps its type; only a written row is        *)
(* published.                                                              *)
THEOREM TypeCorrect == Spec => []TypeOK
<1>1. Init => TypeInv
  BY InitType
<1>2. TypeInv /\ [Next]_vars => TypeInv'
  BY TypeStep
<1>3. TypeInv => TypeOK
  BY DEF TypeInv
<1> QED BY <1>1, <1>2, <1>3, PTL DEF Spec

-----------------------------------------------------------------------------
(* The answer stands.  A request is sent by one call; and as long as two   *)
(* calls do not hold a copy of a row at the same time, a call about to     *)
(* write finds the status that it read.                                    *)
Waits(c, r) == pc[c] = "save" /\ call[c].on = r

OneSender == \A r \in Requests : \A c, d \in Made("send", r) : c = d

RowsWereSent ==
  \A r \in Requests :
    status[r] # "none" \/ (\E c \in Calls : Waits(c, r)) => \E c \in saved : On(c, "send", r)

FreshCopies ==
  \A r \in Requests \ contended, c \in Calls :
    Waits(c, r) =>
      /\ status[r] = IF call[c].op = "complete" THEN "accepted" ELSE "pending"
      /\ \A d \in Calls : Waits(d, r) => d = c

OpenIsUnanswered ==
  \A r \in Requests \ contended :
    status[r] \in {"none", "pending"} => \A c \in saved : c \notin Answers(r)

LifeInv == OneSender /\ RowsWereSent /\ FreshCopies /\ OpenIsUnanswered /\ AnswerStands

LEMMA InitLife == Init => LifeInv
BY DEF Init, LifeInv, OneSender, RowsWereSent, FreshCopies, OpenIsUnanswered, AnswerStands,
       StandsFor, Made, On, Waits

LEMMA BeginMade ==
  ASSUME TypeInv, NEW c \in Calls, NEW op \in Ops, NEW on \in Requests \cup Places,
         NEW by \in Users \cup {None}, NEW s \in {"insert", "save", "update"},
         Begin(c, op, on, by, s), saved' = saved
  PROVE  /\ c \notin saved
         /\ \A o, r : ~On(c, o, r) /\ (On(c, o, r)' <=> o = op /\ r = on)
         /\ \A d \in Calls \ {c} : \A o, r : On(d, o, r)' <=> On(d, o, r)
         /\ \A r : ~Waits(c, r) /\ (Waits(c, r)' <=> s = "save" /\ r = on)
         /\ \A d \in Calls \ {c} : \A r : Waits(d, r)' <=> Waits(d, r)
         /\ call'[c].op = op /\ call'[c].by = by
         /\ \A d \in Calls \ {c} : call'[d] = call[d]
<1>1. /\ \A d \in Calls : call'[d] = None <=> pc'[d] = "idle"
      /\ call'[c].op = op /\ call'[c].on = on /\ call'[c].by = by
      /\ pc'[c] = s /\ pc[c] = "idle" /\ call[c] = None /\ c \notin saved
      /\ \A d \in Calls \ {c} : call'[d] = call[d] /\ pc'[d] = pc[d]
  BY BeginType
<1> QED BY <1>1 DEF On, Waits

(* A call that begins disturbs nothing, if what it is to write agrees with *)
(* the row and nobody else is about to write it.                           *)
LEMMA BeginLife ==
  ASSUME TypeInv, LifeInv, NEW c \in Calls, NEW op \in Ops, NEW on \in Requests \cup Places,
         NEW by \in Users \cup {None}, NEW s \in {"insert", "save", "update"},
         Begin(c, op, on, by, s), saved' = saved, status' = status, contended \subseteq contended',
         op = "send" => Fresh(on),
         s = "save" => /\ status[on] = IF op = "complete" THEN "accepted" ELSE "pending"
                       /\ on \notin contended' => ~BeingWritten(on)
  PROVE  LifeInv'
<1>1. /\ c \notin saved
      /\ \A o, r : ~On(c, o, r) /\ (On(c, o, r)' <=> o = op /\ r = on)
      /\ \A d \in Calls \ {c} : \A o, r : On(d, o, r)' <=> On(d, o, r)
      /\ \A r : ~Waits(c, r) /\ (Waits(c, r)' <=> s = "save" /\ r = on)
      /\ \A d \in Calls \ {c} : \A r : Waits(d, r)' <=> Waits(d, r)
      /\ call'[c].op = op
      /\ \A d \in Calls \ {c} : call'[d] = call[d]
  BY BeginMade
<1>2. saved \subseteq Calls
  BY DEF TypeInv, TypeOK
<1>3. OneSender'
  BY <1>1 DEF LifeInv, OneSender, Fresh, Made
<1>4. RowsWereSent'
  BY <1>1, <1>2 DEF LifeInv, RowsWereSent
<1>5. \A r : \A d \in saved : d \in Answers(r)' <=> d \in Answers(r)
  BY <1>1, <1>2 DEF Answers, Made
<1>6. FreshCopies'
  <2> SUFFICES ASSUME NEW r \in Requests, r \notin contended', NEW d \in Calls, Waits(d, r)'
               PROVE  /\ status[r] = IF call'[d].op = "complete" THEN "accepted" ELSE "pending"
                      /\ \A e \in Calls : Waits(e, r)' => e = d
    BY DEF FreshCopies
  <2>1. CASE d = c
    <3>1. s = "save" /\ r = on /\ ~BeingWritten(r)
      BY <1>1, <2>1
    <3>2. \A e \in Calls : ~Waits(e, r)
      BY <3>1 DEF BeingWritten, Waits
    <3> QED BY <1>1, <2>1, <3>1, <3>2
  <2>2. CASE d # c
    <3>1. Waits(d, r) /\ r \notin contended
      BY <1>1, <2>2
    <3>2. ~Waits(c, r)'
      BY <1>1, <3>1 DEF BeingWritten, Waits
    <3> QED BY <1>1, <2>2, <3>1, <3>2 DEF LifeInv, FreshCopies
  <2> QED BY <2>1, <2>2
<1>7. OpenIsUnanswered'
  BY <1>5 DEF LifeInv, OpenIsUnanswered
<1>8. AnswerStands'
  <2> SUFFICES ASSUME NEW r \in Requests \ contended
               PROVE  StandsFor(r)'
    BY DEF AnswerStands
  <2>1. \A d \in saved : After(d)' = After(d)
    BY <1>1, <1>2 DEF After
  <2> QED BY <1>5, <2>1 DEF LifeInv, AnswerStands, StandsFor
<1> QED BY <1>3, <1>4, <1>6, <1>7, <1>8 DEF LifeInv

(* A step of a call that writes no status disturbs nothing either. *)
LEMMA QuietLife ==
  ASSUME TypeInv, LifeInv, NEW c \in Calls, NEW s \in {"publish", "done"}, Goto(c, s),
         call' = call, status' = status, contended' = contended,
         \/ saved' = saved
         \/ saved' = saved \cup {c} /\ call[c].op \in {"review", "edit", "close"}
  PROVE  LifeInv'
<1>1. /\ pc'[c] = s
      /\ \A d \in Calls \ {c} : pc'[d] = pc[d]
  BY DEF TypeInv, TypeOK, Goto
<1>2. \A o, r : \A d \in Calls : On(d, o, r)' <=> On(d, o, r)
  BY DEF On
<1>3. \A r : \A d \in Calls : Waits(d, r)' => Waits(d, r)
  BY <1>1 DEF Waits
<1>4. \A r : Made("send", r)' = Made("send", r) /\ Answers(r)' = Answers(r)
  BY DEF Answers, Made, On
<1>5. \A r : \A d \in saved' : d \in Answers(r) => d \in saved
  BY DEF Answers, Made, On
<1>6. OneSender' /\ RowsWereSent'
  BY <1>2, <1>3, <1>4 DEF LifeInv, OneSender, RowsWereSent, TypeInv, TypeOK
<1>7. FreshCopies'
  BY <1>3 DEF LifeInv, FreshCopies
<1>8. OpenIsUnanswered'
  BY <1>4, <1>5 DEF LifeInv, OpenIsUnanswered
<1>9. AnswerStands'
  BY <1>4, <1>5 DEF LifeInv, AnswerStands, StandsFor, After
<1> QED BY <1>6, <1>7, <1>8, <1>9 DEF LifeInv

(* The row that an INSERT writes was not there, so nobody holds a copy. *)
LEMMA InsertLife ==
  ASSUME TypeInv, LifeInv, NEW c \in Calls, InsertRequest(c), ~Taken(call[c].on)
  PROVE  LifeInv'
<1> DEFINE q == call[c].on
<1>1. /\ q \in Requests /\ On(c, "send", q) /\ pc[c] = "insert" /\ c \notin saved
      /\ saved \subseteq Calls /\ status \in [Requests -> Statuses]
  BY DEF InsertRequest, TypeInv, TypeOK, Planned, PlanOf, On
<1>2. /\ status' = [status EXCEPT ![q] = "pending"]
      /\ saved' = saved \cup {c} /\ Goto(c, "publish")
      /\ call' = call /\ contended' = contended
  BY DEF InsertRequest
<1>3. /\ pc'[c] = "publish"
      /\ \A d \in Calls \ {c} : pc'[d] = pc[d]
  BY <1>2 DEF TypeInv, TypeOK, Goto
<1>4. status[q] = "none"
  BY <1>1 DEF LifeInv, OneSender, RowsWereSent, Made
<1>5. /\ \A o, r : \A d \in Calls : On(d, o, r)' <=> On(d, o, r)
      /\ \A r : Made("send", r)' = Made("send", r) /\ Answers(r)' = Answers(r)
  BY <1>2 DEF On, Made, Answers
<1>6. \A r : c \notin Answers(r)
  BY <1>1 DEF Answers, Made, On
<1>7. OneSender'
  BY <1>5 DEF LifeInv, OneSender
<1>8. RowsWereSent'
  <2>1. \A r : \A d \in Calls : Waits(d, r)' => Waits(d, r)
    BY <1>2, <1>3 DEF Waits
  <2> QED BY <1>1, <1>2, <1>5, <2>1 DEF LifeInv, RowsWereSent
<1>9. FreshCopies'
  <2> SUFFICES ASSUME NEW r \in Requests \ contended, NEW d \in Calls, Waits(d, r)'
               PROVE  /\ status'[r] = IF call[d].op = "complete" THEN "accepted" ELSE "pending"
                      /\ \A e \in Calls : Waits(e, r)' => e = d
    BY <1>2 DEF FreshCopies
  <2>1. \A e \in Calls : Waits(e, r)' => Waits(e, r)
    BY <1>2, <1>3 DEF Waits
  <2>2. r # q
    BY <1>4, <2>1 DEF LifeInv, FreshCopies
  <2> QED BY <1>1, <1>2, <2>1, <2>2 DEF LifeInv, FreshCopies
<1>10. OpenIsUnanswered'
  <2> SUFFICES ASSUME NEW r \in Requests \ contended, status'[r] \in {"none", "pending"}
               PROVE  \A d \in saved' : d \notin Answers(r)
    BY <1>2, <1>5 DEF OpenIsUnanswered
  <2>1. status[r] \in {"none", "pending"}
    BY <1>1, <1>2, <1>4
  <2> QED BY <1>2, <1>6, <2>1 DEF LifeInv, OpenIsUnanswered
<1>11. AnswerStands'
  <2> SUFFICES ASSUME NEW r \in Requests \ contended, NEW d \in saved', d \in Answers(r)
               PROVE  status'[r] \in After(d) /\ \A e \in saved' \cap Answers(r) : e = d
    BY <1>2, <1>5 DEF AnswerStands, StandsFor, After
  <2>1. d \in saved
    BY <1>2, <1>6
  <2>2. r # q
    BY <1>4, <2>1 DEF LifeInv, OpenIsUnanswered
  <2>3. status'[r] = status[r]
    BY <1>1, <1>2, <2>2
  <2> QED BY <1>2, <1>6, <2>1, <2>3 DEF LifeInv, AnswerStands, StandsFor
<1> QED BY <1>7, <1>8, <1>9, <1>10, <1>11 DEF LifeInv

(* save(): the row still has the status that was checked, hence no answer  *)
(* before an accept or decline, and only the acceptance before a complete. *)
LEMMA SaveLife ==
  ASSUME TypeInv, LifeInv, NEW c \in Calls, SaveStatus(c)
  PROVE  LifeInv'
<1> DEFINE q == call[c].on
           new == Written(call[c].op)
<1>1. /\ q \in Requests /\ pc[c] = "save" /\ Waits(c, q)
      /\ call[c] # None /\ call[c].op \in {"accept", "decline", "complete"}
      /\ saved \subseteq Calls /\ status \in [Requests -> Statuses]
  BY DEF SaveStatus, TypeInv, TypeOK, Planned, PlanOf, Waits
<1>2. /\ status' = [status EXCEPT ![q] = new]
      /\ saved' = saved \cup {c}
      /\ call' = call /\ contended' = contended
      /\ pc'[c] # "save" /\ \A d \in Calls \ {c} : pc'[d] = pc[d]
  BY DEF SaveStatus, TypeInv, TypeOK, Goto
<1>3. /\ \A o, r : \A d \in Calls : On(d, o, r)' <=> On(d, o, r)
      /\ \A r : Made("send", r)' = Made("send", r) /\ Answers(r)' = Answers(r)
  BY <1>2 DEF On, Made, Answers
<1>4. status'[q] = new /\ \A r \in Requests \ {q} : status'[r] = status[r]
  BY <1>1, <1>2
<1>5. \A r : c \in Answers(r) <=> r = q /\ call[c].op # "complete"
  BY <1>1 DEF Answers, Made, On
<1>6. new \in After(c) \/ call[c].op = "complete"
  BY <1>1 DEF Written, After
<1>7. OneSender'
  BY <1>3 DEF LifeInv, OneSender
<1>8. RowsWereSent'
  <2>1. \E d \in saved : On(d, "send", q)
    BY <1>1 DEF LifeInv, RowsWereSent
  <2>2. \A r : \A d \in Calls : Waits(d, r)' => Waits(d, r)
    BY <1>2 DEF Waits
  <2> QED BY <1>1, <1>2, <1>3, <1>4, <2>1, <2>2 DEF LifeInv, RowsWereSent
<1>9. FreshCopies'
  <2> SUFFICES ASSUME NEW r \in Requests \ contended, NEW d \in Calls, Waits(d, r)'
               PROVE  /\ status'[r] = IF call[d].op = "complete" THEN "accepted" ELSE "pending"
                      /\ \A e \in Calls : Waits(e, r)' => e = d
    BY <1>2 DEF FreshCopies
  <2>1. \A e \in Calls : Waits(e, r)' => e # c /\ Waits(e, r)
    BY <1>2 DEF Waits
  <2>2. r # q
    BY <1>1, <2>1 DEF LifeInv, FreshCopies
  <2> QED BY <1>4, <2>1, <2>2 DEF LifeInv, FreshCopies
<1>10. OpenIsUnanswered'
  <2> SUFFICES ASSUME NEW r \in Requests \ contended, status'[r] \in {"none", "pending"}
               PROVE  \A d \in saved' : d \notin Answers(r)
    BY <1>2, <1>3 DEF OpenIsUnanswered
  <2>1. r # q
    BY <1>1, <1>4 DEF Written
  <2> QED BY <1>2, <1>4, <1>5, <2>1 DEF LifeInv, OpenIsUnanswered
<1>11. AnswerStands'
  <2> SUFFICES ASSUME NEW r \in Requests \ contended, NEW d \in saved', d \in Answers(r)
               PROVE  status'[r] \in After(d) /\ \A e \in saved' \cap Answers(r) : e = d
    BY <1>2, <1>3 DEF AnswerStands, StandsFor, After
  <2>1. CASE r # q
    BY <1>2, <1>4, <1>5, <2>1 DEF LifeInv, AnswerStands, StandsFor
  <2>2. CASE r = q /\ call[c].op # "complete"
    <3>1. \A e \in saved : e \notin Answers(r)
      BY <1>1, <2>2 DEF LifeInv, FreshCopies, OpenIsUnanswered
    <3> QED BY <1>2, <1>4, <1>6, <2>2, <3>1
  <2>3. CASE r = q /\ call[c].op = "complete"
    <3>1. status[r] = "accepted" /\ status'[r] = "completed"
      BY <1>1, <1>4, <2>3 DEF LifeInv, FreshCopies, Written
    <3>2. d \in saved /\ \A e \in saved' \cap Answers(r) : e \in saved
      BY <1>2, <1>5, <2>3
    <3>3. status[r] \in After(d) /\ \A e \in saved \cap Answers(r) : e = d
      BY <3>2 DEF LifeInv, AnswerStands, StandsFor
    <3> QED BY <3>1, <3>2, <3>3 DEF After
  <2> QED BY <2>1, <2>2, <2>3
<1> QED BY <1>7, <1>8, <1>9, <1>10, <1>11 DEF LifeInv

LEMMA LifeStep == TypeInv /\ LifeInv /\ [Next]_vars => LifeInv'
<1> SUFFICES ASSUME TypeInv, LifeInv, [Next]_vars PROVE LifeInv'
  OBVIOUS
<1>1. CASE UNCHANGED vars
  BY <1>1 DEF vars, rows, LifeInv, OneSender, RowsWereSent, FreshCopies, OpenIsUnanswered,
              AnswerStands, StandsFor, Answers, Made, On, Waits, After
<1>2. ASSUME NEW c \in Calls, StepOf(c)
      PROVE  LifeInv'
  <2>1. ASSUME NEW r \in Requests, SendStep(c, r)
        PROVE  LifeInv'
    <3>1. Asker[r] \in Users
      BY RequestsConstants
    <3>2. /\ Fresh(r) /\ Begin(c, "send", r, Asker[r], "insert")
          /\ saved' = saved /\ status' = status /\ contended' = contended
      BY <2>1 DEF SendStep, rows
    <3> QED BY <3>1, <3>2, BeginLife DEF Ops
  <2>2. ASSUME NEW r \in Requests, NEW a \in {"accept", "decline"}, ReadPending(c, r, a)
        PROVE  LifeInv'
    <3>1. Answerer[r] \in Users
      BY RequestsConstants
    <3>2. /\ Begin(c, a, r, Answerer[r], "save") /\ status[r] = "pending"
          /\ saved' = saved /\ status' = status /\ contended \subseteq contended'
          /\ r \notin contended' => ~BeingWritten(r)
      BY <2>2 DEF ReadPending, MayAnswer, Contend, rows
    <3> QED BY <3>1, <3>2, BeginLife DEF Ops
  <2>3. ASSUME NEW r \in Requests, NEW u \in Parties(r), CompleteEngagement(c, r, u)
        PROVE  LifeInv'
    <3>1. u \in Users
      BY RequestsConstants DEF Parties
    <3>2. /\ Begin(c, "complete", r, u, "save") /\ status[r] = "accepted"
          /\ saved' = saved /\ status' = status /\ contended \subseteq contended'
          /\ r \notin contended' => ~BeingWritten(r)
      BY <2>3 DEF CompleteEngagement, Contend, rows
    <3> QED BY <3>1, <3>2, BeginLife DEF Ops
  <2>4. ASSUME NEW r \in Requests, NEW u \in Parties(r), CreateReview(c, r, u)
        PROVE  LifeInv'
    <3>1. u \in Users
      BY RequestsConstants DEF Parties
    <3>2. /\ Begin(c, "review", r, u, "insert")
          /\ saved' = saved /\ status' = status /\ contended' = contended
      BY <2>4 DEF CreateReview, rows
    <3> QED BY <3>1, <3>2, BeginLife DEF Ops
  <2>5. ASSUME NEW p \in Places, Edit(c, p) \/ Deactivate(c, p)
        PROVE  LifeInv'
    <3>1. PICK op \in {"edit", "close"} : Begin(c, op, p, None, "update")
      BY <2>5 DEF Edit, Deactivate
    <3>2. saved' = saved /\ status' = status /\ contended' = contended
      BY <2>5 DEF Edit, Deactivate, rows
    <3> QED BY <3>1, <3>2, BeginLife DEF Ops
  <2>6. CASE InsertRequest(c)
    <3>1. CASE Taken(call[c].on)
      BY <2>6, <3>1, QuietLife DEF InsertRequest
    <3> QED BY <2>6, <3>1, InsertLife
  <2>7. CASE InsertReview(c)
    BY <2>7, QuietLife DEF InsertReview, rows
  <2>8. CASE SaveStatus(c)
    BY <2>8, SaveLife
  <2>9. CASE SavePlace(c)
    BY <2>9, QuietLife DEF SavePlace, TypeInv, Planned, PlanOf
  <2>10. CASE Publish(c) \/ Die(c)
    BY <2>10, QuietLife DEF Publish, Die, rows
  <2> QED BY <1>2, <2>1, <2>2, <2>3, <2>4, <2>5, <2>6, <2>7, <2>8, <2>9, <2>10 DEF StepOf
<1> QED BY <1>1, <1>2, NextSteps

(* However many calls run, an answer stands and is the only one, unless    *)
(* two calls held a copy of the row at the same time.                      *)
THEOREM OneAnswer == Spec => []AnswerStands
<1>1. Init => TypeInv /\ LifeInv
  BY InitType, InitLife
<1>2. TypeInv /\ LifeInv /\ [Next]_vars => (TypeInv /\ LifeInv)'
  BY TypeStep, LifeStep
<1>3. TypeInv /\ LifeInv => AnswerStands
  BY DEF LifeInv
<1> QED BY <1>1, <1>2, <1>3, PTL DEF Spec

-----------------------------------------------------------------------------
(* The review gate: a status tells which calls were saved, and a call that *)
(* read it keeps what it tells.                                            *)
Was(op, r) == \E c \in saved : On(c, op, r)

GateInv ==
  \A r \in Requests :
    /\ status[r] = "accepted" => Was("accept", r)
    /\ status[r] = "completed" => Was("accept", r) /\ Was("complete", r)
    /\ \A c \in Calls : On(c, "complete", r) => Was("accept", r)
    /\ \A c \in Calls : On(c, "review", r) =>
         call[c].by \in Parties(r) /\ Was("accept", r) /\ Was("complete", r)

LEMMA InitGate == Init => GateInv
BY DEF Init, GateInv, On

(* A step that begins no call, and writes "accepted" or "completed" only   *)
(* with the call that says so.                                             *)
LEMMA ContinueGate ==
  ASSUME TypeInv', GateInv, call' = call, saved \subseteq saved',
         \A r \in Requests :
           \/ status'[r] = status[r]
           \/ status'[r] \notin {"accepted", "completed"}
           \/ status'[r] = "accepted" /\ \E c \in saved' : On(c, "accept", r)
           \/ status'[r] = "completed" /\ \E c \in saved' : On(c, "complete", r)
  PROVE  GateInv'
<1>1. saved' \subseteq Calls
  BY DEF TypeInv, TypeOK
<1>2. \A c : \A o, r : On(c, o, r)' <=> On(c, o, r)
  BY DEF On
<1>3. \A o, r : Was(o, r) => Was(o, r)'
  BY <1>2 DEF Was
<1>4. \A r \in Requests : (\E c \in saved' : On(c, "complete", r)) => Was("accept", r)
  BY <1>1 DEF GateInv
<1>5. \A r \in Requests :
        /\ status'[r] = "accepted" => Was("accept", r)'
        /\ status'[r] = "completed" => Was("accept", r)' /\ Was("complete", r)'
  BY <1>2, <1>3, <1>4 DEF GateInv, Was
<1> QED BY <1>2, <1>3, <1>5 DEF GateInv

LEMMA GateStep == TypeInv /\ TypeInv' /\ GateInv /\ [Next]_vars => GateInv'
<1> SUFFICES ASSUME TypeInv, TypeInv', GateInv, [Next]_vars PROVE GateInv'
  OBVIOUS
<1>1. CASE UNCHANGED vars
  BY <1>1, ContinueGate DEF vars, rows
<1>2. ASSUME NEW c \in Calls, StepOf(c)
      PROVE  GateInv'
  <2>1. ASSUME NEW op \in Ops, NEW on \in Requests \cup Places, NEW by \in Users \cup {None},
               NEW s \in {"insert", "save", "update"},
               Begin(c, op, on, by, s), saved' = saved, status' = status,
               op = "complete" => Was("accept", on),
               op = "review" => by \in Parties(on) /\ Was("accept", on) /\ Was("complete", on)
        PROVE  GateInv'
    <3>1. /\ c \notin saved
          /\ \A o, r : On(c, o, r)' <=> o = op /\ r = on
          /\ \A d \in Calls \ {c} : \A o, r : On(d, o, r)' <=> On(d, o, r)
          /\ call'[c].by = by
          /\ \A d \in Calls \ {c} : call'[d] = call[d]
      BY <2>1, BeginMade
    <3>2. \A o, r : Was(o, r) => Was(o, r)'
      BY <2>1, <3>1 DEF Was, TypeInv, TypeOK
    <3> QED BY <2>1, <3>1, <3>2 DEF GateInv
  <2>2. ASSUME NEW r \in Requests, SendStep(c, r)
        PROVE  GateInv'
    <3>1. Asker[r] \in Users
      BY RequestsConstants
    <3>2. Begin(c, "send", r, Asker[r], "insert") /\ saved' = saved /\ status' = status
      BY <2>2 DEF SendStep, rows
    <3> QED BY <2>1, <3>1, <3>2 DEF Ops
  <2>3. ASSUME NEW r \in Requests, NEW a \in {"accept", "decline"}, ReadPending(c, r, a)
        PROVE  GateInv'
    <3>1. Answerer[r] \in Users
      BY RequestsConstants
    <3>2. Begin(c, a, r, Answerer[r], "save") /\ saved' = saved /\ status' = status
      BY <2>3 DEF ReadPending, rows
    <3> QED BY <2>1, <3>1, <3>2 DEF Ops
  <2>4. ASSUME NEW r \in Requests, NEW u \in Parties(r), CompleteEngagement(c, r, u)
        PROVE  GateInv'
    <3>1. u \in Users
      BY RequestsConstants DEF Parties
    <3>2. /\ Begin(c, "complete", r, u, "save") /\ saved' = saved /\ status' = status
          /\ Was("accept", r)
      BY <2>4 DEF CompleteEngagement, rows, GateInv
    <3> QED BY <2>1, <3>1, <3>2 DEF Ops
  <2>5. ASSUME NEW r \in Requests, NEW u \in Parties(r), CreateReview(c, r, u)
        PROVE  GateInv'
    <3>1. u \in Users
      BY RequestsConstants DEF Parties
    <3>2. /\ Begin(c, "review", r, u, "insert") /\ saved' = saved /\ status' = status
          /\ Was("accept", r) /\ Was("complete", r)
      BY <2>5 DEF CreateReview, Completed, rows, GateInv
    <3> QED BY <2>1, <3>1, <3>2 DEF Ops
  <2>6. ASSUME NEW p \in Places, Edit(c, p) \/ Deactivate(c, p)
        PROVE  GateInv'
    <3>1. PICK op \in {"edit", "close"} : Begin(c, op, p, None, "update")
      BY <2>6 DEF Edit, Deactivate
    <3>2. saved' = saved /\ status' = status
      BY <2>6 DEF Edit, Deactivate, rows
    <3> QED BY <2>1, <3>1, <3>2 DEF Ops
  <2>7. CASE InsertRequest(c)
    <3>1. call' = call /\ saved \subseteq saved'
      BY <2>7 DEF InsertRequest
    <3>2. \A r \in Requests : status'[r] \in {status[r], "pending"}
      BY <2>7 DEF InsertRequest, TypeInv, TypeOK
    <3> QED BY <3>1, <3>2, ContinueGate
  <2>8. CASE SaveStatus(c)
    <3>1. call' = call /\ saved' = saved \cup {c} /\ call[c] # None
      BY <2>8 DEF SaveStatus, TypeInv, TypeOK
    <3>2. \A r \in Requests :
            \/ status'[r] = status[r]
            \/ r = call[c].on /\ status'[r] = Written(call[c].op)
      BY <2>8 DEF SaveStatus, TypeInv, TypeOK
    <3>3. call[c].op \in {"accept", "decline", "complete"}
      BY <2>8 DEF SaveStatus, TypeInv, Planned, PlanOf
    <3>4. ASSUME NEW r \in Requests, r = call[c].on, status'[r] = Written(call[c].op)
          PROVE  \/ status'[r] \notin {"accepted", "completed"}
                 \/ status'[r] = "accepted" /\ On(c, "accept", r)
                 \/ status'[r] = "completed" /\ On(c, "complete", r)
      BY <3>1, <3>3, <3>4 DEF Written, On
    <3> QED BY <3>1, <3>2, <3>4, ContinueGate
  <2>9. CASE InsertReview(c) \/ SavePlace(c) \/ Publish(c) \/ Die(c)
    BY <2>9, ContinueGate DEF InsertReview, SavePlace, Publish, Die, rows
  <2> QED BY <1>2, <2>2, <2>3, <2>4, <2>5, <2>6, <2>7, <2>8, <2>9 DEF StepOf
<1> QED BY <1>1, <1>2, NextSteps

(* Every review was written by a party of an engagement that had been      *)
(* accepted and completed, even if calls overlapped.                       *)
THEOREM ReviewsAreGated == Spec => []ReviewGate
<1>1. Init => TypeInv /\ GateInv
  BY InitType, InitGate
<1>2. TypeInv /\ GateInv /\ [Next]_vars => (TypeInv /\ GateInv)'
  BY TypeStep, GateStep
<1>3. TypeInv /\ GateInv => ReviewGate
  BY DEF GateInv, ReviewGate, Was, Made, TypeInv, TypeOK
<1> QED BY <1>1, <1>2, <1>3, PTL DEF Spec

(* A call that takes a listing or band down writes FALSE. *)
CloseInv == \A c \in Calls : call[c] # None /\ call[c].op = "close" => copy[c] = FALSE

LEMMA CloseStep == TypeInv /\ CloseInv /\ [Next]_vars => CloseInv' /\ open' \subseteq open
<1> SUFFICES ASSUME TypeInv, CloseInv, [Next]_vars PROVE CloseInv' /\ open' \subseteq open
  OBVIOUS
<1>1. CASE UNCHANGED vars
  BY <1>1 DEF vars, rows, CloseInv
<1>2. ASSUME NEW c \in Calls, StepOf(c)
      PROVE  CloseInv' /\ open' \subseteq open
  <2>1. ASSUME NEW op \in Ops, NEW on \in Requests \cup Places, NEW by \in Users \cup {None},
               NEW s \in {"insert", "save", "update"},
               Begin(c, op, on, by, s), saved' = saved,
               \A d \in Calls \ {c} : copy'[d] = copy[d],
               op = "close" => copy'[c] = FALSE
        PROVE  CloseInv'
    <3>1. call'[c].op = op /\ \A d \in Calls \ {c} : call'[d] = call[d]
      BY <2>1, BeginMade
    <3> QED BY <2>1, <3>1 DEF CloseInv
  <2>2. ASSUME NEW r \in Requests, SendStep(c, r)
        PROVE  CloseInv' /\ open' \subseteq open
    <3>1. Asker[r] \in Users
      BY RequestsConstants
    <3>2. /\ Begin(c, "send", r, Asker[r], "insert")
          /\ saved' = saved /\ copy' = copy /\ open' = open
      BY <2>2 DEF SendStep, rows
    <3> QED BY <2>1, <3>1, <3>2 DEF Ops
  <2>3. ASSUME NEW r \in Requests, NEW a \in {"accept", "decline"}, ReadPending(c, r, a)
        PROVE  CloseInv' /\ open' \subseteq open
    <3>1. Answerer[r] \in Users
      BY RequestsConstants
    <3>2. /\ Begin(c, a, r, Answerer[r], "save")
          /\ saved' = saved /\ copy' = copy /\ open' = open
      BY <2>3 DEF ReadPending, rows
    <3> QED BY <2>1, <3>1, <3>2 DEF Ops
  <2>4. ASSUME NEW r \in Requests, NEW u \in Parties(r),
               CompleteEngagement(c, r, u) \/ CreateReview(c, r, u)
        PROVE  CloseInv' /\ open' \subseteq open
    <3>1. u \in Users
      BY RequestsConstants DEF Parties
    <3>2. \/ Begin(c, "complete", r, u, "save")
          \/ Begin(c, "review", r, u, "insert")
      BY <2>4 DEF CompleteEngagement, CreateReview
    <3>3. saved' = saved /\ copy' = copy /\ open' = open
      BY <2>4 DEF CompleteEngagement, CreateReview, rows
    <3> QED BY <2>1, <3>1, <3>2, <3>3 DEF Ops
  <2>5. ASSUME NEW p \in Places, Edit(c, p)
        PROVE  CloseInv' /\ open' \subseteq open
    <3>1. /\ Begin(c, "edit", p, None, "update")
          /\ saved' = saved /\ copy' = [copy EXCEPT ![c] = TRUE] /\ open' = open
      BY <2>5 DEF Edit, rows
    <3>2. \A d \in Calls \ {c} : copy'[d] = copy[d]
      BY <3>1 DEF TypeInv, TypeOK
    <3> QED BY <2>1, <3>1, <3>2 DEF Ops
  <2>6. ASSUME NEW p \in Places, Deactivate(c, p)
        PROVE  CloseInv' /\ open' \subseteq open
    <3>1. /\ Begin(c, "close", p, None, "update")
          /\ saved' = saved /\ copy' = [copy EXCEPT ![c] = FALSE] /\ open' = open
      BY <2>6 DEF Deactivate, rows
    <3>2. copy'[c] = FALSE /\ \A d \in Calls \ {c} : copy'[d] = copy[d]
      BY <3>1 DEF TypeInv, TypeOK
    <3> QED BY <2>1, <3>1, <3>2 DEF Ops
  <2>7. CASE SavePlace(c)
    <3>1. call[c] # None /\ call' = call /\ copy' = copy
      BY <2>7 DEF SavePlace, TypeInv, TypeOK
    <3>2. "is_active" \in UpdateFields(c) => call[c].op = "close"
      BY DEF UpdateFields
    <3>3. "is_active" \in UpdateFields(c) => ~copy[c]
      BY <3>1, <3>2 DEF CloseInv
    <3>4. open' \subseteq open
      BY <2>7, <3>3 DEF SavePlace
    <3> QED BY <3>1, <3>4 DEF CloseInv
  <2>8. CASE InsertRequest(c) \/ InsertReview(c) \/ SaveStatus(c) \/ Publish(c) \/ Die(c)
    BY <2>8 DEF InsertRequest, InsertReview, SaveStatus, Publish, Die, rows, CloseInv
  <2> QED BY <1>2, <2>2, <2>3, <2>4, <2>5, <2>6, <2>7, <2>8 DEF StepOf
<1> QED BY <1>1, <1>2, NextSteps

(* No edit that was read before a listing or band was taken down brings it *)
(* back.                                                                   *)
THEOREM TakenDownForGood == Spec => ClosedForGood
<1>1. Init => TypeInv /\ CloseInv
  BY InitType DEF Init, CloseInv
<1>2. TypeInv /\ CloseInv /\ [Next]_vars => (TypeInv /\ CloseInv)'
  BY TypeStep, CloseStep
<1>3. TypeInv /\ CloseInv /\ [Next]_vars => [open' \subseteq open]_vars
  BY CloseStep
<1> QED BY <1>1, <1>2, <1>3, PTL DEF Spec, ClosedForGood

-----------------------------------------------------------------------------
(* A call that begins only reads, and what it is to answer exists. *)
Begins(c, op, on, by, s) ==
  /\ Begin(c, op, on, by, s)
  /\ UNCHANGED <<status, saved, published, dead>>
  /\ s = "save" => status[on] # "none"
  /\ s = "insert" => on \in Requests

LEMMA StepKinds ==
  ASSUME NEW c \in Calls, StepOf(c)
  PROVE  \/ \E op \in Ops, on \in Requests \cup Places, by \in Users \cup {None},
               s \in {"insert", "save", "update"} : Begins(c, op, on, by, s)
         \/ InsertRequest(c) \/ InsertReview(c) \/ SaveStatus(c) \/ SavePlace(c)
         \/ Publish(c) \/ Die(c)
<1> USE DEF Begins, Ops, rows
<1>1. ASSUME NEW r \in Requests
      PROVE  Asker[r] \in Users /\ Answerer[r] \in Users /\ Parties(r) \subseteq Users
  BY RequestsConstants DEF Parties
<1>2. ASSUME NEW r \in Requests, SendStep(c, r)
      PROVE  Begins(c, "send", r, Asker[r], "insert")
  BY <1>2 DEF SendStep
<1>3. ASSUME NEW r \in Requests, NEW a \in {"accept", "decline"}, ReadPending(c, r, a)
      PROVE  Begins(c, a, r, Answerer[r], "save")
  BY <1>3 DEF ReadPending, MayAnswer
<1>4. ASSUME NEW r \in Requests, NEW u \in Parties(r), CompleteEngagement(c, r, u)
      PROVE  Begins(c, "complete", r, u, "save")
  BY <1>4 DEF CompleteEngagement
<1>5. ASSUME NEW r \in Requests, NEW u \in Parties(r), CreateReview(c, r, u)
      PROVE  Begins(c, "review", r, u, "insert")
  BY <1>5 DEF CreateReview
<1>6. ASSUME NEW p \in Places, Edit(c, p) \/ Deactivate(c, p)
      PROVE  Begins(c, "edit", p, None, "update") \/ Begins(c, "close", p, None, "update")
  BY <1>6 DEF Edit, Deactivate
<1> HIDE DEF Begins
<1> QED BY <1>1, <1>2, <1>3, <1>4, <1>5, <1>6 DEF StepOf

(* Duplicates.  A row is never taken back, so who finds its key free       *)
(* inserts the only one.                                                   *)
UniqueInv ==
  /\ NoDuplicates
  /\ \A c \in Calls, r \in Requests : Waits(c, r) => status[r] # "none"

LEMMA SameRowIsSymmetric ==
  ASSUME NEW r \in Requests, NEW q \in Requests, SameRow(r, q)
  PROVE  SameRow(q, r)
BY DEF SameRow, Placed

LEMMA UniqueStep == TypeInv /\ UniqueInv /\ [Next]_vars => UniqueInv'
<1> SUFFICES ASSUME TypeInv, UniqueInv, [Next]_vars PROVE UniqueInv'
  OBVIOUS
<1> USE DEF UniqueInv, NoDuplicates
<1>1. ASSUME UNCHANGED <<call, saved>>,
             \A r \in Requests : (status'[r] = "none") <=> (status[r] = "none"),
             \A d \in Calls, r \in Requests : Waits(d, r)' => Waits(d, r)
      PROVE  UniqueInv'
  BY <1>1 DEF On
<1>2. CASE UNCHANGED vars
  BY <1>1, <1>2 DEF vars, rows, Waits
<1>3. ASSUME NEW c \in Calls, StepOf(c)
      PROVE  UniqueInv'
  <2>1. ASSUME NEW op \in Ops, NEW on \in Requests \cup Places, NEW by \in Users \cup {None},
               NEW s \in {"insert", "save", "update"}, Begins(c, op, on, by, s)
        PROVE  UniqueInv'
    <3>1. /\ c \notin saved /\ saved \subseteq Calls
          /\ \A d \in Calls \ {c} : \A o, r : On(d, o, r)' <=> On(d, o, r)
          /\ \A d \in Calls \ {c} : call'[d] = call[d]
          /\ \A d \in Calls \ {c} : \A r : Waits(d, r)' <=> Waits(d, r)
          /\ \A r : Waits(c, r)' <=> s = "save" /\ r = on
      BY <2>1, BeginMade DEF Begins, TypeInv, TypeOK
    <3>2. UNCHANGED <<status, saved>> /\ (s = "save" => status[on] # "none")
      BY <2>1 DEF Begins
    <3> QED BY <3>1, <3>2
  <2>2. CASE InsertRequest(c)
    <3> DEFINE r == call[c].on
    <3>1. /\ r \in Requests /\ call[c].op = "send"
          /\ UNCHANGED call /\ saved' \subseteq saved \cup {c} /\ saved \subseteq Calls
          /\ \A d \in Calls : \A q : Waits(d, q)' => Waits(d, q)
      BY <2>2 DEF InsertRequest, Goto, Waits, TypeInv, TypeOK, Planned, PlanOf
    <3>2. \A d, e \in saved', q \in Requests :
            On(d, "review", q) /\ On(e, "review", q) /\ call[d].by = call[e].by => d = e
      BY <3>1 DEF On
    <3>3. CASE status' = status
      BY <3>1, <3>2, <3>3 DEF On
    <3>4. CASE ~Taken(r) /\ status' = [status EXCEPT ![r] = "pending"]
      <4>1. \A q \in Requests : SameRow(r, q) \/ SameRow(q, r) => status[q] = "none"
        BY <3>1, <3>4, SameRowIsSymmetric DEF Taken
      <4>2. /\ \A q \in Requests \ {r} : status'[q] = status[q]
            /\ status'[r] # "none"
        BY <3>1, <3>4 DEF TypeInv, TypeOK
      <4> HIDE DEF r
      <4> QED BY <3>1, <3>2, <4>1, <4>2 DEF On
    <3> QED BY <2>2, <3>3, <3>4 DEF InsertRequest
  <2>3. CASE InsertReview(c)
    <3>1. /\ UNCHANGED <<status, call>> /\ saved \subseteq Calls
          /\ saved' = saved \/ (~Reviewed(call[c].by, call[c].on) /\ saved' = saved \cup {c})
          /\ \A d \in Calls : \A q : Waits(d, q)' => Waits(d, q)
      BY <2>3 DEF InsertReview, rows, Goto, Waits, TypeInv, TypeOK
    <3>2. \A d, e \in saved', q \in Requests :
            On(d, "review", q) /\ On(e, "review", q) /\ call[d].by = call[e].by => d = e
      BY <3>1 DEF On, Reviewed
    <3> QED BY <3>1, <3>2 DEF On
  <2>4. CASE SaveStatus(c)
    <3> DEFINE r == call[c].on
    <3>1. /\ r \in Requests /\ call[c].op \in {"accept", "decline", "complete"}
          /\ UNCHANGED call /\ saved' = saved \cup {c}
          /\ status' = [status EXCEPT ![r] = Written(call[c].op)]
          /\ \A d \in Calls : \A q : Waits(d, q)' => Waits(d, q)
          /\ Waits(c, r)
      BY <2>4 DEF SaveStatus, Goto, Waits, TypeInv, TypeOK, Planned, PlanOf
    <3>2. status[r] # "none" /\ status'[r] # "none"
      BY <3>1 DEF Written, TypeInv, TypeOK
    <3>3. \A q \in Requests : (status'[q] = "none") <=> (status[q] = "none")
      BY <3>1, <3>2 DEF TypeInv, TypeOK
    <3>4. \A d, e \in saved', q \in Requests :
            On(d, "review", q) /\ On(e, "review", q) /\ call[d].by = call[e].by => d = e
      BY <3>1 DEF On
    <3> QED BY <3>1, <3>3, <3>4 DEF On
  <2>5. CASE SavePlace(c)
    <3>1. /\ call[c].op \in {"edit", "close"} /\ UNCHANGED <<call, status>>
          /\ saved' = saved \cup {c}
          /\ \A d \in Calls : \A q : Waits(d, q)' => Waits(d, q)
      BY <2>5 DEF SavePlace, Goto, Waits, TypeInv, TypeOK, Planned, PlanOf
    <3>2. \A d, e \in saved', q \in Requests :
            On(d, "review", q) /\ On(e, "review", q) /\ call[d].by = call[e].by => d = e
      BY <3>1 DEF On
    <3> QED BY <3>1, <3>2 DEF On
  <2>6. CASE Publish(c) \/ Die(c)
    BY <1>1, <2>6 DEF Publish, Die, rows, Goto, Waits, TypeInv, TypeOK
  <2> QED BY <1>3, <2>1, <2>2, <2>3, <2>4, <2>5, <2>6, StepKinds
<1> QED BY <1>2, <1>3, NextSteps

(* One request per key and one review per author and engagement, although  *)
(* every check and its INSERT are statements of different transactions.    *)
THEOREM DuplicatesRefused == Spec => []NoDuplicates
<1>1. Init => TypeInv /\ UniqueInv
  BY InitType DEF Init, UniqueInv, NoDuplicates, Waits
<1>2. TypeInv /\ UniqueInv /\ [Next]_vars => (TypeInv /\ UniqueInv)'
  BY TypeStep, UniqueStep
<1>3. UniqueInv => NoDuplicates
  BY DEF UniqueInv
<1> QED BY <1>1, <1>2, <1>3, PTL DEF Spec

-----------------------------------------------------------------------------
(* The notice.  A decline is never announced; an acceptance that was       *)
(* written is announced, unless its call dies first.                       *)
TellInv ==
  \A c \in Calls : call[c] # None =>
    /\ call[c].op = "decline" => c \notin published /\ pc[c] # "publish"
    /\ call[c].op = "accept" /\ c \in saved => pc[c] = "publish" \/ c \in published \cup dead

LEMMA TellStep == TypeInv /\ TellInv /\ [Next]_vars => TellInv'
<1> SUFFICES ASSUME TypeInv, TellInv, [Next]_vars PROVE TellInv'
  OBVIOUS
<1> USE DEF TellInv
<1>1. CASE UNCHANGED vars
  BY <1>1 DEF vars, rows
<1>2. ASSUME NEW c \in Calls, StepOf(c)
      PROVE  TellInv'
  <2>1. ASSUME NEW op \in Ops, NEW on \in Requests \cup Places, NEW by \in Users \cup {None},
               NEW s \in {"insert", "save", "update"}, Begins(c, op, on, by, s)
        PROVE  TellInv'
    <3>1. /\ pc'[c] = s /\ c \notin saved
          /\ \A d \in Calls \ {c} : call'[d] = call[d] /\ pc'[d] = pc[d]
      BY <2>1, BeginType DEF Begins
    <3>2. UNCHANGED <<saved, published, dead>> /\ published \subseteq saved
      BY <2>1 DEF Begins, TypeInv, TypeOK
    <3> QED BY <3>1, <3>2
  <2>2. CASE InsertRequest(c) \/ InsertReview(c) \/ SavePlace(c)
    <3>1. /\ call[c].op \notin {"accept", "decline"}
          /\ UNCHANGED <<call, published, dead>>
          /\ saved' \subseteq saved \cup {c}
          /\ \A d \in Calls \ {c} : pc'[d] = pc[d]
      BY <2>2 DEF InsertRequest, InsertReview, SavePlace, Goto, TypeInv, TypeOK, Planned, PlanOf
    <3> QED BY <3>1
  <2>3. CASE SaveStatus(c)
    <3>1. /\ pc[c] = "save" /\ UNCHANGED <<call, published, dead>>
          /\ saved' = saved \cup {c}
          /\ pc'[c] = IF call[c].op = "accept" THEN "publish" ELSE "done"
          /\ \A d \in Calls \ {c} : pc'[d] = pc[d]
      BY <2>3 DEF SaveStatus, Announced, Goto, TypeInv, TypeOK
    <3> QED BY <3>1
  <2>4. CASE Publish(c) \/ Die(c)
    BY <2>4 DEF Publish, Die, rows, Goto, TypeInv, TypeOK
  <2> QED BY <1>2, <2>1, <2>2, <2>3, <2>4, StepKinds
<1> QED BY <1>1, <1>2, NextSteps

(* However the calls run, an asker whose row was not contended hears of an *)
(* acceptance once, never of a decline, and hears nothing only when the    *)
(* call that accepted died before publish().                               *)
THEOREM AskersAreTold == Spec => []AskerIsTold
<1>1. Init => TypeInv /\ LifeInv /\ GateInv /\ TellInv
  BY InitType, InitLife, InitGate DEF Init, TellInv
<1>2. /\ TypeInv /\ LifeInv /\ GateInv /\ TellInv /\ TypeInv'
      /\ [Next]_vars
      => (LifeInv /\ GateInv /\ TellInv)'
  BY LifeStep, GateStep, TellStep
<1>3. TypeInv /\ LifeInv /\ GateInv /\ TellInv => AskerIsTold
  <2> SUFFICES ASSUME TypeInv, LifeInv, GateInv, TellInv, NEW r \in Requests \ contended
               PROVE  /\ Notices(r) # {} => status[r] \in {"accepted", "completed"}
                      /\ \A c, d \in Notices(r) : c = d
                      /\ /\ \A c \in Answers(r) : pc[c] = "done" /\ c \notin dead
                         /\ status[r] \in {"accepted", "completed"}
                         => Notices(r) # {}
    BY DEF AskerIsTold
  <2>1. /\ Notices(r) \subseteq saved \cap Answers(r) /\ Notices(r) \subseteq Calls
        /\ StandsFor(r)
    BY DEF Notices, TypeInv, TypeOK, LifeInv, AnswerStands
  <2>2. ASSUME NEW c \in Notices(r)
        PROVE  status[r] \in {"accepted", "completed"}
    <3>1. call[c] # None /\ call[c].op \in {"accept", "decline"} /\ c \in published
      BY <2>1 DEF Notices, Answers, Made, On
    <3>2. call[c].op = "accept"
      BY <2>1, <3>1 DEF TellInv
    <3> QED BY <2>1, <3>2 DEF StandsFor, After
  <2>3. ASSUME NEW c \in Notices(r), NEW d \in Notices(r)
        PROVE  c = d
    BY <2>1 DEF StandsFor
  <2>4. ASSUME \A c \in Answers(r) : pc[c] = "done" /\ c \notin dead,
               status[r] \in {"accepted", "completed"}
        PROVE  Notices(r) # {}
    <3>1. PICK c \in saved : On(c, "accept", r)
      BY <2>4 DEF GateInv, Was
    <3>2. c \in Calls /\ c \in Answers(r)
      BY <3>1 DEF TypeInv, TypeOK, Answers, Made
    <3>3. c \in published
      BY <2>4, <3>1, <3>2 DEF TellInv, On
    <3> QED BY <3>2, <3>3 DEF Notices
  <2> QED BY <2>2, <2>3, <2>4
<1> QED BY <1>1, <1>2, <1>3, TypeStep, PTL DEF Spec
=============================================================================
