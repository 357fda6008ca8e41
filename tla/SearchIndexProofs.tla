------------------------- MODULE SearchIndexProofs --------------------------
(* The safety of the mapping, of the prune and of the columns of a         *)
(* profile, for any number of profiles, requests, consumers and faults.    *)
EXTENDS SearchIndex, TLAPS

(* An event is handled by one consumer, and its call is remembered until   *)
(* it has been.                                                            *)
EventInv ==
  /\ \A c \in published : pc[c] = "done"
  /\ \A c \in Outstanding : call[c] # None
  /\ \A w \in Indexers : got[w] # None => got[w] \in Outstanding
  /\ \A v, w \in Indexers : got[v] = got[w] /\ got[v] # None => v = w

(* The rebuild writes what its query returned. *)
SnapInv == \A p \in todo : snap[p] # None

Typed == TypeOK /\ EventInv /\ SnapInv

-----------------------------------------------------------------------------
(* Types of the request steps.                                             *)

LEMMA FirstSteps ==
  ASSUME NEW d
  PROVE  FirstStep(d) \in {"row", "clear", "look", "build"}
BY DEF FirstStep, AfterRow, AfterInstruments

LEMMA NextSteps ==
  ASSUME NEW d
  PROVE  AfterRow(d) \in {"clear", "look", "build"} /\ AfterInstruments(d) \in {"look", "build"}
BY DEF AfterRow, AfterInstruments

LEMMA BlankContent == Blank \in Content
BY DEF Blank, Content

(* What a request does to its own entries, to its profile and to the       *)
(* outbox; whatever it does, the other requests are left alone.            *)
OwnChanges(c) ==
  /\ ProfilesTypeOK'
  /\ \A d \in Calls \ {c} : call'[d] = call[d] /\ pc'[d] = pc[d] /\ mem'[d] = mem[d]
  /\ c \notin published /\ published \subseteq published' /\ published' \subseteq published \cup {c}
  /\ c \in published' => pc'[c] = "done" /\ pc[c] = "publish" /\ call'[c] = call[c]
  /\ \A p \in Profiles : row'[p] # row[p] =>
       row'[p] = "live" /\ c \in On(p) /\ pc[c] = "row" /\ pc'[c] # "row"
  /\ \A p \in Profiles : content'[p] # content[p] => c \in On(p) /\ Active(c)

LEMMA BeginTypes ==
  ASSUME Typed, NEW c \in Calls, Begin(c)
  PROVE  OwnChanges(c)
<1> USE DEF Typed, TypeOK, ProfilesTypeOK, OwnChanges
<1>1. PICK p \in Profiles, d \in Payloads : Load(c, p, d) \/ CreateProfile(c, p, d)
  BY DEF Begin
<1>2. d \in Data
  BY ProfilesConstants
<1>3. CASE Load(c, p, d)
  <2>1. [op |-> "update", on |-> p, data |-> d] \in Request
    BY <1>2 DEF Request
  <2> DEFINE named  == [f \in Fields |-> IF f \in d.names THEN c ELSE content[p].cols[f]]
             loaded == [content[p] EXCEPT
                !.cols = [f \in Fields |-> IF f \in d.names THEN c ELSE @[f]]]
  <2>2. loaded \in Content
    <3>1. content[p] \in Content /\ content[p].cols \in [Fields -> Calls \cup {None}]
      BY DEF Content
    <3>2. named \in [Fields -> Calls \cup {None}]
      BY <3>1
    <3>3. loaded = [content[p] EXCEPT !.cols = named]
      OBVIOUS
    <3> HIDE DEF named, loaded
    <3> QED BY <3>1, <3>2, <3>3 DEF Content
  <2>3. /\ call' = [call EXCEPT ![c] = [op |-> "update", on |-> p, data |-> d]]
        /\ mem' = [mem EXCEPT ![c] = loaded]
        /\ pc[c] = "idle" /\ pc' = [pc EXCEPT ![c] = FirstStep(d)]
        /\ UNCHANGED <<row, owners, content, had, published>>
    BY <1>3 DEF Load, Goto
  <2> HIDE DEF loaded
  <2>5. FirstStep(d) \in {"row", "clear", "look", "build"}
    BY FirstSteps
  <2>6. ProfilesTypeOK'
    BY <2>1, <2>2, <2>3, <2>5, ProfilesConstants DEF Steps
  <2>7. c \notin published
    BY <2>3 DEF EventInv
  <2> QED BY <2>3, <2>6, <2>7
<1>4. CASE CreateProfile(c, p, d)
  <2> DEFINE all == [d EXCEPT !.names = Fields \cup Relations]
  <2>1. [op |-> "create", on |-> p, data |-> all] \in Request
    BY <1>2 DEF Request, Data
  <2>2. [Blank EXCEPT !.cols = [f \in Fields |-> c]] \in Content
    BY DEF Content, Blank
  <2> HIDE DEF all
  <2> QED BY <1>4, <2>1, <2>2, ProfilesConstants DEF CreateProfile, Goto, Steps, EventInv, all
<1> QED BY <1>1, <1>3, <1>4

LEMMA AbandonTypes ==
  ASSUME Typed, NEW c \in Calls, Active(c), Abandon(c)
  PROVE  OwnChanges(c)
BY BlankContent DEF Typed, TypeOK, ProfilesTypeOK, OwnChanges, Active, Abandon, Goto, Steps, EventInv

LEMMA StoreTypes ==
  ASSUME ProfilesTypeOK, NEW c \in Calls, call[c] # None, NEW new \in Content, Store(c, new)
  PROVE  /\ content' \in [Profiles -> Content]
         /\ \A p \in Profiles : content'[p] # content[p] => c \in On(p)
BY DEF ProfilesTypeOK, Store, Request, On

LEMMA ContinueTypes ==
  ASSUME Typed, NEW c \in Calls, Continue(c)
  PROVE  OwnChanges(c)
<1> USE DEF Typed, TypeOK, ProfilesTypeOK
<1> DEFINE p == call[c].on
<1>1. Active(c)
  BY DEF Continue, Active, WriteRow, RowRefused, ClearInstruments, FillInstruments,
         InstrumentsRefused, LookAtGenres, SetGenres, GenresRefused, BuildPayload, Publish
<1>2. call[c] \in Request /\ call[c] # None /\ c \notin published
  BY <1>1 DEF Active, EventInv
<1>3. p \in Profiles /\ content[p] \in Content /\ mem[c] \in Content
      /\ call[c].data.ins \subseteq Instruments /\ call[c].data.gen \subseteq Genres
  BY <1>2 DEF Request, Data
<1>4. CASE WriteRow(c)
  <2>1. [content[p] EXCEPT !.cols = SavedColumns(c)] \in Content
    BY <1>3 DEF Content, SavedColumns
  <2>2. /\ content' \in [Profiles -> Content]
        /\ \A q \in Profiles : content'[q] # content[q] => c \in On(q)
    BY <1>2, <1>4, <2>1, StoreTypes DEF WriteRow
  <2>3. /\ row' = [row EXCEPT ![p] = "live"]
        /\ pc[c] = "row" /\ pc' = [pc EXCEPT ![c] = AfterRow(call[c].data)]
        /\ UNCHANGED <<owners, call, mem, had, published>>
    BY <1>4 DEF WriteRow, Goto
  <2>4. AfterRow(call[c].data) \in {"clear", "look", "build"}
    BY NextSteps
  <2>5. ProfilesTypeOK'
    BY <1>2, <1>3, <2>2, <2>3, <2>4 DEF Steps
  <2> QED BY <1>1, <1>2, <1>3, <2>2, <2>3, <2>4, <2>5 DEF OwnChanges, On
<1>5. CASE ClearInstruments(c)
  <2>1. [content[p] EXCEPT !.ins = {}] \in Content
    BY <1>3 DEF Content
  <2>2. /\ content' \in [Profiles -> Content]
        /\ \A q \in Profiles : content'[q] # content[q] => c \in On(q)
    BY <1>2, <1>5, <2>1, StoreTypes DEF ClearInstruments
  <2> QED BY <1>1, <1>2, <1>5, <2>2 DEF ClearInstruments, OwnChanges, Goto, Steps
<1>6. CASE FillInstruments(c)
  <2>1. [content[p] EXCEPT !.ins = @ \cup call[c].data.ins] \in Content
    BY <1>3 DEF Content
  <2>2. /\ content' \in [Profiles -> Content]
        /\ \A q \in Profiles : content'[q] # content[q] => c \in On(q)
    BY <1>2, <1>6, <2>1, StoreTypes DEF FillInstruments
  <2> QED BY <1>1, <1>2, <1>6, <2>2, NextSteps DEF FillInstruments, OwnChanges, Goto, Steps
<1>7. CASE LookAtGenres(c)
  <2>1. content[p].gen \subseteq Genres
    BY <1>3 DEF Content
  <2> QED BY <1>1, <1>2, <1>7, <2>1 DEF LookAtGenres, OwnChanges, Goto, Steps
<1>8. CASE SetGenres(c)
  <2>1. [content[p] EXCEPT !.gen = (@ \ Dropped(c)) \cup Added(c)] \in Content
    BY <1>3 DEF Content, Added
  <2>2. /\ content' \in [Profiles -> Content]
        /\ \A q \in Profiles : content'[q] # content[q] => c \in On(q)
    BY <1>2, <1>8, <2>1, StoreTypes DEF SetGenres
  <2> QED BY <1>1, <1>2, <1>8, <2>2 DEF SetGenres, OwnChanges, Goto, Steps
<1>9. CASE BuildPayload(c)
  <2>1. Payload(c, p) \in Content
    BY <1>3 DEF Payload, Content
  <2> QED BY <1>1, <1>2, <1>9, <2>1 DEF BuildPayload, OwnChanges, Goto, Steps
<1>10. CASE Publish(c)
  BY <1>1, <1>2, <1>10 DEF Publish, OwnChanges, Goto, Steps
<1>11. CASE RowRefused(c) \/ InstrumentsRefused(c) \/ GenresRefused(c)
  BY <1>1, <1>11, AbandonTypes DEF RowRefused, InstrumentsRefused, GenresRefused
<1> QED BY <1>4, <1>5, <1>6, <1>7, <1>8, <1>9, <1>10, <1>11 DEF Continue

-----------------------------------------------------------------------------
(* Types of every step.                                                    *)

LEMMA FaultTypes ==
  ASSUME faults \in 0 .. MaxFaults, Fault \/ UNCHANGED faults
  PROVE  faults' \in 0 .. MaxFaults
BY SearchConstants DEF Fault

LEMMA NotedTypes ==
  ASSUME Typed, Noted, ProfilesTypeOK', published \subseteq published',
         Fault \/ UNCHANGED faults
  PROVE  TypeOK' /\ SnapInv'
<1> USE DEF Typed, TypeOK
<1>1. UNCHANGED <<settled, index, doc, stale, got, step, tardy, todo, snap, batch, at, hits,
                  pruned, slipped>>
  BY DEF Noted, indexVars, rebuildVars
<1>2. excused' \subseteq Profiles /\ shared' \subseteq Profiles /\ overtaken' \subseteq Profiles
      /\ calm' \in BOOLEAN
  BY DEF Noted, Crowded
<1>3. faults' \in 0 .. MaxFaults
  BY FaultTypes
<1> QED BY <1>1, <1>2, <1>3 DEF SnapInv

LEMMA RequestTypes ==
  ASSUME Typed, NEW c \in Calls, ByRequest(c) \/ RequestDies(c)
  PROVE  Typed' /\ OwnChanges(c) /\ Noted
<1>1. OwnChanges(c) /\ Noted /\ (Fault \/ UNCHANGED faults)
  BY BeginTypes, ContinueTypes, AbandonTypes DEF ByRequest, RequestDies, Die
<1>2. TypeOK' /\ SnapInv'
  BY <1>1, NotedTypes DEF OwnChanges
<1>3. UNCHANGED <<settled, got>>
  BY <1>1 DEF Noted, indexVars
<1>4. EventInv'
  <2> USE DEF Typed, EventInv, OwnChanges
  <2>1. \A d \in published' : pc'[d] = "done"
    BY <1>1 DEF TypeOK, ProfilesTypeOK
  <2>2. \A d \in Outstanding' : call'[d] # None
    BY <1>1, <1>3 DEF Outstanding, TypeOK, ProfilesTypeOK
  <2>3. Outstanding \subseteq Outstanding'
    BY <1>1, <1>3 DEF Outstanding
  <2> QED BY <1>3, <2>1, <2>2, <2>3
<1> QED BY <1>1, <1>2, <1>4 DEF Typed

LEMMA DeletionTypes ==
  ASSUME Typed, NEW p \in Profiles, Deletion(p)
  PROVE  /\ Typed' /\ Noted
         /\ UNCHANGED <<call, pc, mem, published>>
         /\ row[p] = "live" /\ row' = [row EXCEPT ![p] = "gone"]
         /\ content' = [content EXCEPT ![p] = Blank]
<1>1. PICK users \in SUBSET {p} : Remove(p, users)
  BY DEF Deletion, DeleteProfile, DeleteUser
<1>2. Noted /\ Fault
  BY DEF Deletion
<1>3. ProfilesTypeOK' /\ UNCHANGED <<call, pc, mem, published>>
  BY <1>1, BlankContent DEF Remove, Typed, TypeOK, ProfilesTypeOK
<1>4. TypeOK' /\ SnapInv'
  BY <1>2, <1>3, NotedTypes
<1>5. EventInv'
  BY <1>2, <1>3 DEF Typed, EventInv, Outstanding, Noted, indexVars
<1> QED BY <1>1, <1>2, <1>3, <1>4, <1>5 DEF Typed, Remove

LEMMA ConsumedTypes ==
  ASSUME Typed, NEW w \in Indexers, got[w] # None, Consumed(got[w]),
         settled' = settled \cup {got[w]}, got' = [got EXCEPT ![w] = None]
  PROVE  ProfilesTypeOK' /\ EventInv' /\ settled' \subseteq published'
<1> USE DEF Typed, TypeOK, EventInv, Consumed
<1>1. got[w] \in Calls /\ got[w] \in Outstanding /\ pc[got[w]] = "done"
  BY DEF Outstanding, ProfilesTypeOK
<1>2. ProfilesTypeOK' /\ settled' \subseteq published'
  BY <1>1, BlankContent DEF ProfilesTypeOK, Outstanding
<1>3. Outstanding' = Outstanding \ {got[w]}
  BY DEF Outstanding
<1> QED BY <1>1, <1>2, <1>3 DEF ProfilesTypeOK, Outstanding

LEMMA WriteTypes ==
  ASSUME Typed, NEW w \in Writers, NEW p \in Profiles, NEW body \in Content \cup {None},
         IndexDocument(w, p, body), w \in Indexers => body # None
  PROVE  /\ index' \in {"mapped", "inferred"}
         /\ doc' \in [Profiles -> Content \cup {None}]
         /\ stale' \subseteq {q \in Profiles : doc'[q] # None}
         /\ tardy' = tardy \ {w}
         /\ hits' \subseteq Profiles
         /\ overtaken' \subseteq Profiles
BY SearchConstants DEF IndexDocument, Typed, TypeOK

(* The parts of the type invariant, which few steps touch together. *)
IndexTyped ==
  /\ index \in {"absent", "mapped", "inferred"}
  /\ doc \in [Profiles -> Content \cup {None}]
  /\ \A p \in Profiles : index = "absent" => doc[p] = None
  /\ stale \subseteq {p \in Profiles : doc[p] # None}

HandlersTyped ==
  /\ got \in [Indexers -> Calls \cup {None}]
  /\ step \in [Writers -> {"idle", "prepare", "write", "ack", "query", "next", "match", "delete"}]
  /\ \A w \in Indexers : step[w] = "idle" <=> got[w] = None
  /\ tardy \subseteq {w \in Indexers : step[w] = "write"}

RebuildTyped ==
  /\ todo \subseteq Profiles
  /\ snap \in [Profiles -> Content \cup {None}]
  /\ batch \in [Profiles -> Content \cup {None}]
  /\ at \in Profiles \cup {None}
  /\ hits \subseteq Profiles

HistoryTyped ==
  /\ excused \subseteq Profiles
  /\ shared \subseteq Profiles
  /\ calm \in BOOLEAN
  /\ overtaken \subseteq Profiles /\ pruned \subseteq Profiles
  /\ slipped \in BOOLEAN
  /\ faults \in 0 .. MaxFaults

LEMMA TypeParts ==
  /\ TypeOK => /\ ProfilesTypeOK /\ settled \subseteq published
               /\ IndexTyped /\ HandlersTyped /\ RebuildTyped /\ HistoryTyped
  /\ ProfilesTypeOK' /\ (settled \subseteq published)' /\ IndexTyped' /\ HandlersTyped'
       /\ RebuildTyped' /\ HistoryTyped' => TypeOK'
<1>1. TypeOK => /\ ProfilesTypeOK /\ settled \subseteq published
                /\ IndexTyped /\ HandlersTyped /\ RebuildTyped /\ HistoryTyped
  BY DEF TypeOK, IndexTyped, HandlersTyped, RebuildTyped, HistoryTyped
<1>2. ASSUME ProfilesTypeOK', (settled \subseteq published)', IndexTyped', HandlersTyped',
             RebuildTyped', HistoryTyped'
      PROVE  TypeOK'
  BY <1>2 DEF TypeOK, IndexTyped, HandlersTyped, RebuildTyped, HistoryTyped
<1> QED BY <1>1, <1>2

LEMMA PartsKept ==
  /\ IndexTyped /\ UNCHANGED <<index, doc, stale>> => IndexTyped'
  /\ HandlersTyped /\ UNCHANGED <<got, step, tardy>> => HandlersTyped'
  /\ RebuildTyped /\ UNCHANGED <<todo, snap, batch, at, hits>> => RebuildTyped'
BY DEF IndexTyped, HandlersTyped, RebuildTyped

LEMMA ConsumerMoves ==
  ASSUME HandlersTyped, NEW w \in Indexers, NEW e \in Calls \cup {None},
         NEW s \in {"idle", "prepare", "write", "ack"}, s = "idle" <=> e = None,
         Advance(w, s), got' = [got EXCEPT ![w] = e],
         tardy' \subseteq tardy, s = "write" \/ w \notin tardy'
  PROVE  HandlersTyped'
BY DEF HandlersTyped, Advance, Writers

LEMMA RebuildMoves ==
  ASSUME HandlersTyped, NEW s \in {"idle", "query", "next", "write", "delete"},
         Advance(Rebuild, s), UNCHANGED got,
         tardy' \subseteq {w \in Indexers : step[w] = "write"}
  PROVE  HandlersTyped'
BY SearchConstants DEF HandlersTyped, Advance, Writers

LEMMA HistoryKept ==
  ASSUME HistoryTyped, calm' \in BOOLEAN, Fault \/ UNCHANGED faults,
         excused' \subseteq Profiles, overtaken' \subseteq Profiles, pruned' \subseteq Profiles,
         slipped' \in BOOLEAN, UNCHANGED shared
  PROVE  HistoryTyped'
BY FaultTypes DEF HistoryTyped

(* The consumers. *)
LEMMA HandleTypes ==
  ASSUME Typed, NEW w \in Indexers, Handle(w)
  PROVE  Typed'
<1>1. /\ ProfilesTypeOK /\ settled \subseteq published
      /\ IndexTyped /\ HandlersTyped /\ RebuildTyped /\ HistoryTyped /\ EventInv
  BY TypeParts DEF Typed
<1>0. SnapInv'
  BY DEF Handle, Receive, Prepare, IndexProfile, Acknowledge, StartOver, GiveUp, rebuildVars,
         Typed, SnapInv
<1>2. SUFFICES /\ ProfilesTypeOK' /\ (settled \subseteq published)' /\ EventInv'
               /\ IndexTyped' /\ HandlersTyped' /\ RebuildTyped' /\ HistoryTyped'
  BY <1>0, TypeParts DEF Typed
<1>3. UNCHANGED <<profileVars, settled>> =>
        ProfilesTypeOK' /\ (settled \subseteq published)'
  BY <1>1 DEF profileVars, ProfilesTypeOK
<1>4. UNCHANGED <<profileVars, settled, got>> => EventInv'
  BY <1>1 DEF profileVars, EventInv, Outstanding
<1>5. excused \subseteq Profiles /\ overtaken \subseteq Profiles /\ pruned \subseteq Profiles
      /\ slipped \in BOOLEAN
  BY <1>1 DEF HistoryTyped
<1>6. got[w] \in Calls \cup {None} /\ w \in Writers /\ got = [got EXCEPT ![w] = got[w]]
      /\ (step[w] = "idle" <=> got[w] = None)
  BY <1>1 DEF HandlersTyped, Writers
<1>7. ASSUME NEW e \in Calls, Receive(w, e)
      PROVE  /\ ProfilesTypeOK' /\ (settled \subseteq published)' /\ EventInv'
             /\ IndexTyped' /\ HandlersTyped' /\ RebuildTyped' /\ HistoryTyped'
  <2>1. e \in Outstanding /\ e # None
    BY <1>7, ProfilesConstants DEF Receive
  <2>2. EventInv'
    BY <1>1, <1>7, <2>1 DEF Receive, profileVars, EventInv, Outstanding, HandlersTyped
  <2>3. HandlersTyped'
    <3>1. /\ Advance(w, "prepare") /\ got' = [got EXCEPT ![w] = e] /\ tardy' = tardy
          /\ step[w] = "idle"
      BY <1>7 DEF Receive
    <3>2. w \notin tardy
      BY <1>1, <3>1 DEF HandlersTyped
    <3> QED BY <1>1, <2>1, <3>1, <3>2, ConsumerMoves
  <2>4. IndexTyped' /\ RebuildTyped'
    BY <1>1, <1>7, PartsKept DEF Receive, rebuildVars
  <2>5. HistoryTyped'
    BY <1>1, <1>5, <1>7, HistoryKept DEF Receive
  <2> QED BY <1>3, <1>7, <2>2, <2>3, <2>4, <2>5 DEF Receive
<1>8. CASE Prepare(w)
  <2>1. HandlersTyped'
    <3>1. Advance(w, "write") /\ got' = [got EXCEPT ![w] = got[w]] /\ tardy' = tardy
          /\ got[w] # None
      BY <1>6, <1>8 DEF Prepare
    <3> QED BY <1>1, <1>6, <3>1, ConsumerMoves
  <2>2. IndexTyped'
    BY <1>1, <1>8 DEF Prepare, EnsuredIndex, IndexTyped
  <2>3. RebuildTyped'
    BY <1>1, <1>8, PartsKept DEF Prepare, rebuildVars
  <2>4. HistoryTyped'
    BY <1>1, <1>5, <1>8, HistoryKept DEF Prepare
  <2> QED BY <1>3, <1>4, <1>8, <2>1, <2>2, <2>3, <2>4 DEF Prepare
<1>9. CASE IndexProfile(w)
  <2> DEFINE c == got[w]
  <2>1. step[w] = "write" /\ c # None
    BY <1>6, <1>9 DEF IndexProfile, IndexDocument
  <2>2. c \in Calls /\ call[c] # None
    BY <1>1, <1>6, <2>1 DEF EventInv
  <2>3. call[c].on \in Profiles /\ mem[c] \in Content /\ mem[c] # None
    BY <1>1, <2>2, SearchConstants DEF ProfilesTypeOK, Request
  <2>4. /\ index' \in {"mapped", "inferred"}
        /\ doc' \in [Profiles -> Content \cup {None}]
        /\ stale' \subseteq {q \in Profiles : doc'[q] # None}
        /\ tardy' = tardy \ {w}
        /\ hits' \subseteq Profiles
        /\ overtaken' \subseteq Profiles
    BY <1>6, <1>9, <2>3, WriteTypes DEF IndexProfile
  <2>5. IndexTyped'
    BY <2>4 DEF IndexTyped
  <2>6. HandlersTyped'
    <3>1. Advance(w, "ack") /\ got' = [got EXCEPT ![w] = got[w]]
      BY <1>6, <1>9 DEF IndexProfile
    <3> QED BY <1>1, <1>6, <2>1, <2>4, <3>1, ConsumerMoves
  <2>7. RebuildTyped'
    BY <1>1, <1>9, <2>4 DEF IndexProfile, RebuildTyped
  <2>8. HistoryTyped'
    BY <1>1, <1>5, <1>9, <2>4, HistoryKept DEF IndexProfile
  <2> QED BY <1>3, <1>4, <1>9, <2>5, <2>6, <2>7, <2>8 DEF IndexProfile
<1>10. ASSUME Leave(w), step[w] # "idle" PROVE HandlersTyped'
  <2>1. got' = [got EXCEPT ![w] = None] /\ Advance(w, "idle") /\ tardy' = tardy \ {w}
    BY <1>10 DEF Leave
  <2> QED BY <1>1, <2>1, ConsumerMoves
<1>11. CASE Acknowledge(w)
  <2>1. got[w] # None /\ step[w] # "idle"
    BY <1>6, <1>11 DEF Acknowledge
  <2>2. ProfilesTypeOK' /\ EventInv' /\ settled' \subseteq published'
    BY <1>11, <2>1, ConsumedTypes DEF Acknowledge, Leave
  <2>3. HandlersTyped'
    BY <1>10, <1>11, <2>1 DEF Acknowledge
  <2>4. IndexTyped' /\ RebuildTyped'
    BY <1>1, <1>11, PartsKept DEF Acknowledge, rebuildVars
  <2>5. HistoryTyped'
    BY <1>1, <1>5, <1>11, HistoryKept DEF Acknowledge
  <2> QED BY <2>2, <2>3, <2>4, <2>5
<1>12. CASE StartOver(w)
  <2>1. HandlersTyped'
    BY <1>10, <1>12 DEF StartOver
  <2>2. IndexTyped' /\ RebuildTyped'
    BY <1>1, <1>12, PartsKept DEF StartOver, rebuildVars
  <2>3. HistoryTyped'
    BY <1>1, <1>5, <1>12, HistoryKept DEF StartOver
  <2>4. EventInv'
    BY <1>1, <1>12 DEF StartOver, Leave, profileVars, EventInv, Outstanding, HandlersTyped
  <2> QED BY <1>3, <1>12, <2>1, <2>2, <2>3, <2>4 DEF StartOver
<1>13. CASE GiveUp(w)
  <2>1. got[w] # None /\ step[w] # "idle"
    BY <1>6, <1>13 DEF GiveUp
  <2>2. ProfilesTypeOK' /\ EventInv' /\ settled' \subseteq published'
    BY <1>13, <2>1, ConsumedTypes DEF GiveUp, Leave
  <2>3. HandlersTyped'
    BY <1>10, <1>13, <2>1 DEF GiveUp
  <2>4. IndexTyped' /\ RebuildTyped'
    BY <1>1, <1>13, PartsKept DEF GiveUp, rebuildVars
  <2>5. call[got[w]].on \in Profiles
    BY <1>1, <1>6, <2>1 DEF EventInv, ProfilesTypeOK, Request
  <2>6. HistoryTyped'
    BY <1>1, <1>5, <1>13, <2>5, HistoryKept DEF GiveUp
  <2> QED BY <2>2, <2>3, <2>4, <2>6
<1> QED BY <1>7, <1>8, <1>9, <1>11, <1>12, <1>13 DEF Handle

(* The rebuild and the loss of the cluster touch neither requests nor      *)
(* events.                                                                 *)
EventsKept == UNCHANGED <<profileVars, settled, got>>

LEMMA ReindexTypes ==
  ASSUME Typed, Reindex \/ LoseCluster
  PROVE  Typed' /\ EventsKept
<1>1. /\ ProfilesTypeOK /\ settled \subseteq published
      /\ IndexTyped /\ HandlersTyped /\ RebuildTyped /\ HistoryTyped /\ EventInv
  BY TypeParts DEF Typed
<1>2. EventsKept
  BY DEF Reindex, LoseCluster, StartRebuild, QueryRows, ReadBatch, PrepareProfile, PruneDocument,
         WriteProfile, MatchStale, EndRebuild, RebuildFails, EventsKept, indexVars
<1>3. ProfilesTypeOK' /\ (settled \subseteq published)' /\ EventInv' /\ UNCHANGED got
  BY <1>1, <1>2 DEF EventsKept, profileVars, ProfilesTypeOK, EventInv, Outstanding
<1>17. SnapInv'
  <2>1. \A p \in Live : content[p] # None
    BY <1>1, SearchConstants DEF Live, ProfilesTypeOK
  <2>2. CASE QueryRows
    BY <1>1, <2>1, <2>2 DEF QueryRows, Live, SnapInv
  <2>3. CASE WriteProfile
    BY <1>1, <2>3 DEF WriteProfile, RebuildTyped, Typed, SnapInv
  <2>4. CASE RebuildFails
    BY <2>4 DEF RebuildFails, SnapInv
  <2>5. CASE ~QueryRows /\ ~WriteProfile /\ ~RebuildFails
    BY <2>5 DEF Reindex, LoseCluster, StartRebuild, ReadBatch, PrepareProfile, PruneDocument,
                MatchStale, EndRebuild, Typed, SnapInv
  <2> QED BY <2>2, <2>3, <2>4, <2>5
<1>4. SUFFICES IndexTyped' /\ HandlersTyped' /\ RebuildTyped' /\ HistoryTyped'
  BY <1>2, <1>3, <1>17, TypeParts DEF Typed
<1>5. Live \subseteq Profiles /\ \A p \in Profiles : content[p] \in Content
  BY <1>1 DEF Live, ProfilesTypeOK
<1>6. excused \subseteq Profiles /\ overtaken \subseteq Profiles /\ pruned \subseteq Profiles
      /\ slipped \in BOOLEAN /\ calm \in BOOLEAN
      /\ tardy \subseteq {w \in Indexers : step[w] = "write"}
  BY <1>1 DEF HistoryTyped, HandlersTyped
<1>7. CASE StartRebuild
  <2>1. IndexTyped' /\ RebuildTyped'
    BY <1>1, <1>7 DEF StartRebuild, IndexTyped, RebuildTyped
  <2>2. HandlersTyped'
    BY <1>1, <1>3, <1>7, RebuildMoves DEF StartRebuild
  <2>3. calm' \in BOOLEAN
    BY <1>7 DEF StartRebuild
  <2>4. HistoryTyped'
    BY <1>1, <1>6, <1>7, <2>3, HistoryKept DEF StartRebuild
  <2> QED BY <2>1, <2>2, <2>4
<1>8. CASE QueryRows
  <2>1. IndexTyped' /\ HistoryTyped'
    BY <1>1, <1>6, <1>8, PartsKept, HistoryKept DEF QueryRows, history
  <2>2. HandlersTyped'
    BY <1>1, <1>3, <1>6, <1>8, RebuildMoves DEF QueryRows
  <2>3. RebuildTyped'
    BY <1>1, <1>5, <1>8 DEF QueryRows, RebuildTyped
  <2> QED BY <2>1, <2>2, <2>3
<1>9. CASE ReadBatch
  <2>1. IndexTyped' /\ HandlersTyped' /\ HistoryTyped'
    BY <1>1, <1>6, <1>9, PartsKept, HistoryKept DEF ReadBatch, history, indexVars
  <2>2. PICK B \in SUBSET todo : batch' = [p \in Profiles |->
            IF p \in B THEN [content[p] EXCEPT !.cols = snap[p].cols] ELSE None]
    BY <1>9 DEF ReadBatch
  <2>3. ASSUME NEW p \in B PROVE snap[p] \in Content
    BY <1>1, <2>3 DEF RebuildTyped, Typed, SnapInv
  <2>4. \A p \in B : [content[p] EXCEPT !.cols = snap[p].cols] \in Content
    BY <1>1, <1>5, <2>3 DEF RebuildTyped, Content
  <2>5. RebuildTyped'
    BY <1>1, <1>9, <2>2, <2>4 DEF ReadBatch, RebuildTyped
  <2> QED BY <2>1, <2>5
<1>10. ASSUME NEW p \in Profiles, PrepareProfile(p)
       PROVE  IndexTyped' /\ HandlersTyped' /\ RebuildTyped' /\ HistoryTyped'
  <2>1. IndexTyped' /\ RebuildTyped'
    BY <1>1, <1>10 DEF PrepareProfile, EnsuredIndex, IndexTyped, RebuildTyped
  <2>2. HandlersTyped'
    BY <1>1, <1>3, <1>6, <1>10, RebuildMoves DEF PrepareProfile
  <2>3. HistoryTyped'
    BY <1>1, <1>6, <1>10, HistoryKept DEF PrepareProfile, history
  <2> QED BY <2>1, <2>2, <2>3
<1>11. ASSUME NEW p \in Profiles, PruneDocument(p)
       PROVE  IndexTyped' /\ HandlersTyped' /\ RebuildTyped' /\ HistoryTyped'
  <2>1. IndexTyped' /\ RebuildTyped'
    BY <1>1, <1>11 DEF PruneDocument, IndexTyped, RebuildTyped
  <2>2. HandlersTyped'
    BY <1>1, <1>11, PartsKept DEF PruneDocument
  <2>3. excused' \subseteq Profiles /\ pruned' \subseteq Profiles
    BY <1>6, <1>11 DEF PruneDocument
  <2>4. HistoryTyped'
    BY <1>1, <1>6, <1>11, <2>3, HistoryKept DEF PruneDocument
  <2> QED BY <2>1, <2>2, <2>4
<1>12. CASE WriteProfile
  <2>1. at \in Profiles /\ batch[at] \in Content \cup {None}
    BY <1>1, <1>12 DEF WriteProfile, RebuildTyped
  <2>2. Rebuild \in Writers /\ Rebuild \notin Indexers
    BY SearchConstants DEF Writers
  <2>3. /\ index' \in {"mapped", "inferred"}
        /\ doc' \in [Profiles -> Content \cup {None}]
        /\ stale' \subseteq {q \in Profiles : doc'[q] # None}
        /\ tardy' = tardy \ {Rebuild}
        /\ hits' \subseteq Profiles
        /\ overtaken' \subseteq Profiles
    BY <1>12, <2>1, <2>2, WriteTypes DEF WriteProfile
  <2>4. IndexTyped'
    BY <2>3 DEF IndexTyped
  <2>5. HandlersTyped'
    BY <1>1, <1>3, <1>6, <1>12, <2>3, RebuildMoves DEF WriteProfile
  <2>6. RebuildTyped'
    BY <1>1, <1>12, <2>3 DEF WriteProfile, RebuildTyped
  <2>7. HistoryTyped'
    BY <1>1, <1>6, <1>12, <2>3, HistoryKept DEF WriteProfile
  <2> QED BY <2>4, <2>5, <2>6, <2>7
<1>13. CASE MatchStale
  <2>1. stale \subseteq Profiles
    BY <1>1 DEF IndexTyped
  <2>2. IndexTyped' /\ HistoryTyped'
    BY <1>1, <1>6, <1>13, PartsKept, HistoryKept DEF MatchStale, history
  <2>3. HandlersTyped'
    BY <1>1, <1>3, <1>6, <1>13, RebuildMoves DEF MatchStale
  <2>4. RebuildTyped'
    BY <1>1, <1>13, <2>1 DEF MatchStale, RebuildTyped, OlderThanStart
  <2> QED BY <2>2, <2>3, <2>4
<1>14. CASE EndRebuild
  <2>1. IndexTyped' /\ RebuildTyped'
    BY <1>1, <1>14 DEF EndRebuild, Forget, IndexTyped, RebuildTyped
  <2>2. HandlersTyped'
    BY <1>1, <1>3, <1>6, <1>14, RebuildMoves DEF EndRebuild, Forget
  <2>3. HistoryTyped'
    BY <1>1, <1>6, <1>14, HistoryKept DEF EndRebuild, Forget
  <2> QED BY <2>1, <2>2, <2>3
<1>15. CASE RebuildFails
  <2>1. IndexTyped' /\ RebuildTyped'
    BY <1>1, <1>15 DEF RebuildFails, EndHere, Forget, NoObject, IndexTyped, RebuildTyped
  <2>2. HandlersTyped'
    BY <1>1, <1>3, <1>6, <1>15, RebuildMoves DEF RebuildFails, EndHere, Forget
  <2>3. HistoryTyped'
    BY <1>1, <1>6, <1>15, HistoryKept DEF RebuildFails, EndHere, Forget
  <2> QED BY <2>1, <2>2, <2>3
<1>16. CASE LoseCluster
  <2>1. IndexTyped' /\ RebuildTyped'
    BY <1>1, <1>16 DEF LoseCluster, IndexTyped, RebuildTyped
  <2>2. HandlersTyped'
    BY <1>1, <1>3, <1>16, PartsKept DEF LoseCluster
  <2>3. excused' \subseteq Profiles /\ slipped' \in BOOLEAN
    BY <1>6, <1>16 DEF LoseCluster
  <2>4. HistoryTyped'
    BY <1>1, <1>6, <1>16, <2>3, HistoryKept DEF LoseCluster
  <2> QED BY <2>1, <2>2, <2>4
<1> QED BY <1>7, <1>8, <1>9, <1>10, <1>11, <1>12, <1>13, <1>14, <1>15, <1>16 DEF Reindex

LEMMA InitTypes == Init => Typed
<1> SUFFICES ASSUME Init PROVE Typed
  OBVIOUS
<1>1. ProfilesTypeOK
  BY BlankContent DEF Init, ProfilesInit, ProfilesTypeOK, Steps
<1>2. IndexTyped /\ settled \subseteq published
  BY BlankContent DEF Init, ProfilesInit, IndexTyped
<1>3. HandlersTyped /\ RebuildTyped /\ HistoryTyped
  <2>1. HandlersTyped
    BY DEF Init, Writers, HandlersTyped
  <2>2. RebuildTyped
    <3>1. todo = {} /\ snap = NoObject /\ batch = NoObject /\ at = None /\ hits = {}
      BY DEF Init
    <3>2. NoObject \in [Profiles -> Content \cup {None}]
      BY DEF NoObject
    <3> QED BY <3>1, <3>2 DEF RebuildTyped
  <2>3. HistoryTyped
    <3>1. calm \in BOOLEAN /\ slipped \in BOOLEAN
      BY Zenon DEF Init
    <3>2. faults \in 0 .. MaxFaults
      BY SearchConstants DEF Init
    <3>3. excused = {} /\ shared = {} /\ overtaken = {} /\ pruned = {}
      BY DEF Init
    <3> QED BY <3>1, <3>2, <3>3 DEF HistoryTyped
  <2> QED BY <2>1, <2>2, <2>3
<1>4. TypeOK
  BY <1>1, <1>2, <1>3 DEF TypeOK, IndexTyped, HandlersTyped, RebuildTyped, HistoryTyped
<1>5. EventInv /\ SnapInv
  BY DEF Init, ProfilesInit, EventInv, SnapInv, Outstanding
<1> QED BY <1>4, <1>5 DEF Typed

(* The kinds of step that the proofs below distinguish. *)
LEMMA Kinds ==
  ASSUME Next
  PROVE  \/ \E c \in Calls : ByRequest(c) \/ RequestDies(c)
         \/ \E p \in Profiles : Deletion(p)
         \/ \E w \in Indexers : Handle(w)
         \/ Reindex \/ LoseCluster
BY DEF Next

LEMMA TypedStep == Typed /\ [Next]_vars => Typed'
<1> SUFFICES ASSUME Typed, [Next]_vars PROVE Typed'
  OBVIOUS
<1>1. CASE Next
  BY <1>1, Kinds, RequestTypes, DeletionTypes, HandleTypes, ReindexTypes
<1>2. CASE UNCHANGED vars
  BY <1>2 DEF vars, profileVars, indexVars, rebuildVars, history, Typed, TypeOK, ProfilesTypeOK,
              EventInv, SnapInv, Outstanding
<1> QED BY <1>1, <1>2

(* Every variable keeps its type; so do the rows that requests write in    *)
(* pieces, and the documents.                                              *)
THEOREM TypeCorrect == Spec => []TypeOK
<1>1. Typed => TypeOK
  BY DEF Typed
<1> QED BY <1>1, InitTypes, TypedStep, PTL DEF Spec

-----------------------------------------------------------------------------
(* Mappings.                                                               *)

(* Who is about to write has seen the index; if it is missing now, it went *)
(* in between.                                                             *)
WriteInv == \A w \in Writers : index = "absent" /\ step[w] = "write" => slipped

MappingInv == Typed /\ WriteInv /\ MappedByUs

LEMMA MappingStep == MappingInv /\ [Next]_vars => MappingInv'
<1> SUFFICES ASSUME MappingInv, [Next]_vars PROVE WriteInv' /\ MappedByUs'
  BY TypedStep DEF MappingInv
<1> USE DEF MappingInv, WriteInv, MappedByUs, Advance
<1>2. Rebuild \in Writers /\ Indexers \subseteq Writers
  BY DEF Writers
<1>3. CASE UNCHANGED <<index, step, slipped>>
  BY <1>3
<1>4. ASSUME NEW w \in Writers, NEW p, NEW body, IndexDocument(w, p, body), UNCHANGED slipped
      PROVE  WriteInv' /\ MappedByUs'
  BY <1>4 DEF IndexDocument
<1>5. ASSUME NEW w \in Writers, NEW s, Advance(w, s), UNCHANGED slipped,
             (index' = index /\ s # "write") \/ index' = EnsuredIndex
      PROVE  WriteInv' /\ MappedByUs'
  BY <1>5 DEF EnsuredIndex, Typed, TypeOK
<1>6. ASSUME NEW w \in Indexers, Handle(w) PROVE WriteInv' /\ MappedByUs'
  <2>1. CASE IndexProfile(w)
    BY <1>2, <1>4, <2>1 DEF IndexProfile
  <2>2. ASSUME NEW e \in Calls, Receive(w, e) PROVE WriteInv' /\ MappedByUs'
    BY <1>2, <1>5, <2>2 DEF Receive
  <2>3. CASE Prepare(w)
    BY <1>2, <1>5, <2>3 DEF Prepare
  <2>4. CASE Acknowledge(w) \/ StartOver(w) \/ GiveUp(w)
    BY <1>2, <1>5, <2>4 DEF Acknowledge, StartOver, GiveUp, Leave
  <2> QED BY <1>6, <2>1, <2>2, <2>3, <2>4 DEF Handle
<1>7. CASE Reindex
  <2>1. CASE WriteProfile
    BY <1>2, <1>4, <2>1 DEF WriteProfile
  <2>2. ASSUME NEW p \in Profiles, PrepareProfile(p) PROVE WriteInv' /\ MappedByUs'
    BY <1>2, <1>5, <2>2 DEF PrepareProfile, history
  <2>3. CASE StartRebuild \/ QueryRows \/ MatchStale \/ EndRebuild \/ RebuildFails
    BY <1>2, <1>5, <2>3 DEF StartRebuild, QueryRows, MatchStale, EndRebuild, RebuildFails, EndHere,
                            history
  <2>4. CASE ReadBatch \/ \E p \in Profiles : PruneDocument(p)
    BY <1>3, <2>4 DEF ReadBatch, PruneDocument, indexVars, history
  <2> QED BY <1>7, <2>1, <2>2, <2>3, <2>4 DEF Reindex
<1>8. CASE LoseCluster
  BY <1>8 DEF LoseCluster
<1>9. CASE \E c \in Calls : ByRequest(c) \/ RequestDies(c)
  BY <1>3, <1>9 DEF ByRequest, RequestDies, Noted, indexVars
<1>10. CASE \E p \in Profiles : Deletion(p)
  BY <1>3, <1>10 DEF Deletion, Noted, indexVars
<1>11. CASE UNCHANGED vars
  BY <1>3, <1>11 DEF vars, indexVars, history
<1> QED BY <1>6, <1>7, <1>8, <1>9, <1>10, <1>11, Kinds

(* The index never gets inferred mappings but by a write that the loss of  *)
(* the cluster overtook: ensure_index() comes before every write.          *)
THEOREM MappingsAreOurs == Spec => []MappedByUs
<1>1. Init => MappingInv
  BY InitTypes DEF Init, MappingInv, WriteInv, MappedByUs
<1>2. MappingInv => MappedByUs
  BY DEF MappingInv
<1> QED BY <1>1, <1>2, MappingStep, PTL DEF Spec

-----------------------------------------------------------------------------
(* The prune.                                                              *)

(* A profile that was never inserted has left no trace outside the call    *)
(* that is about to insert it.                                             *)
RowInv ==
  /\ \A p \in Profiles : row[p] = "none" => doc[p] = None /\ p \notin todo /\ at # p
  /\ \A c \in Calls : call[c] # None /\ row[call[c].on] = "none" => pc[c] = "row"

(* What is stale after the query is of a profile that the rebuild has      *)
(* still to write, of one that was overtaken, or of none that lives.       *)
StaleInv ==
  /\ hits \subseteq stale
  /\ step[Rebuild] \in {"idle", "query", "next", "write", "delete"}
  /\ step[Rebuild] = "delete" => todo = {}
  /\ step[Rebuild] \notin {"idle", "query"} => Live \cap stale \subseteq todo \cup overtaken

PruneInv == Typed /\ RowInv /\ StaleInv /\ PruneSparesLiving

LEMMA RequestRows ==
  ASSUME Typed, RowInv, NEW c \in Calls, ByRequest(c) \/ RequestDies(c)
  PROVE  RowInv'
<1>1. Noted /\ OwnChanges(c)
  BY RequestTypes
<1>2. UNCHANGED <<doc, todo, at>>
  BY <1>1 DEF Noted, indexVars, rebuildVars
<1>3. \A p \in Profiles : row'[p] = "none" => row[p] = "none"
  BY <1>1 DEF OwnChanges
<1>4. call'[c] # None /\ row'[call'[c].on] = "none" => pc'[c] = "row"
  <2>1. CASE Begin(c)
    BY <2>1 DEF Begin, Load, CreateProfile, Goto, Typed, TypeOK, ProfilesTypeOK
  <2>2. CASE WriteRow(c)
    BY <2>2 DEF WriteRow, Typed, TypeOK, ProfilesTypeOK, Request
  <2>3. ASSUME Abandon(c) PROVE call'[c] = None
    BY <2>3 DEF Abandon, Typed, TypeOK, ProfilesTypeOK
  <2>4. CASE Continue(c) /\ ~WriteRow(c) /\ ~Abandon(c)
    BY <2>4 DEF Continue, ClearInstruments, FillInstruments, LookAtGenres, SetGenres, BuildPayload,
                Publish, RowRefused, InstrumentsRefused, GenresRefused, RowInv
  <2> QED BY <2>1, <2>2, <2>3, <2>4 DEF ByRequest, RequestDies, Die
<1>5. \A d \in Calls \ {c} : call'[d] # None => call[d].on \in Profiles
  BY <1>1 DEF OwnChanges, Typed, TypeOK, ProfilesTypeOK, Request
<1> QED BY <1>1, <1>2, <1>3, <1>4, <1>5 DEF RowInv, OwnChanges

LEMMA RequestStale ==
  ASSUME PruneInv, NEW c \in Calls, ByRequest(c) \/ RequestDies(c)
  PROVE  StaleInv' /\ PruneSparesLiving'
<1>1. Noted /\ OwnChanges(c)
  BY RequestTypes DEF PruneInv
<1>2. UNCHANGED <<doc, stale, step, todo, hits, pruned>> /\ overtaken \subseteq overtaken'
  BY <1>1 DEF Noted, indexVars, rebuildVars
<1>3. ASSUME NEW p \in Live' \cap stale', Rebuilding PROVE p \in Live \/ p \in overtaken'
  <2>1. p \in Profiles /\ doc[p] # None /\ row'[p] = "live"
    BY <1>2, <1>3 DEF Live, PruneInv, Typed, TypeOK
  <2>2. row[p] # "none"
    BY <2>1 DEF PruneInv, RowInv
  <2> QED BY <1>1, <1>3, <2>1, <2>2 DEF Noted, Live
<1> QED BY <1>2, <1>3 DEF PruneInv, StaleInv, PruneSparesLiving, Rebuilding

LEMMA DeletionPrune ==
  ASSUME PruneInv, NEW p \in Profiles, Deletion(p)
  PROVE  RowInv' /\ StaleInv' /\ PruneSparesLiving'
<1>1. /\ Noted
      /\ UNCHANGED <<call, pc, mem, published>>
      /\ row' = [row EXCEPT ![p] = "gone"]
  BY DeletionTypes DEF PruneInv
<1>2. UNCHANGED <<doc, stale, step, todo, at, hits, pruned>> /\ overtaken \subseteq overtaken'
  BY <1>1 DEF Noted, indexVars, rebuildVars
<1>3. Live' \subseteq Live /\ \A q \in Profiles : row'[q] = "none" => row[q] = "none"
  BY <1>1 DEF Live, PruneInv, Typed, TypeOK, ProfilesTypeOK
<1>4. \A c \in Calls : call[c] # None => call[c].on \in Profiles
  BY DEF PruneInv, Typed, TypeOK, ProfilesTypeOK, Request
<1> QED BY <1>1, <1>2, <1>3, <1>4 DEF PruneInv, RowInv, StaleInv, PruneSparesLiving

LEMMA HandlePrune ==
  ASSUME PruneInv, NEW w \in Indexers, Handle(w)
  PROVE  RowInv' /\ StaleInv' /\ PruneSparesLiving'
<1>1. UNCHANGED <<row, pc, todo, at, pruned>> /\ step'[Rebuild] = step[Rebuild]
  BY SearchConstants DEF Handle, Receive, Prepare, IndexProfile, Acknowledge, StartOver, GiveUp,
     Leave, Consumed, Advance, profileVars, rebuildVars, PruneInv, Typed, TypeOK, Writers
<1>2. \A c \in Calls : call'[c] = call[c] \/ call'[c] = None
  BY DEF Handle, Receive, Prepare, IndexProfile, Acknowledge, StartOver, GiveUp, Consumed,
     profileVars, PruneInv, Typed, TypeOK, ProfilesTypeOK
<1>3. Live' = Live
  BY <1>1 DEF Live
<1>4. CASE IndexProfile(w)
  <2> DEFINE c == got[w]
             p == call[c].on
  <2>1. c \in Calls /\ call[c] # None /\ pc[c] = "done"
    BY <1>4 DEF IndexProfile, IndexDocument, PruneInv, Typed, TypeOK, EventInv, Outstanding
  <2>2. p \in Profiles /\ row[p] # "none"
    BY <2>1 DEF PruneInv, RowInv, Typed, TypeOK, ProfilesTypeOK, Request
  <2>3. /\ doc' = [doc EXCEPT ![p] = mem[c]]
        /\ stale' = IF w \in tardy THEN stale \cup {p} ELSE stale \ {p}
        /\ overtaken' = IF w \in tardy THEN overtaken \cup {p} ELSE overtaken
        /\ hits' = hits \ {p}
    BY <1>4 DEF IndexProfile, IndexDocument
  <2>4. RowInv'
    BY <1>1, <1>2, <2>2, <2>3 DEF RowInv, PruneInv, Typed, TypeOK
  <2>5. StaleInv'
    BY <1>1, <1>3, <2>3 DEF StaleInv, PruneInv
  <2>6. PruneSparesLiving'
    BY <1>1, <2>3 DEF PruneSparesLiving, PruneInv
  <2> QED BY <2>4, <2>5, <2>6
<1>5. CASE ~IndexProfile(w)
  <2>1. UNCHANGED <<doc, stale, hits, overtaken>>
    BY <1>5 DEF Handle, Receive, Prepare, Acknowledge, StartOver, GiveUp, rebuildVars
  <2> QED BY <1>1, <1>2, <1>3, <2>1 DEF PruneInv, RowInv, StaleInv, PruneSparesLiving
<1> QED BY <1>4, <1>5

LEMMA ReindexPrune ==
  ASSUME PruneInv, Reindex \/ LoseCluster
  PROVE  RowInv' /\ StaleInv' /\ PruneSparesLiving'
<1> USE DEF PruneInv, StaleInv, PruneSparesLiving, Advance
<1>1. UNCHANGED <<row, pc, call>> /\ Live' = Live
  BY ReindexTypes DEF EventsKept, profileVars, Live
<1>2. Rebuild \in DOMAIN step /\ Rebuild \notin tardy
  BY SearchConstants DEF Typed, TypeOK, Writers
<1>3. CASE StartRebuild
  <2>1. hits' \subseteq stale'
    BY <1>3 DEF StartRebuild, Typed, TypeOK
  <2> QED BY <1>1, <1>2, <1>3, <2>1 DEF StartRebuild, RowInv
<1>4. CASE QueryRows
  BY <1>1, <1>2, <1>4 DEF QueryRows, history, RowInv, Live
<1>5. CASE ReadBatch
  BY <1>1, <1>5 DEF ReadBatch, indexVars, history, RowInv
<1>6. ASSUME NEW p \in Profiles, PrepareProfile(p)
      PROVE  RowInv' /\ StaleInv' /\ PruneSparesLiving'
  BY <1>1, <1>2, <1>6 DEF PrepareProfile, history, RowInv
<1>7. ASSUME NEW p \in Profiles, PruneDocument(p)
      PROVE  RowInv' /\ StaleInv' /\ PruneSparesLiving'
  <2>1. p \in Live => p \in overtaken
    BY <1>7 DEF PruneDocument
  <2>2. RowInv'
    BY <1>1, <1>7 DEF PruneDocument, RowInv, Typed, TypeOK
  <2> QED BY <1>1, <1>7, <2>1, <2>2 DEF PruneDocument
<1>8. CASE WriteProfile
  <2>1. at \in Profiles /\ row[at] # "none"
    BY <1>8 DEF WriteProfile, RowInv, Typed, TypeOK
  <2>2. /\ doc' = [doc EXCEPT ![at] = batch[at]] /\ todo' = todo \ {at} /\ at' = None
        /\ stale' = stale \ {at} /\ hits' = hits \ {at}
        /\ UNCHANGED <<overtaken, pruned>>
        /\ step[Rebuild] = "write" /\ step'[Rebuild] = "next"
    BY <1>2, <1>8 DEF WriteProfile, IndexDocument
  <2>3. RowInv'
    BY <1>1, <2>1, <2>2, SearchConstants DEF RowInv, Typed, TypeOK
  <2> QED BY <1>1, <2>2, <2>3
<1>9. CASE MatchStale
  BY <1>1, <1>2, <1>9 DEF MatchStale, OlderThanStart, history, RowInv
<1>10. CASE EndRebuild
  BY <1>1, <1>2, <1>10 DEF EndRebuild, Forget, RowInv
<1>11. CASE RebuildFails
  BY <1>1, <1>2, <1>11, SearchConstants DEF RebuildFails, EndHere, Forget, RowInv
<1>12. CASE LoseCluster
  BY <1>1, <1>2, <1>12 DEF LoseCluster, RowInv
<1> QED BY <1>3, <1>4, <1>5, <1>6, <1>7, <1>8, <1>9, <1>10, <1>11, <1>12 DEF Reindex

LEMMA PruneStep == PruneInv /\ [Next]_vars => PruneInv'
<1> SUFFICES ASSUME PruneInv, [Next]_vars
             PROVE  RowInv' /\ StaleInv' /\ PruneSparesLiving'
  BY TypedStep DEF PruneInv
<1>1. ASSUME NEW c \in Calls, ByRequest(c) \/ RequestDies(c)
      PROVE  RowInv' /\ StaleInv' /\ PruneSparesLiving'
  BY <1>1, RequestRows, RequestStale DEF PruneInv
<1>2. CASE UNCHANGED vars
  BY <1>2 DEF vars, profileVars, indexVars, rebuildVars, history, PruneInv, RowInv, StaleInv,
              PruneSparesLiving, Live
<1> QED BY <1>1, <1>2, Kinds, DeletionPrune, HandlePrune, ReindexPrune

LEMMA InitPrune == Init => PruneInv
<1> SUFFICES ASSUME Init PROVE RowInv /\ StaleInv /\ PruneSparesLiving
  BY InitTypes DEF PruneInv
<1>1. RowInv
  BY SearchConstants DEF Init, ProfilesInit, RowInv
<1> QED BY <1>1 DEF Init, StaleInv, PruneSparesLiving, Writers

(* delete_by_query with the range below the start of the rebuild takes a   *)
(* living profile only if an old stamp, a deletion or a revival overtook   *)
(* the rebuild: what lives is in the query, and what is in the query is    *)
(* written before the prune.                                               *)
THEOREM PruneIsSafe == Spec => []PruneSparesLiving
<1>1. PruneInv => PruneSparesLiving
  BY DEF PruneInv
<1> QED BY <1>1, InitPrune, PruneStep, PTL DEF Spec

-----------------------------------------------------------------------------
(* The rebuild repairs.                                                    *)

(* What the rebuild has read it has still to write. *)
BatchInv ==
  /\ \A p \in Profiles : batch[p] # None => p \in todo
  /\ step[Rebuild] \in {"idle", "query"} => todo = {}
  /\ at # None => at \in todo /\ batch[at] # None

(* As long as nobody else takes a step, what was read is what the rows     *)
(* hold, what was written agrees with them, and whatever else is in the    *)
(* index is stale.                                                         *)
CalmInv ==
  calm =>
    /\ tardy = {}
    /\ \A p \in todo : p \in Live /\ snap[p] = content[p]
    /\ \A p \in Profiles : batch[p] # None => batch[p] = content[p]
    /\ step[Rebuild] \notin {"idle", "query"} =>
         \A p \in Live \ todo : doc[p] = content[p] /\ p \notin stale
    /\ \A p \in Profiles \ Live : doc[p] # None =>
         p \in stale /\ (step[Rebuild] = "delete" => p \in hits)

RepairInv == PruneInv /\ BatchInv /\ CalmInv

LEMMA DisturbedRepair ==
  ASSUME RepairInv, ~calm', UNCHANGED <<todo, batch, at>>, step'[Rebuild] = step[Rebuild]
  PROVE  BatchInv' /\ CalmInv'
BY DEF RepairInv, BatchInv, CalmInv

LEMMA ReindexRepair ==
  ASSUME RepairInv, Reindex
  PROVE  BatchInv' /\ CalmInv'
<1> USE DEF RepairInv, BatchInv, CalmInv, Advance
<1>1. UNCHANGED content /\ Live' = Live /\ Live \subseteq Profiles
  BY ReindexTypes DEF PruneInv, EventsKept, profileVars, Live
<1>2. Rebuild \in DOMAIN step /\ StaleInv
  BY DEF PruneInv, Typed, TypeOK, Writers
<1>3. todo \subseteq Profiles /\ DOMAIN doc = Profiles /\ DOMAIN snap = Profiles
      /\ DOMAIN batch = Profiles /\ at \in Profiles \cup {None}
  BY DEF PruneInv, Typed, TypeOK
<1>4. CASE StartRebuild
  <2>1. step[Rebuild] = "idle" /\ step'[Rebuild] = "query" /\ UNCHANGED <<doc, todo, snap, batch, at>>
    BY <1>2, <1>4 DEF StartRebuild, Rebuilding
  <2>2. calm' => tardy' = {}
    BY <1>4 DEF StartRebuild
  <2>3. \A p \in Profiles : doc'[p] # None => p \in stale'
    BY <1>4, <2>1 DEF StartRebuild
  <2> QED BY <1>1, <2>1, <2>2, <2>3
<1>5. CASE QueryRows
  <2>1. step[Rebuild] = "query" /\ step'[Rebuild] = "next" /\ todo' = Live
        /\ UNCHANGED <<doc, stale, tardy, batch, at, hits, calm>>
    BY <1>2, <1>5 DEF QueryRows, history
  <2>2. \A p \in Live : snap'[p] = content[p]
    BY <1>1, <1>5 DEF QueryRows
  <2> QED BY <1>1, <2>1, <2>2
<1>6. CASE ReadBatch
  <2>1. /\ UNCHANGED <<step, doc, stale, tardy, todo, snap, at, hits, calm>>
        /\ \A p \in todo : batch[p] = None
    BY <1>6 DEF ReadBatch, indexVars, history
  <2>2. PICK B \in SUBSET todo : batch' = [p \in Profiles |->
            IF p \in B THEN [content[p] EXCEPT !.cols = snap[p].cols] ELSE None]
    BY <1>6 DEF ReadBatch
  <2>3. \A p \in Profiles : content[p] \in Content
    BY DEF PruneInv, Typed, TypeOK, ProfilesTypeOK
  <2>4. \A p \in B : snap[p] = content[p] => [content[p] EXCEPT !.cols = snap[p].cols] = content[p]
    BY <1>3, <2>3 DEF Content
  <2>5. \A p \in Profiles : batch'[p] # None => p \in B
    BY <2>2
  <2>6. calm => \A p \in Profiles : batch'[p] # None => batch'[p] = content[p]
    BY <2>2, <2>4, <2>5
  <2>7. at = None
    BY <2>1
  <2> QED BY <1>1, <2>1, <2>5, <2>6, <2>7
<1>7. ASSUME NEW p \in Profiles, PrepareProfile(p) PROVE BatchInv' /\ CalmInv'
  <2>1. /\ step[Rebuild] = "next" /\ step'[Rebuild] = "write" /\ at' = p
        /\ p \in todo /\ batch[p] # None
        /\ UNCHANGED <<doc, stale, tardy, todo, snap, batch, hits, calm>>
    BY <1>2, <1>7 DEF PrepareProfile, history
  <2> QED BY <1>1, <2>1
<1>8. ASSUME NEW p \in Profiles, PruneDocument(p) PROVE BatchInv' /\ CalmInv'
  <2>1. /\ step[Rebuild] = "delete" /\ todo = {} /\ p \in stale
        /\ doc' = [doc EXCEPT ![p] = None] /\ stale' = stale \ {p} /\ hits' = hits \ {p}
        /\ UNCHANGED <<step, tardy, todo, snap, batch, at, calm>>
    BY <1>2, <1>8 DEF PruneDocument, StaleInv
  <2> QED BY <1>1, <1>3, <2>1
<1>9. CASE WriteProfile
  <2>1. /\ at # None /\ at' = None /\ todo' = todo \ {at}
        /\ snap' = [snap EXCEPT ![at] = None] /\ batch' = [batch EXCEPT ![at] = None]
        /\ step[Rebuild] = "write" /\ step'[Rebuild] = "next"
        /\ doc' = [doc EXCEPT ![at] = batch[at]]
        /\ hits' = hits \ {at} /\ UNCHANGED calm
    BY <1>2, <1>9 DEF WriteProfile, IndexDocument
  <2>2. Rebuild \notin tardy
    BY SearchConstants DEF PruneInv, Typed, TypeOK
  <2>3. stale' = stale \ {at} /\ tardy' = tardy \ {Rebuild}
    BY <1>9, <2>2 DEF WriteProfile, IndexDocument
  <2>4. at \in Profiles /\ at \in todo /\ batch[at] # None
    BY <1>3, <2>1
  <2>5. BatchInv'
    BY <1>3, <2>1, <2>4
  <2>6. CalmInv'
    BY <1>1, <1>3, <2>1, <2>3, <2>4
  <2> QED BY <2>5, <2>6
<1>10. CASE MatchStale
  BY <1>1, <1>2, <1>10 DEF MatchStale, OlderThanStart, history
<1>11. CASE EndRebuild
  <2>1. todo = {} /\ UNCHANGED <<todo, batch, at>> /\ ~calm'
    BY <1>2, <1>11 DEF EndRebuild, PassComplete, PruneComplete, Forget, StaleInv
  <2> QED BY <2>1
<1>12. CASE RebuildFails
  BY <1>12 DEF RebuildFails, EndHere, Forget, NoObject
<1> QED BY <1>4, <1>5, <1>6, <1>7, <1>8, <1>9, <1>10, <1>11, <1>12 DEF Reindex

LEMMA RepairStep == RepairInv /\ [Next]_vars => RepairInv'
<1> SUFFICES ASSUME RepairInv, [Next]_vars PROVE BatchInv' /\ CalmInv'
  BY PruneStep DEF RepairInv
<1>1. CASE \E c \in Calls : ByRequest(c) \/ RequestDies(c)
  BY <1>1, DisturbedRepair DEF ByRequest, RequestDies, Noted, indexVars, rebuildVars
<1>2. CASE \E p \in Profiles : Deletion(p)
  BY <1>2, DisturbedRepair DEF Deletion, Noted, indexVars, rebuildVars
<1>3. ASSUME NEW w \in Indexers, Handle(w) PROVE BatchInv' /\ CalmInv'
  <2>1. UNCHANGED <<todo, batch, at>> /\ ~calm'
    BY <1>3 DEF Handle, Receive, Prepare, IndexProfile, Acknowledge, StartOver, GiveUp, rebuildVars
  <2>2. step'[Rebuild] = step[Rebuild]
    BY <1>3, SearchConstants
       DEF Handle, Receive, Prepare, IndexProfile, Acknowledge, StartOver, GiveUp, Leave, Advance,
           RepairInv, PruneInv, Typed, TypeOK, Writers
  <2> QED BY <2>1, <2>2, DisturbedRepair
<1>4. CASE LoseCluster
  BY <1>4, DisturbedRepair DEF LoseCluster
<1>5. CASE UNCHANGED vars
  BY <1>5 DEF vars, profileVars, indexVars, rebuildVars, history, RepairInv, BatchInv, CalmInv, Live
<1> QED BY <1>1, <1>2, <1>3, <1>4, <1>5, Kinds, ReindexRepair

(* "the index is derived data": however wrong it has become, a rebuild     *)
(* that nothing disturbs leaves it equal to the rows, whatever the size of *)
(* its batches, and its prune leaves nothing else.                         *)
THEOREM RebuildsRepair == Spec => []RebuildRepairs
<1>1. Init => RepairInv
  <2> SUFFICES ASSUME Init PROVE RepairInv
    OBVIOUS
  <2>1. PruneInv
    BY InitPrune
  <2>2. todo = {} /\ batch = NoObject /\ at = None /\ ~calm
    BY DEF Init
  <2> QED BY <2>1, <2>2 DEF RepairInv, BatchInv, CalmInv, NoObject
<1>2. RepairInv => RebuildRepairs
  BY DEF RepairInv, PruneInv, StaleInv, BatchInv, CalmInv, RebuildRepairs, PassComplete,
         PruneComplete, Live
<1> QED BY <1>1, <1>2, RepairStep, PTL DEF Spec

-----------------------------------------------------------------------------
(* The columns of a profile.                                               *)

(* A request about to save a profile that nobody else has written since it *)
(* was loaded holds every column that it does not name as it is.           *)
HeldColumns(c) ==
  LET p == call[c].on IN
  pc[c] = "row" /\ call[c].op = "update" /\ row[p] = "live" /\ p \notin shared =>
    \A f \in Fields \ Named(c) : mem[c].cols[f] = content[p].cols[f]

ColumnsInv == Typed /\ \A c \in Calls : HeldColumns(c)

(* Only the save of the row writes columns, and nothing returns to it.     *)
LEMMA ColumnWriters ==
  ASSUME Typed, NEW c \in Calls, Continue(c)
  PROVE  /\ pc'[c] # "row"
         /\ \A p \in Profiles : content'[p].cols # content[p].cols =>
              /\ p = call[c].on /\ pc[c] = "row" /\ Insertable(c, p)
              /\ content'[p].cols = mem[c].cols
<1> USE DEF Typed, TypeOK, ProfilesTypeOK
<1>1. ASSUME Abandon(c) PROVE pc'[c] # "row" /\ content' = content
  BY <1>1 DEF Abandon, Goto
<1>2. CASE WriteRow(c)
  <2>1. AfterRow(call[c].data) # "row"
    BY NextSteps
  <2>2. call[c].on \in Profiles
    BY <1>2, ProfilesConstants DEF WriteRow, Request
  <2>3. content' = [content EXCEPT ![call[c].on] =
                      [content[call[c].on] EXCEPT !.cols = mem[c].cols]]
        /\ pc[c] = "row" /\ pc' = [pc EXCEPT ![c] = AfterRow(call[c].data)]
        /\ Insertable(c, call[c].on)
    BY <1>2 DEF WriteRow, Store, SavedColumns, Goto
  <2>4. content[call[c].on] \in Content
    BY <2>2
  <2>5. content'[call[c].on].cols = mem[c].cols
    BY <2>2, <2>3, <2>4 DEF Content
  <2> QED BY <2>1, <2>2, <2>3, <2>5
<1>3. ASSUME NEW new, Store(c, new), call[c].on \in Profiles => new.cols = content[call[c].on].cols
      PROVE  \A p \in Profiles : content'[p].cols = content[p].cols
  BY <1>3 DEF Store
<1>4. call[c].on \in Profiles => content[call[c].on] \in Content
  OBVIOUS
<1>5. CASE ClearInstruments(c)
  <2>1. call[c].on \in Profiles =>
          [content[call[c].on] EXCEPT !.ins = {}].cols = content[call[c].on].cols
    BY <1>4 DEF Content
  <2> QED BY <1>3, <1>5, <2>1 DEF ClearInstruments, Goto
<1>6. CASE FillInstruments(c)
  <2>1. call[c].on \in Profiles =>
          [content[call[c].on] EXCEPT !.ins = @ \cup call[c].data.ins].cols = content[call[c].on].cols
    BY <1>4 DEF Content
  <2>2. AfterInstruments(call[c].data) # "row"
    BY NextSteps
  <2> QED BY <1>3, <1>6, <2>1, <2>2 DEF FillInstruments, Goto
<1>7. CASE SetGenres(c)
  <2>1. call[c].on \in Profiles =>
          [content[call[c].on] EXCEPT !.gen = (@ \ Dropped(c)) \cup Added(c)].cols
            = content[call[c].on].cols
    BY <1>4 DEF Content
  <2> QED BY <1>3, <1>7, <2>1 DEF SetGenres, Goto
<1>8. CASE LookAtGenres(c) \/ BuildPayload(c) \/ Publish(c)
  BY <1>8 DEF LookAtGenres, BuildPayload, Publish, Goto
<1> QED BY <1>1, <1>2, <1>5, <1>6, <1>7, <1>8
        DEF Continue, RowRefused, InstrumentsRefused, GenresRefused

(* What the view loads is what is there, but for the named columns. *)
LEMMA BeginColumns ==
  ASSUME Typed, NEW c \in Calls, Begin(c)
  PROVE  HeldColumns(c)'
<1> USE DEF Typed, TypeOK, ProfilesTypeOK
<1>1. PICK p \in Profiles, d \in Payloads : Load(c, p, d) \/ CreateProfile(c, p, d)
  BY DEF Begin
<1>2. CASE CreateProfile(c, p, d)
  <2>1. call'[c].op = "create"
    BY <1>2 DEF CreateProfile
  <2> QED BY <2>1 DEF HeldColumns
<1>3. CASE Load(c, p, d)
  <2> DEFINE named == [f \in Fields |-> IF f \in d.names THEN c ELSE content[p].cols[f]]
  <2>1. /\ call'[c] = [op |-> "update", on |-> p, data |-> d]
        /\ mem'[c] = [content[p] EXCEPT !.cols = named]
        /\ content' = content
    BY <1>3 DEF Load
  <2>2. mem'[c].cols = named
    <3>1. content[p] \in Content
      OBVIOUS
    <3> HIDE DEF named
    <3> QED BY <2>1, <3>1 DEF Content
  <2>3. \A f \in Fields \ d.names : mem'[c].cols[f] = content[p].cols[f]
    BY <2>2
  <2> QED BY <2>1, <2>3 DEF HeldColumns, Named
<1> QED BY <1>1, <1>2, <1>3

LEMMA OtherColumns ==
  ASSUME Typed, NEW c \in Calls, OwnChanges(c), Noted, NEW d \in Calls \ {c}, HeldColumns(d)
  PROVE  HeldColumns(d)'
<1> SUFFICES ASSUME pc'[d] = "row", call'[d].op = "update", row'[call'[d].on] = "live",
                    call'[d].on \notin shared'
             PROVE  \A f \in Fields \ Named(d)' :
                      mem'[d].cols[f] = content'[call'[d].on].cols[f]
  BY DEF HeldColumns
<1> DEFINE p == call[d].on
<1>1. call'[d] = call[d] /\ pc[d] = "row" /\ mem'[d] = mem[d]
  BY DEF OwnChanges
<1>2. call[d] # None /\ p \in Profiles
  BY <1>1 DEF Typed, TypeOK, ProfilesTypeOK, Request
<1>3. d \in On(p) /\ Active(d)
  BY <1>1, <1>2 DEF On, Active
<1>4. p \notin shared /\ p \notin Crowded
  BY <1>1 DEF Noted
<1>5. ~Touches(p)
  <2>1. Touches(p) => c \in On(p) /\ Active(c)
    BY <1>2 DEF Touches, OwnChanges, Active
  <2> QED BY <1>2, <1>3, <1>4, <2>1 DEF Crowded
<1>6. row'[p] = row[p] /\ content'[p] = content[p]
  BY <1>5 DEF Touches
<1> QED BY <1>1, <1>4, <1>6 DEF HeldColumns, Named

LEMMA ColumnsStep == ColumnsInv /\ [Next]_vars => ColumnsInv'
<1> SUFFICES ASSUME ColumnsInv, [Next]_vars, NEW d \in Calls PROVE HeldColumns(d)'
  BY TypedStep DEF ColumnsInv
<1> USE DEF ColumnsInv
<1>1. ASSUME NEW c \in Calls, ByRequest(c) \/ RequestDies(c) PROVE HeldColumns(d)'
  <2>1. OwnChanges(c) /\ Noted
    BY <1>1, RequestTypes
  <2>2. CASE d # c
    BY <2>1, <2>2, OtherColumns
  <2>3. CASE d = c /\ Begin(c)
    BY <2>3, BeginColumns
  <2>4. CASE d = c /\ (Continue(c) \/ Die(c))
    BY <2>4, ColumnWriters
       DEF HeldColumns, Die, Abandon, Goto, Typed, TypeOK, ProfilesTypeOK
  <2> QED BY <1>1, <2>2, <2>3, <2>4 DEF ByRequest, RequestDies
<1>2. ASSUME NEW p \in Profiles, Deletion(p) PROVE HeldColumns(d)'
  <2>1. /\ UNCHANGED <<call, pc, mem>> /\ row' = [row EXCEPT ![p] = "gone"]
        /\ content' = [content EXCEPT ![p] = Blank] /\ shared \subseteq shared'
    BY <1>2, DeletionTypes DEF Noted
  <2>2. row \in [Profiles -> {"none", "live", "gone"}]
        /\ content \in [Profiles -> Content]
        /\ (pc[d] = "row" => call[d].on \in Profiles)
    BY DEF Typed, TypeOK, ProfilesTypeOK, Request
  <2> QED BY <2>1, <2>2 DEF HeldColumns, Named
<1>3. ASSUME NEW w \in Indexers, Handle(w) PROVE HeldColumns(d)'
  <2>1. UNCHANGED <<row, content, pc, shared>>
    BY <1>3 DEF Handle, Receive, Prepare, IndexProfile, Acknowledge, StartOver, GiveUp, Consumed,
                profileVars
  <2>2. pc[d] = "row" => call'[d] = call[d] /\ mem'[d] = mem[d]
    <3>1. UNCHANGED <<call, mem>> \/ (Consumed(got[w]) /\ got[w] # None)
      BY <1>3 DEF Handle, Receive, Prepare, IndexProfile, Acknowledge, StartOver, GiveUp,
                  profileVars, Typed, TypeOK
    <3>2. got[w] # None => got[w] \in Calls /\ pc[got[w]] = "done"
      BY DEF Typed, TypeOK, EventInv, Outstanding
    <3> QED BY <3>1, <3>2 DEF Consumed, Typed, TypeOK, ProfilesTypeOK
  <2> QED BY <2>1, <2>2 DEF HeldColumns, Named
<1>4. CASE Reindex \/ LoseCluster
  <2>1. UNCHANGED <<row, content, call, pc, mem>>
    BY <1>4, ReindexTypes DEF EventsKept, profileVars
  <2>2. UNCHANGED shared
    BY <1>4 DEF Reindex, LoseCluster, StartRebuild, QueryRows, ReadBatch, PrepareProfile,
                PruneDocument, WriteProfile, MatchStale, EndRebuild, RebuildFails, history
  <2> QED BY <2>1, <2>2 DEF HeldColumns, Named
<1>5. CASE UNCHANGED vars
  BY <1>5 DEF vars, profileVars, history, HeldColumns, Named
<1> QED BY <1>1, <1>2, <1>3, <1>4, <1>5, Kinds

(* update_profile() saves every column, and yet changes only those that    *)
(* the request names, as long as nobody writes the profile meanwhile.      *)
THEOREM OnlyNamedChange == Spec => OnlyNamedColumns
<1>1. Init => ColumnsInv
  BY InitTypes DEF Init, ProfilesInit, ColumnsInv, HeldColumns
<1>2. ColumnsInv /\ [Next]_vars =>
        [\A p \in Live, f \in Fields :
           content'[p].cols[f] # content[p].cols[f] =>
             \/ p \in shared \/ row'[p] # "live"
             \/ \E c \in On(p) : pc[c] = "row" /\ f \in Named(c)]_vars
  <2> SUFFICES ASSUME ColumnsInv, Next, NEW p \in Live, NEW f \in Fields,
                      content'[p].cols[f] # content[p].cols[f],
                      p \notin shared, row'[p] = "live"
               PROVE  \E c \in On(p) : pc[c] = "row" /\ f \in Named(c)
    OBVIOUS
  <2>1. p \in Profiles /\ row[p] = "live"
    BY DEF Live
  <2>2. ASSUME content' = content PROVE FALSE
    BY <2>2
  <2>3. ASSUME NEW c \in Calls, Continue(c) PROVE \E d \in On(p) : pc[d] = "row" /\ f \in Named(d)
    <3>1. /\ p = call[c].on /\ pc[c] = "row" /\ Insertable(c, p)
          /\ content'[p].cols = mem[c].cols
      BY <2>1, <2>3, ColumnWriters DEF ColumnsInv
    <3>2. call[c] \in Request /\ call[c] # None
      BY <3>1 DEF ColumnsInv, Typed, TypeOK, ProfilesTypeOK
    <3>3. call[c].op = "update" /\ c \in On(p)
      BY <2>1, <3>1, <3>2 DEF Insertable, Request, On
    <3>4. f \in Named(c)
      BY <2>1, <3>1, <3>3 DEF ColumnsInv, HeldColumns
    <3> QED BY <3>1, <3>3, <3>4
  <2>4. ASSUME NEW c \in Calls, Begin(c) \/ Die(c) PROVE FALSE
    BY <2>2, <2>4 DEF Begin, Load, CreateProfile, Die, Abandon
  <2>5. ASSUME NEW q \in Profiles, Deletion(q) PROVE FALSE
    <3>1. row' = [row EXCEPT ![q] = "gone"] /\ content' = [content EXCEPT ![q] = Blank]
      BY <2>5, DeletionTypes DEF ColumnsInv
    <3>2. q # p
      BY <2>1, <3>1 DEF ColumnsInv, Typed, TypeOK, ProfilesTypeOK
    <3> QED BY <2>1, <3>1, <3>2 DEF ColumnsInv, Typed, TypeOK, ProfilesTypeOK
  <2>6. ASSUME NEW w \in Indexers, Handle(w) PROVE FALSE
    BY <2>2, <2>6 DEF Handle, Receive, Prepare, IndexProfile, Acknowledge, StartOver, GiveUp, Consumed,
                profileVars
  <2>7. CASE Reindex \/ LoseCluster
    BY <2>2, <2>7, ReindexTypes DEF ColumnsInv, EventsKept, profileVars
  <2> QED BY <2>3, <2>4, <2>5, <2>6, <2>7, Kinds DEF ByRequest, RequestDies
<1> QED BY <1>1, <1>2, ColumnsStep, PTL DEF Spec, OnlyNamedColumns

-----------------------------------------------------------------------------
(* The index follows the rows.                                             *)

(* While nobody disturbs a rebuild, nothing is under way. *)
QuietInv ==
  calm => /\ Outstanding = {}
          /\ \A c \in Calls : ~Active(c)
          /\ \A w \in Indexers : step[w] = "idle"

(* A request comes only to the statements it needs. *)
OrderInv ==
  \A c \in Calls :
    /\ pc[c] = "row" => FirstStep(call[c].data) = "row"
    /\ pc[c] \in {"clear", "fill"} => "instruments" \in Named(c)
    /\ pc[c] \in {"look", "set"} => "genres" \in Named(c)

(* The object that a request works on: as the rows are, but for what it    *)
(* has still to write.                                                     *)
Holds(c, p) ==
  /\ call[c].op = "update" \/ pc[c] # "row" => row[p] = "live"
  /\ pc[c] \notin {"row", "publish"} => mem[c].cols = content[p].cols
  /\ pc[c] # "publish" =>
       /\ "instruments" \notin Named(c) => mem[c].ins = content[p].ins
       /\ "genres" \notin Named(c) => mem[c].gen = content[p].gen
  /\ pc[c] = "publish" => mem[c] = content[p]

(* A request has written something that its event will tell. *)
Ahead(c) == Active(c) /\ pc[c] # FirstStep(call[c].data)
Written(p) == \E c \in On(p) : Ahead(c)

Due(p) == On(p) \cap Outstanding

(* What is written to the document of p is what its row holds, unless a    *)
(* request is about to publish once more; and it is written.               *)
FollowsRow(p) ==
  /\ \A c \in On(p) : Active(c) => Holds(c, p)
  /\ \A e \in Due(p) : row[p] = "live" /\ (Written(p) \/ mem[e] = content[p])
  /\ \A d, e \in Due(p) : d = e
  /\ \A w \in Indexers : step[w] = "ack" /\ got[w] \in On(p) => Written(p) \/ doc[p] = content[p]
  /\ p \in todo => /\ row[p] = "live" /\ snap[p] = content[p]
                   /\ batch[p] # None => batch[p] = content[p]
  /\ \/ Written(p)
     \/ Due(p) # {}
     \/ doc[p] = IF row[p] = "live" THEN content[p] ELSE None

FollowInv == \A p \in Profiles \ excused : FollowsRow(p)

LEMMA QuietStep == Typed /\ QuietInv /\ [Next]_vars => QuietInv'
<1> SUFFICES ASSUME Typed, QuietInv, [Next]_vars PROVE QuietInv'
  OBVIOUS
<1>1. CASE \/ \E c \in Calls : ByRequest(c) \/ RequestDies(c)
           \/ \E p \in Profiles : Deletion(p)
           \/ LoseCluster
  BY <1>1 DEF ByRequest, RequestDies, Deletion, Noted, LoseCluster, QuietInv
<1>2. CASE \E w \in Indexers : Handle(w)
  BY <1>2 DEF Handle, Receive, Prepare, IndexProfile, Acknowledge, StartOver, GiveUp, QuietInv
<1>3. CASE Reindex
  <2>1. UNCHANGED <<profileVars, settled>>
    BY <1>3, ReindexTypes DEF EventsKept
  <2>2. \A w \in Indexers : step'[w] = step[w]
    <3>1. step' = step \/ \E s : Advance(Rebuild, s)
      BY <1>3 DEF Reindex, StartRebuild, QueryRows, ReadBatch, PrepareProfile, PruneDocument,
           WriteProfile, MatchStale, EndRebuild, RebuildFails, EndHere, indexVars
    <3> QED BY <3>1, SearchConstants DEF Advance, Typed, TypeOK, Writers
  <2>3. CASE StartRebuild
    BY <2>1, <2>2, <2>3 DEF StartRebuild, QuietInv, Outstanding, Active, profileVars
  <2>4. CASE ~StartRebuild
    <3>1. calm' => calm
      BY <1>3, <2>4 DEF Reindex, QueryRows, ReadBatch, PrepareProfile, PruneDocument, WriteProfile,
           MatchStale, EndRebuild, RebuildFails, EndHere, Forget, history
    <3> QED BY <2>1, <2>2, <3>1 DEF QuietInv, Outstanding, Active, profileVars
  <2> QED BY <2>3, <2>4
<1>4. CASE UNCHANGED vars
  BY <1>4 DEF vars, profileVars, indexVars, history, QuietInv, Outstanding, Active
<1> QED BY <1>1, <1>2, <1>3, <1>4, Kinds

(* The order of the statements. *)
LEMMA StatementOrder ==
  ASSUME NEW d
  PROVE  /\ FirstStep(d) \in {"row", "clear", "look", "build"}
         /\ AfterRow(d) \in {"clear", "look", "build"} /\ AfterInstruments(d) \in {"look", "build"}
         /\ "instruments" \in d.names => FirstStep(d) \in {"row", "clear"}
         /\ "genres" \in d.names => FirstStep(d) # "build"
         /\ FirstStep(d) = "clear" \/ AfterRow(d) = "clear" => "instruments" \in d.names
         /\ FirstStep(d) = "look" \/ AfterRow(d) = "look" \/ AfterInstruments(d) = "look" =>
              "genres" \in d.names
         /\ FirstStep(d) # "row" => d.names \cap Fields = {}
BY DEF FirstStep, AfterRow, AfterInstruments

(* What a step of a request is: the first, one that writes, the last, or   *)
(* the end without an event.                                               *)
Begins(c) ==
  /\ pc[c] = "idle" /\ Active(c)' /\ pc'[c] = FirstStep(call'[c].data)
  /\ UNCHANGED <<row, content, published>>
GoesOn(c) ==
  /\ Active(c) /\ Active(c)' /\ pc'[c] # FirstStep(call[c].data)
  /\ call'[c] = call[c] /\ UNCHANGED published
Publishes(c) ==
  /\ pc[c] = "publish" /\ pc'[c] = "done" /\ published' = published \cup {c}
  /\ UNCHANGED <<row, content, call, mem>>
Abandons(c) ==
  Active(c) /\ pc'[c] = "done" /\ call'[c] = None /\ UNCHANGED <<row, content, published>>

(* Where a request stands is where it should be. *)
InOrder(c) ==
  /\ pc[c] = "row" => FirstStep(call[c].data) = "row"
  /\ pc[c] \in {"clear", "fill"} => "instruments" \in Named(c)
  /\ pc[c] \in {"look", "set"} => "genres" \in Named(c)

LEMMA BeginOrder ==
  ASSUME Typed, NEW c \in Calls, Begin(c)
  PROVE  Begins(c) /\ InOrder(c)'
<1> USE DEF Typed, TypeOK, ProfilesTypeOK
<1>1. PICK p \in Profiles, d \in Payloads : Load(c, p, d) \/ CreateProfile(c, p, d)
  BY DEF Begin
<1>2. CASE Load(c, p, d)
  <2>1. /\ pc[c] = "idle" /\ call'[c] = [op |-> "update", on |-> p, data |-> d]
        /\ pc'[c] = FirstStep(d) /\ UNCHANGED <<row, content, published>>
    BY <1>2 DEF Load, Goto
  <2>2. call'[c].data = d
    BY <2>1
  <2> QED BY <2>1, <2>2, StatementOrder DEF Begins, Active, InOrder, Named
<1>3. CASE CreateProfile(c, p, d)
  <2> DEFINE all == [d EXCEPT !.names = Fields \cup Relations]
  <2>1. /\ pc[c] = "idle" /\ call'[c] = [op |-> "create", on |-> p, data |-> all]
        /\ pc'[c] = "row" /\ UNCHANGED <<row, content, published>>
    BY <1>3 DEF CreateProfile, Goto
  <2>2. all.names = Fields \cup Relations
    BY ProfilesConstants DEF Data
  <2> HIDE DEF all
  <2>3. FirstStep(all) = "row"
    BY <2>2, ProfilesConstants DEF FirstStep
  <2>4. call'[c].data = all
    BY <2>1
  <2> QED BY <2>1, <2>3, <2>4 DEF Begins, Active, InOrder, Named
<1> QED BY <1>1, <1>2, <1>3

LEMMA ContinueOrder ==
  ASSUME Typed, NEW c \in Calls, InOrder(c), Continue(c)
  PROVE  (GoesOn(c) \/ Publishes(c) \/ Abandons(c)) /\ InOrder(c)'
<1> USE DEF Typed, TypeOK, ProfilesTypeOK
<1> DEFINE d == call[c].data
<1>1. ASSUME Active(c), Abandon(c) PROVE Abandons(c) /\ InOrder(c)'
  BY <1>1 DEF Abandon, Goto, Abandons, InOrder
<1>2. ASSUME NEW s, NEW t \in Steps \ {"idle", "done"}, pc[c] = s, Active(c), Goto(c, t),
             UNCHANGED <<call, published>>,
             t # FirstStep(d), t # "row",
             t \in {"clear", "fill"} => "instruments" \in Named(c),
             t \in {"look", "set"} => "genres" \in Named(c)
      PROVE  GoesOn(c) /\ InOrder(c)'
  BY <1>2 DEF GoesOn, InOrder, Goto, Active, Named
<1>3. /\ FirstStep(d) \in {"row", "clear", "look", "build"}
      /\ AfterRow(d) \in {"clear", "look", "build"} /\ AfterInstruments(d) \in {"look", "build"}
      /\ "instruments" \in Named(c) => FirstStep(d) \in {"row", "clear"}
      /\ "genres" \in Named(c) => FirstStep(d) # "build"
      /\ AfterRow(d) = "clear" => "instruments" \in Named(c)
      /\ AfterRow(d) = "look" \/ AfterInstruments(d) = "look" => "genres" \in Named(c)
  BY StatementOrder DEF Named
<1> HIDE DEF d
<1>4. CASE WriteRow(c)
  <2>1. pc[c] = "row" /\ FirstStep(d) = "row" /\ Active(c)
    BY <1>4 DEF WriteRow, InOrder, Active, d
  <2> QED BY <1>2, <1>3, <1>4, <2>1 DEF WriteRow, Steps, d
<1>5. CASE ClearInstruments(c)
  <2>1. pc[c] = "clear" /\ "instruments" \in Named(c) /\ Active(c)
    BY <1>5 DEF ClearInstruments, InOrder, Active
  <2> QED BY <1>2, <1>3, <1>5, <2>1 DEF ClearInstruments, Steps
<1>6. CASE FillInstruments(c)
  <2>1. pc[c] = "fill" /\ "instruments" \in Named(c) /\ Active(c)
    BY <1>6 DEF FillInstruments, InOrder, Active
  <2>2. AfterInstruments(d) # FirstStep(d)
    BY <1>3, <2>1
  <2> QED BY <1>2, <1>3, <1>6, <2>1, <2>2 DEF FillInstruments, Steps, d
<1>7. CASE LookAtGenres(c)
  <2>1. pc[c] = "look" /\ "genres" \in Named(c) /\ Active(c)
    BY <1>7 DEF LookAtGenres, InOrder, Active
  <2> QED BY <1>2, <1>3, <1>7, <2>1 DEF LookAtGenres, Steps
<1>8. CASE SetGenres(c)
  <2>1. pc[c] = "set" /\ "genres" \in Named(c) /\ Active(c)
    BY <1>8 DEF SetGenres, InOrder, Active
  <2> QED BY <1>2, <1>3, <1>8, <2>1 DEF SetGenres, Steps
<1>9. CASE BuildPayload(c)
  <2>1. pc[c] = "build" /\ Active(c)
    BY <1>9 DEF BuildPayload, Active
  <2> QED BY <1>2, <1>3, <1>9, <2>1 DEF BuildPayload, Steps
<1>10. CASE Publish(c)
  BY <1>10 DEF Publish, Publishes, InOrder, Goto
<1>11. CASE RowRefused(c) \/ InstrumentsRefused(c) \/ GenresRefused(c)
  BY <1>1, <1>11 DEF RowRefused, InstrumentsRefused, GenresRefused, Active
<1> QED BY <1>4, <1>5, <1>6, <1>7, <1>8, <1>9, <1>10, <1>11 DEF Continue

LEMMA RequestOrder ==
  ASSUME Typed, OrderInv, NEW c \in Calls, ByRequest(c) \/ RequestDies(c)
  PROVE  OrderInv' /\ (Begins(c) \/ GoesOn(c) \/ Publishes(c) \/ Abandons(c))
<1>1. InOrder(c)
  BY DEF OrderInv, InOrder
<1>2. ASSUME Die(c) PROVE Abandons(c) /\ InOrder(c)'
  BY <1>2 DEF Die, Abandon, Goto, Abandons, InOrder, Typed, TypeOK, ProfilesTypeOK
<1>3. InOrder(c)' /\ (Begins(c) \/ GoesOn(c) \/ Publishes(c) \/ Abandons(c))
  BY <1>1, <1>2, BeginOrder, ContinueOrder DEF ByRequest, RequestDies
<1>4. \A d \in Calls \ {c} : call'[d] = call[d] /\ pc'[d] = pc[d]
  BY RequestTypes DEF OwnChanges
<1> QED BY <1>3, <1>4 DEF OrderInv, InOrder, Named

(* The object of a request stays what it should be as the request goes on. *)
LEMMA HoldsBegun ==
  ASSUME Typed, NEW c \in Calls, Begin(c), NEW p \in Profiles, call'[c].on = p
  PROVE  Holds(c, p)'
<1> USE DEF Typed, TypeOK, ProfilesTypeOK
<1>1. PICK q \in Profiles, d \in Payloads : Load(c, q, d) \/ CreateProfile(c, q, d)
  BY DEF Begin
<1>2. CASE CreateProfile(c, q, d)
  <2> DEFINE all == [d EXCEPT !.names = Fields \cup Relations]
  <2>1. call'[c] = [op |-> "create", on |-> q, data |-> all] /\ pc'[c] = "row"
    BY <1>2 DEF CreateProfile, Goto
  <2>2. all.names = Fields \cup Relations
    BY ProfilesConstants DEF Data
  <2> HIDE DEF all
  <2>3. Named(c)' = Fields \cup Relations
    BY <2>1, <2>2 DEF Named
  <2> QED BY <2>1, <2>3 DEF Holds, Relations
<1>3. CASE Load(c, q, d)
  <2> DEFINE named == [f \in Fields |-> IF f \in d.names THEN c ELSE content[q].cols[f]]
  <2>1. /\ call'[c] = [op |-> "update", on |-> q, data |-> d]
        /\ mem'[c] = [content[q] EXCEPT !.cols = named]
        /\ pc'[c] = FirstStep(d) /\ row[q] = "live" /\ UNCHANGED <<row, content>>
    BY <1>3 DEF Load, Goto
  <2>2. content[q] \in Content /\ content[q].cols \in [Fields -> Calls \cup {None}]
    BY DEF Content
  <2>3. FirstStep(d) # "row" => named = content[q].cols
    BY <2>2, StatementOrder
  <2>4. FirstStep(d) # "publish" /\ q = p
    BY <2>1, StatementOrder
  <2> HIDE DEF named
  <2>5. mem'[c].cols = named /\ mem'[c].ins = content[q].ins /\ mem'[c].gen = content[q].gen
    BY <2>1, <2>2 DEF Content
  <2> QED BY <2>1, <2>3, <2>4, <2>5 DEF Holds
<1> QED BY <1>1, <1>2, <1>3

LEMMA SameContent ==
  ASSUME NEW x \in Content, NEW y \in Content, x.cols = y.cols, x.ins = y.ins, x.gen = y.gen
  PROVE  x = y
<1>1. x = [cols |-> x.cols, ins |-> x.ins, gen |-> x.gen]
  BY DEF Content
<1>2. y = [cols |-> y.cols, ins |-> y.ins, gen |-> y.gen]
  BY DEF Content
<1> QED BY <1>1, <1>2

LEMMA HoldsContinued ==
  ASSUME Typed, NEW c \in Calls, InOrder(c), Continue(c), Active(c)',
         NEW p \in Profiles, call[c].on = p, Holds(c, p)
  PROVE  Holds(c, p)'
<1> USE DEF Typed, TypeOK, ProfilesTypeOK
<1>0. ~RowRefused(c) /\ ~InstrumentsRefused(c) /\ ~GenresRefused(c) /\ ~Publish(c)
  BY DEF RowRefused, InstrumentsRefused, GenresRefused, Publish, Abandon, Goto, Active
<1>1. content[p] \in Content /\ mem[c] \in Content
  OBVIOUS
<1>2. ASSUME NEW s \in {"clear", "fill", "look", "set", "build"}, Goto(c, s),
             UNCHANGED <<call, mem>>, NEW new, new = content'[p], row'[p] = "live",
             new.cols = mem[c].cols,
             "instruments" \notin Named(c) => new.ins = content[p].ins,
             "genres" \notin Named(c) => new.gen = content[p].gen,
             pc[c] # "publish"
      PROVE  Holds(c, p)'
  BY <1>2 DEF Holds, Goto, Named
<1>4. CASE WriteRow(c)
  <2> DEFINE new == [content[p] EXCEPT !.cols = mem[c].cols]
  <2>1. /\ pc[c] = "row" /\ content'[p] = new /\ row'[p] = "live"
        /\ Goto(c, AfterRow(call[c].data)) /\ UNCHANGED <<call, mem>>
    BY <1>4 DEF WriteRow, Store, SavedColumns
  <2>2. new.cols = mem[c].cols /\ new.ins = content[p].ins /\ new.gen = content[p].gen
    BY <1>1 DEF Content
  <2>3. AfterRow(call[c].data) \in {"clear", "look", "build"}
    BY StatementOrder
  <2> HIDE DEF new
  <2> QED BY <1>2, <2>1, <2>2, <2>3
<1>5. CASE ClearInstruments(c)
  <2> DEFINE new == [content[p] EXCEPT !.ins = {}]
  <2>1. /\ pc[c] = "clear" /\ content'[p] = new /\ UNCHANGED row
        /\ Goto(c, "fill") /\ UNCHANGED <<call, mem>>
    BY <1>5 DEF ClearInstruments, Store
  <2>2. new.cols = content[p].cols /\ new.gen = content[p].gen
    BY <1>1 DEF Content
  <2> HIDE DEF new
  <2>3. row[p] = "live" /\ mem[c].cols = content[p].cols /\ "instruments" \in Named(c)
    BY <2>1 DEF Holds, InOrder
  <2> QED BY <1>2, <2>1, <2>2, <2>3
<1>6. CASE FillInstruments(c)
  <2> DEFINE new == [content[p] EXCEPT !.ins = @ \cup call[c].data.ins]
  <2>1. /\ pc[c] = "fill" /\ content'[p] = new /\ UNCHANGED row
        /\ Goto(c, AfterInstruments(call[c].data)) /\ UNCHANGED <<call, mem>>
    BY <1>6 DEF FillInstruments, Store
  <2>2. new.cols = content[p].cols /\ new.gen = content[p].gen
    BY <1>1 DEF Content
  <2> HIDE DEF new
  <2>3. row[p] = "live" /\ mem[c].cols = content[p].cols /\ "instruments" \in Named(c)
    BY <2>1 DEF Holds, InOrder
  <2>4. AfterInstruments(call[c].data) \in {"look", "build"}
    BY StatementOrder
  <2> QED BY <1>2, <2>1, <2>2, <2>3, <2>4
<1>7. CASE LookAtGenres(c)
  <2>1. /\ pc[c] = "look" /\ UNCHANGED <<row, content>>
        /\ Goto(c, "set") /\ UNCHANGED <<call, mem>>
    BY <1>7 DEF LookAtGenres
  <2>2. row[p] = "live" /\ mem[c].cols = content[p].cols
    BY <2>1 DEF Holds
  <2> QED BY <1>2, <2>1, <2>2
<1>8. CASE SetGenres(c)
  <2> DEFINE new == [content[p] EXCEPT !.gen = (@ \ Dropped(c)) \cup Added(c)]
  <2>1. /\ pc[c] = "set" /\ content'[p] = new /\ UNCHANGED row
        /\ Goto(c, "build") /\ UNCHANGED <<call, mem>>
    BY <1>8 DEF SetGenres, Store
  <2>2. new.cols = content[p].cols /\ new.ins = content[p].ins
    BY <1>1 DEF Content
  <2> HIDE DEF new
  <2>3. row[p] = "live" /\ mem[c].cols = content[p].cols /\ "genres" \in Named(c)
    BY <2>1 DEF Holds, InOrder
  <2> QED BY <1>2, <2>1, <2>2, <2>3
<1>9. CASE BuildPayload(c)
  <2>1. /\ pc[c] = "build" /\ pc'[c] = "publish" /\ mem'[c] = Payload(c, p)
        /\ UNCHANGED <<row, content, call>>
    BY <1>9 DEF BuildPayload, Goto
  <2>2. /\ row[p] = "live" /\ mem[c].cols = content[p].cols
        /\ "instruments" \notin Named(c) => mem[c].ins = content[p].ins
        /\ "genres" \notin Named(c) => mem[c].gen = content[p].gen
    BY <2>1 DEF Holds
  <2>3. /\ Payload(c, p) \in Content /\ Payload(c, p).cols = content[p].cols
        /\ Payload(c, p).ins = content[p].ins /\ Payload(c, p).gen = content[p].gen
    BY <1>1, <2>2 DEF Payload, Content
  <2>4. Payload(c, p) = content[p]
    BY <1>1, <2>3, SameContent
  <2> QED BY <2>1, <2>2, <2>4 DEF Holds
<1> QED BY <1>0, <1>4, <1>5, <1>6, <1>7, <1>8, <1>9 DEF Continue

(* Other requests keep their objects unless somebody else writes.          *)
LEMMA HoldsElsewhere ==
  ASSUME NEW c \in Calls, OwnChanges(c), NEW d \in Calls \ {c}, NEW p \in Profiles,
         Holds(d, p), ~Touches(p)
  PROVE  Holds(d, p)'
<1>1. call'[d] = call[d] /\ pc'[d] = pc[d] /\ mem'[d] = mem[d]
  BY DEF OwnChanges
<1>2. row'[p] = row[p] /\ content'[p] = content[p]
  BY DEF Touches
<1> QED BY <1>1, <1>2 DEF Holds, Named

Follows ==
  /\ RepairInv /\ QuietInv /\ OrderInv
  /\ FollowInv

(* What a request leaves of a profile that it does not excuse. *)
LEMMA RequestWrites ==
  ASSUME Typed, NEW c \in Calls, OwnChanges(c), Noted,
         Begins(c) \/ GoesOn(c) \/ Publishes(c) \/ Abandons(c),
         NEW p \in Profiles, p \notin excused'
  PROVE  /\ Touches(p) => Written(p)' /\ c \in On(p) /\ Active(c)
         /\ Written(p) => Written(p)' \/ (Publishes(c) /\ c \in On(p))
         /\ Publishes(c) /\ c \in On(p) => Due(p) = {}
         /\ Touches(p) => snap[p] = None
         /\ Touches(p) => \A d \in On(p) : Active(d) => d = c
         /\ p \notin excused
<1> USE DEF Typed, TypeOK, ProfilesTypeOK
<1>1. ~Excuses(p) /\ p \notin excused
  BY DEF Noted
<1>2. Touches(p) => c \in On(p) /\ Active(c)
  BY DEF Touches, OwnChanges, Active
<1>3. ASSUME GoesOn(c), c \in On(p) PROVE Written(p)'
  <2>1. call'[c] = call[c] /\ Active(c)' /\ pc'[c] # FirstStep(call[c].data)
    BY <1>3 DEF GoesOn
  <2>2. c \in On(p)'
    BY <1>3, <2>1 DEF On
  <2>3. Ahead(c)'
    BY <2>1 DEF Ahead
  <2> QED BY <2>2, <2>3 DEF Written
<1>4. Touches(p) => GoesOn(c)
  BY DEF Touches, Begins, Publishes, Abandons
<1>5. ASSUME NEW d \in On(p), d # c, Ahead(d) PROVE Written(p)'
  <2>1. call'[d] = call[d] /\ pc'[d] = pc[d] /\ d \in Calls
    BY <1>5 DEF On, OwnChanges
  <2>2. d \in On(p)'
    BY <1>5, <2>1 DEF On
  <2>3. Ahead(d)'
    BY <1>5, <2>1 DEF Ahead, Active
  <2> QED BY <2>2, <2>3 DEF Written
<1>6. ASSUME c \in On(p), Ahead(c) PROVE Written(p)' \/ Publishes(c)
  <2>1. ~Begins(c)
    BY <1>6 DEF Begins, Ahead, Active
  <2>2. ~Abandons(c)
    BY <1>1, <1>6 DEF Abandons, Ahead, Excuses, OwnChanges
  <2> QED BY <1>3, <1>6, <2>1, <2>2
<1>7. ASSUME Publishes(c), c \in On(p) PROVE Due(p) = {}
  BY <1>1, <1>7 DEF Publishes, Excuses, Due, OwnChanges
<1>8. Touches(p) => \A d \in On(p) : Active(d) => d = c
  BY <1>1, <1>2 DEF Excuses, Crowded
<1> QED BY <1>1, <1>2, <1>3, <1>4, <1>5, <1>6, <1>7, <1>8 DEF Excuses, Written

LEMMA RequestFollows ==
  ASSUME Typed, OrderInv, NEW c \in Calls, ByRequest(c) \/ RequestDies(c),
         NEW p \in Profiles, p \notin excused', FollowsRow(p)
  PROVE  FollowsRow(p)'
<1> USE DEF Typed, TypeOK, ProfilesTypeOK
<1>1. OwnChanges(c) /\ Noted /\ InOrder(c)
      /\ (Begins(c) \/ GoesOn(c) \/ Publishes(c) \/ Abandons(c))
  BY RequestTypes, RequestOrder DEF OrderInv, InOrder
<1>2. /\ Touches(p) => Written(p)' /\ c \in On(p) /\ Active(c)
      /\ Written(p) => Written(p)' \/ (Publishes(c) /\ c \in On(p))
      /\ Publishes(c) /\ c \in On(p) => Due(p) = {}
      /\ Touches(p) => snap[p] = None
      /\ Touches(p) => \A d \in On(p) : Active(d) => d = c
      /\ p \notin excused
  BY <1>1, RequestWrites
<1>3. UNCHANGED <<settled, doc, got, step, todo, snap, batch>>
  BY <1>1 DEF Noted, indexVars, rebuildVars
<1>4. \A d \in Calls \ {c} : call'[d] = call[d] /\ pc'[d] = pc[d] /\ mem'[d] = mem[d]
                            /\ (d \in On(p)' <=> d \in On(p))
  BY <1>1 DEF OwnChanges, On
<1>5. ~Touches(p) => row'[p] = row[p] /\ content'[p] = content[p]
  BY DEF Touches
<1>6. row[p] = "live" => row'[p] = "live"
  BY <1>1 DEF OwnChanges
<1>7. c \notin published /\ c \notin Due(p) /\ On(p) \subseteq Calls
      /\ (\A e \in Due(p)' : e # c => e \in Due(p))
      /\ (\A e \in Due(p) : e \in Due(p)')
      /\ (\A e \in Due(p) : e \in published /\ e # c /\ e \in Calls)
  <2>1. c \notin published /\ published \subseteq published' /\ published' \subseteq published \cup {c}
    BY <1>1 DEF OwnChanges
  <2> QED BY <1>3, <1>4, <2>1 DEF Due, Outstanding, On
<1>8. c \in Due(p)' => Publishes(c) /\ c \in On(p)
  <2>1. c \in Due(p)' => Publishes(c)
    BY <1>1, <1>7 DEF Due, Outstanding, Begins, GoesOn, Abandons
  <2> QED BY <2>1 DEF Due, Publishes, On
<1>9. \A e \in Due(p) : row'[p] = "live" /\ Due(p)' = {e}
        /\ (Written(p)' \/ (mem'[e] = content'[p] /\ ~Touches(p)))
  <2> SUFFICES ASSUME NEW e \in Due(p)
               PROVE  /\ row'[p] = "live" /\ Due(p)' = {e}
                      /\ (Written(p)' \/ (mem'[e] = content'[p] /\ ~Touches(p)))
    OBVIOUS
  <2>1. /\ row[p] = "live" /\ (Written(p) \/ mem[e] = content[p])
        /\ \A d \in Due(p) : d = e
    BY DEF FollowsRow
  <2>2. ~(Publishes(c) /\ c \in On(p))
    BY <1>2
  <2>3. Due(p)' = {e}
    BY <1>7, <1>8, <2>1, <2>2
  <2> QED BY <1>2, <1>4, <1>5, <1>6, <1>7, <2>1, <2>2, <2>3
<1>10. ASSUME NEW d \in On(p)', Active(d)' PROVE Holds(d, p)'
  <2>1. CASE d = c
    <3>1. call'[c].on = p /\ call'[c] # None
      BY <2>1 DEF On
    <3>2. CASE Begin(c)
      BY <2>1, <3>1, <3>2, HoldsBegun
    <3>3. ASSUME ~Begin(c) PROVE Holds(c, p)'
      <4>1. ~Die(c) /\ Continue(c)
        BY <1>10, <2>1, <3>3 DEF Die, Abandon, Goto, Active, ByRequest, RequestDies
      <4>2. Active(c)
        BY <4>1 DEF Continue, Active, WriteRow, RowRefused, ClearInstruments, FillInstruments,
             InstrumentsRefused, LookAtGenres, SetGenres, GenresRefused, BuildPayload, Publish
      <4>3. ~Publishes(c) /\ ~Abandons(c) /\ ~Begins(c)
        BY <1>10, <2>1, <4>2 DEF Publishes, Abandons, Begins, Active
      <4>4. call[c] = call'[c]
        BY <1>1, <4>3 DEF GoesOn
      <4>5. c \in On(p) /\ call[c].on = p
        BY <3>1, <4>4 DEF On
      <4>6. Holds(c, p)
        BY <4>2, <4>5 DEF FollowsRow
      <4> QED BY <1>1, <1>10, <2>1, <4>1, <4>5, <4>6, HoldsContinued
    <3> QED BY <2>1, <3>2, <3>3
  <2>2. CASE d # c
    <3>1. d \in Calls /\ d \in On(p)
      BY <1>4, <2>2 DEF On
    <3>2. pc'[d] = pc[d]
      BY <1>4, <2>2, <3>1
    <3>3. Active(d)
      BY <1>10, <3>2 DEF Active
    <3>4. Holds(d, p) /\ ~Touches(p)
      BY <1>2, <2>2, <3>1, <3>3 DEF FollowsRow
    <3> QED BY <1>1, <2>2, <3>1, <3>4, HoldsElsewhere
  <2> QED BY <2>1, <2>2
<1>11. ASSUME NEW e \in Due(p)' PROVE row'[p] = "live" /\ (Written(p)' \/ mem'[e] = content'[p])
  <2>1. CASE e # c
    BY <1>7, <1>9, <2>1
  <2>2. CASE e = c
    <3>1. Publishes(c) /\ c \in On(p)
      BY <1>8, <2>2
    <3>2. pc[c] = "publish" /\ Active(c) /\ UNCHANGED <<row, content, mem>>
      BY <3>1 DEF Publishes, Active
    <3>3. Holds(c, p)
      BY <3>1, <3>2 DEF FollowsRow
    <3> QED BY <2>2, <3>2, <3>3 DEF Holds
  <2> QED BY <2>1, <2>2
<1>12. \A d, e \in Due(p)' : d = e
  BY <1>2, <1>7, <1>8, <1>9
<1>13. ASSUME NEW w \in Indexers, step'[w] = "ack", got'[w] \in On(p)'
       PROVE  Written(p)' \/ doc'[p] = content'[p]
  <2>1. got[w] \in Outstanding /\ step[w] = "ack" /\ got[w] \in On(p)'
    <3>1. None \notin On(p)'
      BY ProfilesConstants DEF On
    <3> QED BY <1>3, <1>13, <3>1 DEF EventInv
  <2>2. got[w] # c /\ got[w] \in Calls
    BY <1>7, <2>1 DEF Outstanding
  <2>3. got[w] \in On(p) /\ got[w] \in Due(p)
    BY <1>4, <2>1, <2>2 DEF Due
  <2>4. Written(p) \/ doc[p] = content[p]
    BY <2>1, <2>3 DEF FollowsRow
  <2> QED BY <1>2, <1>3, <1>5, <2>3, <2>4
<1>14. ASSUME p \in todo'
       PROVE  row'[p] = "live" /\ snap'[p] = content'[p]
              /\ (batch'[p] # None => batch'[p] = content'[p])
  <2>1. snap[p] # None
    BY <1>3, <1>14 DEF SnapInv
  <2> QED BY <1>2, <1>3, <1>5, <1>14, <2>1 DEF FollowsRow
<1>15. \/ Written(p)'
       \/ Due(p)' # {}
       \/ doc'[p] = IF row'[p] = "live" THEN content'[p] ELSE None
  <2>1. CASE Publishes(c) /\ c \in On(p)
    <3>1. c \in Due(p)'
      <4>1. c \in On(p)' /\ c \in published'
        BY <2>1 DEF Publishes, On
      <4>2. c \notin settled'
        BY <1>3, <1>7
      <4> QED BY <4>1, <4>2 DEF Due, Outstanding
    <3> QED BY <3>1
  <2>2. CASE ~(Publishes(c) /\ c \in On(p)) /\ ~Written(p)'
    <3>1. ~Written(p) /\ ~Touches(p)
      BY <1>2, <2>2
    <3>2. Due(p) # {} => Due(p)' # {}
      BY <1>7
    <3> QED BY <1>3, <1>5, <3>1, <3>2 DEF FollowsRow
  <2> QED BY <2>1, <2>2
<1> QED BY <1>10, <1>11, <1>12, <1>13, <1>14, <1>15 DEF FollowsRow

LEMMA DeletionFollows ==
  ASSUME Typed, NEW q \in Profiles, Deletion(q), NEW p \in Profiles, p \notin excused',
         FollowsRow(p)
  PROVE  FollowsRow(p)'
<1> USE DEF Typed, TypeOK, ProfilesTypeOK
<1>1. /\ Noted /\ UNCHANGED <<call, pc, mem, published>>
      /\ row[q] = "live" /\ row' = [row EXCEPT ![q] = "gone"]
      /\ content' = [content EXCEPT ![q] = Blank]
  BY DeletionTypes
<1>2. p # q
  <2>1. row'[q] = "gone"
    BY <1>1
  <2> QED BY <1>1, <2>1 DEF Noted, Excuses
<1>3. row'[p] = row[p] /\ content'[p] = content[p]
  BY <1>1, <1>2
<1>4. UNCHANGED <<settled, doc, got, step, todo, snap, batch>>
  BY <1>1 DEF Noted, indexVars, rebuildVars
<1> QED BY <1>1, <1>3, <1>4
        DEF FollowsRow, Holds, Written, Ahead, Active, Due, Outstanding, On, Named

(* The consumers: what an event brings to the index is what its row holds. *)
LEMMA AckedIsDue ==
  ASSUME Typed, NEW w \in Indexers, NEW p \in Profiles, got[w] \in On(p)
  PROVE  got[w] \in Due(p)
BY ProfilesConstants DEF Typed, EventInv, Due, On

LEMMA WrittenFollows ==
  ASSUME Typed, NEW w \in Indexers, IndexProfile(w), NEW p \in Profiles, FollowsRow(p)
  PROVE  FollowsRow(p)'
<1> USE DEF Typed, TypeOK, ProfilesTypeOK
<1> DEFINE e == got[w]
<1>1. /\ step[w] = "write" /\ doc' = [doc EXCEPT ![call[e].on] = mem[e]]
      /\ step' = [step EXCEPT ![w] = "ack"]
      /\ UNCHANGED <<profileVars, settled, got, todo, snap, batch>>
  BY DEF IndexProfile, IndexDocument, Advance
<1>2. e # None /\ e \in Calls /\ call[e] # None /\ call[e] \in Request
  BY <1>1 DEF EventInv, Outstanding
<1>3. UNCHANGED <<row, content, call, pc, mem, published>>
  BY <1>1 DEF profileVars
<1>4. CASE e \notin On(p)
  <2>1. doc'[p] = doc[p]
    BY <1>1, <1>2, <1>4 DEF On
  <2>2. \A v \in Indexers : step'[v] = "ack" /\ got[v] \in On(p) => step[v] = "ack"
    BY <1>1, <1>4
  <2> QED BY <1>1, <1>3, <2>1, <2>2
          DEF FollowsRow, Holds, Written, Ahead, Active, Due, Outstanding, On, Named
<1>5. CASE e \in On(p)
  <2>1. doc'[p] = mem[e]
    BY <1>1, <1>5 DEF On
  <2>2. e \in Due(p)
    BY <1>5, AckedIsDue
  <2>3. Written(p) \/ doc'[p] = content[p]
    BY <2>1, <2>2 DEF FollowsRow
  <2>4. UNCHANGED <<Due(p), Written(p), On(p)>>
    BY <1>1, <1>3 DEF Due, Outstanding, Written, Ahead, Active, On
  <2>5. \A c \in On(p) : Active(c)' => Holds(c, p)'
    BY <1>3 DEF FollowsRow, Holds, Active, Named
  <2> QED BY <1>1, <1>3, <2>2, <2>3, <2>4, <2>5 DEF FollowsRow
<1> QED BY <1>4, <1>5

LEMMA SettledFollows ==
  ASSUME Typed, NEW w \in Indexers, got[w] # None, Consumed(got[w]),
         settled' = settled \cup {got[w]}, got' = [got EXCEPT ![w] = None],
         \A v \in Indexers : step'[v] = "ack" => step[v] = "ack",
         UNCHANGED <<doc, todo, snap, batch>>,
         NEW p \in Profiles, FollowsRow(p), got[w] \in On(p) => step[w] = "ack"
  PROVE  FollowsRow(p)'
<1> USE DEF Typed, TypeOK, ProfilesTypeOK
<1> DEFINE e == got[w]
<1>1. e \in Calls /\ pc[e] = "done" /\ e \in Outstanding
  BY DEF EventInv, Outstanding
<1>2. /\ call' = [call EXCEPT ![e] = None] /\ mem' = [mem EXCEPT ![e] = Blank]
      /\ UNCHANGED <<row, content, pc, published>>
  BY DEF Consumed
<1>3. On(p)' = On(p) \ {e} /\ \A c \in On(p)' : call'[c] = call[c] /\ mem'[c] = mem[c]
  BY <1>1, <1>2 DEF On
<1>4. Due(p)' = Due(p) \ {e}
  BY <1>2, <1>3 DEF Due, Outstanding
<1>5. ~Active(e) /\ \A c \in Calls : Active(c)' <=> Active(c)
  BY <1>1, <1>2 DEF Active
<1>6. Written(p)' <=> Written(p)
  <2>1. \A c \in On(p)' : Ahead(c)' <=> Ahead(c)
    BY <1>2, <1>3 DEF Ahead, Active
  <2> QED BY <1>3, <1>5, <2>1 DEF Written, Ahead
<1>7. \A c \in On(p)' : Active(c)' => Holds(c, p)'
  <2> SUFFICES ASSUME NEW c \in On(p)', Active(c)' PROVE Holds(c, p)'
    OBVIOUS
  <2>1. c \in On(p) /\ c \in Calls /\ Active(c) /\ call'[c] = call[c] /\ mem'[c] = mem[c]
    BY <1>3, <1>5 DEF On
  <2>2. Holds(c, p)
    BY <2>1 DEF FollowsRow
  <2> QED BY <1>2, <2>1, <2>2 DEF Holds, Named
<1>8. \A d \in Due(p)' : row'[p] = "live" /\ (Written(p)' \/ mem'[d] = content'[p])
  <2>1. \A d \in Due(p)' : d \in Due(p) /\ d \in On(p)'
    BY <1>4 DEF Due
  <2> QED BY <1>2, <1>3, <1>6, <2>1 DEF FollowsRow
<1>9. \A v \in Indexers : step'[v] = "ack" /\ got'[v] \in On(p)' => Written(p)' \/ doc'[p] = content'[p]
  <2> SUFFICES ASSUME NEW v \in Indexers, step'[v] = "ack", got'[v] \in On(p)'
               PROVE  Written(p)' \/ doc'[p] = content'[p]
    OBVIOUS
  <2>1. v # w
    <3>1. None \notin On(p)'
      BY ProfilesConstants DEF On
    <3> QED BY <3>1
  <2>2. got[v] \in On(p) /\ step[v] = "ack"
    BY <1>3, <2>1
  <2> QED BY <1>2, <1>6, <2>2 DEF FollowsRow
<1>10. \/ Written(p)' \/ Due(p)' # {}
       \/ doc'[p] = IF row'[p] = "live" THEN content'[p] ELSE None
  <2>1. CASE e \in On(p)
    <3>1. row[p] = "live"
      BY <2>1, AckedIsDue DEF FollowsRow
    <3>2. Written(p) \/ doc[p] = content[p]
      BY <2>1 DEF FollowsRow
    <3> QED BY <1>2, <1>6, <3>1, <3>2
  <2>2. CASE e \notin On(p)
    <3>1. Due(p)' = Due(p)
      BY <1>4, <2>2 DEF Due
    <3> QED BY <1>2, <1>6, <3>1 DEF FollowsRow
  <2> QED BY <2>1, <2>2
<1>11. \A c, d \in Due(p)' : c = d
  BY <1>4 DEF FollowsRow
<1>12. p \in todo' => /\ row'[p] = "live" /\ snap'[p] = content'[p]
                      /\ batch'[p] # None => batch'[p] = content'[p]
  BY <1>2 DEF FollowsRow
<1> QED BY <1>7, <1>8, <1>9, <1>10, <1>11, <1>12 DEF FollowsRow

LEMMA HandleFollows ==
  ASSUME Typed, NEW w \in Indexers, Handle(w), NEW p \in Profiles, p \notin excused',
         FollowsRow(p)
  PROVE  FollowsRow(p)'
<1> USE DEF Typed, TypeOK
<1>1. CASE (\E e \in Calls : Receive(w, e)) \/ Prepare(w) \/ StartOver(w)
  <2>1. UNCHANGED <<profileVars, settled, doc, todo, snap, batch>>
    BY <1>1 DEF Receive, Prepare, StartOver, rebuildVars
  <2>2. \A v \in Indexers : step'[v] = "ack" => step[v] = "ack" /\ got'[v] = got[v]
    BY <1>1 DEF Receive, Prepare, StartOver, Leave, Advance, Writers
  <2> QED BY <2>1, <2>2
          DEF FollowsRow, Holds, Written, Ahead, Active, Due, Outstanding, On, Named, profileVars
<1>2. CASE IndexProfile(w)
  BY <1>2, WrittenFollows
<1>3. CASE Acknowledge(w)
  <2>1. /\ step[w] = "ack" /\ Consumed(got[w])
        /\ settled' = settled \cup {got[w]} /\ got' = [got EXCEPT ![w] = None]
        /\ step' = [step EXCEPT ![w] = "idle"] /\ UNCHANGED <<doc, todo, snap, batch>>
    BY <1>3 DEF Acknowledge, Leave, Advance, rebuildVars
  <2>2. got[w] # None /\ \A v \in Indexers : step'[v] = "ack" => step[v] = "ack"
    BY <2>1 DEF Writers
  <2> QED BY <2>1, <2>2, SettledFollows
<1>4. CASE GiveUp(w)
  <2>1. /\ step[w] # "idle" /\ Consumed(got[w]) /\ excused' = excused \cup {call[got[w]].on}
        /\ settled' = settled \cup {got[w]} /\ got' = [got EXCEPT ![w] = None]
        /\ step' = [step EXCEPT ![w] = "idle"] /\ UNCHANGED <<doc, todo, snap, batch>>
    BY <1>4 DEF GiveUp, Leave, Advance, rebuildVars
  <2>2. got[w] # None /\ \A v \in Indexers : step'[v] = "ack" => step[v] = "ack"
    BY <2>1 DEF Writers
  <2>3. got[w] \notin On(p)
    BY <2>1 DEF On
  <2> QED BY <2>1, <2>2, <2>3, SettledFollows
<1> QED BY <1>1, <1>2, <1>3, <1>4 DEF Handle

(* The rebuild and the loss of the cluster: requests and events stay, and  *)
(* a document changes only to what it should be.                           *)
LEMMA DocumentFollows ==
  ASSUME Typed, EventsKept, NEW p \in Profiles, FollowsRow(p),
         \A w \in Indexers : step'[w] = step[w],
         doc'[p] \in {doc[p], IF row[p] = "live" THEN content[p] ELSE None},
         p \in todo' => /\ row[p] = "live" /\ snap'[p] = content[p]
                        /\ batch'[p] # None => batch'[p] = content[p]
  PROVE  FollowsRow(p)'
<1>1. UNCHANGED <<row, content, call, pc, mem, published, settled, got>>
  BY DEF EventsKept, profileVars
<1>2. On(p)' = On(p) /\ Due(p)' = Due(p) /\ (Written(p)' <=> Written(p))
  BY <1>1 DEF On, Due, Outstanding, Written, Ahead, Active
<1>3. \A c \in On(p) : Active(c)' => Holds(c, p)'
  BY <1>1 DEF FollowsRow, Holds, Active, Named
<1>4. \A w \in Indexers : step[w] = "ack" /\ got[w] \in On(p) => Written(p) \/ doc'[p] = content[p]
  BY AckedIsDue DEF FollowsRow
<1> QED BY <1>1, <1>2, <1>3, <1>4 DEF FollowsRow

LEMMA IndexersStay ==
  ASSUME Typed, Reindex \/ LoseCluster
  PROVE  \A w \in Indexers : step'[w] = step[w]
<1>1. step' = step \/ \E s : Advance(Rebuild, s)
  BY DEF Reindex, StartRebuild, QueryRows, ReadBatch, PrepareProfile, PruneDocument,
         WriteProfile, MatchStale, EndRebuild, RebuildFails, EndHere, LoseCluster, indexVars
<1> QED BY <1>1, SearchConstants DEF Advance, Typed, TypeOK, Writers

LEMMA ReindexFollows ==
  ASSUME Follows, Reindex \/ LoseCluster, ~EndRebuild, NEW p \in Profiles, p \notin excused'
  PROVE  FollowsRow(p)'
<1>1. Typed /\ BatchInv
  BY DEF Follows, RepairInv, PruneInv
<1>2. EventsKept /\ \A w \in Indexers : step'[w] = step[w]
  BY <1>1, ReindexTypes, IndexersStay
<1>3. p \notin excused
  BY DEF Reindex, LoseCluster, StartRebuild, QueryRows, ReadBatch, PrepareProfile, PruneDocument,
         WriteProfile, MatchStale, RebuildFails, history
<1>4. FollowsRow(p)
  BY <1>3 DEF Follows, FollowInv
<1>5. p \in todo => /\ row[p] = "live" /\ snap[p] = content[p]
                    /\ batch[p] # None => batch[p] = content[p]
  BY <1>4 DEF FollowsRow
<1>6. /\ content \in [Profiles -> Content] /\ doc \in [Profiles -> Content \cup {None}]
      /\ snap \in [Profiles -> Content \cup {None}] /\ batch \in [Profiles -> Content \cup {None}]
  BY <1>1 DEF Typed, TypeOK, ProfilesTypeOK
<1>7. SUFFICES /\ doc'[p] \in {doc[p], IF row[p] = "live" THEN content[p] ELSE None}
               /\ p \in todo' => /\ row[p] = "live" /\ snap'[p] = content[p]
                                 /\ batch'[p] # None => batch'[p] = content[p]
  BY <1>1, <1>2, <1>4, DocumentFollows
<1>8. CASE StartRebuild \/ MatchStale \/ \E q \in Profiles : PrepareProfile(q)
  BY <1>5, <1>8 DEF StartRebuild, MatchStale, PrepareProfile
<1>9. CASE QueryRows
  <2>1. /\ doc' = doc /\ batch' = batch /\ todo' = Live /\ step[Rebuild] = "query"
        /\ snap' = [q \in Profiles |-> IF q \in Live THEN content[q] ELSE None]
    BY <1>9 DEF QueryRows
  <2>2. batch[p] = None
    BY <1>1, <2>1 DEF BatchInv
  <2> QED BY <2>1, <2>2 DEF Live
<1>10. CASE ReadBatch
  <2>1. doc' = doc /\ todo' = todo /\ snap' = snap
    BY <1>10 DEF ReadBatch, indexVars
  <2>2. PICK B \in SUBSET todo : batch' = [q \in Profiles |->
            IF q \in B THEN [content[q] EXCEPT !.cols = snap[q].cols] ELSE None]
    BY <1>10 DEF ReadBatch
  <2>3. content[p] \in Content /\ [content[p] EXCEPT !.cols = content[p].cols] = content[p]
    BY <1>6 DEF Content
  <2> QED BY <1>5, <2>1, <2>2, <2>3
<1>11. CASE WriteProfile
  <2>1. /\ at # None /\ doc' = [doc EXCEPT ![at] = batch[at]] /\ todo' = todo \ {at}
        /\ snap' = [snap EXCEPT ![at] = None] /\ batch' = [batch EXCEPT ![at] = None]
    BY <1>11 DEF WriteProfile, IndexDocument
  <2>2. at \in todo /\ batch[at] # None
    BY <1>1, <2>1 DEF BatchInv
  <2> QED BY <1>5, <1>6, <2>1, <2>2
<1>12. CASE \E q \in Profiles : PruneDocument(q)
  <2>1. PICK q \in Profiles : PruneDocument(q)
    BY <1>12
  <2>2. /\ doc' = [doc EXCEPT ![q] = None] /\ UNCHANGED <<todo, snap, batch>>
        /\ excused' = excused \cup ({q} \cap Live)
    BY <2>1 DEF PruneDocument
  <2>3. q = p => row[p] # "live"
    BY <2>2 DEF Live
  <2> QED BY <1>5, <1>6, <2>2, <2>3
<1>13. CASE RebuildFails
  BY <1>13 DEF RebuildFails
<1>14. CASE LoseCluster
  <2>1. /\ doc' = [q \in Profiles |-> None] /\ UNCHANGED <<todo, snap, batch>>
        /\ excused' = excused \cup {q \in Profiles : doc[q] # None}
    BY <1>14 DEF LoseCluster
  <2> QED BY <1>5, <2>1
<1> QED BY <1>8, <1>9, <1>10, <1>11, <1>12, <1>13, <1>14 DEF Reindex

(* A rebuild that nothing disturbed excuses again what it has repaired.    *)
LEMMA EndFollows ==
  ASSUME Follows, EndRebuild, NEW p \in Profiles, p \notin excused'
  PROVE  FollowsRow(p)'
<1>1. Typed /\ StaleInv /\ BatchInv /\ CalmInv /\ QuietInv
  BY DEF Follows, RepairInv, PruneInv
<1>2. /\ EventsKept /\ (\A w \in Indexers : step'[w] = step[w])
      /\ UNCHANGED <<doc, todo, snap, batch>>
  BY <1>1, ReindexTypes, IndexersStay DEF Reindex, EndRebuild
<1>3. CASE p \notin excused
  <2>1. FollowsRow(p)
    BY <1>3 DEF Follows, FollowInv
  <2>2. p \in todo => /\ row[p] = "live" /\ snap[p] = content[p]
                      /\ batch[p] # None => batch[p] = content[p]
    BY <2>1 DEF FollowsRow
  <2> QED BY <1>1, <1>2, <2>1, <2>2, DocumentFollows
<1>4. CASE p \in excused
  <2>1. calm /\ p \in Repaired /\ (PassComplete \/ PruneComplete)
    BY <1>4 DEF EndRebuild, Repaired
  <2>2. todo = {} /\ step[Rebuild] \in {"next", "delete"}
    BY <1>1, <2>1 DEF PassComplete, PruneComplete, StaleInv
  <2>3. doc[p] = IF row[p] = "live" THEN content[p] ELSE None
    <3>1. CASE row[p] = "live"
      BY <1>1, <2>1, <2>2, <3>1 DEF CalmInv, Live
    <3>2. CASE row[p] # "live"
      <4>1. p \notin Live /\ PruneComplete
        BY <2>1, <3>2 DEF Repaired, Live
      <4> QED BY <1>1, <2>1, <3>2, <4>1 DEF CalmInv, PruneComplete
    <3> QED BY <3>1, <3>2
  <2>4. Outstanding = {} /\ (\A c \in Calls : ~Active(c)) /\ \A w \in Indexers : step[w] = "idle"
    BY <1>1, <2>1 DEF QuietInv
  <2>5. Due(p) = {} /\ On(p) \subseteq Calls
    BY <2>4 DEF Due, On
  <2>6. FollowsRow(p)
    BY <2>2, <2>3, <2>4, <2>5 DEF FollowsRow
  <2> QED BY <1>1, <1>2, <2>2, <2>6, DocumentFollows
<1> QED BY <1>3, <1>4

LEMMA OrderStep == Typed /\ OrderInv /\ [Next]_vars => OrderInv'
<1> SUFFICES ASSUME Typed, OrderInv, [Next]_vars PROVE OrderInv'
  OBVIOUS
<1>1. ASSUME NEW c \in Calls, ByRequest(c) \/ RequestDies(c) PROVE OrderInv'
  BY <1>1, RequestOrder
<1>2. ASSUME NEW p \in Profiles, Deletion(p) PROVE OrderInv'
  BY <1>2, DeletionTypes DEF OrderInv, Named
<1>3. ASSUME NEW w \in Indexers, Handle(w) PROVE OrderInv'
  <2>1. UNCHANGED <<call, pc>> \/ (Consumed(got[w]) /\ got[w] # None)
    BY <1>3 DEF Handle, Receive, Prepare, IndexProfile, Acknowledge, StartOver, GiveUp,
                profileVars, Typed, TypeOK
  <2>2. got[w] # None => got[w] \in Calls /\ pc[got[w]] = "done"
    BY <1>3 DEF Typed, TypeOK, EventInv, Outstanding
  <2>3. pc' = pc /\ \A c \in Calls : pc[c] # "done" => call'[c] = call[c]
    BY <2>1, <2>2 DEF Consumed, Typed, TypeOK, ProfilesTypeOK
  <2> QED BY <2>3 DEF OrderInv, Named
<1>4. CASE Reindex \/ LoseCluster
  BY <1>4, ReindexTypes DEF EventsKept, profileVars, OrderInv, Named
<1>5. CASE UNCHANGED vars
  BY <1>5 DEF vars, profileVars, OrderInv, Named
<1> QED BY <1>1, <1>2, <1>3, <1>4, <1>5, Kinds

LEMMA FollowsStep == Follows /\ [Next]_vars => Follows'
<1> SUFFICES ASSUME Follows, [Next]_vars PROVE Follows'
  OBVIOUS
<1>1. Typed /\ OrderInv /\ QuietInv
  BY DEF Follows, RepairInv, PruneInv
<1>2. RepairInv' /\ QuietInv' /\ OrderInv' /\ Typed'
  BY <1>1, RepairStep, QuietStep, OrderStep, TypedStep DEF Follows
<1>3. FollowInv'
  <2> SUFFICES ASSUME NEW p \in Profiles, p \notin excused' PROVE FollowsRow(p)'
    BY DEF FollowInv
  <2>1. p \notin excused => FollowsRow(p)
    BY DEF Follows, FollowInv
  <2>2. ASSUME NEW c \in Calls, ByRequest(c) \/ RequestDies(c) PROVE FollowsRow(p)'
    <3>1. excused \subseteq excused'
      BY <2>2 DEF ByRequest, RequestDies, Noted
    <3> QED BY <1>1, <2>1, <2>2, <3>1, RequestFollows
  <2>3. ASSUME NEW q \in Profiles, Deletion(q) PROVE FollowsRow(p)'
    <3>1. excused \subseteq excused'
      BY <2>3 DEF Deletion, Noted
    <3> QED BY <1>1, <2>1, <2>3, <3>1, DeletionFollows
  <2>4. ASSUME NEW w \in Indexers, Handle(w) PROVE FollowsRow(p)'
    <3>1. excused \subseteq excused'
      BY <2>4 DEF Handle, Receive, Prepare, IndexProfile, Acknowledge, StartOver, GiveUp
    <3> QED BY <1>1, <2>1, <2>4, <3>1, HandleFollows
  <2>5. CASE Reindex \/ LoseCluster
    BY <2>5, ReindexFollows, EndFollows
  <2>6. CASE UNCHANGED vars
    BY <1>1, <2>1, <2>6
       DEF vars, profileVars, indexVars, rebuildVars, history, FollowsRow, Holds, Written, Ahead,
           Active, Due, Outstanding, On, Named
  <2> QED BY <2>2, <2>3, <2>4, <2>5, <2>6, Kinds
<1> QED BY <1>2, <1>3 DEF Follows

(* Search agrees with the profiles once the events are handled, for any    *)
(* number of requests, consumers and rebuilds, except for the profiles     *)
(* that the history names.                                                 *)
THEOREM IndexConvergesHolds == Spec => []IndexConverges
<1>1. Init => Follows
  <2> SUFFICES ASSUME Init PROVE Follows
    OBVIOUS
  <2>1. PruneInv
    BY InitPrune
  <2>2. todo = {} /\ batch = NoObject /\ at = None /\ ~calm
    BY DEF Init
  <2>3. RepairInv
    BY <2>1, <2>2 DEF RepairInv, BatchInv, CalmInv, NoObject
  <2>4. /\ call = [c \in Calls |-> None] /\ pc = [c \in Calls |-> "idle"]
        /\ content = [p \in Profiles |-> Blank]
        /\ doc = [p \in Profiles |-> IF row[p] = "live" THEN Blank ELSE None]
    BY DEF Init, ProfilesInit
  <2>5. QuietInv /\ OrderInv
    BY <2>2, <2>4 DEF QuietInv, OrderInv
  <2>6. ASSUME NEW p \in Profiles PROVE FollowsRow(p)
    <3>1. On(p) = {} /\ Due(p) = {}
      BY <2>4 DEF On, Due
    <3>2. got = [w \in Indexers |-> None]
      BY DEF Init
    <3> QED BY <2>2, <2>4, <3>1, <3>2 DEF FollowsRow
  <2> QED BY <2>3, <2>5, <2>6 DEF Follows, FollowInv
<1>2. Follows => IndexConverges
  <2> SUFFICES ASSUME Follows, NEW p \in Profiles, Settled(p), p \notin excused
               PROVE  /\ doc[p] # None => p \in Live
                      /\ \A query \in AllTerms, filter \in {{}, {<<"is_available", None>>}} :
                           p \in SearchProfiles(query, filter) <=> Answers(p, query, filter)
    BY DEF IndexConverges
  <2>1. FollowsRow(p)
    BY DEF Follows, FollowInv
  <2>2. ~Written(p) /\ Due(p) = {}
    BY DEF Settled, Written, Ahead, Due
  <2>3. doc[p] = IF row[p] = "live" THEN content[p] ELSE None
    BY <2>1, <2>2 DEF FollowsRow
  <2>4. content[p] # None
    BY SearchConstants DEF Follows, RepairInv, PruneInv, Typed, TypeOK, ProfilesTypeOK
  <2> QED BY <2>3, <2>4 DEF Live, SearchProfiles, Found, Answers
<1> QED BY <1>1, <1>2, FollowsStep, PTL DEF Spec
=============================================================================
