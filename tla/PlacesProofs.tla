---------------------------- MODULE PlacesProofs ----------------------------
(* Slugs stay with their places, for any number of calls and any names.    *)
EXTENDS Places, SequenceTheorems, TLAPS

(* What the calls and the rows they inserted know about each other: a row  *)
(* keeps the slug that its call came to, and a call that is about to       *)
(* insert a slug which is taken was overtaken.                             *)
Numbered == \A c \in Calls : pc[c] \in {"insert", "announce"} => suffix[c] <= MaxSuffix

RowsKeepSlugs ==
  \A p \in Calls : place[p] # None =>
    pc[p] \in {"announce", "done"} /\ place[p].slug = Wanted(p)

OneRowEach ==
  \A p, q \in Calls :
    place[p] # None /\ place[q] # None /\ place[p].slug = place[q].slug => p = q

LinksAreWanted ==
  \A l \in links : l[2] \in Calls /\ pc[l[2]] = "done" /\ l[1] = Wanted(l[2])

OvertakenAreRaced ==
  \A c, p \in Calls :
    pc[c] = "insert" /\ place[p] # None /\ place[p].slug = Wanted(c) => c \in raced

SlugInv ==
  /\ Numbered /\ RowsKeepSlugs /\ OneRowEach /\ LinksAreWanted /\ OvertakenAreRaced
  /\ RefusedOnlyByRace

PlacesInv == TypeOK /\ SlugInv

-----------------------------------------------------------------------------
(* Cutting a slug keeps it a slug and bounds its length. *)
LEMMA CutLength ==
  ASSUME NEW s \in Seq(Nat), NEW n \in Nat
  PROVE  Cut(s, n) \in Seq(Nat) /\ Len(Cut(s, n)) <= n /\ Len(Cut(s, n)) <= Len(s)
<1>1. Len(s) \in Nat /\ \A i \in 1 .. Len(s) : s[i] \in Nat
  OBVIOUS
<1>2. Least(n, Len(s)) \in Nat /\ Least(n, Len(s)) <= n /\ Least(n, Len(s)) <= Len(s)
  BY <1>1 DEF Least
<1>3. \A i \in 1 .. Least(n, Len(s)) : s[i] \in Nat
  BY <1>1, <1>2
<1>4. /\ SubSeq(s, 1, Least(n, Len(s))) \in Seq(Nat)
      /\ Len(SubSeq(s, 1, Least(n, Len(s)))) =
           IF 1 <= Least(n, Len(s)) THEN Least(n, Len(s)) - 1 + 1 ELSE 0
  BY <1>2, <1>3, SubSeqProperties
<1> QED BY <1>2, <1>4 DEF Cut

(* A candidate fits the column, with its number. *)
LEMMA CandidateFits ==
  ASSUME NEW n \in Names, NEW k \in 1 .. MaxSuffix
  PROVE  IsSlug(Candidate(n, k))
<1> USE PlacesConstants
<1>1. CASE k = 1
  BY <1>1, CutLength DEF Candidate, IsSlug
<1>2. CASE k # 1
  <2>1. Tail10(k) \in Seq(Nat) /\ Len(Tail10(k)) \in Nat /\ Len(Tail10(k)) < MaxLength
    BY <1>2
  <2>2. Cut(Base[n], MaxLength) \in Seq(Nat)
    BY CutLength
  <2> DEFINE room == MaxLength - Len(Tail10(k))
             front == Cut(Cut(Base[n], MaxLength), room)
  <2>3. room \in Nat
    BY <2>1
  <2>4. front \in Seq(Nat) /\ Len(front) \in Nat /\ Len(front) <= room
    BY <2>2, <2>3, CutLength
  <2>5. front \o Tail10(k) \in Seq(Nat)
        /\ Len(front \o Tail10(k)) = Len(front) + Len(Tail10(k))
    BY <2>1, <2>4, ConcatProperties
  <2>6. Candidate(n, k) = front \o Tail10(k)
    BY <1>2 DEF Candidate
  <2>7. Len(front \o Tail10(k)) <= MaxLength
    BY <2>1, <2>4, <2>5
  <2> QED BY <2>5, <2>6, <2>7 DEF IsSlug
<1> QED BY <1>1, <1>2

(* Saving an edit or a deactivation leaves the slug. *)
LEMMA SavedRows ==
  ASSUME NEW r, IsRow(r), NEW n \in Names
  PROVE  /\ IsRow(WithName(r, n)) /\ WithName(r, n).slug = r.slug
         /\ IsRow([r EXCEPT !.active = FALSE]) /\ [r EXCEPT !.active = FALSE].slug = r.slug
<1> DEFINE Rows == [name : Names, slug : {r.slug}, active : BOOLEAN]
<1>1. r \in Rows /\ IsSlug(r.slug)
  BY DEF IsRow
<1>2. WithName(r, n) \in Rows /\ WithName(r, n).slug = r.slug
  BY <1>1 DEF WithName
<1>3. [r EXCEPT !.active = FALSE] \in Rows /\ [r EXCEPT !.active = FALSE].slug = r.slug
  BY <1>1
<1> QED BY <1>1, <1>2, <1>3 DEF IsRow

-----------------------------------------------------------------------------
LEMMA InitPlaces == Init => PlacesInv
BY PlacesConstants
   DEF Init, PlacesInv, TypeOK, SlugInv, Numbered, RowsKeepSlugs, OneRowEach, LinksAreWanted,
       OvertakenAreRaced, RefusedOnlyByRace

(* A step after which every row and every link still stands, and no call   *)
(* other than those that ended is elsewhere, keeps the slugs in order.     *)
Settled(c) ==
  /\ \A d \in Calls \ {c} : pc'[d] = pc[d]
  /\ UNCHANGED <<suffix, links, raced>>
  /\ \A d \in Calls : pc[d] # "idle" => call'[d] = call[d]
  /\ \A p \in Calls : place'[p] # None => place[p] # None /\ place'[p].slug = place[p].slug

LEMMA SettledKeepsSlugs ==
  ASSUME PlacesInv, NEW c \in Calls, Settled(c), RefusedOnlyByRace',
         pc'[c] \notin {"insert", "announce"},
         pc[c] \in {"announce", "done"} => pc'[c] = "done"
  PROVE  SlugInv'
<1> USE DEF PlacesInv, SlugInv, Settled
<1>1. \A d \in Calls : pc[d] # "idle" => Wanted(d)' = Wanted(d)
  BY DEF Wanted
<1>2. \A d \in Calls : pc[d] \in {"announce", "done"} => pc'[d] \in {"announce", "done"}
  OBVIOUS
<1>3. Numbered'
  BY DEF Numbered
<1>4. RowsKeepSlugs'
  BY <1>1, <1>2 DEF RowsKeepSlugs
<1>5. OneRowEach'
  BY DEF OneRowEach
<1>6. LinksAreWanted'
  BY <1>1 DEF LinksAreWanted
<1>7. OvertakenAreRaced'
  BY <1>1 DEF OvertakenAreRaced
<1> QED BY <1>3, <1>4, <1>5, <1>6, <1>7

LEMMA BeginStep ==
  ASSUME PlacesInv, NEW c \in Calls, NEW n \in Names,
         NEW op \in {"create", "rename", "close"}, NEW next \in {"look", "save"},
         Begin(c, op, n, next), UNCHANGED <<place, suffix, links, refused, raced>>,
         obj' \in [Calls -> Calls \cup {None}], next = "save" => obj'[c] \in Calls,
         \A d \in Calls \ {c} : obj'[d] = obj[d]
  PROVE  PlacesInv'
<1>1. TypeOK'
  BY DEF PlacesInv, TypeOK, Begin, Request
<1>2. Settled(c) /\ RefusedOnlyByRace' /\ pc[c] = "idle" /\ pc'[c] = next
  BY DEF PlacesInv, TypeOK, SlugInv, RefusedOnlyByRace, Begin, Settled
<1>3. SlugInv'
  BY <1>2, SettledKeepsSlugs
<1> QED BY <1>1, <1>3 DEF PlacesInv

LEMMA LookStep ==
  ASSUME PlacesInv, NEW c \in Calls, LookForSlug(c)
  PROVE  PlacesInv'
<1> USE DEF PlacesInv, SlugInv, LookForSlug
<1>1. /\ pc[c] = "look" /\ suffix[c] \in 1 .. MaxSuffix
      /\ UNCHANGED <<place, call, obj, links, refused, raced>>
  BY PlacesConstants DEF TypeOK
<1>2. CASE Taken(Wanted(c))
  <2>1. suffix' = [suffix EXCEPT ![c] = @ + 1] /\ UNCHANGED pc
    BY <1>2
  <2>typed. TypeOK'
    <3>1. suffix' \in [Calls -> 1 .. (MaxSuffix + 1)]
      BY <1>1, <2>1, PlacesConstants DEF TypeOK
    <3> QED BY <1>1, <2>1, <3>1 DEF TypeOK
  <2>2. \A d \in Calls : d # c => Wanted(d)' = Wanted(d)
    BY <1>1, <2>1 DEF Wanted, TypeOK
  <2>3. Numbered' /\ RefusedOnlyByRace' /\ OneRowEach'
    BY <1>1, <2>1 DEF Numbered, RefusedOnlyByRace, OneRowEach, TypeOK
  <2>4. RowsKeepSlugs' /\ LinksAreWanted' /\ OvertakenAreRaced'
    BY <1>1, <2>1, <2>2 DEF RowsKeepSlugs, LinksAreWanted, OvertakenAreRaced
  <2> QED BY <2>typed, <2>3, <2>4
<1>3. CASE ~Taken(Wanted(c))
  <2>1. pc' = [pc EXCEPT ![c] = "insert"] /\ UNCHANGED suffix
    BY <1>3 DEF Goto
  <2>typed. TypeOK'
    BY <1>1, <2>1 DEF TypeOK
  <2>2. \A d \in Calls : Wanted(d)' = Wanted(d)
    BY <1>1, <2>1 DEF Wanted
  <2>3. Numbered' /\ RefusedOnlyByRace' /\ OneRowEach'
    BY <1>1, <2>1 DEF Numbered, RefusedOnlyByRace, OneRowEach, TypeOK
  <2>4. RowsKeepSlugs' /\ LinksAreWanted'
    BY <1>1, <2>1, <2>2 DEF RowsKeepSlugs, LinksAreWanted, TypeOK
  <2>5. \A p \in Calls : place[p] # None => place[p].slug # Wanted(c)
    BY <1>3 DEF Taken, Exists
  <2>6. OvertakenAreRaced'
    BY <1>1, <2>1, <2>2, <2>5 DEF OvertakenAreRaced, TypeOK
  <2> QED BY <2>typed, <2>3, <2>4, <2>6
<1> QED BY <1>2, <1>3

LEMMA InsertStep ==
  ASSUME PlacesInv, NEW c \in Calls, InsertPlace(c)
  PROVE  PlacesInv'
<1> USE DEF PlacesInv, SlugInv
<1> DEFINE row == [name |-> call[c].name, slug |-> Wanted(c), active |-> TRUE]
<1>1. /\ pc[c] = "insert" /\ pc' = [pc EXCEPT ![c] = "announce"]
      /\ place' = [place EXCEPT ![c] = row]
      /\ raced' = raced \cup (Rivals(c) \ {c})
      /\ UNCHANGED <<call, suffix, obj, links, refused>>
  BY DEF InsertPlace, Goto
<1>2. \A p \in Calls : place[p] # None => place[p].slug # Wanted(c)
  BY DEF InsertPlace, Exists
<1>3. \A d \in Calls : Wanted(d)' = Wanted(d)
  BY <1>1 DEF Wanted
<1>4. IsRow(row)
  <2>1. call[c] \in Request /\ suffix[c] \in 1 .. MaxSuffix
    BY <1>1, PlacesConstants DEF TypeOK, Numbered
  <2>2. call[c].name \in Names /\ IsSlug(Wanted(c))
    BY <2>1, CandidateFits DEF Request, Wanted
  <2> QED BY <2>2 DEF IsRow
<1>5. /\ \A p \in Calls : p # c => place'[p] = place[p]
      /\ place'[c] = row /\ row.slug = Wanted(c) /\ DOMAIN place' = Calls
  BY <1>1 DEF TypeOK
<1> HIDE DEF row
<1>6. TypeOK'
  <2>1. \A p \in Calls : place'[p] # None => IsRow(place'[p])
    BY <1>4, <1>5 DEF TypeOK
  <2>2. Rivals(c) \subseteq Calls
    BY DEF Rivals
  <2> QED BY <1>1, <1>5, <2>1, <2>2 DEF TypeOK
<1>7. Numbered' /\ RefusedOnlyByRace'
  BY <1>1 DEF Numbered, RefusedOnlyByRace, TypeOK
<1>8. RowsKeepSlugs'
  BY <1>1, <1>3, <1>5 DEF RowsKeepSlugs, TypeOK
<1>9. OneRowEach'
  BY <1>2, <1>5 DEF OneRowEach
<1>10. LinksAreWanted'
  BY <1>1, <1>3 DEF LinksAreWanted, TypeOK
<1>11. OvertakenAreRaced'
  <2> SUFFICES ASSUME NEW d \in Calls, NEW p \in Calls, pc'[d] = "insert", place'[p] # None,
                      place'[p].slug = Wanted(d)'
               PROVE  d \in raced'
    BY DEF OvertakenAreRaced
  <2>1. d # c /\ pc[d] = "insert"
    BY <1>1 DEF TypeOK
  <2>2. CASE p = c
    BY <1>1, <1>3, <1>5, <2>1, <2>2 DEF Rivals
  <2>3. CASE p # c
    BY <1>1, <1>3, <1>5, <2>1, <2>3 DEF OvertakenAreRaced
  <2> QED BY <2>2, <2>3
<1> QED BY <1>6, <1>7, <1>8, <1>9, <1>10, <1>11

LEMMA RefusedStep ==
  ASSUME PlacesInv, NEW c \in Calls, InsertRefused(c)
  PROVE  PlacesInv'
<1> USE DEF PlacesInv, SlugInv
<1>1. /\ pc[c] = "insert" /\ pc' = [pc EXCEPT ![c] = "done"]
      /\ refused' = refused \cup {c}
      /\ UNCHANGED <<place, call, suffix, obj, links, raced>>
  BY DEF InsertRefused, Goto
<1>2. TypeOK'
  BY <1>1 DEF TypeOK
<1>3. c \in raced
  BY <1>1 DEF InsertRefused, Exists, OvertakenAreRaced
<1>4. RefusedOnlyByRace'
  BY <1>1, <1>3 DEF RefusedOnlyByRace
<1>5. Settled(c) /\ pc'[c] = "done"
  BY <1>1 DEF Settled, TypeOK
<1> QED BY <1>2, <1>4, <1>5, SettledKeepsSlugs

LEMMA AnnounceStep ==
  ASSUME PlacesInv, NEW c \in Calls, Announce(c)
  PROVE  PlacesInv'
<1> USE DEF PlacesInv, SlugInv
<1>1. /\ pc[c] = "announce" /\ pc' = [pc EXCEPT ![c] = "done"]
      /\ links' = links \cup {<<Wanted(c), c>>}
      /\ UNCHANGED <<place, call, suffix, obj, refused, raced>>
  BY DEF Announce, Goto
<1>2. \A d \in Calls : Wanted(d)' = Wanted(d)
  BY <1>1 DEF Wanted
<1>3. IsSlug(Wanted(c))
  <2>1. call[c] \in Request /\ suffix[c] \in 1 .. MaxSuffix
    BY <1>1, PlacesConstants DEF TypeOK, Numbered
  <2> QED BY <2>1, CandidateFits DEF Request, Wanted
<1>4. TypeOK'
  BY <1>1, <1>3 DEF TypeOK
<1>5. LinksAreWanted'
  BY <1>1, <1>2 DEF LinksAreWanted, TypeOK
<1>6. Numbered' /\ RowsKeepSlugs' /\ OneRowEach' /\ OvertakenAreRaced' /\ RefusedOnlyByRace'
  BY <1>1, <1>2
     DEF Numbered, RowsKeepSlugs, OneRowEach, OvertakenAreRaced, RefusedOnlyByRace, TypeOK
<1> QED BY <1>4, <1>5, <1>6

LEMMA SaveStep ==
  ASSUME PlacesInv, NEW c \in Calls, SavePlace(c)
  PROVE  PlacesInv'
<1> USE DEF PlacesInv, SlugInv
<1>1. /\ pc[c] = "save" /\ pc' = [pc EXCEPT ![c] = "done"]
      /\ obj' = [obj EXCEPT ![c] = None]
      /\ UNCHANGED <<call, suffix, links, refused, raced>>
  BY DEF SavePlace, Goto
<1>2. obj[c] \in Calls /\ call[c].name \in Names
  BY <1>1 DEF TypeOK, Request
<1>3. /\ DOMAIN place' = Calls
      /\ \A p \in Calls : place'[p] # None =>
           place[p] # None /\ place'[p].slug = place[p].slug /\ IsRow(place'[p])
  <2>1. CASE place[obj[c]] = None
    BY <2>1 DEF SavePlace, TypeOK
  <2>2. CASE place[obj[c]] # None
    <3>1. IsRow(place[obj[c]])
      BY <1>2, <2>2 DEF TypeOK
    <3>2. PICK r : /\ place' = [place EXCEPT ![obj[c]] = r]
                   /\ IsRow(r) /\ r.slug = place[obj[c]].slug
      BY <1>2, <2>2, <3>1, SavedRows DEF SavePlace
    <3> QED BY <1>2, <2>2, <3>2 DEF TypeOK
  <2> QED BY <2>1, <2>2
<1>4. TypeOK'
  BY <1>1, <1>3 DEF TypeOK
<1>5. Settled(c) /\ RefusedOnlyByRace' /\ pc'[c] = "done"
  BY <1>1, <1>3 DEF Settled, RefusedOnlyByRace, TypeOK
<1> QED BY <1>1, <1>4, <1>5, SettledKeepsSlugs

LEMMA DieStep ==
  ASSUME PlacesInv, NEW c \in Calls, Die(c)
  PROVE  PlacesInv'
<1>1. pc' = [pc EXCEPT ![c] = "done"] /\ UNCHANGED <<place, call, suffix, obj, links, refused, raced>>
  BY DEF Die, Goto
<1>2. TypeOK'
  BY <1>1 DEF PlacesInv, TypeOK, Die
<1>3. Settled(c) /\ RefusedOnlyByRace' /\ pc'[c] = "done"
  BY <1>1 DEF PlacesInv, SlugInv, Settled, RefusedOnlyByRace, TypeOK
<1> QED BY <1>2, <1>3, SettledKeepsSlugs DEF PlacesInv

LEMMA DeleteStep ==
  ASSUME PlacesInv, NEW p \in Calls, Delete(p)
  PROVE  PlacesInv'
<1>1. place' = [place EXCEPT ![p] = None] /\ UNCHANGED <<call, pc, suffix, obj, links, refused, raced>>
  BY DEF Delete
<1>2. \A d \in Calls : Wanted(d)' = Wanted(d)
  BY <1>1 DEF Wanted
<1>3. TypeOK'
  BY <1>1 DEF PlacesInv, TypeOK
<1>4. \A q \in Calls : place'[q] # None => place'[q] = place[q]
  BY <1>1 DEF PlacesInv, TypeOK
<1>5. SlugInv'
  BY <1>1, <1>2, <1>4
     DEF PlacesInv, SlugInv, Numbered, RowsKeepSlugs, OneRowEach, LinksAreWanted,
         OvertakenAreRaced, RefusedOnlyByRace
<1> QED BY <1>3, <1>5 DEF PlacesInv

-----------------------------------------------------------------------------
(* Every step of every call keeps the invariant. *)
LEMMA StepPlaces == PlacesInv /\ [Next]_vars => PlacesInv'
<1> SUFFICES ASSUME PlacesInv, [Next]_vars PROVE PlacesInv'
  OBVIOUS
<1>1. ASSUME NEW c \in Calls, Start(c) PROVE PlacesInv'
  <2>1. ASSUME NEW n \in Names, CreatePlace(c, n) PROVE PlacesInv'
    <3>1. obj \in [Calls -> Calls \cup {None}]
      BY DEF PlacesInv, TypeOK
    <3> QED BY <2>1, <3>1, BeginStep DEF CreatePlace
  <2>2. ASSUME NEW p \in Calls, NEW n \in Names,
               \/ UpdatePlace(c, p, n)
               \/ DeactivatePlace(c, p) /\ n = place[p].name
        PROVE  PlacesInv'
    <3>1. /\ UNCHANGED <<place, suffix, links, refused, raced>>
          /\ obj' \in [Calls -> Calls \cup {None}] /\ obj'[c] \in Calls
          /\ \A d \in Calls \ {c} : obj'[d] = obj[d]
      BY <2>2 DEF UpdatePlace, DeactivatePlace, OpenPlace, PlacesInv, TypeOK
    <3>2. \E op \in {"rename", "close"} : Begin(c, op, n, "save")
      BY <2>2 DEF UpdatePlace, DeactivatePlace
    <3> QED BY <3>1, <3>2, BeginStep
  <2>3. ASSUME NEW p \in Calls, DeactivatePlace(c, p) PROVE PlacesInv'
    <3>1. place[p].name \in Names
      BY <2>3 DEF DeactivatePlace, OpenPlace, PlacesInv, TypeOK, IsRow
    <3> QED BY <2>2, <2>3, <3>1
  <2> QED BY <1>1, <2>1, <2>2, <2>3 DEF Start
<1>2. ASSUME NEW c \in Calls, Continue(c) PROVE PlacesInv'
  BY <1>2, LookStep, InsertStep, RefusedStep, AnnounceStep, SaveStep DEF Continue
<1>3. ASSUME NEW c \in Calls, Die(c) PROVE PlacesInv'
  BY <1>3, DieStep
<1>4. ASSUME NEW p \in Calls, Delete(p) PROVE PlacesInv'
  BY <1>4, DeleteStep
<1>5. CASE UNCHANGED vars
  BY <1>5 DEF vars, PlacesInv, TypeOK, SlugInv, Numbered, RowsKeepSlugs, OneRowEach, LinksAreWanted,
              OvertakenAreRaced, RefusedOnlyByRace, Wanted
<1> QED BY <1>1, <1>2, <1>3, <1>4, <1>5 DEF Next

LEMMA PlacesInvariant == Spec => []PlacesInv
<1>1. Init => PlacesInv
  BY InitPlaces
<1>2. PlacesInv /\ [Next]_vars => PlacesInv'
  BY StepPlaces
<1> QED BY <1>1, <1>2, PTL DEF Spec

(* Type correctness; in particular every slug, numbered and cut, fits the  *)
(* column it is stored in (slug of Band and Venue).                        *)
THEOREM TypeCorrect == Spec => []TypeOK
<1>1. PlacesInv => TypeOK
  BY DEF PlacesInv
<1> QED BY <1>1, PlacesInvariant, PTL

(* The slug that a response or an activity of the feed carries finds that  *)
(* place and no other, until the row is deleted.                           *)
THEOREM SlugsLeadToTheirPlaces == Spec => []LinksStay
<1>1. PlacesInv => LinksStay
  BY DEF PlacesInv, SlugInv, RowsKeepSlugs, OneRowEach, LinksAreWanted, LinksStay
<1> QED BY <1>1, PlacesInvariant, PTL

(* _unique_slug() fails a request only in a race: the constraint refuses   *)
(* no slug that was free when it was looked up and stayed so.              *)
THEOREM OnlyRacesAreRefused == Spec => []RefusedOnlyByRace
<1>1. PlacesInv => RefusedOnlyByRace
  BY DEF PlacesInv, SlugInv
<1> QED BY <1>1, PlacesInvariant, PTL
=============================================================================
