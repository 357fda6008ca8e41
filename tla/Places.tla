------------------------------- MODULE Places -------------------------------
(***************************************************************************)
(* Bands and venues (apps/bands, apps/venues) and the slugs under which    *)
(* they are found.  The two apps do the same, each in a table of its own,  *)
(* and a behaviour is about one of them.                                   *)
(*                                                                         *)
(* A slug is derived from the name; _unique_slug() looks for a free one, a *)
(* second statement inserts the row, and the unique constraint decides.    *)
(* Slugs are sequences of characters, because a long one is cut to make    *)
(* room for the number that makes it unique.  Characters are numbers: the  *)
(* digits, a hyphen, and others for letters.                               *)
(***************************************************************************)
EXTENDS Integers, Sequences

CONSTANTS
  Calls,        \* web requests, each made once; a row is named by the call that made it
  Names,        \* what a place may be called
  Base,         \* Base[n]: slugify(n), or "band" and "venue" where that is empty
  MaxLength,    \* max_length of the slug
  MaxSuffix,    \* bound: the numbers that are tried
  None

Hyphen == 10

(* The decimal digits of a number. *)
Digits[k \in Nat] == IF k < 10 THEN <<k>> ELSE Append(Digits[k \div 10], k % 10)

Tail10(k) == <<Hyphen>> \o Digits[k]

ASSUME PlacesConstants ==
  /\ MaxLength \in Nat /\ MaxSuffix \in Nat
  /\ \A n \in Names : Base[n] \in Seq(Nat) /\ Len(Base[n]) > 0
  /\ \A k \in 2 .. MaxSuffix : Tail10(k) \in Seq(Nat) /\ Len(Tail10(k)) < MaxLength

Least(m, n) == IF m < n THEN m ELSE n
Cut(s, n) == SubSeq(s, 1, Least(n, Len(s)))

(* Variant: the number is appended first and the slug cut after. *)
CutLast(n, k) == IF k = 1 THEN Cut(Base[n], MaxLength)
                 ELSE Cut(Base[n] \o Tail10(k), MaxLength)

(* Variant: room is made for the digits only, not for the hyphen. *)
CutShort(n, k) ==
  IF k = 1 THEN Cut(Base[n], MaxLength)
  ELSE Cut(Cut(Base[n], MaxLength), MaxLength - Len(Digits[k])) \o Tail10(k)

(* The k-th candidate for a name; the first has no number. *)
Candidate(n, k) ==
  IF k = 1 THEN Cut(Base[n], MaxLength)
  ELSE Cut(Cut(Base[n], MaxLength), MaxLength - Len(Tail10(k))) \o Tail10(k)

IsSlug(s) == s \in Seq(Nat) /\ Len(s) <= MaxLength

IsRow(r) == r \in [name : Names, slug : {r.slug}, active : BOOLEAN] /\ IsSlug(r.slug)

Request == [op : {"create", "rename", "close"}, name : Names]

VARIABLES
  place,       \* place[p]: the row that call p inserted, or None
  call,        \* call[c]: what c was called for, or None
  pc,          \* pc[c]: the statement c comes to next
  suffix,      \* suffix[c]: the candidate that c has come to
  obj,         \* obj[c]: the row that c has read, or None
  links,       \* <<slug, p>>: the slug was given out for row p
  refused,     \* calls that ended with an IntegrityError
  raced        \* calls whose candidate was inserted after they found it free

vars == <<place, call, pc, suffix, obj, links, refused, raced>>

TypeOK ==
  /\ DOMAIN place = Calls
  /\ \A p \in Calls : place[p] # None => IsRow(place[p])
  /\ call \in [Calls -> Request \cup {None}]
  /\ pc \in [Calls -> {"idle", "look", "insert", "announce", "save", "done"}]
  /\ \A c \in Calls : pc[c] # "idle" => call[c] \in Request
  /\ \A c \in Calls : pc[c] = "save" => obj[c] \in Calls
  /\ suffix \in [Calls -> 1 .. (MaxSuffix + 1)]
  /\ obj \in [Calls -> Calls \cup {None}]
  /\ \A l \in links : IsSlug(l[1]) /\ l[2] \in Calls
  /\ refused \subseteq Calls /\ raced \subseteq Calls

Init ==
  /\ place = [c \in Calls |-> None]
  /\ call = [c \in Calls |-> None]
  /\ pc = [c \in Calls |-> "idle"]
  /\ suffix = [c \in Calls |-> 1]
  /\ obj = [c \in Calls |-> None]
  /\ links = {} /\ refused = {} /\ raced = {}

Begin(c, op, n, next) ==
  /\ pc[c] = "idle"
  /\ call' = [call EXCEPT ![c] = [op |-> op, name |-> n]]
  /\ pc' = [pc EXCEPT ![c] = next]

Goto(c, next) == pc' = [pc EXCEPT ![c] = next]

Exists(s) == \E p \in Calls : place[p] # None /\ place[p].slug = s

-----------------------------------------------------------------------------
(* create_band(), create_venue().                                          *)

CreatePlace(c, n) ==
  /\ Begin(c, "create", n, "look")
  /\ UNCHANGED <<place, suffix, obj, links, refused, raced>>

(* Variant: a slug of a place that was taken down counts as free. *)
TakenIfActive(s) ==
  \E p \in Calls : place[p] # None /\ place[p].slug = s /\ place[p].active

Taken(s) == Exists(s)

Wanted(c) == Candidate(call[c].name, suffix[c])

(* One turn of the loop of _unique_slug(). *)
LookForSlug(c) ==
  /\ pc[c] = "look"
  /\ suffix[c] <= MaxSuffix
  /\ IF Taken(Wanted(c))
       THEN suffix' = [suffix EXCEPT ![c] = @ + 1] /\ UNCHANGED pc
       ELSE Goto(c, "insert") /\ UNCHANGED suffix
  /\ UNCHANGED <<place, call, obj, links, refused, raced>>

Rivals(c) ==
  {d \in Calls : pc[d] = "insert" /\ Wanted(d) = Wanted(c)}

InsertPlace(c) ==
  /\ pc[c] = "insert"
  /\ ~Exists(Wanted(c))
  /\ place' = [place EXCEPT ![c] = [name |-> call[c].name, slug |-> Wanted(c),
                                    active |-> TRUE]]
  /\ raced' = raced \cup (Rivals(c) \ {c})
  /\ Goto(c, "announce")
  /\ UNCHANGED <<call, suffix, obj, links, refused>>

(* The unique constraint; nobody catches the error. *)
InsertRefused(c) ==
  /\ pc[c] = "insert"
  /\ Exists(Wanted(c))
  /\ refused' = refused \cup {c}
  /\ Goto(c, "done")
  /\ UNCHANGED <<place, call, suffix, obj, links, raced>>

(* The slug goes into the response and, for a band, into the activity that *)
(* record_activity() publishes.                                            *)
Announce(c) ==
  /\ pc[c] = "announce"
  /\ links' = links \cup {<<Wanted(c), c>>}
  /\ Goto(c, "done")
  /\ UNCHANGED <<place, call, suffix, obj, refused, raced>>

-----------------------------------------------------------------------------
(* update_*() and deactivate_*(): the owner's row is found by its slug, if *)
(* it is active, and saved in a second statement.                          *)
OpenPlace(c, p) ==
  /\ place[p] # None /\ place[p].active
  /\ obj' = [obj EXCEPT ![c] = p]
  /\ UNCHANGED <<place, suffix, links, refused, raced>>

UpdatePlace(c, p, n) ==
  OpenPlace(c, p) /\ Begin(c, "rename", n, "save")

DeactivatePlace(c, p) ==
  OpenPlace(c, p) /\ Begin(c, "close", place[p].name, "save")

(* Variant: the slug follows the name. *)
Renamed(row, n) == [row EXCEPT !.name = n, !.slug = Candidate(n, 1)]

WithName(row, n) == [row EXCEPT !.name = n]

(* save(update_fields=...); an error if the row has been deleted.          *)
SavePlace(c) ==
  LET p == obj[c] IN
  /\ pc[c] = "save"
  /\ place' = IF place[p] = None THEN place
              ELSE [place EXCEPT ![p] =
                      IF call[c].op = "rename" THEN WithName(@, call[c].name)
                      ELSE [@ EXCEPT !.active = FALSE]]
  /\ obj' = [obj EXCEPT ![c] = None]
  /\ Goto(c, "done")
  /\ UNCHANGED <<call, suffix, links, refused, raced>>

-----------------------------------------------------------------------------
(* The row is deleted by the admin, or with its owner. *)
Delete(p) ==
  /\ place[p] # None
  /\ place' = [place EXCEPT ![p] = None]
  /\ UNCHANGED <<call, pc, suffix, obj, links, refused, raced>>

Die(c) ==
  /\ pc[c] \notin {"idle", "done"}
  /\ Goto(c, "done")
  /\ UNCHANGED <<place, call, suffix, obj, links, refused, raced>>

Start(c) ==
  \/ \E n \in Names : CreatePlace(c, n)
  \/ \E p \in Calls :
       \/ \E n \in Names : UpdatePlace(c, p, n)
       \/ DeactivatePlace(c, p)

Continue(c) ==
  \/ LookForSlug(c) \/ InsertPlace(c) \/ InsertRefused(c) \/ Announce(c)
  \/ SavePlace(c)

Next ==
  \/ \E c \in Calls : Start(c) \/ Continue(c) \/ Die(c)
  \/ \E p \in Calls : Delete(p)

Spec == Init /\ [][Next]_vars

(* A request that was received is worked on. *)
Fairness == \A c \in Calls : WF_vars(Continue(c))

FairSpec == Spec /\ Fairness

-----------------------------------------------------------------------------
(* A slug leads to one place for good: whatever is made, renamed, taken    *)
(* down or cut to length later, what is found under the slug that a place  *)
(* was given (in a response, or in the feed) is that place, until its row  *)
(* is deleted.                                                             *)
LinksStay ==
  \A l \in links : place[l[2]] # None =>
    {p \in Calls : place[p] # None /\ place[p].slug = l[1]} = {l[2]}

(* "deriving a unique slug": the constraint refuses a place only if        *)
(* another call inserted the very slug after this one had found it free.   *)
RefusedOnlyByRace == refused \subseteq raced

(* The loop ends, for long names too: the candidates differ from each      *)
(* other, and there are finitely many rows.                                *)
AllocationEnds == \A c \in Calls : pc[c] = "look" ~> pc[c] = "done"
=============================================================================
