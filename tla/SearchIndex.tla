---------------------------- MODULE SearchIndex -----------------------------
(***************************************************************************)
(* The OpenSearch index of profiles (apps/search): one document per        *)
(* profile, replaced by the consumers of profile.updated and by the        *)
(* command reindex_profiles, which can then prune what it did not write.   *)
(*                                                                         *)
(* Documents carry no version.  indexed_at is taken from the writer's      *)
(* clock before the document is sent; since it is only compared with the   *)
(* start of a rebuild, it is represented by what it compares to: "stale"   *)
(* and "tardy" hold what is stamped earlier than the last rebuild began.   *)
(* Outbox, relay and Kafka are a set of messages: profile.updated has no   *)
(* key, so events of one profile come in any order.                        *)
(***************************************************************************)
EXTENDS Profiles, Integers

CONSTANTS
  Indexers,     \* consumer processes of the search group
  Rebuild,      \* the process of reindex_profiles
  BatchSize,    \* --batch-size: profiles whose relations are read at once
  MaxFaults     \* bound: requests that die, direct deletions, failed or repeated handlers,
                \* failed rebuilds, lost clusters

Writers == Indexers \cup {Rebuild}

ASSUME SearchConstants ==
  /\ Rebuild \notin Indexers
  /\ None \notin Profiles /\ None \notin Content
  /\ BatchSize \in Nat \ {0} /\ MaxFaults \in Nat

VARIABLES
  settled,     \* events that were acknowledged, handled or given up
  index,       \* "absent", "mapped" by INDEX_BODY, or created by a write: "inferred"
  doc,         \* doc[p]: the document of p, or None
  stale,       \* documents stamped before the last rebuild began
  got,         \* got[w]: the event that indexer w handles, or None
  step,        \* step[w]: where indexer w or the rebuild stands
  tardy,       \* writers whose stamp is older than the last rebuild
  todo,        \* profiles the rebuild has still to write
  snap,        \* snap[p]: the row as the query of the rebuild returned it
  batch,       \* batch[p]: the object, with its relations, once its batch was read
  at,          \* the profile that the rebuild is writing
  hits,        \* what delete_by_query has found and not dealt with
  excused,     \* profiles whose document may be wrong, a history
  shared,      \* profiles written by a request while another one held them
  calm,        \* nobody but the rebuild took a step since it began
  overtaken,   \* profiles written with an old stamp, deleted or revived since it began
  pruned,      \* documents of living profiles that it pruned
  slipped,     \* the cluster was lost between a writer's check and its write
  faults

indexVars == <<settled, index, doc, stale, got, step, tardy>>
rebuildVars == <<todo, snap, batch, at, hits>>
history == <<excused, shared, calm, overtaken, pruned, slipped>>
vars == <<profileVars, indexVars, rebuildVars, history, faults>>

TypeOK ==
  /\ ProfilesTypeOK
  /\ settled \subseteq published
  /\ index \in {"absent", "mapped", "inferred"}
  /\ doc \in [Profiles -> Content \cup {None}]
  /\ \A p \in Profiles : index = "absent" => doc[p] = None
  /\ stale \subseteq {p \in Profiles : doc[p] # None}
  /\ got \in [Indexers -> Calls \cup {None}]
  /\ step \in [Writers -> {"idle", "prepare", "write", "ack", "query", "next", "match", "delete"}]
  /\ \A w \in Indexers : step[w] = "idle" <=> got[w] = None
  /\ tardy \subseteq {w \in Indexers : step[w] = "write"}
  /\ todo \subseteq Profiles
  /\ snap \in [Profiles -> Content \cup {None}]
  /\ batch \in [Profiles -> Content \cup {None}]
  /\ at \in Profiles \cup {None}
  /\ hits \subseteq Profiles
  /\ excused \subseteq Profiles
  /\ shared \subseteq Profiles
  /\ calm \in BOOLEAN
  /\ overtaken \subseteq Profiles /\ pruned \subseteq Profiles
  /\ slipped \in BOOLEAN
  /\ faults \in 0 .. MaxFaults

NoObject == [p \in Profiles |-> None]

(* A deployed system: the rows that exist were indexed earlier. *)
Init ==
  /\ ProfilesInit
  /\ settled = {}
  /\ index = "mapped"
  /\ doc = [p \in Profiles |-> IF row[p] = "live" THEN Blank ELSE None]
  /\ stale = {}
  /\ got = [w \in Indexers |-> None]
  /\ step = [w \in Writers |-> "idle"]
  /\ tardy = {}
  /\ todo = {} /\ snap = NoObject /\ batch = NoObject
  /\ at = None
  /\ hits = {}
  /\ excused = {}
  /\ shared = {}
  /\ calm = FALSE
  /\ overtaken = {} /\ pruned = {} /\ slipped = FALSE
  /\ faults = 0

On(p) == {c \in Calls : call[c] # None /\ call[c].on = p}
Outstanding == published \ settled
Advance(w, s) == step' = [step EXCEPT ![w] = s]
Rebuilding == step[Rebuild] # "idle"
Fault == faults < MaxFaults /\ faults' = faults + 1

-----------------------------------------------------------------------------
(* A step of a web request, and what the history keeps of it.              *)

Touches(p) == row'[p] # row[p] \/ content'[p] # content[p]

Crowded ==
  {p \in Profiles : Touches(p) /\ \E c, d \in On(p) : c # d /\ Active(c) /\ Active(d)}

(* Two requests held the profile; its event was lost; two events of it are *)
(* outstanding; a rebuild holds a copy from before; it was deleted.        *)
Excuses(p) ==
  \/ p \in Crowded
  \/ \E c \in On(p) : /\ Active(c) /\ pc[c] # FirstStep(call[c].data)
                       /\ pc'[c] = "done" /\ c \notin published'
  \/ On(p) \cap (published' \ published) # {} /\ On(p) \cap Outstanding # {}
  \/ Touches(p) /\ snap[p] # None
  \/ row[p] = "live" /\ row'[p] = "gone"

Noted ==
  /\ excused' = excused \cup {p \in Profiles : Excuses(p)}
  /\ shared' = shared \cup Crowded
  /\ overtaken' = overtaken \cup
       {p \in Profiles : Rebuilding /\ row'[p] # row[p] /\ row[p] # "none"}
  /\ calm' = FALSE
  /\ UNCHANGED <<indexVars, rebuildVars, pruned, slipped>>

ByRequest(c) == (Begin(c) \/ Continue(c)) /\ Noted /\ UNCHANGED faults
RequestDies(c) == Die(c) /\ Fault /\ Noted
Deletion(p) == (DeleteProfile(p) \/ DeleteUser(p)) /\ Fault /\ Noted

-----------------------------------------------------------------------------
(* One write, by an indexer or by the rebuild: ensure_index(), the stamp,  *)
(* then index_document().                                                  *)

(* Variant: the index is taken to be there. *)
AsFound == index

(* exists(), and create() if it is not; losing that race is a success.     *)
EnsuredIndex == IF index = "absent" THEN "mapped" ELSE index

Prepare(w) ==
  /\ step[w] = "prepare"
  /\ index' = EnsuredIndex
  /\ Advance(w, "write")
  /\ calm' = FALSE
  /\ UNCHANGED <<profileVars, settled, doc, stale, got, tardy, rebuildVars, excused, shared,
                 overtaken, pruned, slipped, faults>>

(* The whole document is replaced; a write creates a missing index itself. *)
(* delete_by_query deletes by version: it passes over what is rewritten.   *)
IndexDocument(w, p, body) ==
  /\ step[w] = "write"
  /\ index' = IF index = "absent" THEN "inferred" ELSE index
  /\ doc' = [doc EXCEPT ![p] = body]
  /\ stale' = IF w \in tardy THEN stale \cup {p} ELSE stale \ {p}
  /\ overtaken' = IF w \in tardy THEN overtaken \cup {p} ELSE overtaken
  /\ tardy' = tardy \ {w}
  /\ hits' = hits \ {p}

-----------------------------------------------------------------------------
(* The consumer of profile.updated.                                        *)

Receive(w, e) ==
  /\ step[w] = "idle"
  /\ e \in Outstanding
  /\ \A v \in Indexers : got[v] # e
  /\ got' = [got EXCEPT ![w] = e]
  /\ Advance(w, "prepare")
  /\ calm' = FALSE
  /\ UNCHANGED <<profileVars, settled, index, doc, stale, tardy, rebuildVars, excused,
                 overtaken, pruned, slipped, faults, shared>>

IndexProfile(w) ==
  /\ IndexDocument(w, call[got[w]].on, mem[got[w]])
  /\ Advance(w, "ack")
  /\ calm' = FALSE
  /\ UNCHANGED <<profileVars, settled, got, todo, snap, batch, at, excused,
                 pruned, slipped, faults, shared>>

(* Variant: the stamp is kept for the next document. *)
LeaveStamped(w) ==
  /\ got' = [got EXCEPT ![w] = None]
  /\ UNCHANGED tardy
  /\ Advance(w, "idle")

Leave(w) ==
  /\ got' = [got EXCEPT ![w] = None]
  /\ tardy' = tardy \ {w}
  /\ Advance(w, "idle")

Acknowledge(w) ==
  /\ step[w] = "ack"
  /\ settled' = settled \cup {got[w]}
  /\ Consumed(got[w])
  /\ Leave(w)
  /\ calm' = FALSE
  /\ UNCHANGED <<index, doc, stale, rebuildVars, excused, overtaken, pruned,
                 slipped, faults, shared>>

(* The cluster refuses or cannot be reached, or the process dies: the      *)
(* event is handled again.                                                 *)
StartOver(w) ==
  /\ step[w] # "idle"
  /\ Fault
  /\ Leave(w)
  /\ calm' = FALSE
  /\ UNCHANGED <<profileVars, settled, index, doc, stale, rebuildVars, excused, overtaken,
                 pruned, slipped, shared>>

(* The last attempt raises. *)
GiveUp(w) ==
  /\ step[w] \in {"prepare", "write"}
  /\ Fault
  /\ settled' = settled \cup {got[w]}
  /\ excused' = excused \cup {call[got[w]].on}
  /\ Consumed(got[w])
  /\ Leave(w)
  /\ calm' = FALSE
  /\ UNCHANGED <<index, doc, stale, rebuildVars, overtaken, pruned, slipped, shared>>

-----------------------------------------------------------------------------
(* reindex_profiles.                                                       *)

(* started = now(): every earlier stamp, stored or on its way, is older.   *)
StartRebuild ==
  /\ ~Rebuilding
  /\ Advance(Rebuild, "query")
  /\ stale' = {p \in Profiles : doc[p] # None}
  /\ tardy' = {w \in Indexers : step[w] = "write"}
  /\ calm' = /\ Outstanding = {}
             /\ \A c \in Calls : ~Active(c)
             /\ \A w \in Indexers : step[w] = "idle"
  /\ UNCHANGED <<profileVars, settled, index, doc, got, todo, snap, batch, at, hits,
                 excused, shared, overtaken, pruned, slipped, faults>>

(* The query: one result set, read through a server-side cursor.           *)
QueryRows ==
  /\ step[Rebuild] = "query"
  /\ todo' = Live
  /\ snap' = [p \in Profiles |-> IF p \in Live THEN content[p] ELSE None]
  /\ Advance(Rebuild, "next")
  /\ UNCHANGED <<profileVars, settled, index, doc, stale, got, tardy, batch, at,
                 hits, history, faults>>

(* The relations of the next rows, as they are now.                        *)
ReadBatch ==
  /\ step[Rebuild] = "next"
  /\ \A p \in todo : batch[p] = None
  /\ \E B \in SUBSET todo \ {{}} :
       /\ Cardinality(B) <= BatchSize
       /\ batch' = [p \in Profiles |->
            IF p \in B THEN [content[p] EXCEPT !.cols = snap[p].cols] ELSE None]
  /\ UNCHANGED <<profileVars, indexVars, todo, snap, at, hits, history, faults>>

PrepareProfile(p) ==
  /\ step[Rebuild] = "next"
  /\ p \in todo /\ batch[p] # None
  /\ index' = EnsuredIndex
  /\ at' = p
  /\ Advance(Rebuild, "write")
  /\ UNCHANGED <<profileVars, settled, doc, stale, got, tardy, todo, snap, batch,
                 hits, history, faults>>

WriteProfile ==
  /\ at # None
  /\ IndexDocument(Rebuild, at, batch[at])
  /\ Advance(Rebuild, "next")
  /\ todo' = todo \ {at}
  /\ snap' = [snap EXCEPT ![at] = None]
  /\ batch' = [batch EXCEPT ![at] = None]
  /\ at' = None
  /\ UNCHANGED <<profileVars, settled, got, excused, calm, pruned, slipped, faults, shared>>

(* refresh() and the search of delete_by_query, after a complete pass.     *)

(* Variant: the range is over a field that no document has. *)
NothingInRange == {}

OlderThanStart == stale

MatchStale ==
  /\ step[Rebuild] = "next"
  /\ todo = {}
  /\ hits' = OlderThanStart
  /\ Advance(Rebuild, "delete")
  /\ UNCHANGED <<profileVars, settled, index, doc, stale, got, tardy, todo, snap,
                 batch, at, history, faults>>

PruneDocument(p) ==
  /\ step[Rebuild] = "delete"
  /\ p \in hits
  /\ doc' = [doc EXCEPT ![p] = None]
  /\ stale' = stale \ {p}
  /\ hits' = hits \ {p}
  /\ pruned' = IF p \in Live THEN pruned \cup {p} ELSE pruned
  /\ excused' = excused \cup ({p} \cap Live)
  /\ UNCHANGED <<profileVars, settled, index, got, step, tardy, todo, snap,
                 batch, at, calm, overtaken, slipped, faults, shared>>

(* The command has nothing left to do: without and with --prune.           *)
PassComplete  == step[Rebuild] = "next" /\ todo = {}
PruneComplete == step[Rebuild] = "delete" /\ hits = {}

Repaired == IF ~calm THEN {} ELSE IF PruneComplete THEN Profiles ELSE Live

Forget ==
  /\ calm' = FALSE
  /\ stale' = {} /\ tardy' = {} /\ hits' = {}
  /\ overtaken' = {} /\ pruned' = {}

EndRebuild ==
  /\ PassComplete \/ PruneComplete
  /\ Advance(Rebuild, "idle")
  /\ excused' = excused \ Repaired
  /\ Forget
  /\ UNCHANGED <<profileVars, settled, index, doc, got, todo, snap, batch, at, shared,
                 slipped, faults>>

(* Variant: the prune follows although the pass is not complete. *)
PruneAnyway ==
  /\ Advance(Rebuild, "next")
  /\ calm' = FALSE
  /\ UNCHANGED <<stale, tardy, hits, overtaken, pruned>>

EndHere == Advance(Rebuild, "idle") /\ Forget

(* A call of the cluster raises, or the process dies: the command ends     *)
(* there, without a prune.                                                 *)
RebuildFails ==
  /\ Rebuilding
  /\ Fault
  /\ EndHere
  /\ todo' = {} /\ snap' = NoObject /\ batch' = NoObject /\ at' = None
  /\ UNCHANGED <<profileVars, settled, index, doc, got, excused, shared, slipped>>

(* The cluster comes back empty. *)
LoseCluster ==
  /\ Fault
  /\ index # "absent"
  /\ index' = "absent"
  /\ doc' = [p \in Profiles |-> None]
  /\ stale' = {} /\ hits' = {}
  /\ excused' = excused \cup {p \in Profiles : doc[p] # None}
  /\ slipped' = (slipped \/ \E w \in Writers : step[w] = "write")
  /\ calm' = FALSE
  /\ UNCHANGED <<profileVars, settled, got, step, tardy, todo, snap, batch, at,
                 overtaken, pruned, shared>>

-----------------------------------------------------------------------------
Handle(w) ==
  \/ \E e \in Calls : Receive(w, e)
  \/ Prepare(w)
  \/ IndexProfile(w)
  \/ Acknowledge(w)
  \/ StartOver(w)
  \/ GiveUp(w)

Reindex ==
  \/ StartRebuild \/ QueryRows \/ ReadBatch
  \/ \E p \in Profiles : PrepareProfile(p) \/ PruneDocument(p)
  \/ WriteProfile
  \/ MatchStale
  \/ EndRebuild
  \/ RebuildFails

Next ==
  \/ \E c \in Calls : ByRequest(c) \/ RequestDies(c)
  \/ \E p \in Profiles : Deletion(p)
  \/ \E w \in Indexers : Handle(w)
  \/ Reindex
  \/ LoseCluster

Spec == Init /\ [][Next]_vars

-----------------------------------------------------------------------------
(* Searching: build_query() with a term and an optional filter, and the    *)
(* hydration of the hits from the rows.                                    *)

Terms(body) == {<<f, body.cols[f]>> : f \in Fields} \cup body.ins \cup body.gen

AllTerms == (Fields \X (Calls \cup {None})) \cup Instruments \cup Genres

(* The term must match, the filter too, without a score.                   *)
Matches(body, query, filter) == query \in Terms(body) /\ filter \subseteq Terms(body)

(* Without an index, or without a cluster, nothing is found.               *)
Found(query, filter) == {p \in Profiles : doc[p] # None /\ Matches(doc[p], query, filter)}

(* search_profiles(): a hit without a row is skipped. *)
SearchProfiles(query, filter) == Found(query, filter) \cap Live

Settled(p) ==
  /\ \A c \in On(p) : ~Active(c)
  /\ On(p) \cap Outstanding = {}
  /\ ~Rebuilding

(* What a scan of the rows would answer. *)
Answers(p, query, filter) == p \in Live /\ Matches(content[p], query, filter)

(* Search agrees with the profiles once the events are handled: a profile  *)
(* is found by a term, with or without a filter, if and only if its row    *)
(* says so.  Excepted are profiles whose event was lost, that two requests *)
(* edited at the same time, two of whose events were outstanding at the    *)
(* same time (the index keeps what arrives last), that changed between the *)
(* read and the write of a rebuild, that were deleted, or whose document   *)
(* went with the cluster.                                                  *)
IndexConverges ==
  \A p \in Profiles : Settled(p) /\ p \notin excused =>
    /\ doc[p] # None => p \in Live
    /\ \A query \in AllTerms, filter \in {{}, {<<"is_available", None>>}} :
         p \in SearchProfiles(query, filter) <=> Answers(p, query, filter)

(* "the index is derived data": a rebuild that nothing disturbs brings all *)
(* living profiles up to date whatever happened before, and with --prune   *)
(* leaves no document of a deleted one.                                    *)
RebuildRepairs ==
  calm /\ (PassComplete \/ PruneComplete) =>
    /\ \A p \in Live : doc[p] = content[p]
    /\ PruneComplete => \A p \in Profiles \ Live : doc[p] = None

(* The prune must not delete "a document that was just written": the only  *)
(* living profiles whose document it takes were written by an indexer that *)
(* took its stamp before the rebuild began and wrote after the rebuild     *)
(* had, or were deleted and inserted again meanwhile.                      *)
PruneSparesLiving == pruned \subseteq overtaken

(* OpenSearch never creates the index "with inferred mappings", except     *)
(* when it goes missing between a writer's check and its write.            *)
MappedByUs == index = "inferred" => slipped

(* "Only keys present in data are updated - absent keys are left           *)
(* untouched": a column changes by a request that names it, unless another *)
(* request wrote the profile while this one held it.                       *)
OnlyNamedColumns ==
  [][\A p \in Live, f \in Fields :
       content'[p].cols[f] # content[p].cols[f] =>
         \/ p \in shared \/ row'[p] # "live"
         \/ \E c \in On(p) : pc[c] = "row" /\ f \in Named(c)]_vars
=============================================================================
