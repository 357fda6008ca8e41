------------------------------ MODULE Profiles ------------------------------
(***************************************************************************)
(* Musician profiles (apps/musicians): the row, its instrument and genre   *)
(* rows, and the requests that create, edit and delete them.  A request    *)
(* works on an object that its view has loaded; each statement below is a  *)
(* transaction of its own.  At the end the request publishes               *)
(* profile.updated with what it believes the profile contains.             *)
(***************************************************************************)
EXTENDS FiniteSets

CONSTANTS
  Profiles,     \* profile ids, each of another user
  Calls,        \* web requests, each made once
  Fields,       \* scalar columns
  Instruments, Genres,
  Payloads,     \* what an edit may ask for
  None

Relations == {"instruments", "genres"}

Content ==
  [cols : [Fields -> Calls \cup {None}], ins : SUBSET Instruments, gen : SUBSET Genres]

Data == [names : SUBSET (Fields \cup Relations), ins : SUBSET Instruments, gen : SUBSET Genres]

Request == [op : {"create", "update"}, on : Profiles, data : Data]

ASSUME ProfilesConstants ==
  /\ Payloads \subseteq Data
  /\ Fields # {} /\ Fields \cap Relations = {}
  /\ None \notin Calls /\ None \notin Request

VARIABLES
  row,         \* row[p]: "none" yet, "live", or "gone"
  owners,      \* profiles whose user account exists
  content,     \* content[p]: columns (a value is the call that wrote it) and relations
  call,        \* call[c]: what c asks for, until it has failed or its event is handled
  pc,          \* pc[c]: the statement c comes to next
  mem,         \* mem[c]: the object that c works on; its payload in the end
  had,         \* had[c]: the genres that set() found
  published    \* calls whose event is in the outbox

profileVars ==
  <<row, owners, content, call, pc, mem, had, published>>

Steps == {"idle", "row", "clear", "fill", "look", "set", "build", "publish", "done"}

ProfilesTypeOK ==
  /\ row \in [Profiles -> {"none", "live", "gone"}]
  /\ owners \subseteq Profiles
  /\ content \in [Profiles -> Content]
  /\ call \in [Calls -> Request \cup {None}]
  /\ pc \in [Calls -> Steps]
  /\ \A c \in Calls : pc[c] \notin {"idle", "done"} => call[c] # None
  /\ mem \in [Calls -> Content]
  /\ had \in [Calls -> SUBSET Genres]
  /\ published \subseteq Calls

Blank == [cols |-> [f \in Fields |-> None], ins |-> {}, gen |-> {}]

ProfilesInit ==
  /\ row \in [Profiles -> {"none", "live"}]
  /\ owners = Profiles
  /\ content = [p \in Profiles |-> Blank]
  /\ call = [c \in Calls |-> None]
  /\ pc = [c \in Calls |-> "idle"]
  /\ mem = [c \in Calls |-> Blank]
  /\ had = [c \in Calls |-> {}]
  /\ published = {}

Live == {p \in Profiles : row[p] = "live"}
Active(c) == pc[c] \notin {"idle", "done"}
Named(c) == call[c].data.names
Goto(c, step) == pc' = [pc EXCEPT ![c] = step]

-----------------------------------------------------------------------------
(* The order of the statements of a request: the row if a column is named, *)
(* the instruments, the genres, the payload, the event.                    *)
AfterInstruments(d) == IF "genres" \in d.names THEN "look" ELSE "build"
AfterRow(d) == IF "instruments" \in d.names THEN "clear" ELSE AfterInstruments(d)
FirstStep(d) == IF d.names \cap Fields # {} THEN "row" ELSE AfterRow(d)

(* The view reads the row with its relations; update_profile() sets the    *)
(* columns that the request names on the object.                           *)
Load(c, p, d) ==
  /\ pc[c] = "idle"
  /\ row[p] = "live"
  /\ call' = [call EXCEPT ![c] = [op |-> "update", on |-> p, data |-> d]]
  /\ mem' = [mem EXCEPT ![c] = [content[p] EXCEPT
                !.cols = [f \in Fields |-> IF f \in d.names THEN c ELSE @[f]]]]
  /\ Goto(c, FirstStep(d))
  /\ UNCHANGED <<row, owners, content, had, published>>

(* create_profile() up to its exists(): every column gets a value.         *)
CreateProfile(c, p, d) ==
  /\ pc[c] = "idle"
  /\ row[p] = "none" /\ p \in owners
  /\ LET all == [d EXCEPT !.names = Fields \cup Relations] IN
     call' = [call EXCEPT ![c] = [op |-> "create", on |-> p, data |-> all]]
  /\ mem' = [mem EXCEPT ![c] = [Blank EXCEPT !.cols = [f \in Fields |-> c]]]
  /\ Goto(c, "row")
  /\ UNCHANGED <<row, owners, content, had, published>>

(* The statement violates a constraint, or the process dies: what was      *)
(* written stays, the rest is not done, no event is published.             *)
Abandon(c) ==
  /\ Goto(c, "done")
  /\ call' = [call EXCEPT ![c] = None]
  /\ mem' = [mem EXCEPT ![c] = Blank]
  /\ had' = [had EXCEPT ![c] = {}]
  /\ UNCHANGED <<row, owners, content, published>>

Store(c, new) == content' = [content EXCEPT ![call[c].on] = new]

(* create() inserts.  save() updates every column; if the row has been     *)
(* deleted it inserts it again, which the foreign key to the user allows   *)
(* as long as there is the user.                                           *)
Insertable(c, p) == p \in owners /\ (call[c].op = "create" => row[p] = "none")

(* Variant: columns that the request does not name get their default. *)
NamedOrDefault(c) == [f \in Fields |-> IF f \in Named(c) THEN mem[c].cols[f] ELSE None]

SavedColumns(c) == mem[c].cols

WriteRow(c) ==
  LET p == call[c].on IN
  /\ pc[c] = "row"
  /\ Insertable(c, p)
  /\ Store(c, [content[p] EXCEPT !.cols = SavedColumns(c)])
  /\ row' = [row EXCEPT ![p] = "live"]
  /\ Goto(c, AfterRow(call[c].data))
  /\ UNCHANGED <<owners, call, mem, had, published>>

RowRefused(c) == pc[c] = "row" /\ ~Insertable(c, call[c].on) /\ Abandon(c)

(* _set_instruments(): delete all, then bulk_create.                       *)
ClearInstruments(c) ==
  /\ pc[c] = "clear"
  /\ Store(c, [content[call[c].on] EXCEPT !.ins = {}])
  /\ Goto(c, "fill")
  /\ UNCHANGED <<row, owners, call, mem, had, published>>

(* The rows need a profile, and (profile, instrument) is unique.           *)
Fits(c, p) ==
  call[c].data.ins = {} \/ (row[p] = "live" /\ call[c].data.ins \cap content[p].ins = {})

FillInstruments(c) ==
  LET p == call[c].on IN
  /\ pc[c] = "fill"
  /\ Fits(c, p)
  /\ Store(c, [content[p] EXCEPT !.ins = @ \cup call[c].data.ins])
  /\ Goto(c, AfterInstruments(call[c].data))
  /\ UNCHANGED <<row, owners, call, mem, had, published>>

InstrumentsRefused(c) == pc[c] = "fill" /\ ~Fits(c, call[c].on) /\ Abandon(c)

(* _set_genres(): set() compares with what it finds and writes the         *)
(* difference.                                                             *)
LookAtGenres(c) ==
  /\ pc[c] = "look"
  /\ had' = [had EXCEPT ![c] = content[call[c].on].gen]
  /\ Goto(c, "set")
  /\ UNCHANGED <<row, owners, content, call, mem, published>>

Added(c)   == call[c].data.gen \ had[c]
Dropped(c) == had[c] \ call[c].data.gen

SetGenres(c) ==
  LET p == call[c].on IN
  /\ pc[c] = "set"
  /\ row[p] = "live" \/ Added(c) = {}
  /\ Store(c, [content[p] EXCEPT !.gen = (@ \ Dropped(c)) \cup Added(c)])
  /\ had' = [had EXCEPT ![c] = {}]
  /\ Goto(c, "build")
  /\ UNCHANGED <<row, owners, call, mem, published>>

GenresRefused(c) ==
  /\ pc[c] = "set"
  /\ row[call[c].on] # "live" /\ Added(c) # {}
  /\ Abandon(c)

-----------------------------------------------------------------------------
(* Variant: the relations as they were prefetched. *)
StaleRelations(c, p) == mem[c]

(* build_search_payload(): columns from the object; a relation that the    *)
(* request has replaced is read again, another one is taken as the view    *)
(* prefetched it.  A created profile has nothing prefetched.               *)
Payload(c, p) ==
  [mem[c] EXCEPT
     !.ins = IF "instruments" \in Named(c) THEN content[p].ins ELSE @,
     !.gen = IF "genres" \in Named(c) THEN content[p].gen ELSE @]

BuildPayload(c) ==
  /\ pc[c] = "build"
  /\ mem' = [mem EXCEPT ![c] = Payload(c, call[c].on)]
  /\ Goto(c, "publish")
  /\ UNCHANGED <<row, owners, content, call, had, published>>

Publish(c) ==
  /\ pc[c] = "publish"
  /\ published' = published \cup {c}
  /\ Goto(c, "done")
  /\ UNCHANGED <<row, owners, content, call, mem, had>>

(* The event of c has been handled: nothing of the call is left. *)
Consumed(c) ==
  /\ call' = [call EXCEPT ![c] = None]
  /\ mem' = [mem EXCEPT ![c] = Blank]
  /\ UNCHANGED <<row, owners, content, pc, had, published>>

Die(c) == Active(c) /\ Abandon(c)

(* Rows that are deleted directly, by the admin or with their user, take   *)
(* their relations along and publish nothing.                              *)
Remove(p, users) ==
  /\ row[p] = "live"
  /\ row' = [row EXCEPT ![p] = "gone"]
  /\ content' = [content EXCEPT ![p] = Blank]
  /\ owners' = owners \ users
  /\ UNCHANGED <<call, pc, mem, had, published>>

DeleteProfile(p) == Remove(p, {})
DeleteUser(p)    == Remove(p, {p})

Begin(c) ==
  \E p \in Profiles, d \in Payloads : Load(c, p, d) \/ CreateProfile(c, p, d)

Continue(c) ==
  \/ WriteRow(c) \/ RowRefused(c)
  \/ ClearInstruments(c) \/ FillInstruments(c) \/ InstrumentsRefused(c)
  \/ LookAtGenres(c) \/ SetGenres(c) \/ GenresRefused(c)
  \/ BuildPayload(c) \/ Publish(c)
=============================================================================
