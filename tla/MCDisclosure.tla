---------------------------- MODULE MCDisclosure ----------------------------
(* An application, an invitation to a band, a contact request and a hire   *)
(* request of ann to bob, with eve looking on.                             *)
EXTENDS Disclosure, TLC

CONSTANTS app, inv, con, eng, ann, bob, listing, band

MCKind ==
  [r \in Requests |->
     CASE r = app -> "application"
       [] r = inv -> "invite"
       [] r = con -> "contact"
       [] r = eng -> "engagement"]

MCAsker    == [r \in Requests |-> ann]
MCAnswerer == [r \in Requests |-> bob]
MCPlace    == [r \in Placed |-> IF r = inv THEN band ELSE listing]

(* Edits and reviews show no address; the calls are around one request.    *)
OneRequest ==
  /\ \E r \in Requests : \A c \in Calls : call[c] # None => call[c].on = r
  /\ \A c \in Calls : call[c] # None => call[c].op \in {"send", "accept", "decline", "complete"}

Interchangeable == Permutations(Calls)
=============================================================================
