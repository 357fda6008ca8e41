----------------------------- MODULE MCRequests -----------------------------
(* Two applications of one user to a listing, an invitation to a band, a   *)
(* contact request and a hire request.                                     *)
EXTENDS Requests, TLC

CONSTANTS a1, a2, inv, con, eng, ann, bob, listing, band

MCKind ==
  [r \in Requests |->
     CASE r \in {a1, a2} -> "application"
       [] r = inv -> "invite"
       [] r = con -> "contact"
       [] r = eng -> "engagement"]

MCAsker    == [r \in Requests |-> ann]
MCAnswerer == [r \in Requests |-> bob]
MCPlace    == [r \in Placed |-> IF r = inv THEN band ELSE listing]

(* Rows that share no key and no listing or band meet in no statement: a   *)
(* behaviour takes the calls around one of these groups.                   *)
Groups == {{a1, a2, listing}, {inv, band}, {con}, {eng}}

OneGroup ==
  \E G \in Groups : \A c \in Calls : call[c] # None => call[c].on \in G

Interchangeable == Permutations(Calls) \cup Permutations({a1, a2})
=============================================================================
