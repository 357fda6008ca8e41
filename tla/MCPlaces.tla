------------------------------ MODULE MCPlaces ------------------------------
(* Names whose slugs meet: "a", "a-2", and one that is cut to "a-2" when   *)
(* it is numbered.                                                         *)
EXTENDS Places

CONSTANTS short, numbered, long

MCBase ==
  [n \in Names |-> CASE n = short    -> <<11>>
                     [] n = numbered -> <<11, 10, 2>>
                     [] n = long     -> <<11, 12, 13, 14>>]
=============================================================================
