--------------------------- MODULE MCSearchIndex ----------------------------
(* Instance of SearchIndex for TLC. *)
EXTENDS SearchIndex, TLC

CONSTANTS guitar, jazz

(* A request for the availability, for a list of instruments  *)
(* with the bio, and for a list of genres.                                 *)
MCPayloads ==
  {[names |-> {"is_available"}, ins |-> {}, gen |-> {}],
   [names |-> {"bio", "instruments"}, ins |-> {guitar}, gen |-> {}],
   [names |-> {"genres"}, ins |-> {}, gen |-> {jazz}]}

Interchangeable == Permutations(Calls)
=============================================================================
