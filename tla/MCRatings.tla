----------------------------- MODULE MCRatings ------------------------------
(* Instance of Ratings for TLC: consumers of the group are alike.          *)
EXTENDS Ratings, TLC

Interchangeable == Permutations(Workers) \cup Permutations(Editors)
=============================================================================
