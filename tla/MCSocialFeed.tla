---------------------------- MODULE MCSocialFeed ----------------------------
(* One author with two posts and one reader who follows and unfollows.     *)
EXTENDS SocialFeed, TLC

CONSTANTS author, reader, x1, x2, w1, w2

TwoUsers      == {author, reader}
TwoActivities == {x1, x2}
ByAuthor      == [x \in TwoActivities |-> author]
OneWorker     == {w1}
TwoWorkers    == {w1, w2}

(* Only the reader follows: follow, unfollow, follow again. *)
ThreeByReader == [e \in Edges |-> IF e = <<reader, author>> THEN 3 ELSE 0]
TwoByReader   == [e \in Edges |-> IF e = <<reader, author>> THEN 2 ELSE 0]

(* The author is the same of both posts. *)
Interchangeable == Permutations(TwoWorkers) \cup Permutations(TwoActivities)
=============================================================================
