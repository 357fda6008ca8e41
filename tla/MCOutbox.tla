------------------------------ MODULE MCOutbox ------------------------------
(* Small instances of Outbox for TLC: two events in the backlog.  The .cfg *)
(* files choose the relays and the bounds.                                 *)
EXTENDS Outbox, TLC

CONSTANTS e1, e2, r1, r2

TwoEvents == {e1, e2}
OneRelay  == {r1}
TwoRelays == {r1, r2}

Symmetry == Permutations(TwoEvents) \cup Permutations(TwoRelays)
=============================================================================
