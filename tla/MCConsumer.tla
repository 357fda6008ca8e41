----------------------------- MODULE MCConsumer -----------------------------
(* A group of two workers over two partitions; the first message of one    *)
(* partition can never be handled.                                         *)
EXTENDS Consumer

CONSTANTS w1, w2, p1, p2

TwoWorkers    == {w1, w2}
TwoPartitions == {p1, p2}
Malformed     == {<<p1, 0>>}
=============================================================================
