---------------------------- MODULE AtLeastOnce ----------------------------
(***************************************************************************)
(* What a consumer group promises to whoever publishes to its topics       *)
(* (apps/events/consumer.py): it goes through each partition in order and  *)
(* past a message only once that was settled, by its handler or by the     *)
(* dead-letter topic.  It may settle a message again as long as it likes:  *)
(* the one that is next, or one that it has passed.                        *)
(***************************************************************************)
EXTENDS Naturals

CONSTANT Partitions

VARIABLES
  arrived,     \* arrived[p]: messages in p so far; they are numbered from 0
  settled,     \* messages <<p, n>> that were handled or dead-lettered
  next         \* next[p]: the message that the group has to settle next

vars == <<arrived, settled, next>>

Init ==
  /\ arrived = [p \in Partitions |-> 0]
  /\ settled = {}
  /\ next = [p \in Partitions |-> 0]

Arrive(p) ==
  /\ arrived' = [arrived EXCEPT ![p] = @ + 1]
  /\ UNCHANGED <<settled, next>>

(* _handle() comes to an end. *)
Settle(p, n) ==
  /\ n <= next[p] /\ n < arrived[p]
  /\ settled' = settled \cup {<<p, n>>}
  /\ UNCHANGED <<arrived, next>>

(* commit(): one message further. *)
Advance(p) ==
  /\ <<p, next[p]>> \in settled
  /\ next' = [next EXCEPT ![p] = @ + 1]
  /\ UNCHANGED <<arrived, settled>>

Next ==
  \E p \in Partitions :
    \/ Arrive(p)
    \/ \E n \in 0 .. next[p] : Settle(p, n)
    \/ Advance(p)

Spec == Init /\ [][Next]_vars

(* What was passed is settled, and what is settled was passed or is next:  *)
(* no message waits behind one that was settled after it.                  *)
Promise ==
  \A p \in Partitions :
    /\ next[p] <= arrived[p]
    /\ \A n \in Nat : n < next[p] => <<p, n>> \in settled
    /\ \A n \in Nat : <<p, n>> \in settled => n <= next[p] /\ n < arrived[p]
=============================================================================
