--------------------------- MODULE ConsumerProofs ---------------------------
(* The safety of a consumer group, for any number of workers, partitions,  *)
(* messages, attempts and faults.                                          *)
EXTENDS Consumer, FiniteSetTheorems, TLAPS

(* Who runs and who belongs to the group: an evicted worker still has a    *)
(* message in flight, and only members are assigned partitions.            *)
GroupInv ==
  /\ \A w \in Workers : pc[w] = "out" => w \notin members
  /\ \A w \in Workers : pc[w] = "poll" => w \in members
  /\ \A p \in Partitions : owner[p] \in members \cup {None}

(* w has a message of p in flight. *)
Holds(w, p) == current[w] # None /\ Part(current[w]) = p

(* Where reading stands.  The owner of a partition reads one message past  *)
(* its committed offset and no further; what an evicted worker holds is no *)
(* later than the message the group reads next.                            *)
PaceInv ==
  /\ \A p \in Partitions : committed[p] <= position[p] /\ position[p] <= end[p]
  /\ \A w \in members, p \in Partitions : Holds(w, p) =>
       /\ owner[p] = w
       /\ Offset(current[w]) = committed[p]
       /\ position[p] = committed[p] + 1
  /\ \A p \in Partitions :
       owner[p] # None /\ ~Holds(owner[p], p) => position[p] = committed[p]
  /\ \A w \in Workers, p \in Partitions :
       Holds(w, p) => Offset(current[w]) <= committed[p]

(* What is settled: everything below the committed offset, whatever waits  *)
(* to be committed, and nothing past the next message.                     *)
SettledInv ==
  /\ NothingSkipped
  /\ \A w \in Workers : pc[w] = "commit" => Settled(current[w])
  /\ \A m \in Messages : Settled(m) => Offset(m) <= committed[Part(m)]

SafetyInv == TypeOK /\ GroupInv /\ PaceInv /\ SettledInv

-----------------------------------------------------------------------------
(* The parts of a message. *)
LEMMA MessageParts ==
  /\ \A m \in Messages : Part(m) \in Partitions /\ Offset(m) \in 0 .. Length - 1
  /\ \A p \in Partitions, o \in 0 .. Length - 1 :
       <<p, o>> \in Messages /\ Part(<<p, o>>) = p /\ Offset(<<p, o>>) = o
BY DEF Messages, Part, Offset

LEMMA SameMessage ==
  ASSUME NEW m \in Messages, NEW n \in Messages, Part(m) = Part(n),
         Offset(m) < Offset(n) + 1, ~(Offset(m) < Offset(n))
  PROVE  m = n
<1>1. PICK p \in Partitions, o \in 0 .. Length - 1 : m = <<p, o>>
  BY DEF Messages
<1>2. PICK q \in Partitions, u \in 0 .. Length - 1 : n = <<q, u>>
  BY DEF Messages
<1> QED BY <1>1, <1>2, MessageParts, ConsumerConstants

LEMMA TypesStep ==
  ASSUME TypeOK, [Next]_vars
  PROVE  TypeOK'
<1> USE ConsumerConstants DEF TypeOK, brokerVars, workVars, effectVars, InFlight
<1>1. ASSUME NEW p \in Partitions, Arrive(p)
      PROVE  TypeOK'
  BY <1>1 DEF Arrive
<1>2. ASSUME Rebalance
      PROVE  TypeOK'
  BY <1>2 DEF Rebalance, ResumeAt
<1>3. ASSUME NEW w \in Workers, Start(w)
      PROVE  TypeOK'
  BY <1>3 DEF Start
<1>4. ASSUME NEW w \in Workers, Sigterm(w)
      PROVE  TypeOK'
  BY <1>4 DEF Sigterm
<1>5. ASSUME NEW w \in Workers, Drop(w)
      PROVE  members' \subseteq Workers /\ owner' \in [Partitions -> Workers \cup {None}]
  BY <1>5 DEF Drop
<1>6. ASSUME NEW w \in Workers, Leave(w)
      PROVE  /\ members' \subseteq Workers
             /\ owner' \in [Partitions -> Workers \cup {None}]
             /\ pc' \in [Workers -> {"out", "poll"} \cup InFlight]
             /\ current' \in [Workers -> Messages \cup {None}]
             /\ \A v \in Workers : current'[v] # None <=> pc'[v] \in InFlight
             /\ tries' \in [Workers -> 0 .. MaxAttempts - 1]
             /\ stopping' \subseteq Workers
  BY <1>5, <1>6 DEF Leave
<1>7. ASSUME NEW w \in Workers, current[w] # None
      PROVE  /\ [completed EXCEPT ![current[w]] = @ + 1] \in [Messages -> Nat]
             /\ [parked EXCEPT ![current[w]] = @ + 1] \in [Messages -> Nat]
             /\ [committed EXCEPT ![Part(current[w])] = Offset(current[w]) + 1]
                  \in [Partitions -> 0 .. Length]
  BY <1>7, MessageParts
<1>8. ASSUME NEW w \in Workers, Shutdown(w) \/ Crash(w) \/ Evict(w)
      PROVE  TypeOK'
  BY <1>5, <1>6, <1>8 DEF Shutdown, Crash, Evict
<1>9. ASSUME NEW w \in Workers, Poll(w)
      PROVE  TypeOK'
  <2>1. PICK p \in Partitions :
               /\ position[p] < end[p]
               /\ current' = [current EXCEPT ![w] = <<p, position[p]>>]
               /\ position' = [position EXCEPT ![p] = @ + 1]
    BY <1>9 DEF Poll
  <2>2. <<p, position[p]>> \in Messages /\ position[p] + 1 \in 0 .. Length
    BY <2>1, MessageParts
  <2> QED BY <1>9, <2>1, <2>2 DEF Poll
<1>10. ASSUME NEW w \in Workers, Reject(w) \/ HandlerRaises(w) \/ PollIdle(w)
       PROVE  TypeOK'
  BY <1>10 DEF Reject, HandlerRaises, AfterFailure, PollIdle, vars
<1>11. ASSUME NEW w \in Workers, HandlerReturns(w) \/ DeadLetter(w)
       PROVE  TypeOK'
  BY <1>7, <1>11 DEF HandlerReturns, DeadLetter
<1>12. ASSUME NEW w \in Workers, DeadLetterFails(w)
       PROVE  TypeOK'
  BY <1>6, <1>7, <1>12 DEF DeadLetterFails
<1>13. ASSUME NEW w \in Workers, Commit(w) \/ CommitRefused(w) \/ CommitFails(w)
       PROVE  TypeOK'
  BY <1>6, <1>7, <1>13 DEF Commit, CommitRefused, CommitFails
<1>14. CASE UNCHANGED vars
  BY <1>14 DEF vars
<1> QED
  BY <1>1, <1>2, <1>3, <1>4, <1>8, <1>9, <1>10, <1>11, <1>12, <1>13, <1>14 DEF Next, Run

-----------------------------------------------------------------------------
LEMMA GroupStep ==
  ASSUME TypeOK, GroupInv, [Next]_vars
  PROVE  GroupInv'
<1> USE ConsumerConstants DEF TypeOK, GroupInv, brokerVars, workVars, effectVars, InFlight
<1>1. ASSUME NEW p \in Partitions, Arrive(p)
      PROVE  GroupInv'
  BY <1>1 DEF Arrive
<1>2. ASSUME Rebalance
      PROVE  GroupInv'
  BY <1>2 DEF Rebalance
<1>3. ASSUME NEW w \in Workers, Leave(w)
      PROVE  GroupInv'
  BY <1>3 DEF Leave, Drop
<1>4. ASSUME NEW w \in Workers,
             Shutdown(w) \/ Crash(w) \/ DeadLetterFails(w) \/ CommitRefused(w) \/ CommitFails(w)
      PROVE  GroupInv'
  BY <1>3, <1>4 DEF Shutdown, Crash, DeadLetterFails, CommitRefused, CommitFails
<1>5. ASSUME NEW w \in Workers, Evict(w)
      PROVE  GroupInv'
  BY <1>5 DEF Evict, Drop
<1>6. ASSUME NEW w \in Workers, Start(w) \/ Sigterm(w) \/ Poll(w) \/ PollIdle(w)
      PROVE  GroupInv'
  BY <1>6 DEF Start, Sigterm, Poll, PollIdle, vars
<1>7. ASSUME NEW w \in Workers,
             Reject(w) \/ HandlerReturns(w) \/ HandlerRaises(w) \/ DeadLetter(w) \/ Commit(w)
      PROVE  GroupInv'
  BY <1>7 DEF Reject, HandlerReturns, HandlerRaises, AfterFailure, DeadLetter, Commit, CommitAccepted
<1>8. CASE UNCHANGED vars
  BY <1>8 DEF vars
<1> QED
  BY <1>1, <1>2, <1>4, <1>5, <1>6, <1>7, <1>8 DEF Next, Run

(* A worker that leaves holds nothing and owns nothing; the others keep    *)
(* what they hold.                                                         *)
LEMMA LeavePace ==
  ASSUME TypeOK, GroupInv, PaceInv, NEW w \in Workers, Leave(w), UNCHANGED <<end, position>>,
         committed' \in [Partitions -> 0 .. Length],
         \A p \in Partitions : committed'[p] # committed[p] =>
           w \in members /\ Holds(w, p) /\ committed'[p] = committed[p] + 1
  PROVE  PaceInv'
<1> USE DEF TypeOK, GroupInv, PaceInv, Leave, Drop
<1>1. \A v \in Workers, p \in Partitions : Holds(v, p)' <=> v # w /\ Holds(v, p)
  BY DEF Holds
<1>2. \A v \in Workers \ {w} : current'[v] = current[v]
  OBVIOUS
<1>3. \A p \in Partitions : committed'[p] = committed[p] \/ owner[p] = w
  OBVIOUS
<1>4. \A p \in Partitions : owner'[p] # None =>
        owner'[p] = owner[p] /\ owner[p] \in Workers \ {w} /\ committed'[p] = committed[p]
  BY <1>3, ConsumerConstants
<1>5. \A p \in Partitions : committed'[p] <= position'[p] /\ position'[p] <= end'[p]
  OBVIOUS
<1> HIDE DEF Holds
<1>6. \A v \in members', p \in Partitions : Holds(v, p)' =>
        owner'[p] = v /\ Offset(current'[v]) = committed'[p] /\ position'[p] = committed'[p] + 1
  BY <1>1, <1>2, <1>3
<1>7. \A p \in Partitions :
        owner'[p] # None /\ ~Holds(owner[p], p)' => position'[p] = committed'[p]
  BY <1>1, <1>4
<1>8. \A v \in Workers, p \in Partitions : Holds(v, p)' => Offset(current'[v]) <= committed'[p]
  <2> SUFFICES ASSUME NEW v \in Workers, NEW p \in Partitions, Holds(v, p)'
               PROVE  Offset(current'[v]) <= committed'[p]
    OBVIOUS
  <2>1. v # w /\ Holds(v, p) /\ current'[v] = current[v] /\ current[v] \in Messages
    BY <1>1, <1>2 DEF Holds
  <2>2. committed[p] <= committed'[p]
    OBVIOUS
  <2> QED BY <2>1, <2>2, MessageParts
<1> QED BY <1>4, <1>5, <1>6, <1>7, <1>8 DEF Holds

LEMMA PaceStep ==
  ASSUME TypeOK, GroupInv, PaceInv, TypeOK', [Next]_vars
  PROVE  PaceInv'
<1> USE ConsumerConstants, MessageParts DEF TypeOK, brokerVars, workVars, effectVars, InFlight
<1>1. ASSUME NEW p \in Partitions, Arrive(p)
      PROVE  PaceInv'
  BY <1>1 DEF Arrive, PaceInv, Holds
<1>2. ASSUME Rebalance
      PROVE  PaceInv'
  <2>1. \A w \in members, p \in Partitions : ~Holds(w, p)'
    BY <1>2 DEF Rebalance, Holds
  <2>2. \A w \in Workers, p \in Partitions : Holds(w, p)' <=> Holds(w, p)
    BY <1>2 DEF Rebalance, Holds
  <2> QED BY <1>2, <2>1, <2>2 DEF Rebalance, ResumeAt, PaceInv
<1>3. ASSUME NEW w \in Workers, Evict(w)
      PROVE  PaceInv'
  <2>1. \A p \in Partitions :
          owner'[p] # None => owner'[p] = owner[p] /\ owner[p] \in Workers \ {w}
    BY <1>3 DEF Evict, Drop, GroupInv
  <2>2. \A v \in Workers, p \in Partitions : Holds(v, p)' <=> Holds(v, p)
    BY <1>3 DEF Evict, Holds
  <2> QED BY <1>3, <2>1, <2>2 DEF Evict, Drop, PaceInv, GroupInv
<1>4. ASSUME NEW w \in Workers, Start(w)
      PROVE  PaceInv'
  <2>1. \A v \in Workers, p \in Partitions : Holds(v, p)' <=> Holds(v, p)
    BY <1>4 DEF Start, Holds
  <2>2. \A p \in Partitions : ~Holds(w, p)
    BY <1>4 DEF Start, Holds
  <2> QED BY <1>4, <2>1, <2>2 DEF Start, PaceInv, GroupInv
<1>5. ASSUME NEW w \in Workers,
             Sigterm(w) \/ PollIdle(w) \/ Reject(w) \/ HandlerReturns(w) \/ HandlerRaises(w)
               \/ DeadLetter(w)
      PROVE  PaceInv'
  <2>1. UNCHANGED <<end, committed, members, owner, position, current>>
    BY <1>5 DEF Sigterm, PollIdle, Reject, HandlerReturns, HandlerRaises, DeadLetter, vars
  <2> QED BY <2>1 DEF PaceInv, Holds
<1>6. ASSUME NEW w \in Workers, Poll(w)
      PROVE  PaceInv'
  <2>1. PICK p \in Partitions :
               /\ owner[p] = w
               /\ position[p] < end[p]
               /\ current' = [current EXCEPT ![w] = <<p, position[p]>>]
               /\ position' = [position EXCEPT ![p] = @ + 1]
    BY <1>6 DEF Poll
  <2>2. /\ \A q \in Partitions : ~Holds(w, q)
        /\ UNCHANGED <<end, committed, members, owner>>
        /\ w \in members
    BY <1>6 DEF Poll, Holds, GroupInv
  <2>3. current'[w] # None /\ Part(current'[w]) = p /\ Offset(current'[w]) = position[p]
    BY <2>1
  <2>4. \A q \in Partitions : Holds(w, q)' <=> q = p
    BY <2>3 DEF Holds
  <2>5. \A v \in Workers \ {w}, q \in Partitions :
          current'[v] = current[v] /\ (Holds(v, q)' <=> Holds(v, q))
    BY <2>1 DEF Holds
  <2>6. position[p] = committed[p]
    BY <2>1, <2>2 DEF PaceInv
  <2>7. \A v \in Workers : Holds(v, p) => v \notin members
    BY <2>1, <2>2 DEF PaceInv
  <2>8. position'[p] = position[p] + 1 /\ \A q \in Partitions \ {p} : position'[q] = position[q]
    BY <2>1
  <2>9. \A q \in Partitions : committed'[q] <= position'[q] /\ position'[q] <= end'[q]
    BY <2>1, <2>2, <2>8 DEF PaceInv
  <2>10. \A v \in members', q \in Partitions : Holds(v, q)' =>
           owner'[q] = v /\ Offset(current'[v]) = committed'[q] /\ position'[q] = committed'[q] + 1
    <3> SUFFICES ASSUME NEW v \in members, NEW q \in Partitions, Holds(v, q)'
                 PROVE  /\ owner[q] = v
                        /\ Offset(current'[v]) = committed[q]
                        /\ position'[q] = committed[q] + 1
      BY <2>2
    <3>1. CASE v = w
      <4>1. q = p
        BY <3>1, <2>4
      <4> QED BY <3>1, <4>1, <2>1, <2>3, <2>6, <2>8
    <3>2. CASE v # w
      <4>1. Holds(v, q) /\ q # p /\ current'[v] = current[v]
        BY <3>2, <2>5, <2>7
      <4> QED BY <4>1, <2>8 DEF PaceInv
    <3> QED BY <3>1, <3>2
  <2>11. \A q \in Partitions :
           owner'[q] # None /\ ~Holds(owner[q], q)' => position'[q] = committed'[q]
    BY <2>1, <2>2, <2>4, <2>5, <2>8 DEF PaceInv, GroupInv
  <2>12. \A v \in Workers, q \in Partitions : Holds(v, q)' => Offset(current'[v]) <= committed'[q]
    <3> SUFFICES ASSUME NEW v \in Workers, NEW q \in Partitions, Holds(v, q)'
                 PROVE  Offset(current'[v]) <= committed[q]
      BY <2>2
    <3>1. CASE v = w
      BY <3>1, <2>3, <2>4, <2>6
    <3>2. CASE v # w
      BY <3>2, <2>5 DEF PaceInv
    <3> QED BY <3>1, <3>2
  <2> QED BY <2>2, <2>9, <2>10, <2>11, <2>12 DEF PaceInv, Holds
<1>7. ASSUME NEW w \in Workers, Commit(w)
      PROVE  PaceInv'
  <2> DEFINE p == Part(current[w])
             o == Offset(current[w])
  <2>1. /\ current[w] \in Messages
        /\ w \in members
        /\ UNCHANGED <<end, members, owner, position>>
        /\ committed' = [committed EXCEPT ![p] = o + 1]
        /\ current' = [current EXCEPT ![w] = None]
    BY <1>7 DEF Commit, CommitAccepted
  <2>2. p \in Partitions /\ Holds(w, p) /\ owner[p] = w /\ o = committed[p] /\ position[p] = o + 1
    BY <2>1 DEF PaceInv, Holds
  <2>3. committed'[p] = o + 1 /\ \A q \in Partitions \ {p} : committed'[q] = committed[q]
    BY <2>1, <2>2
  <2>4. \A v \in Workers, q \in Partitions : Holds(v, q)' <=> v # w /\ Holds(v, q)
    BY <2>1 DEF Holds
  <2>5. \A v \in Workers \ {w} : current'[v] = current[v]
    BY <2>1
  <2>6. \A q \in Partitions \ {p} : ~Holds(w, q)
    BY DEF Holds
  <2> HIDE DEF p, o
  <2>7. \A q \in Partitions : committed'[q] <= position'[q] /\ position'[q] <= end'[q]
    BY <2>1, <2>2, <2>3 DEF PaceInv
  <2>8. \A v \in members', q \in Partitions : Holds(v, q)' =>
          owner'[q] = v /\ Offset(current'[v]) = committed'[q] /\ position'[q] = committed'[q] + 1
    BY <2>1, <2>2, <2>3, <2>4, <2>5 DEF PaceInv
  <2>9. \A q \in Partitions :
          owner'[q] # None /\ ~Holds(owner[q], q)' => position'[q] = committed'[q]
    BY <2>1, <2>2, <2>3, <2>4, <2>6 DEF PaceInv, GroupInv
  <2>10. \A v \in Workers, q \in Partitions : Holds(v, q)' => Offset(current'[v]) <= committed'[q]
    <3> SUFFICES ASSUME NEW v \in Workers, NEW q \in Partitions, Holds(v, q)'
                 PROVE  Offset(current'[v]) <= committed'[q]
      OBVIOUS
    <3>1. Holds(v, q) /\ current'[v] = current[v] /\ current[v] \in Messages
      BY <2>4, <2>5 DEF Holds
    <3>2. committed[q] <= committed'[q]
      BY <2>2, <2>3
    <3> QED BY <3>1, <3>2 DEF PaceInv
  <2> QED BY <2>1, <2>7, <2>8, <2>9, <2>10 DEF PaceInv, Holds
<1>8. ASSUME NEW w \in Workers, Shutdown(w) \/ Crash(w) \/ DeadLetterFails(w) \/ CommitRefused(w)
      PROVE  PaceInv'
  BY <1>8, LeavePace DEF Shutdown, Crash, DeadLetterFails, CommitRefused
<1>9. ASSUME NEW w \in Workers, CommitFails(w)
      PROVE  PaceInv'
  <2>1. /\ current[w] \in Messages
        /\ w \in members
        /\ Leave(w)
        /\ UNCHANGED <<end, position>>
        /\ \/ committed' = [committed EXCEPT ![Part(current[w])] = Offset(current[w]) + 1]
           \/ UNCHANGED committed
    BY <1>9 DEF CommitFails, CommitAccepted
  <2>2. Holds(w, Part(current[w])) /\ Offset(current[w]) = committed[Part(current[w])]
    BY <2>1 DEF PaceInv, Holds
  <2>3. \A p \in Partitions : committed'[p] # committed[p] =>
          Holds(w, p) /\ committed'[p] = committed[p] + 1
    BY <2>1, <2>2
  <2> QED BY <2>1, <2>3, LeavePace
<1>10. CASE UNCHANGED vars
  BY <1>10 DEF vars, PaceInv, Holds
<1> QED
  BY <1>1, <1>2, <1>3, <1>4, <1>5, <1>6, <1>7, <1>8, <1>9, <1>10 DEF Next, Run

(* Handler returns and dead letters settle what w holds, and nothing else. *)
LEMMA SettlingOne ==
  ASSUME TypeOK, PaceInv, SettledInv,
         NEW w \in Workers, NEW m \in Messages, current[w] = m,
         \/ completed' = [completed EXCEPT ![m] = @ + 1] /\ UNCHANGED parked
         \/ parked' = [parked EXCEPT ![m] = @ + 1] /\ UNCHANGED completed
  PROVE  /\ Settled(m)'
         /\ \A n \in Messages : Settled(n) => Settled(n)'
         /\ \A n \in Messages : Settled(n)' => Offset(n) <= committed[Part(n)]
<1> USE DEF TypeOK
<1>1. \A n \in Messages : completed[n] \in Nat /\ parked[n] \in Nat
  OBVIOUS
<1>2. \A n \in Messages \ {m} : completed'[n] = completed[n] /\ parked'[n] = parked[n]
  OBVIOUS
<1>3. \/ completed'[m] = completed[m] + 1 /\ parked'[m] = parked[m]
      \/ parked'[m] = parked[m] + 1 /\ completed'[m] = completed[m]
  OBVIOUS
<1>4. \A n \in Messages \ {m} : Settled(n)' <=> Settled(n)
  BY <1>2 DEF Settled
<1>5. Settled(m)'
  BY <1>1, <1>3 DEF Settled
<1>6. Offset(m) <= committed[Part(m)]
  BY MessageParts, ConsumerConstants DEF PaceInv, Holds
<1> HIDE DEF TypeOK
<1> QED BY <1>4, <1>5, <1>6 DEF SettledInv

LEMMA SettledStep ==
  ASSUME TypeOK, TypeOK', GroupInv, PaceInv, SettledInv, [Next]_vars
  PROVE  SettledInv'
<1> USE ConsumerConstants, MessageParts
    DEF TypeOK, brokerVars, workVars, effectVars, InFlight, SettledInv, NothingSkipped
<1>1. ASSUME UNCHANGED <<committed, effectVars>>,
             \A w \in Workers : pc'[w] = "commit" => pc[w] = "commit" /\ current'[w] = current[w]
      PROVE  SettledInv'
  BY <1>1 DEF Settled
<1>2. ASSUME Rebalance \/ \E p \in Partitions : Arrive(p)
      PROVE  SettledInv'
  BY <1>1, <1>2 DEF Rebalance, Arrive
<1>3. ASSUME NEW w \in Workers, Start(w) \/ Sigterm(w) \/ Evict(w) \/ PollIdle(w)
      PROVE  SettledInv'
  BY <1>1, <1>3 DEF Start, Sigterm, Evict, PollIdle, vars
<1>4. ASSUME NEW w \in Workers, Shutdown(w) \/ Crash(w) \/ CommitRefused(w)
      PROVE  SettledInv'
  BY <1>1, <1>4 DEF Shutdown, Crash, CommitRefused, Leave
<1>5. ASSUME NEW w \in Workers, Poll(w) \/ Reject(w) \/ HandlerRaises(w)
      PROVE  SettledInv'
  BY <1>1, <1>5 DEF Poll, Reject, HandlerRaises, AfterFailure
<1>6. ASSUME NEW w \in Workers, HandlerReturns(w) \/ DeadLetter(w)
      PROVE  SettledInv'
  <2>1. /\ pc[w] \in {"handle", "deadletter"} /\ pc' = [pc EXCEPT ![w] = "commit"]
        /\ UNCHANGED <<committed, current>>
        /\ \/ completed' = [completed EXCEPT ![current[w]] = @ + 1] /\ UNCHANGED parked
           \/ parked' = [parked EXCEPT ![current[w]] = @ + 1] /\ UNCHANGED completed
    BY <1>6 DEF HandlerReturns, DeadLetter
  <2>2. current[w] \in Messages
    BY <2>1
  <2> QED BY <2>1, <2>2, SettlingOne
<1>7. ASSUME NEW w \in Workers, DeadLetterFails(w)
      PROVE  SettledInv'
  <2>1. /\ pc[w] = "deadletter"
        /\ UNCHANGED <<committed, completed>>
        /\ \A v \in Workers : pc'[v] = "commit" => pc[v] = "commit" /\ current'[v] = current[v]
        /\ parked' = [parked EXCEPT ![current[w]] = @ + 1] \/ UNCHANGED parked
    BY <1>7 DEF DeadLetterFails, Leave
  <2>2. CASE UNCHANGED parked
    BY <1>1, <2>1, <2>2
  <2>3. CASE parked' = [parked EXCEPT ![current[w]] = @ + 1]
    <3>1. current[w] \in Messages
      BY <2>1
    <3>2. /\ \A m \in Messages : Settled(m) => Settled(m)'
          /\ \A m \in Messages : Settled(m)' => Offset(m) <= committed[Part(m)]
      BY <2>1, <2>3, <3>1, SettlingOne
    <3> QED BY <2>1, <3>2
  <2> QED BY <2>1, <2>2, <2>3
<1>8. ASSUME NEW w \in Workers, Commit(w) \/ CommitFails(w)
      PROVE  SettledInv'
  <2>1. /\ pc[w] = "commit" /\ w \in members
        /\ UNCHANGED effectVars
        /\ \A v \in Workers : pc'[v] = "commit" => pc[v] = "commit" /\ current'[v] = current[v]
        /\ \/ committed' = [committed EXCEPT ![Part(current[w])] = Offset(current[w]) + 1]
           \/ UNCHANGED committed
    BY <1>8 DEF Commit, CommitFails, CommitAccepted, Leave
  <2>2. CASE UNCHANGED committed
    BY <1>1, <2>1, <2>2
  <2>3. CASE committed' = [committed EXCEPT ![Part(current[w])] = Offset(current[w]) + 1]
    <3>1. /\ current[w] \in Messages /\ Settled(current[w])
          /\ Offset(current[w]) = committed[Part(current[w])]
      <4>1. current[w] \in Messages /\ Settled(current[w])
        BY <2>1
      <4> QED BY <2>1, <4>1 DEF PaceInv, Holds
    <3>2. /\ committed'[Part(current[w])] = Offset(current[w]) + 1
          /\ \A p \in Partitions \ {Part(current[w])} : committed'[p] = committed[p]
      BY <2>3, <3>1
    <3>3. \A m \in Messages : Settled(m)' <=> Settled(m)
      BY <2>1 DEF Settled
    <3>4. NothingSkipped'
      <4> SUFFICES ASSUME NEW m \in Messages, Offset(m) < committed'[Part(m)]
                   PROVE  Settled(m)
        BY <3>3
      <4>1. CASE Offset(m) < committed[Part(m)]
        BY <4>1
      <4>2. CASE ~(Offset(m) < committed[Part(m)])
        <5>1. Part(m) = Part(current[w])
          BY <3>2, <4>2
        <5>2. Offset(m) < Offset(current[w]) + 1 /\ ~(Offset(m) < Offset(current[w]))
          BY <3>1, <3>2, <4>2, <5>1
        <5> QED BY <5>1, <5>2, <3>1, SameMessage
      <4> QED BY <4>1, <4>2
    <3>5. \A v \in Workers : pc'[v] = "commit" => Settled(current[v])'
      BY <2>1, <3>3
    <3>6. \A m \in Messages : Settled(m)' => Offset(m) <= committed'[Part(m)]
      BY <3>1, <3>2, <3>3
    <3> QED BY <2>1, <3>4, <3>5, <3>6 DEF Settled
  <2> QED BY <2>1, <2>2, <2>3
<1>9. CASE UNCHANGED vars
  BY <1>1, <1>9 DEF vars
<1> QED
  BY <1>2, <1>3, <1>4, <1>5, <1>6, <1>7, <1>8, <1>9 DEF Next, Run

LEMMA SafetyHolds == Spec => []SafetyInv
<1>1. Init => SafetyInv
  <2> SUFFICES ASSUME Init
               PROVE  SafetyInv
    OBVIOUS
  <2>1. TypeOK
    BY ConsumerConstants DEF Init, TypeOK, InFlight
  <2>2. GroupInv /\ PaceInv
    BY ConsumerConstants DEF Init, GroupInv, PaceInv, Holds
  <2>3. \A m \in Messages : ~Settled(m) /\ committed[Part(m)] = 0
    BY MessageParts DEF Init, Settled
  <2>4. SettledInv
    BY <2>3, MessageParts DEF Init, SettledInv, NothingSkipped
  <2> QED BY <2>1, <2>2, <2>4 DEF SafetyInv
<1>2. SafetyInv /\ [Next]_vars => SafetyInv'
  BY TypesStep, GroupStep, PaceStep, SettledStep DEF SafetyInv
<1> QED BY <1>1, <1>2, PTL DEF Spec

(* Every variable keeps its type: in particular no message has more failed *)
(* handler calls behind it than KAFKA_CONSUMER_MAX_ATTEMPTS leaves for     *)
(* another try, and a worker holds a message exactly while it is between   *)
(* poll() and the end of commit().                                         *)
THEOREM TypeCorrect == Spec => []TypeOK
BY SafetyHolds, PTL DEF SafetyInv

(* At-least-once: what the group has committed past was handled or         *)
(* dead-lettered, whatever crashes, evictions, refused commits and         *)
(* rebalances run() went through.                                          *)
THEOREM NothingSkippedHolds == Spec => []NothingSkipped
BY SafetyHolds, PTL DEF SafetyInv, SettledInv

(* Within a partition, messages are settled in the order of their offsets, *)
(* also when a worker that was evicted settles late.                       *)
THEOREM SettledInOrderHolds == Spec => []SettledInOrder
<1>1. SafetyInv => SettledInOrder
  <2> SUFFICES ASSUME SafetyInv, NEW m \in Messages, NEW n \in Messages,
                      Part(m) = Part(n), Offset(m) < Offset(n), Settled(n)
               PROVE  Settled(m)
    BY DEF SettledInOrder
  <2>1. Offset(n) <= committed[Part(m)]
    BY DEF SafetyInv, SettledInv
  <2>2. Part(m) \in Partitions /\ Offset(m) \in Int /\ Offset(n) \in Int
    BY MessageParts, ConsumerConstants
  <2>3. committed[Part(m)] \in Int
    BY <2>2, ConsumerConstants DEF SafetyInv, TypeOK
  <2> QED BY <2>1, <2>2, <2>3 DEF SafetyInv, SettledInv, NothingSkipped
<1> QED BY <1>1, SafetyHolds, PTL

(* A commit never takes the group back: not that of a worker the group     *)
(* evicted, nor one whose answer was lost.                                 *)
THEOREM CommitsGoForwardHolds == Spec => CommitsGoForward
<1>1. SafetyInv /\ [Next]_vars => [\A p \in Partitions : committed[p] <= committed'[p]]_vars
  <2> SUFFICES ASSUME SafetyInv, [Next]_vars, ~(UNCHANGED vars)
               PROVE  \A p \in Partitions : committed[p] <= committed'[p]
    OBVIOUS
  <2> USE ConsumerConstants DEF SafetyInv, TypeOK, brokerVars, workVars
  <2>1. CASE UNCHANGED committed
    BY <2>1
  <2>2. ASSUME NEW w \in Workers, Commit(w) \/ CommitFails(w)
        PROVE  \A p \in Partitions : committed[p] <= committed'[p]
    <3>1. /\ current[w] # None /\ w \in members
          /\ \/ committed' = [committed EXCEPT ![Part(current[w])] = Offset(current[w]) + 1]
             \/ UNCHANGED committed
      BY <2>2 DEF Commit, CommitFails, CommitAccepted, InFlight
    <3>2. Part(current[w]) \in Partitions /\ Offset(current[w]) = committed[Part(current[w])]
      BY <3>1, MessageParts DEF PaceInv, Holds
    <3> QED BY <3>1, <3>2
  <2>3. (\E w \in Workers : Commit(w) \/ CommitFails(w)) \/ UNCHANGED committed
    BY DEF Next, Run, Arrive, Rebalance, Start, Shutdown, Poll, PollIdle, Reject, HandlerReturns,
           HandlerRaises, DeadLetter, CommitRefused, Sigterm, Evict, DeadLetterFails, Crash
  <2> QED BY <2>1, <2>2, <2>3
<1> QED BY <1>1, SafetyHolds, PTL DEF Spec, CommitsGoForward

-----------------------------------------------------------------------------
(* The group does what AtLeastOnce says.                                   *)

(* A message in flight has arrived, also that of an evicted worker. *)
ArrivedInv ==
  \A w \in Workers : current[w] # None => Offset(current[w]) < end[Part(current[w])]

LEMMA ArrivedStep ==
  ASSUME TypeOK, ArrivedInv, [Next]_vars
  PROVE  ArrivedInv'
<1> USE ConsumerConstants DEF TypeOK, ArrivedInv
<1>1. CASE \E p \in Partitions : Arrive(p)
  BY <1>1, MessageParts DEF Arrive, workVars
<1>2. ASSUME NEW w \in Workers, Poll(w)
      PROVE  ArrivedInv'
  <2>1. PICK p \in Partitions :
          /\ position[p] < end[p] /\ end' = end
          /\ current' = [current EXCEPT ![w] = <<p, position[p]>>]
    BY <1>2 DEF Poll, brokerVars
  <2>2. Offset(<<p, position[p]>>) = position[p] /\ Part(<<p, position[p]>>) = p
    BY DEF Offset, Part
  <2> QED BY <2>1, <2>2
<1>3. ASSUME end' = end,
             \A w \in Workers : current'[w] \in {current[w], None}
      PROVE  ArrivedInv'
  BY <1>3
<1>4. ASSUME UNCHANGED <<end, current>>
      PROVE  ArrivedInv'
  BY <1>4
<1>5. CASE Rebalance \/ UNCHANGED vars
  BY <1>4, <1>5 DEF Rebalance, vars, brokerVars, workVars
<1>6. ASSUME NEW w \in Workers,
             \/ Start(w) \/ PollIdle(w) \/ Reject(w) \/ HandlerReturns(w) \/ HandlerRaises(w)
             \/ DeadLetter(w) \/ Sigterm(w) \/ Evict(w)
      PROVE  ArrivedInv'
  BY <1>4, <1>6 DEF Start, PollIdle, Reject, HandlerReturns, HandlerRaises, DeadLetter, Sigterm,
                    Evict, vars, brokerVars, workVars
<1>7. ASSUME NEW w \in Workers,
             \/ Shutdown(w) \/ Commit(w) \/ CommitRefused(w) \/ DeadLetterFails(w)
             \/ CommitFails(w) \/ Crash(w)
      PROVE  ArrivedInv'
  <2>1. end' = end /\ current' = [current EXCEPT ![w] = None]
    BY <1>7 DEF Shutdown, Commit, CommitRefused, DeadLetterFails, CommitFails, Crash, Leave
  <2> QED BY <1>3, <2>1
<1> QED BY <1>1, <1>2, <1>5, <1>6, <1>7 DEF Next, Run

(* An effect settles the message in flight, which is the next of its       *)
(* partition or one that the group has passed.                             *)
LEMMA EffectRefines ==
  ASSUME SafetyInv, ArrivedInv, NEW w \in Workers, NEW m \in Messages, m = current[w],
         UNCHANGED <<end, committed>>,
         \/ completed' = [completed EXCEPT ![m] = @ + 1] /\ UNCHANGED parked
         \/ parked' = [parked EXCEPT ![m] = @ + 1] /\ UNCHANGED completed
  PROVE  A!Next
<1> USE DEF SafetyInv, TypeOK
<1> DEFINE p == Part(m)  n == Offset(m)
<1>1. m # None /\ p \in Partitions /\ n \in 0 .. Length - 1 /\ m = <<p, n>>
  BY MessageParts, ConsumerConstants DEF Messages, Part, Offset
<1>2. Settled(m)' /\ \A k \in Messages \ {m} : Settled(k)' <=> Settled(k)
  BY <1>1 DEF Settled
<1>3. {k \in Messages : Settled(k)}' = {k \in Messages : Settled(k)} \cup {<<p, n>>}
  <2>1. {k \in Messages : Settled(k)'} = {k \in Messages : Settled(k)} \cup {m}
    BY <1>2
  <2> QED BY <1>1, <2>1
<1>4. n <= committed[p] /\ n < end[p]
  BY <1>1 DEF PaceInv, Holds, ArrivedInv
<1>5. A!Settle(p, n)
  BY <1>3, <1>4 DEF A!Settle
<1> HIDE DEF p, n
<1>6. n \in 0 .. committed[p]
  BY <1>1, <1>4, ConsumerConstants
<1> QED BY <1>1, <1>5, <1>6 DEF A!Next

(* A member commits the next message, which it has settled. *)
LEMMA CommitRefines ==
  ASSUME SafetyInv, NEW w \in members, pc[w] = "commit", UNCHANGED <<end, effectVars>>,
         committed' = [committed EXCEPT ![Part(current[w])] = Offset(current[w]) + 1]
  PROVE  A!Next
<1> USE DEF SafetyInv, TypeOK
<1> DEFINE m == current[w]  p == Part(m)
<1>1. m # None /\ m \in Messages
  BY DEF InFlight
<1>2. p \in Partitions /\ Offset(m) = committed[p] /\ m = <<p, committed[p]>>
  BY <1>1, MessageParts DEF PaceInv, Holds, Messages, Part, Offset
<1>3. Settled(m)
  BY DEF SettledInv
<1>4. {k \in Messages : Settled(k)}' = {k \in Messages : Settled(k)}
  BY DEF Settled, effectVars
<1>5. committed' = [committed EXCEPT ![p] = committed[p] + 1]
  BY <1>2
<1>6. A!Advance(p)
  BY <1>1, <1>2, <1>3, <1>4, <1>5 DEF A!Advance
<1> HIDE DEF m, p
<1> QED BY <1>2, <1>6 DEF A!Next

(* Every behaviour of a group, with any number of workers, faults and      *)
(* rollouts, is a behaviour of AtLeastOnce.                                *)
THEOREM Refinement == Spec => DeliverySpec
<1>1. Init => A!Init /\ ArrivedInv
  BY DEF Init, A!Init, ArrivedInv, Settled
<1>2. SafetyInv /\ ArrivedInv /\ [Next]_vars => [A!Next]_(A!vars)
  <2> SUFFICES ASSUME SafetyInv, ArrivedInv, [Next]_vars
               PROVE  [A!Next]_(A!vars)
    OBVIOUS
  <2>1. ASSUME UNCHANGED <<end, committed, effectVars>>
        PROVE  UNCHANGED A!vars
    BY <2>1 DEF A!vars, effectVars, Settled
  <2>2. ASSUME NEW p \in Partitions, Arrive(p)
        PROVE  A!Next
    <3>1. A!Arrive(p)
      BY <2>2 DEF Arrive, A!Arrive, effectVars, Settled
    <3> QED BY <3>1 DEF A!Next
  <2>3. ASSUME NEW w \in Workers, HandlerReturns(w) \/ DeadLetter(w)
        PROVE  A!Next
    <3>1. current[w] \in Messages
      BY <2>3 DEF HandlerReturns, DeadLetter, SafetyInv, TypeOK, InFlight
    <3> QED BY <2>3, <3>1, EffectRefines DEF HandlerReturns, DeadLetter, brokerVars
  <2>4. ASSUME NEW w \in Workers, DeadLetterFails(w)
        PROVE  [A!Next]_(A!vars)
    <3>1. current[w] \in Messages
      BY <2>4 DEF DeadLetterFails, SafetyInv, TypeOK, InFlight
    <3>2. /\ UNCHANGED <<end, committed, completed>>
          /\ parked' = [parked EXCEPT ![current[w]] = @ + 1] \/ UNCHANGED parked
      BY <2>4 DEF DeadLetterFails
    <3> QED BY <2>1, <3>1, <3>2, EffectRefines DEF effectVars
  <2>5. ASSUME NEW w \in Workers, Commit(w) \/ CommitFails(w)
        PROVE  [A!Next]_(A!vars)
    <3>1. /\ pc[w] = "commit" /\ w \in members /\ UNCHANGED <<end, effectVars>>
          /\ \/ committed' = [committed EXCEPT ![Part(current[w])] = Offset(current[w]) + 1]
             \/ UNCHANGED committed
      BY <2>5 DEF Commit, CommitFails, CommitAccepted
    <3> QED BY <2>1, <3>1, CommitRefines
  <2>6. ASSUME NEW w \in Workers,
               \/ Start(w) \/ Shutdown(w) \/ Poll(w) \/ PollIdle(w) \/ Reject(w) \/ HandlerRaises(w)
               \/ CommitRefused(w) \/ Sigterm(w) \/ Evict(w) \/ Crash(w)
        PROVE  UNCHANGED A!vars
    BY <2>1, <2>6 DEF Start, Shutdown, Poll, PollIdle, Reject, HandlerRaises, CommitRefused,
                      Sigterm, Evict, Crash, vars, brokerVars
  <2>7. CASE Rebalance \/ UNCHANGED vars
    BY <2>1, <2>7 DEF Rebalance, vars, brokerVars
  <2> QED BY <2>2, <2>3, <2>4, <2>5, <2>6, <2>7 DEF Next, Run
<1>3. SafetyInv /\ ArrivedInv /\ [Next]_vars => ArrivedInv'
  BY ArrivedStep DEF SafetyInv
<1> QED BY <1>1, <1>2, <1>3, SafetyHolds, PTL DEF Spec, DeliverySpec, A!Spec

(* What AtLeastOnce says is what it is meant to say: every message that    *)
(* was passed is settled, and none waits behind a settled one.             *)
THEOREM DeliveryKeepsPromise == DeliverySpec => []A!Promise
<1> DEFINE Types == /\ end \in [Partitions -> Nat] /\ committed \in [Partitions -> Nat]
           Kept == Types /\ A!Promise
<1>1. A!Init => Kept
  BY DEF A!Init, A!Promise
<1>2. Kept /\ [A!Next]_(A!vars) => Kept'
  <2> DEFINE done == {m \in Messages : Settled(m)}
  <2> SUFFICES ASSUME Kept, [A!Next]_(A!vars)
               PROVE  Kept'
    OBVIOUS
  <2>1. ASSUME NEW p \in Partitions, A!Arrive(p)
        PROVE  Kept'
    <3>1. end' = [end EXCEPT ![p] = @ + 1] /\ committed' = committed /\ done' = done
      BY <2>1 DEF A!Arrive
    <3> HIDE DEF done
    <3> QED BY <3>1 DEF A!Promise, done
  <2>2. ASSUME NEW p \in Partitions, NEW n \in 0 .. committed[p], A!Settle(p, n)
        PROVE  Kept'
    BY <2>2 DEF A!Settle, A!Promise
  <2>3. ASSUME NEW p \in Partitions, A!Advance(p)
        PROVE  Kept'
    BY <2>3 DEF A!Advance, A!Promise
  <2>4. CASE UNCHANGED A!vars
    BY <2>4 DEF A!vars, A!Promise
  <2> QED BY <2>1, <2>2, <2>3, <2>4 DEF A!Next
<1> QED BY <1>1, <1>2, PTL DEF DeliverySpec, A!Spec

-----------------------------------------------------------------------------
(* What repetitions are owed to.  Every try at a message ends in an effect *)
(* or in a fault, so the effects of a message and the tries that may still *)
(* have one are covered by the faults so far and by one more, which the    *)
(* group spends by reading the message and keeps spent by committing it.   *)
Trying(m)   == {w \in Workers : current[w] = m /\ pc[w] \in {"handle", "deadletter"}}
Attempts(m) == completed[m] + parked[m] + Cardinality(Trying(m))
Spent(m)    == Offset(m) < committed[Part(m)] \/ \E w \in members : current[w] = m

RedoneInv ==
  \A m \in Messages :
    /\ IsFiniteSet(Trying(m))
    /\ Attempts(m) <= faults + 1
    /\ ~Spent(m) => Attempts(m) <= faults

(* A step that starts no try and takes nothing back needs no fault; one    *)
(* that is a fault pays for whatever it undoes.                            *)
LEMMA NoNewTry ==
  ASSUME TypeOK, TypeOK', RedoneInv, NEW m \in Messages,
         IsFiniteSet(Trying(m))', Attempts(m)' <= Attempts(m),
         faults' = faults + 1 \/ (faults' = faults /\ (Spent(m) => Spent(m)'))
  PROVE  /\ IsFiniteSet(Trying(m))'
         /\ Attempts(m)' <= faults' + 1
         /\ ~Spent(m)' => Attempts(m)' <= faults'
<1>1. Attempts(m) \in Int /\ Attempts(m)' \in Int
  BY FS_CardinalityType DEF TypeOK, RedoneInv, Attempts
<1>2. faults \in Int /\ faults' \in Int
  BY DEF TypeOK
<1> QED BY <1>1, <1>2 DEF RedoneInv

LEMMA TryingShrinks ==
  ASSUME TypeOK, TypeOK', RedoneInv, NEW m \in Messages,
         Trying(m)' \subseteq Trying(m), completed'[m] = completed[m], parked'[m] = parked[m]
  PROVE  IsFiniteSet(Trying(m))' /\ Attempts(m)' <= Attempts(m)
<1>1. IsFiniteSet(Trying(m))
  BY DEF RedoneInv
<1>2. IsFiniteSet(Trying(m)') /\ Cardinality(Trying(m)') <= Cardinality(Trying(m))
  BY <1>1, FS_Subset
<1>3. Cardinality(Trying(m)') \in Nat /\ Cardinality(Trying(m)) \in Nat
  BY <1>1, <1>2, FS_CardinalityType
<1> QED BY <1>2, <1>3 DEF Attempts, TypeOK

(* An effect is the end of the try that had it. *)
LEMMA TrySettles ==
  ASSUME TypeOK, TypeOK', RedoneInv, NEW w \in Workers, NEW m \in Messages,
         w \in Trying(m), Trying(m)' = Trying(m) \ {w},
         \/ completed' = [completed EXCEPT ![m] = @ + 1] /\ UNCHANGED parked
         \/ parked' = [parked EXCEPT ![m] = @ + 1] /\ UNCHANGED completed
  PROVE  IsFiniteSet(Trying(m))' /\ Attempts(m)' <= Attempts(m)
<1>1. IsFiniteSet(Trying(m))
  BY DEF RedoneInv
<1>2. IsFiniteSet(Trying(m)') /\ Cardinality(Trying(m)') = Cardinality(Trying(m)) - 1
  BY <1>1, FS_RemoveElement
<1>3. Cardinality(Trying(m)) \in Nat
  BY <1>1, FS_CardinalityType
<1>4. completed'[m] + parked'[m] = completed[m] + parked[m] + 1
  BY DEF TypeOK
<1>5. completed[m] \in Nat /\ parked[m] \in Nat
  BY DEF TypeOK
<1> QED BY <1>2, <1>3, <1>4, <1>5 DEF Attempts

(* A worker that leaves stops trying. *)
LEMMA LeaveTries ==
  ASSUME TypeOK, NEW w \in Workers, Leave(w), NEW m \in Messages
  PROVE  Trying(m)' = Trying(m) \ {w}
BY DEF TypeOK, Leave, Trying

LEMMA RedoneStep ==
  ASSUME SafetyInv, TypeOK', RedoneInv, [Next]_vars
  PROVE  RedoneInv'
<1> SUFFICES ASSUME NEW m \in Messages
             PROVE  /\ IsFiniteSet(Trying(m))'
                    /\ Attempts(m)' <= faults' + 1
                    /\ ~Spent(m)' => Attempts(m)' <= faults'
  BY DEF RedoneInv
<1> DEFINE Goal == /\ IsFiniteSet(Trying(m))'
                   /\ Attempts(m)' <= faults' + 1
                   /\ ~Spent(m)' => Attempts(m)' <= faults'
<1> TypeOK /\ GroupInv /\ PaceInv
  BY DEF SafetyInv
<1> USE ConsumerConstants DEF brokerVars, workVars, effectVars, InFlight
<1>1. ASSUME Trying(m)' \subseteq Trying(m), UNCHANGED effectVars,
             faults' = faults + 1 \/ (faults' = faults /\ (Spent(m) => Spent(m)'))
      PROVE  Goal
  BY <1>1, TryingShrinks, NoNewTry
<1>2. ASSUME Rebalance \/ \E p \in Partitions : Arrive(p)
      PROVE  Goal
  <2>1. UNCHANGED <<committed, members, workVars, effectVars, faults>>
    BY <1>2 DEF Rebalance, Arrive
  <2> QED BY <1>1, <2>1 DEF Trying, Spent
<1>3. ASSUME NEW w \in Workers, Start(w) \/ Sigterm(w) \/ PollIdle(w)
      PROVE  Goal
  <2>1. /\ UNCHANGED <<committed, current, effectVars, faults>> /\ members \subseteq members'
        /\ pc' = pc \/ pc' = [pc EXCEPT ![w] = "poll"]
    BY <1>3 DEF Start, Sigterm, PollIdle, vars
  <2>2. Trying(m)' \subseteq Trying(m) /\ (Spent(m) => Spent(m)')
    BY <2>1 DEF Trying, Spent, TypeOK
  <2> QED BY <1>1, <2>1, <2>2
<1>4. ASSUME NEW w \in Workers, Evict(w)
      PROVE  Goal
  <2>1. UNCHANGED <<workVars, effectVars>> /\ faults' = faults + 1
    BY <1>4 DEF Evict
  <2> QED BY <1>1, <2>1 DEF Trying
<1>5. ASSUME NEW w \in Workers, Crash(w)
      PROVE  Goal
  BY <1>1, <1>5, LeaveTries DEF Crash
<1>6. ASSUME NEW w \in Workers, CommitFails(w)
      PROVE  Goal
  BY <1>1, <1>6, LeaveTries DEF CommitFails
<1>7. ASSUME NEW w \in Workers, Shutdown(w) \/ CommitRefused(w)
      PROVE  Goal
  <2>1. /\ Leave(w) /\ UNCHANGED <<committed, effectVars, faults>>
        /\ w \notin members \/ current[w] = None
    BY <1>7 DEF Shutdown, SeesShutdown, CommitRefused, CommitAccepted, TypeOK
  <2>2. Spent(m) => Spent(m)'
    BY <2>1 DEF Spent, Leave, Drop, TypeOK
  <2> QED BY <1>1, <2>1, <2>2, LeaveTries
<1>8. ASSUME NEW w \in Workers, Reject(w) \/ HandlerRaises(w)
      PROVE  Goal
  <2>1. UNCHANGED <<committed, members, current, effectVars, faults>>
    BY <1>8 DEF Reject, HandlerRaises
  <2>2. pc[w] = "handle" /\ \A v \in Workers \ {w} : pc'[v] = pc[v]
    BY <1>8 DEF Reject, HandlerRaises, TypeOK
  <2>3. Trying(m)' \subseteq Trying(m)
    BY <2>1, <2>2 DEF Trying
  <2> QED BY <1>1, <2>1, <2>3 DEF Spent
<1>9. ASSUME NEW w \in Workers, HandlerReturns(w) \/ DeadLetter(w)
      PROVE  Goal
  <2>1. /\ UNCHANGED <<committed, members, current, faults>>
        /\ pc[w] \in {"handle", "deadletter"}
        /\ pc' = [pc EXCEPT ![w] = "commit"]
        /\ \/ completed' = [completed EXCEPT ![current[w]] = @ + 1] /\ UNCHANGED parked
           \/ parked' = [parked EXCEPT ![current[w]] = @ + 1] /\ UNCHANGED completed
    BY <1>9 DEF HandlerReturns, DeadLetter
  <2>2. Trying(m)' = Trying(m) \ {w}
    BY <2>1 DEF Trying, TypeOK
  <2>3. CASE m = current[w]
    BY <2>1, <2>2, <2>3, TrySettles, NoNewTry DEF Trying, Spent
  <2>4. CASE m # current[w]
    BY <2>1, <2>2, <2>4, TryingShrinks, NoNewTry DEF Spent, TypeOK
  <2> QED BY <2>3, <2>4
<1>10. ASSUME NEW w \in Workers, DeadLetterFails(w)
       PROVE  Goal
  <2>1. /\ pc[w] = "deadletter" /\ faults' = faults + 1
        /\ Trying(m)' = Trying(m) \ {w}
        /\ UNCHANGED completed
        /\ parked' = [parked EXCEPT ![current[w]] = @ + 1] \/ UNCHANGED parked
    BY <1>10, LeaveTries DEF DeadLetterFails
  <2>2. CASE UNCHANGED parked
    BY <1>1, <2>1, <2>2
  <2>3. CASE m # current[w]
    BY <2>1, <2>3, TryingShrinks, NoNewTry DEF TypeOK
  <2>4. CASE m = current[w] /\ parked' = [parked EXCEPT ![current[w]] = @ + 1]
    <3>1. w \in Trying(m)
      BY <2>1, <2>4 DEF Trying
    <3>2. IsFiniteSet(Trying(m))' /\ Attempts(m)' <= Attempts(m)
      BY <2>1, <2>4, <3>1, TrySettles
    <3> QED BY <2>1, <3>2, NoNewTry
  <2> QED BY <2>1, <2>2, <2>3, <2>4
<1>11. ASSUME NEW w \in Workers, Commit(w)
       PROVE  Goal
  <2>1. /\ current[w] \in Messages /\ w \in members
        /\ committed' = [committed EXCEPT ![Part(current[w])] = Offset(current[w]) + 1]
        /\ current' = [current EXCEPT ![w] = None]
        /\ pc' = [pc EXCEPT ![w] = "poll"]
        /\ UNCHANGED <<members, effectVars, faults>>
    BY <1>11 DEF Commit, CommitAccepted, TypeOK
  <2>2. Trying(m)' \subseteq Trying(m)
    BY <2>1 DEF Trying, TypeOK
  <2>3. Spent(m) => Spent(m)'
    <3>1. Part(current[w]) \in Partitions /\ Offset(current[w]) = committed[Part(current[w])]
      BY <2>1, MessageParts DEF PaceInv, Holds
    <3>2. CASE m = current[w]
      BY <2>1, <3>1, <3>2 DEF Spent, TypeOK
    <3>3. CASE m # current[w] /\ \E v \in members : current[v] = m
      BY <2>1, <3>3 DEF Spent, TypeOK
    <3>4. CASE Offset(m) < committed[Part(m)]
      <4>1. Part(m) \in Partitions /\ Offset(m) \in Int /\ committed[Part(m)] \in Int
        BY MessageParts DEF TypeOK
      <4>2. committed[Part(m)] <= committed'[Part(m)] /\ committed'[Part(m)] \in Int
        BY <2>1, <3>1, <4>1 DEF TypeOK
      <4> QED BY <3>4, <4>1, <4>2 DEF Spent
    <3> QED BY <3>2, <3>3, <3>4 DEF Spent
  <2> QED BY <1>1, <2>1, <2>2, <2>3
<1>12. ASSUME NEW w \in Workers, Poll(w)
       PROVE  Goal
  <2>1. PICK p \in Partitions :
               /\ owner[p] = w
               /\ position[p] < end[p]
               /\ current' = [current EXCEPT ![w] = <<p, position[p]>>]
    BY <1>12 DEF Poll
  <2>2. /\ UNCHANGED <<committed, members, effectVars, faults>>
        /\ pc[w] = "poll" /\ pc' = [pc EXCEPT ![w] = "handle"]
        /\ current[w] = None /\ w \in members
    BY <1>12 DEF Poll, GroupInv, TypeOK
  <2>3. CASE m # <<p, position[p]>>
    <3>1. Trying(m)' \subseteq Trying(m) /\ (Spent(m) => Spent(m)')
      BY <2>1, <2>2, <2>3 DEF Trying, Spent, TypeOK
    <3> QED BY <1>1, <2>2, <3>1
  <2>4. CASE m = <<p, position[p]>>
    <3>1. Part(m) = p /\ Offset(m) = position[p]
      BY <2>4 DEF Part, Offset
    <3>2. position[p] = committed[p]
      BY <2>1, <2>2 DEF PaceInv, Holds
    <3>3. \A v \in members : current[v] # m
      BY <2>1, <2>2, <3>1 DEF PaceInv, Holds
    <3>4. ~Spent(m) /\ Spent(m)'
      BY <2>1, <2>2, <2>4, <3>1, <3>2, <3>3 DEF Spent, TypeOK
    <3>5. Trying(m)' = Trying(m) \cup {w} /\ w \notin Trying(m)
      BY <2>1, <2>2, <2>4 DEF Trying, TypeOK
    <3>6. IsFiniteSet(Trying(m)) /\ Attempts(m) <= faults
      BY <3>4 DEF RedoneInv
    <3>7. IsFiniteSet(Trying(m)') /\ Cardinality(Trying(m)') = Cardinality(Trying(m)) + 1
      BY <3>5, <3>6, FS_AddElement
    <3>8. Cardinality(Trying(m)) \in Nat
      BY <3>6, FS_CardinalityType
    <3>9. Attempts(m)' <= faults' + 1
      BY <2>2, <3>6, <3>7, <3>8 DEF Attempts, TypeOK
    <3> QED BY <3>4, <3>7, <3>9
  <2> QED BY <2>3, <2>4
<1>13. CASE UNCHANGED vars
  <2>1. UNCHANGED <<committed, members, workVars, effectVars, faults>>
    BY <1>13 DEF vars
  <2> QED BY <1>1, <2>1 DEF Trying, Spent
<1> QED
  BY <1>2, <1>3, <1>4, <1>5, <1>6, <1>7, <1>8, <1>9, <1>10, <1>11, <1>12, <1>13 DEF Next, Run

(* A rollout redoes nothing: over any run a message is handled or dead-    *)
(* lettered at most once more than there were crashes, evictions and       *)
(* failed commits or dead letters.                                         *)
THEOREM RedoneOnlyAfterFaultHolds == Spec => []RedoneOnlyAfterFault
<1>1. Init => RedoneInv
  <2> SUFFICES ASSUME Init, NEW m \in Messages
               PROVE  IsFiniteSet(Trying(m)) /\ Attempts(m) = 0 /\ faults = 0
    BY DEF RedoneInv
  <2>1. Trying(m) = {}
    BY DEF Init, Trying
  <2> QED BY <2>1, FS_EmptySet DEF Init, Attempts
<1>2. SafetyInv /\ SafetyInv' /\ RedoneInv /\ [Next]_vars => RedoneInv'
  BY RedoneStep DEF SafetyInv
<1>3. SafetyInv /\ RedoneInv => RedoneOnlyAfterFault
  <2> SUFFICES ASSUME SafetyInv, RedoneInv, NEW m \in Messages
               PROVE  completed[m] + parked[m] <= 1 + faults
    BY DEF RedoneOnlyAfterFault
  <2>1. Cardinality(Trying(m)) \in Nat
    BY FS_CardinalityType DEF RedoneInv
  <2> QED BY <2>1 DEF SafetyInv, TypeOK, RedoneInv, Attempts
<1> QED BY <1>1, <1>2, <1>3, SafetyHolds, PTL DEF Spec
=============================================================================
