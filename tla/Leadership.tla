----------------------------- MODULE Leadership -----------------------------
(***************************************************************************)
(* What the scheduler lease promises the rest of the program, without the  *)
(* table, the timers or the clock: at any moment at most one instance      *)
(* believes that it is the leader, and leadership never passes directly    *)
(* from one instance to another - there is always a moment with no leader  *)
(* in between.                                                             *)
(***************************************************************************)
CONSTANTS Instance, Nobody

VARIABLE leader

Init == leader = Nobody

\* An instance becomes the leader only while there is none.
Elect(i) ==
  /\ leader = Nobody
  /\ leader' = i

\* The leader's claim lapses, or its process dies.
Lapse ==
  /\ leader # Nobody
  /\ leader' = Nobody

Next == Lapse \/ \E i \in Instance : Elect(i)

Spec == Init /\ [][Next]_leader
=============================================================================
