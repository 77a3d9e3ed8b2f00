----------------------------- MODULE MCTopology -----------------------------
(* Rings of up to three nodes for Topology; the configurations say which.  *)
EXTENDS Topology

RingSuccessor == [n \in Settled |-> NextOf(n, Settled)]

RingPredecessor == [n \in Settled |-> PreviousOf(Settled, n)]

\* What update_successor_list makes of such a ring.
RingBackups ==
  [n \in Settled |->
     CASE Cardinality(Settled) = 1 -> <<>>
       [] Cardinality(Settled) = 2 -> <<NextOf(n, Settled)>>
       [] OTHER -> Kept(<<NextOf(n, Settled), NextOf(NextOf(n, Settled), Settled)>>)]
=============================================================================
