------------------------------ MODULE MCRouting ------------------------------
(* Small rings for Routing. *)
EXTENDS Routing

CONSTANTS Workers, Clients, Joiners

\* The pointers of a stable ring.
Nearest(n) == CHOOSE s \in Members \ {n} :
                \A o \in Members \ {n} : Distance(n, s) <= Distance(n, o)

RingSuccessor == [n \in Members |-> IF Members = {n} THEN n ELSE Nearest(n)]

RingPredecessor ==
  [n \in Members |-> CHOOSE p \in Members : RingSuccessor[p] = n]

\* The nodes joined in the order of their identifiers: each found the lowest
\* one, which had built its own table when it was alone.
InOrder == [n \in Members |-> CHOOSE s \in Members : \A o \in Members : s <= o]

RunningThreads == (Workers \X {"worker"}) \cup (Clients \X {"client"})
                    \cup (Joiners \X {"joiner"})

\* Clients and joiners give a hop up, the workers try again.
Requests == {th \in RunningThreads : th[2] # "worker"}
=============================================================================
