------------------------- MODULE MCChainReplication -------------------------
(* Small instances of ChainReplication for TLC: nodes 0 .. Size - 1, numbered *)
(* clockwise from the head.                                                  *)
EXTENDS ChainReplication, TLC

CONSTANT Size

Ring == 0 .. Size - 1

RingSuccessor == [n \in Ring |-> (n + 1) % Size]

RingLink == [n \in Ring |-> [i \in 1 .. K |-> (n + i - 1) % Size]]

Symmetry == Permutations(Peers)
=============================================================================
