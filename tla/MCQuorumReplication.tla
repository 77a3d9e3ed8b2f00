------------------------ MODULE MCQuorumReplication -------------------------
(* Small instances of QuorumReplication for TLC. *)
EXTENDS QuorumReplication, TLC

CONSTANTS p1, p2, r1, r2

\* The replicas are interchangeable, and so are the seeders.
Symmetry == Permutations({r1, r2}) \cup Permutations({p1, p2})
=============================================================================
