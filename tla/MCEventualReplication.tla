------------------------ MODULE MCEventualReplication ------------------------
(* Small instances of EventualReplication for TLC. *)
EXTENDS EventualReplication, TLC

CONSTANTS p1, p2, r1

\* The seeders are interchangeable.
Symmetry == Permutations({p1, p2})
=============================================================================
