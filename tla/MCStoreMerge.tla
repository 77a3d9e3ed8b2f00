---------------------------- MODULE MCStoreMerge ----------------------------
(* Small instances of StoreMerge for TLC. *)
EXTENDS StoreMerge, TLC

CONSTANTS p1, p2, s1, s2

Delta(kind, p, t) == [kind |-> kind, peer |-> p, ts |-> t]

\* Two seeders: announced, one removed, one announced again, one removed last.
Rounds == { Delta("insert", p1, 1), Delta("insert", p2, 2),
            Delta("remove", p1, 3), Delta("remove", p2, 4),
            Delta("insert", p1, 5), Delta("remove", p1, 6) }

\* One seeder announces, another announces and removes.
Crossing == { Delta("insert", p1, 1), Delta("insert", p2, 2),
              Delta("remove", p2, 3) }

Symmetry == Permutations({s1, s2})
=============================================================================
