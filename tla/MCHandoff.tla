----------------------------- MODULE MCHandoff ------------------------------
(* Small instances of Handoff for TLC, and the Merkle tree by itself: over   *)
(* five keys no two different sets of records have the same root.            *)
EXTENDS Handoff

ASSUME RootsTellRecordsApart ==
  LET roots == {RootHash({k \in 1 .. 5 : s[k] > 0}, s) : s \in [1 .. 5 -> 0 .. 2]}
  IN  Cardinality(roots) = 3^5
=============================================================================
