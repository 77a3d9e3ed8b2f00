----------------------------- MODULE MerkleTree ------------------------------
(***************************************************************************)
(* chord/common/merkle.py.  Nobody finds a collision of SHA-256, so that a *)
(* hash is modelled by what was hashed: a leaf is its record, a parent the *)
(* pair of its children.                                                   *)
(***************************************************************************)
EXTENDS Naturals, Sequences, SequencesExt

None == <<>>

\* A record as the tree sees it.
Leaf(key, ts) == <<"leaf", key, ts>>

\* One level: pairs from the left, an odd last node is paired with itself.
Level(nodes) ==
  [i \in 1 .. (Len(nodes) + 1) \div 2 |->
    <<"parent", nodes[2 * i - 1],
      IF 2 * i <= Len(nodes) THEN nodes[2 * i] ELSE nodes[2 * i - 1]>>]

RECURSIVE BuildLevels(_)
BuildLevels(nodes) ==
  IF nodes = <<>> THEN None
  ELSE IF Len(nodes) = 1 THEN nodes[1]
  ELSE BuildLevels(Level(nodes))

\* get_root_hash of the records of keys, sorted by their keys.
RootHash(keys, ts) ==
  LET sorted == SetToSortSeq(keys, <)
  IN  BuildLevels([i \in DOMAIN sorted |-> Leaf(sorted[i], ts[sorted[i]])])
=============================================================================
