----------------------------- MODULE MCDownload -----------------------------
(* Small instances of Download for TLC. *)
EXTENDS Download, TLC

\* The owners can be exchanged, and so can the others.
Symmetry == Permutations(Owners) \cup Permutations(Nodes \ Owners)
=============================================================================
