---------------------------- MODULE MCTraversal -----------------------------
(* Small instances of Traversal for TLC. *)
EXTENDS Traversal

\* The first two nodes begin one traversal each.
Origins == [r \in Requests |-> r - 1]
=============================================================================
