------------------------------ MODULE RingSpace ------------------------------
(***************************************************************************)
(* The identifier circle of chord/common/utils.py: the identifiers are the *)
(* values of a hash (160 bits in the code), and is_between is the only     *)
(* comparison the ring ever makes of them.                                 *)
(***************************************************************************)
EXTENDS Integers

CONSTANT Size     \* the number of identifiers, 2^160 in the code

ASSUME SizeAssumption == Size \in Nat \ {0}

Ids == 0 .. Size - 1

\* is_between: x lies in the circular range (start, end].  Of a range with
\* start = end the code makes the whole circle.
Between(x, start, end) ==
  IF start < end THEN start < x /\ x <= end
                 ELSE start < x \/ x <= end

\* How far x lies after start, walking clockwise.
Distance(start, x) == IF start <= x THEN x - start ELSE x - start + Size

\* The next of a set of nodes, clockwise from n; n itself if it is alone.
NextOf(n, nodes) ==
  IF nodes \subseteq {n} THEN n
  ELSE CHOOSE o \in nodes \ {n} : \A x \in nodes \ {n} : Distance(n, o) <= Distance(n, x)
=============================================================================
