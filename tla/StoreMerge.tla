----------------------------- MODULE StoreMerge -----------------------------
(***************************************************************************)
(* What chord/dht/storage.py promises as a CRDT: stores that receive the   *)
(* same announcements and removals of one key.  The transports above it    *)
(* repeat and reorder deltas freely (Deliver below), so the order matters  *)
(* only if a store makes it matter.                                        *)
(***************************************************************************)
EXTENDS DataStore

CONSTANTS
  Stores,     \* the nodes that hold a copy of the key
  Issued      \* the deltas the coordinators issue

\* No two clocks read the same float: a time stands for one delta.
ASSUME IssuedAssumption ==
  /\ Issued \subseteq Deltas
  /\ \A d, e \in Issued : d.ts > 0 /\ (d.ts = e.ts => d = e)

VARIABLES
  rec,      \* rec[n] is the record of the key at store n
  seen,     \* seen[n] are the deltas store n has received (history)
  timely    \* timely[n]: none of them came after a newer one (history)

vars == <<rec, seen, timely>>

Init == /\ rec = [n \in Stores |-> Absent]
        /\ seen = [n \in Stores |-> {}]
        /\ timely = [n \in Stores |-> TRUE]

\* bulk_load of a list with this one delta, for the first time or again.
Deliver(n, d) ==
  /\ rec' = [rec EXCEPT ![n] = BulkLoad(@, d)]
  /\ seen' = [seen EXCEPT ![n] = @ \cup {d}]
  /\ timely' = [timely EXCEPT ![n] = @ /\ \A e \in seen[n] : e.ts <= d.ts]

Next == \E n \in Stores, d \in Issued : Deliver(n, d)

Spec == Init /\ [][Next]_vars

-----------------------------------------------------------------------------
Newer(S, p, t) == {d \in S : d.peer = p /\ d.ts > t}

\* The seeders whose newest delta in S is an announcement.
Announced(S) ==
  {p \in Peers : \E d \in S : /\ d.kind = "insert"
                              /\ d.peer = p
                              /\ Newer(S, p, d.ts) = {}}

TypeOK == /\ rec \in [Stores -> Records]
          /\ seen \in [Stores -> SUBSET Issued]
          /\ timely \in [Stores -> BOOLEAN]

AnnouncementsOnly(S) == \A d \in S : d.kind = "insert"

\* Strong convergence of announcements: two stores that received the same
\* announcements, in whatever order and however often, hold the same record
\* (storage.py, insert).
SameDeltasSameRecord ==
  \A m, n \in Stores :
    seen[m] = seen[n] /\ AnnouncementsOnly(seen[m]) => rec[m] = rec[n]

\* Last write wins, per seeder, at a store that was told in the order of the
\* stamps: a reader learns exactly of the seeders whose newest delta is an
\* announcement (storage.py, insert and remove_value).
LastWriteWins ==
  \A n \in Stores : timely[n] => Query(rec[n]) = Announced(seen[n])

\* The same of every order ("Last-Write-Wins (LWW) logic to ensure eventual
\* consistency across the swarm", storage.py:17-18).  It does not hold: a removal
\* leaves no trace among several seeders (see the README).
LastWriteWinsAnyOrder == \A n \in Stores : Query(rec[n]) = Announced(seen[n])
=============================================================================
