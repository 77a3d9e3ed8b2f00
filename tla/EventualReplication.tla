------------------------- MODULE EventualReplication -------------------------
(***************************************************************************)
(* The "eventual" strategy of chord/dht/replication.py, the one cli.py     *)
(* starts every node with, for one key on a stable ring: clients send      *)
(* deltas to the head of the key, the head writes locally, answers, and    *)
(* blasts the delta at its successors, one thread each; the anti-entropy   *)
(* worker compares Merkle roots with every successor and pushes the head's *)
(* record where they differ.                                               *)
(*                                                                         *)
(* A message is a send_command call (chord/network/tcp.py) that has tries  *)
(* attempts left.  An attempt may be lost before it executes, and it may   *)
(* execute while its answer is lost or late: the call is then repeated, so *)
(* one call executes any number of times up to its attempts.  Calls of     *)
(* different threads overtake one another.                                 *)
(***************************************************************************)
EXTENDS DataStore, FiniteSets

CONSTANTS
  Head,         \* the node whose range holds the key
  Replicas,     \* the nodes of its successor_list
  OpKinds,      \* the client operations of a run: "insert", "remove"
  MaxTime,      \* bound: client timestamps are 1 .. MaxTime
  MaxOps,       \* bound: the operations clients issue
  MaxRetries,   \* max_retries of send_command, 3 in the code
  MaxLosses     \* bound: attempts the network loses before it heals

ASSUME HeadAssumption == Head \notin Replicas
ASSUME OpKindsAssumption == OpKinds \subseteq {"insert", "remove"}
ASSUME BoundsAssumption == /\ MaxTime \in Nat
                           /\ MaxOps \in Nat
                           /\ MaxRetries \in Nat \ {0}
                           /\ MaxLosses \in Nat

VARIABLES
  rec,      \* rec[n] is node n's record of the key
  msgs,     \* the calls in flight
  issued,   \* the deltas clients have issued, with their coordinator's time
  losses    \* attempts lost so far

vars == <<rec, msgs, issued, losses>>

Nodes == {Head} \cup Replicas

\* "client" is an insert request from a coordinator, "replica" one flagged
\* is_replica_write, "check" a merkle root check with the head's snapshot.
Messages == [type : {"client", "replica", "check"}, dst : Nodes,
             item : Items, tries : 1 .. MaxRetries]

Init == /\ rec = [n \in Nodes |-> Absent]
        /\ msgs = {}
        /\ issued = {}
        /\ losses = 0

Call(type, dst, item) ==
  [type |-> type, dst |-> dst, item |-> item, tries |-> MaxRetries]

\* What is left of a call after an attempt that got no answer.
Retried(m) == IF m.tries > 1 THEN {[m EXCEPT !.tries = @ - 1]} ELSE {}

\* Attempt m executes and its handler sends the calls in sent; then its answer
\* arrives, or is lost and the call goes on.
Execute(m, sent) ==
  \E rest \in {{}, Retried(m)} : msgs' = (msgs \ {m}) \cup rest \cup sent

-----------------------------------------------------------------------------
\* announce and delete at node p: the coordinator stamps the delta with its
\* own clock and sends it to the head.  Clocks may disagree about the order
\* of two coordinators, but no two stamps (floats of time.time) are equal.
Request(kind, p, t) ==
  /\ Cardinality(issued) < MaxOps
  /\ \A d \in issued : d.ts # t /\ (d.peer = p => d.ts < t)
  /\ LET delta == [kind |-> kind, peer |-> p, ts |-> t]
     IN  /\ issued' = issued \cup {delta}
         /\ msgs' = msgs \cup {Call("client", Head, delta)}
  /\ UNCHANGED <<rec, losses>>

\* Mutant: the head only forwards.
HeadForwards(m) ==
  /\ m.type = "client"
  /\ rec' = rec
  /\ Execute(m, {Call("replica", r, m.item) : r \in Replicas})
  /\ UNCHANGED <<issued, losses>>

\* _eventual_insert, coordinator branch: load, then blast at the successors.
HeadInsert(m) ==
  /\ m.type = "client"
  /\ rec' = [rec EXCEPT ![Head] = BulkLoad(@, m.item)]
  /\ Execute(m, {Call("replica", r, m.item) : r \in Replicas})
  /\ UNCHANGED <<issued, losses>>

\* _eventual_insert, replica branch.
ReplicaInsert(m) ==
  /\ m.type = "replica"
  /\ rec' = [rec EXCEPT ![m.dst] = BulkLoad(@, m.item)]
  /\ Execute(m, {})
  /\ UNCHANGED <<issued, losses>>

\* One turn of anti_entropy_worker: the snapshot of the primary data goes to
\* a thread per successor.  With no data there is nothing to push.
AntiEntropyTick ==
  /\ rec[Head] # Absent
  /\ msgs' = msgs \cup {Call("check", r, Export(rec[Head])) : r \in Replicas}
  /\ UNCHANGED <<rec, issued, losses>>

\* Mutant: only keys the replica does not hold are pushed.
RootCheckMissingKeys(m) ==
  /\ m.type = "check"
  /\ msgs' = (msgs \ {m}) \cup IF rec[m.dst].ts # 0 THEN {}
                              ELSE {Call("replica", m.dst, m.item)}
  /\ UNCHANGED <<rec, issued, losses>>

\* handle_merkle_root_check at the replica and _sync_with_replica at the head:
\* the leaves of the tree are "key:timestamp", so two roots of one key are
\* equal iff the timestamps are.  On a mismatch every key of the snapshot is
\* pushed: the summary's keys are strings once JSON has carried them, the
\* lookup by integer key finds none, and no timestamp is compared.
RootCheck(m) ==
  /\ m.type = "check"
  /\ msgs' = (msgs \ {m}) \cup IF rec[m.dst].ts = m.item.ts THEN {}
                              ELSE {Call("replica", m.dst, m.item)}
  /\ UNCHANGED <<rec, issued, losses>>

\* An attempt fails before it executes (refused, or 3 seconds pass), or it is
\* a root check, which changes nothing, whose answer is lost.
Lose(m) ==
  /\ losses < MaxLosses
  /\ losses' = losses + 1
  /\ msgs' = (msgs \ {m}) \cup Retried(m)
  /\ UNCHANGED <<rec, issued>>

Next ==
  \/ \E kind \in OpKinds, p \in Peers, t \in 1 .. MaxTime : Request(kind, p, t)
  \/ \E m \in msgs : HeadInsert(m)
  \/ \E m \in msgs : ReplicaInsert(m)
  \/ AntiEntropyTick
  \/ \E m \in msgs : RootCheck(m)
  \/ \E m \in msgs : Lose(m)

Spec == Init /\ [][Next]_vars

\* The daemon threads keep running and every call sent is attempted; clients
\* may stop, and nothing forces a loss.
Fairness ==
  /\ WF_vars(AntiEntropyTick)
  /\ WF_vars(\E m \in msgs : HeadInsert(m))
  /\ \A r \in Replicas : /\ WF_vars(\E m \in msgs : m.dst = r /\ ReplicaInsert(m))
                         /\ WF_vars(\E m \in msgs : m.dst = r /\ RootCheck(m))

FairSpec == Spec /\ Fairness

-----------------------------------------------------------------------------
Shape == /\ rec \in [Nodes -> Records]
         /\ msgs \subseteq Messages
         /\ issued \subseteq Deltas
         /\ losses \in 0 .. MaxLosses

RecordsWellFormed == /\ \A n \in Nodes : WellFormed(rec[n])
                     /\ \A m \in msgs : WellFormedItem(m.item)

\* Variables keep their shape, and every record, held or in flight, keeps the
\* schema of DataStore: no live record without a seeder, no tombstone with one,
\* no seeder fresher than the record (storage.py, all writers together).
TypeOK == Shape /\ RecordsWellFormed

\* A node never lists a seeder at a time at which that seeder announced
\* nothing, whatever was merged, exported and overwritten on the way.
SeedersWereAnnounced ==
  \A n \in Nodes, p \in Peers :
    rec[n].peers[p] > 0 =>
      [kind |-> "insert", peer |-> p, ts |-> rec[n].peers[p]] \in issued

\* Last write wins over the whole record: no message, however late or often
\* repeated, takes a node back to an older timestamp.
TimestampsNeverRegress ==
  [][\A n \in Nodes : rec[n].ts <= rec'[n].ts]_vars

\* The head is never behind a successor, except for the timestamp of a
\* removal: writes reach successors only through the head, but a removal the
\* head had nothing to apply to is blasted all the same.
HeadIsFreshest ==
  \A r \in Replicas :
    rec[r].ts > rec[Head].ts =>
      \E d \in issued : d.kind = "remove" /\ d.ts = rec[r].ts

\* Nor does the head lose a seeder by reordering alone: when a successor lists a
\* seeder at a time at which the head does not, a removal later than that time
\* has reached the head's record.  It need not be a removal of that seeder: the
\* tombstone left by the last removal refuses the announcements older than it,
\* of any seeder, while a successor that got them first lists them.
HeadListsAll ==
  \A r \in Replicas, p \in Peers :
    rec[r].peers[p] > rec[Head].peers[p] =>
      \E d \in issued : /\ d.kind = "remove"
                        /\ rec[r].peers[p] < d.ts
                        /\ d.ts <= rec[Head].ts

\* Anti-entropy brings every successor at least to the head's timestamp once
\* the network stops losing calls and the clients stop.
ReplicasCatchUp == <>[](\A r \in Replicas : rec[r].ts >= rec[Head].ts)

\* Eventual consistency: in the end all nodes hold the same record.  It does not
\* hold, without any loss: a snapshot taken early and loaded late drops a seeder,
\* and equal timestamps hide it (see the README).
Convergence == <>[](\A r \in Replicas : rec[r] = rec[Head])
=============================================================================
