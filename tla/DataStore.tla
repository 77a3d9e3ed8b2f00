------------------------------ MODULE DataStore ------------------------------
(***************************************************************************)
(* The record operations of chord/dht/storage.py, one operator per method  *)
(* of DataStore, for one key.  Every method takes the lock around its whole*)
(* body, and bulk_load takes it once per item, so an operator here is one  *)
(* atomic step of a thread.                                                *)
(*                                                                         *)
(* A record maps every seeder (an "IP:PORT" string) to the time of its     *)
(* announcement; time 0 stands for a seeder that is not in the dictionary, *)
(* the default the code itself uses (peers.get(ip, 0.0)).  In the same way *)
(* a key that is not in the store is the record with timestamp 0, the      *)
(* default of data.get(key, {}).get("timestamp", 0.0): every record that   *)
(* is in the dictionary has a positive timestamp, which WellFormed states  *)
(* and the replication modules check.                                      *)
(***************************************************************************)
EXTENDS Naturals

CONSTANT Peers     \* the "IP:PORT" identities that announce files

NoPeers == [p \in Peers |-> 0]

Records == [peers : [Peers -> Nat], ts : Nat, tomb : BOOLEAN]

Absent == [peers |-> NoPeers, ts |-> 0, tomb |-> FALSE]

Later(s, t) == IF t > s THEN t ELSE s

-----------------------------------------------------------------------------
(* Items are the entries of "data_to_insert": a delta names one seeder, a  *)
(* state item and a tombstone item are exports of a whole record.          *)

Deltas == [kind : {"insert", "remove"}, peer : Peers, ts : Nat]

Exports == [kind : {"state"}, peers : [Peers -> Nat], ts : Nat]
             \cup [kind : {"tombstone"}, ts : Nat]

Items == Deltas \cup Exports

\* get_all and _format_value: what a node sends of a record it holds.
Export(r) == IF r.tomb THEN [kind |-> "tombstone", ts |-> r.ts]
             ELSE [kind |-> "state", peers |-> r.peers, ts |-> r.ts]

-----------------------------------------------------------------------------
\* Mutant: the time of the last arrival is kept, not the latest time.
InsertLastArrival(r, p, t) ==
  IF r.tomb
  THEN IF t > r.ts
       THEN [peers |-> [NoPeers EXCEPT ![p] = t], ts |-> t, tomb |-> FALSE]
       ELSE r
  ELSE [peers |-> [r.peers EXCEPT ![p] = t], ts |-> t, tomb |-> FALSE]

\* Mutant: a tombstone is never revived.
InsertNoRevival(r, p, t) ==
  IF r.tomb THEN r
  ELSE [peers |-> [r.peers EXCEPT ![p] = Later(@, t)],
        ts |-> Later(r.ts, t), tomb |-> FALSE]

\* Adds one seeder; only a newer announcement revives a tombstone.
Insert(r, p, t) ==
  IF r.tomb
  THEN IF t > r.ts
       THEN [peers |-> [NoPeers EXCEPT ![p] = t], ts |-> t, tomb |-> FALSE]
       ELSE r
  ELSE [peers |-> [r.peers EXCEPT ![p] = Later(@, t)],
        ts |-> Later(r.ts, t), tomb |-> FALSE]

\* Mutant: the last seeder leaves a live record without seeders.
RemoveValueNoTombstone(r, p, t) ==
  IF r = Absent THEN r
  ELSE IF r.tomb THEN [r EXCEPT !.ts = Later(@, t)]
  ELSE IF t > r.peers[p] THEN [r EXCEPT !.peers[p] = 0, !.ts = Later(@, t)]
  ELSE r

\* Removes one seeder; the record of the last one becomes a tombstone.  A
\* removal of a key the node does not hold leaves no trace.
RemoveValue(r, p, t) ==
  LET left == [r.peers EXCEPT ![p] = 0]
  IN  IF r = Absent THEN r
      ELSE IF r.tomb THEN [peers |-> r.peers, ts |-> Later(r.ts, t), tomb |-> TRUE]
      ELSE IF t > r.peers[p]
      THEN [peers |-> left, ts |-> Later(r.ts, t), tomb |-> left = NoPeers]
      ELSE r

TombstoneEntireKey(r, t) ==
  IF t > r.ts THEN [peers |-> NoPeers, ts |-> t, tomb |-> TRUE] ELSE r

\* Mutant: the snapshot is taken whatever its age.
OverwriteStateAnyAge(r, peerList, t) ==
  [peers |-> peerList, ts |-> t, tomb |-> FALSE]

\* Mutant: the seeders of a snapshot get the time of the snapshot.
OverwriteStateRestamped(r, peerList, t) ==
  IF t > r.ts
  THEN [peers |-> [p \in Peers |-> IF peerList[p] > 0 THEN t ELSE 0],
        ts |-> t, tomb |-> FALSE]
  ELSE r

\* Replaces the record by a newer snapshot, seeder list and all.
OverwriteState(r, peerList, t) ==
  IF t > r.ts THEN [peers |-> peerList, ts |-> t, tomb |-> FALSE] ELSE r

\* bulk_load: the one entry point of replication, handoff and healing.
BulkLoad(r, item) ==
  IF item.kind = "state" THEN OverwriteState(r, item.peers, item.ts)
  ELSE IF item.kind = "tombstone" THEN TombstoneEntireKey(r, item.ts)
  ELSE IF item.kind = "remove" THEN RemoveValue(r, item.peer, item.ts)
  ELSE Insert(r, item.peer, item.ts)

-----------------------------------------------------------------------------
\* query: the seeders a reader is told about, none for a tombstone.
Query(r) == IF r.tomb THEN {} ELSE {p \in Peers : r.peers[p] > 0}

\* What the schema of DataStore.__init__ promises of a record: "timestamp" is
\* no older than any seeder, and is_tombstone marks exactly the records with
\* no seeder left.
WellFormed(r) ==
  \/ r = Absent
  \/ /\ r.ts > 0
     /\ r.tomb <=> (r.peers = NoPeers)
     /\ \A p \in Peers : r.peers[p] <= r.ts

\* An item is well formed when the record it was exported from is.
WellFormedItem(item) ==
  /\ item.ts > 0
  /\ item.kind = "state" =>
       /\ item.peers # NoPeers
       /\ \A p \in Peers : item.peers[p] <= item.ts
=============================================================================
