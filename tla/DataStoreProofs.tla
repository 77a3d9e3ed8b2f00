-------------------------- MODULE DataStoreProofs ---------------------------
(***************************************************************************)
(* Facts about the record operations of DataStore, for every set of        *)
(* seeders, every record and every item.                                   *)
(***************************************************************************)
EXTENDS DataStore, TLAPS

LEMMA NoPeersType == NoPeers \in [Peers -> Nat]
  BY DEF NoPeers

LEMMA ListedSeeder ==
  ASSUME NEW f, NEW p \in Peers, f[p] > 0
  PROVE  f # NoPeers
  BY DEF NoPeers

\* No seeder of a well formed record is fresher than the record.
LEMMA PeersWithinTime ==
  ASSUME NEW r \in Records, WellFormed(r), NEW p \in Peers
  PROVE  r.peers[p] \in Nat /\ r.peers[p] <= r.ts
<1>1. r.peers[p] \in Nat
  BY DEF Records
<1>2. CASE r = Absent
  BY <1>2 DEF Absent, NoPeers
<1> QED
  BY <1>1, <1>2 DEF WellFormed

\* Neither a tombstone nor an absent key lists a seeder.
LEMMA EmptyRecord ==
  ASSUME NEW r \in Records, WellFormed(r), r.tomb \/ r = Absent, NEW p \in Peers
  PROVE  r.peers[p] = 0
<1>1. r = Absent \/ r.peers = NoPeers
  BY DEF WellFormed
<1> QED
  BY <1>1 DEF Absent, NoPeers

LEMMA InsertType ==
  ASSUME NEW r \in Records, NEW p \in Peers, NEW t \in Nat
  PROVE  Insert(r, p, t) \in Records
<1>1. CASE r.tomb
  BY <1>1, NoPeersType DEF Insert, Records
<1>2. CASE ~r.tomb
  <2>1. Later(r.peers[p], t) \in Nat /\ Later(r.ts, t) \in Nat
    BY DEF Later, Records
  <2>2. [r.peers EXCEPT ![p] = Later(@, t)] \in [Peers -> Nat]
    BY <2>1 DEF Records
  <2> QED
    BY <1>2, <2>1, <2>2 DEF Insert, Records
<1> QED
  BY <1>1, <1>2

LEMMA RemoveValueType ==
  ASSUME NEW r \in Records, NEW p \in Peers, NEW t \in Nat
  PROVE  RemoveValue(r, p, t) \in Records
<1>1. Later(r.ts, t) \in Nat
  BY DEF Later, Records
<1>2. [r.peers EXCEPT ![p] = 0] \in [Peers -> Nat]
  BY DEF Records
<1> DEFINE left == [r.peers EXCEPT ![p] = 0]
<1>3. [peers |-> left, ts |-> Later(r.ts, t), tomb |-> left = NoPeers] \in Records
  BY <1>1, <1>2 DEF Records
<1>4. [peers |-> r.peers, ts |-> Later(r.ts, t), tomb |-> TRUE] \in Records
  BY <1>1 DEF Records
<1> QED
  BY <1>3, <1>4 DEF RemoveValue

\* Every writer of DataStore returns a record.
LEMMA BulkLoadType ==
  ASSUME NEW r \in Records, NEW item \in Items
  PROVE  BulkLoad(r, item) \in Records
<1>1. CASE item.kind = "state"
  BY <1>1 DEF BulkLoad, OverwriteState, Records, Items, Deltas, Exports
<1>2. CASE item.kind = "tombstone"
  BY <1>2, NoPeersType DEF BulkLoad, TombstoneEntireKey, Records, Items, Deltas, Exports
<1>3. CASE item.kind = "remove"
  <2>1. item.peer \in Peers /\ item.ts \in Nat
    BY <1>3 DEF Items, Deltas, Exports
  <2> QED
    BY <1>3, <2>1, RemoveValueType DEF BulkLoad
<1>4. CASE item.kind = "insert"
  <2>1. item.peer \in Peers /\ item.ts \in Nat
    BY <1>4 DEF Items, Deltas, Exports
  <2> QED
    BY <1>4, <2>1, InsertType DEF BulkLoad
<1> QED
  BY <1>1, <1>2, <1>3, <1>4 DEF Items, Deltas, Exports

\* No writer takes a record back in time, and a new time comes from the item.
LEMMA BulkLoadTime ==
  ASSUME NEW r \in Records, NEW item \in Items
  PROVE  /\ r.ts <= BulkLoad(r, item).ts
         /\ BulkLoad(r, item).ts \in {r.ts, item.ts}
         /\ item.kind = "insert" => item.ts <= BulkLoad(r, item).ts
         /\ item.kind \in {"state", "tombstone"} => item.ts <= BulkLoad(r, item).ts
<1> DEFINE new == BulkLoad(r, item)
<1>0. item.ts \in Nat /\ r.ts \in Nat
  BY DEF Items, Deltas, Exports, Records
<1>1. CASE item.kind = "state"
  BY <1>0, <1>1 DEF BulkLoad, OverwriteState
<1>2. CASE item.kind = "tombstone"
  BY <1>0, <1>2 DEF BulkLoad, TombstoneEntireKey
<1>3. CASE item.kind = "remove"
  <2>1. new = RemoveValue(r, item.peer, item.ts)
    BY <1>3 DEF BulkLoad
  <2>2. new.ts \in {r.ts, Later(r.ts, item.ts)}
    BY <2>1 DEF RemoveValue, Records
  <2> QED
    BY <1>0, <1>3, <2>2 DEF Later
<1>4. CASE item.kind = "insert"
  <2>1. new = Insert(r, item.peer, item.ts)
    BY <1>4 DEF BulkLoad
  <2>2. new.ts = Later(r.ts, item.ts)
    BY <1>0, <2>1 DEF Insert, Later, Records
  <2> QED
    BY <1>0, <1>4, <2>2 DEF Later
<1> QED
  BY <1>1, <1>2, <1>3, <1>4 DEF Items, Deltas, Exports

\* The seeders of the new record are those of the old one, the one the delta
\* announces, or those of the snapshot.
LEMMA BulkLoadPeers ==
  ASSUME NEW r \in Records, NEW item \in Items, NEW p \in Peers,
         BulkLoad(r, item).peers[p] > 0
  PROVE  \/ BulkLoad(r, item).peers[p] = r.peers[p]
         \/ /\ item.kind = "insert"
            /\ item.peer = p
            /\ BulkLoad(r, item).peers[p] = item.ts
         \/ /\ item.kind = "state"
            /\ BulkLoad(r, item).peers[p] = item.peers[p]
<1> DEFINE new == BulkLoad(r, item)
<1>0. NoPeers[p] = 0
  BY DEF NoPeers
<1>1. CASE item.kind = "state"
  BY <1>1 DEF BulkLoad, OverwriteState
<1>2. CASE item.kind = "tombstone"
  <2>1. new = r \/ new.peers = NoPeers
    BY <1>2 DEF BulkLoad, TombstoneEntireKey
  <2> QED
    BY <1>0, <2>1
<1>3. CASE item.kind = "remove"
  <2>1. new = RemoveValue(r, item.peer, item.ts)
    BY <1>3 DEF BulkLoad
  <2>2. new.peers \in {r.peers, [r.peers EXCEPT ![item.peer] = 0]}
    BY <2>1 DEF RemoveValue, Records
  <2> QED
    BY <2>2 DEF Records
<1>4. CASE item.kind = "insert"
  <2>0. item.peer \in Peers /\ item.ts \in Nat
    BY <1>4 DEF Items, Deltas, Exports
  <2>1. new = Insert(r, item.peer, item.ts)
    BY <1>4 DEF BulkLoad
  <2>2. \/ new.peers = r.peers
        \/ new.peers = [NoPeers EXCEPT ![item.peer] = item.ts]
        \/ new.peers = [r.peers EXCEPT ![item.peer] = Later(@, item.ts)]
    BY <2>1 DEF Insert, Records
  <2> QED
    BY <1>0, <1>4, <2>0, <2>2 DEF Later, Records, NoPeers
<1> QED
  BY <1>1, <1>2, <1>3, <1>4 DEF Items, Deltas, Exports

\* The schema of a record survives every writer.
LEMMA BulkLoadWellFormed ==
  ASSUME NEW r \in Records, NEW item \in Items,
         WellFormed(r), WellFormedItem(item)
  PROVE  WellFormed(BulkLoad(r, item))
<1> DEFINE new == BulkLoad(r, item)
<1>0. item.ts \in Nat /\ item.ts > 0
  BY DEF Items, Deltas, Exports, WellFormedItem
<1>1. \A p \in Peers : NoPeers[p] = 0 /\ r.peers[p] \in Nat /\ r.peers[p] <= r.ts
  BY PeersWithinTime DEF NoPeers
<1>2. CASE item.kind = "state"
  BY <1>0, <1>2 DEF BulkLoad, OverwriteState, WellFormed, WellFormedItem
<1>3. CASE item.kind = "tombstone"
  BY <1>0, <1>1, <1>3 DEF BulkLoad, TombstoneEntireKey, WellFormed
<1>4. CASE item.kind = "remove"
  <2>0. item.peer \in Peers
    BY <1>4 DEF Items, Deltas, Exports
  <2>1. new = RemoveValue(r, item.peer, item.ts)
    BY <1>4 DEF BulkLoad
  <2>2. r.ts <= Later(r.ts, item.ts) /\ Later(r.ts, item.ts) \in Nat /\ Later(r.ts, item.ts) > 0
    BY <1>0 DEF Later, Records
  <2>3. CASE new = r
    BY <2>3
  <2>4. CASE r # Absent /\ new # r
    <3>1. r.tomb <=> (r.peers = NoPeers)
      BY <2>4 DEF WellFormed
    <3>2. CASE r.tomb
      <4>1. new = [peers |-> r.peers, ts |-> Later(r.ts, item.ts), tomb |-> TRUE]
        BY <2>1, <2>4, <3>2 DEF RemoveValue
      <4> QED
        BY <1>1, <2>2, <3>1, <3>2, <4>1 DEF WellFormed, Records
    <3>3. CASE ~r.tomb
      <4> DEFINE left == [r.peers EXCEPT ![item.peer] = 0]
      <4>1. new = [peers |-> left, ts |-> Later(r.ts, item.ts), tomb |-> left = NoPeers]
        BY <2>1, <2>4, <3>3 DEF RemoveValue
      <4>2. \A p \in Peers : left[p] = IF p = item.peer THEN 0 ELSE r.peers[p]
        BY DEF Records
      <4>3. Later(r.ts, item.ts) \in Nat /\ r.ts \in Nat
        BY <2>2 DEF Records
      <4> HIDE DEF left
      <4>4. ASSUME NEW p \in Peers PROVE left[p] <= Later(r.ts, item.ts)
        <5>1. r.peers[p] \in Nat /\ r.peers[p] <= r.ts
          BY <1>1
        <5>2. CASE p = item.peer
          BY <2>2, <4>2, <4>3, <5>2
        <5>3. CASE p # item.peer
          BY <2>2, <4>2, <4>3, <5>1, <5>3
        <5> QED
          BY <5>2, <5>3
      <4>5. CASE left = NoPeers
        <5>1. new = [peers |-> left, ts |-> Later(r.ts, item.ts), tomb |-> TRUE]
          BY <4>1, <4>5
        <5> QED
          BY <2>2, <4>4, <4>5, <5>1 DEF WellFormed
      <4>6. CASE left # NoPeers
        <5>1. new = [peers |-> left, ts |-> Later(r.ts, item.ts), tomb |-> FALSE]
          BY <4>1, <4>6
        <5> QED
          BY <2>2, <4>4, <4>6, <5>1 DEF WellFormed
      <4> QED
        BY <4>5, <4>6
    <3> QED
      BY <3>2, <3>3
  <2> QED
    BY <2>1, <2>3, <2>4 DEF RemoveValue
<1>5. CASE item.kind = "insert"
  <2>0. item.peer \in Peers
    BY <1>5 DEF Items, Deltas, Exports
  <2>1. new = Insert(r, item.peer, item.ts)
    BY <1>5 DEF BulkLoad
  <2>2. CASE r.tomb
    BY <1>0, <1>1, <2>0, <2>1, <2>2 DEF Insert, WellFormed, NoPeers
  <2>3. CASE ~r.tomb
    <3> DEFINE added == [r.peers EXCEPT ![item.peer] = Later(@, item.ts)]
    <3>1. new = [peers |-> added, ts |-> Later(r.ts, item.ts), tomb |-> FALSE]
      BY <2>1, <2>3 DEF Insert
    <3>2. /\ Later(r.ts, item.ts) > 0
          /\ \A p \in Peers : added[p] <= Later(r.ts, item.ts)
      BY <1>0, <1>1, <2>0 DEF Later, Records
    <3>3. added[item.peer] > 0
      BY <1>0, <1>1, <2>0 DEF Later, Records
    <3>4. added # NoPeers
      BY <2>0, <3>3, ListedSeeder
    <3> QED
      BY <3>1, <3>2, <3>4 DEF WellFormed
  <2> QED
    BY <2>2, <2>3
<1> QED
  BY <1>2, <1>3, <1>4, <1>5 DEF Items, Deltas, Exports

\* What a node exports of a record it holds is an item, and as well formed.
LEMMA ExportItem ==
  ASSUME NEW r \in Records, WellFormed(r), r # Absent
  PROVE  /\ Export(r) \in Items
         /\ WellFormedItem(Export(r))
         /\ Export(r).ts = r.ts
         /\ Export(r).kind \in {"state", "tombstone"}
         /\ Export(r).kind = "state" => Export(r).peers = r.peers
<1>1. CASE r.tomb
  BY <1>1 DEF Export, Items, Exports, Records, WellFormed, WellFormedItem
<1>2. CASE ~r.tomb
  <2>1. Export(r) = [kind |-> "state", peers |-> r.peers, ts |-> r.ts]
    BY <1>2 DEF Export
  <2> QED
    BY <1>2, <2>1 DEF Items, Exports, Records, WellFormed, WellFormedItem
<1> QED
  BY <1>1, <1>2
=============================================================================
