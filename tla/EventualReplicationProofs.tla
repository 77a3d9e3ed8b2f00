---------------------- MODULE EventualReplicationProofs ----------------------
(***************************************************************************)
(* Safety of the eventual strategy, for every set of seeders and           *)
(* successors and every value of the bounds.                               *)
(***************************************************************************)
EXTENDS EventualReplication, DataStoreProofs

-----------------------------------------------------------------------------
(* The inductive invariant: the safety properties, and what they need to   *)
(* know of the calls in flight.                                            *)

IsAnnouncement(p, t) == [kind |-> "insert", peer |-> p, ts |-> t] \in issued

IsRemovalTime(t) == \E d \in issued : d.kind = "remove" /\ d.ts = t

\* A client call carries a delta, every delta in flight was issued, a snapshot
\* in flight lists announced seeders only, and what travels to a successor is
\* no fresher than the head, removals aside.
FlightOK(m) ==
  /\ WellFormedItem(m.item)
  /\ m.type = "client" => m.item.kind \in {"insert", "remove"}
  /\ m.item.kind \in {"insert", "remove"} => m.item \in issued
  /\ m.item.kind = "state" =>
       \A p \in Peers : m.item.peers[p] > 0 => IsAnnouncement(p, m.item.peers[p])
  /\ m.type # "client" =>
       m.item.ts <= rec[Head].ts \/ IsRemovalTime(m.item.ts)

RecordOK(n) ==
  /\ WellFormed(rec[n])
  /\ \A p \in Peers : rec[n].peers[p] > 0 => IsAnnouncement(p, rec[n].peers[p])

Inv == /\ Shape
       /\ \A n \in Nodes : RecordOK(n)
       /\ \A m \in msgs : FlightOK(m)
       /\ HeadIsFreshest

-----------------------------------------------------------------------------
(* Calls in flight. *)

\* A repeated attempt is the same call with one attempt less.
LEMMA RetriedCall ==
  ASSUME NEW m \in Messages, NEW n \in Retried(m)
  PROVE  /\ n \in Messages
         /\ n.type = m.type /\ n.dst = m.dst /\ n.item = m.item
<1>1. m.tries > 1 /\ n = [m EXCEPT !.tries = @ - 1]
  BY DEF Retried
<1>2. m.tries \in 1 .. MaxRetries /\ m.tries - 1 \in 1 .. MaxRetries
  BY <1>1, BoundsAssumption DEF Messages
<1> QED
  BY <1>1, <1>2 DEF Messages

\* A new call has all its attempts.
LEMMA NewCall ==
  ASSUME NEW type \in {"client", "replica", "check"}, NEW dst \in Nodes,
         NEW item \in Items
  PROVE  /\ Call(type, dst, item) \in Messages
         /\ Call(type, dst, item).type = type
         /\ Call(type, dst, item).item = item
  BY BoundsAssumption DEF Call, Messages

\* A step that takes nothing back keeps a call that goes on as it was.
LEMMA FlightGoesOn ==
  ASSUME NEW o, NEW n, FlightOK(o), n.type = o.type, n.item = o.item,
         issued \subseteq issued', o.item.ts \in Nat,
         rec[Head].ts \in Nat, rec'[Head].ts \in Nat,
         rec[Head].ts <= rec'[Head].ts
  PROVE  FlightOK(n)'
<1>1. IsRemovalTime(n.item.ts) => IsRemovalTime(n.item.ts)'
  BY DEF IsRemovalTime
<1>2. \A p \in Peers, t \in Nat : IsAnnouncement(p, t) => IsAnnouncement(p, t)'
  BY DEF IsAnnouncement
<1>3. n.item.ts <= rec[Head].ts => n.item.ts <= rec'[Head].ts
  OBVIOUS
<1> QED
  BY <1>1, <1>3 DEF FlightOK, IsAnnouncement, IsRemovalTime

\* What is in flight after an attempt: what was, and what the handler sent.
LEMMA FlightAfter ==
  ASSUME Shape, NEW m \in msgs, NEW rest \in SUBSET Retried(m), NEW sent,
         msgs' = (msgs \ {m}) \cup rest \cup sent,
         NEW n \in msgs'
  PROVE  \/ n \in sent
         \/ /\ n \in Messages
            /\ \E o \in msgs : n.type = o.type /\ n.dst = o.dst /\ n.item = o.item
  BY RetriedCall DEF Shape

\* Inv is kept by a step of which the records and the calls are well behaved.
LEMMA Preserved ==
  ASSUME Inv, Shape', issued \subseteq issued',
         \A n \in Nodes : RecordOK(n)',
         rec[Head].ts <= rec'[Head].ts,
         \A n \in msgs' :
           \/ FlightOK(n)'
           \/ \E o \in msgs : n.type = o.type /\ n.item = o.item,
         HeadIsFreshest'
  PROVE  Inv'
<1>1. ASSUME NEW o \in msgs
      PROVE  FlightOK(o) /\ o.item.ts \in Nat
  BY DEF Inv, Shape, Messages, Items, Deltas, Exports
<1>2. rec[Head].ts \in Nat /\ rec'[Head].ts \in Nat
  BY DEF Inv, Shape, Records, Nodes
<1>3. ASSUME NEW n \in msgs' PROVE FlightOK(n)'
  BY <1>1, <1>2, FlightGoesOn
<1> QED
  BY <1>3 DEF Inv

\* No client is ahead of its own clock: Init.
LEMMA InitInv == Init => Inv
<1> SUFFICES ASSUME Init PROVE Inv
  OBVIOUS
<1>1. Absent \in Records /\ WellFormed(Absent)
  BY NoPeersType DEF Absent, Records, WellFormed
<1>2. Shape
  BY <1>1, BoundsAssumption DEF Init, Shape
<1>3. ASSUME NEW n \in Nodes PROVE RecordOK(n)
  BY <1>1 DEF Init, RecordOK, Absent, NoPeers
<1>4. HeadIsFreshest
  BY DEF Init, HeadIsFreshest, Nodes, Absent
<1> QED
  BY <1>2, <1>3, <1>4 DEF Init, Inv

LEMMA RequestStep ==
  ASSUME Inv, NEW kind \in OpKinds, NEW p \in Peers, NEW t \in 1 .. MaxTime,
         Request(kind, p, t)
  PROVE  Inv'
<1> DEFINE delta == [kind |-> kind, peer |-> p, ts |-> t]
<1> DEFINE call == Call("client", Head, delta)
<1>1. delta \in Deltas /\ delta \in Items /\ delta.ts > 0
  BY OpKindsAssumption, BoundsAssumption DEF Deltas, Items
<1>2. /\ issued' = issued \cup {delta}
      /\ msgs' = msgs \cup {call}
      /\ rec' = rec /\ losses' = losses
  BY DEF Request
<1>3. call \in Messages /\ call.type = "client" /\ call.item = delta
  BY <1>1, NewCall DEF Nodes
<1>4. Shape'
  BY <1>1, <1>2, <1>3 DEF Inv, Shape
<1>5. ASSUME NEW n \in Nodes PROVE RecordOK(n)'
  BY <1>2 DEF Inv, RecordOK, IsAnnouncement
<1>6. FlightOK(call)'
  <2>1. delta.kind \in {"insert", "remove"} /\ delta.kind # "state" /\ delta \in issued'
    BY <1>2, OpKindsAssumption
  <2> QED
    BY <1>1, <1>3, <2>1 DEF FlightOK, WellFormedItem
<1>7. HeadIsFreshest'
  BY <1>2 DEF Inv, HeadIsFreshest
<1>8. rec[Head].ts <= rec'[Head].ts
  BY <1>2 DEF Inv, Shape, Records, Nodes
<1> HIDE DEF call, delta
<1> QED
  BY <1>2, <1>4, <1>5, <1>6, <1>7, <1>8, Preserved

\* A node that loads what is in flight keeps a good record...
LEMMA LoadKeepsRecords ==
  ASSUME Inv, NEW m \in msgs, NEW dst \in Nodes, issued' = issued,
         rec' = [rec EXCEPT ![dst] = BulkLoad(@, m.item)],
         NEW n \in Nodes
  PROVE  RecordOK(n)'
<1>1. /\ m.item \in Items /\ rec \in [Nodes -> Records]
      /\ FlightOK(m) /\ WellFormedItem(m.item)
  BY DEF Inv, Shape, Messages, FlightOK
<1>2. CASE n # dst
  BY <1>1, <1>2 DEF Inv, RecordOK, IsAnnouncement
<1>3. CASE n = dst
  <2>1. rec'[n] = BulkLoad(rec[n], m.item) /\ rec[n] \in Records
    BY <1>1, <1>3
  <2>2. RecordOK(n)
    BY DEF Inv
  <2>3. WellFormed(rec'[n])
    BY <1>1, <2>1, <2>2, BulkLoadWellFormed DEF RecordOK
  <2>4. ASSUME NEW p \in Peers, rec'[n].peers[p] > 0
        PROVE  IsAnnouncement(p, rec'[n].peers[p])
    <3>1. \/ rec'[n].peers[p] = rec[n].peers[p]
          \/ m.item.kind = "insert" /\ m.item.peer = p /\ rec'[n].peers[p] = m.item.ts
          \/ m.item.kind = "state" /\ rec'[n].peers[p] = m.item.peers[p]
      BY <1>1, <2>1, <2>4, BulkLoadPeers
    <3>2. CASE rec'[n].peers[p] = rec[n].peers[p]
      BY <2>2, <2>4, <3>2 DEF RecordOK
    <3>3. CASE m.item.kind = "insert" /\ m.item.peer = p /\ rec'[n].peers[p] = m.item.ts
      <4>1. m.item = [kind |-> "insert", peer |-> p, ts |-> m.item.ts]
        BY <1>1, <3>3 DEF Items, Deltas, Exports
      <4> QED
        BY <1>1, <3>3, <4>1 DEF FlightOK, IsAnnouncement
    <3>4. CASE m.item.kind = "state" /\ rec'[n].peers[p] = m.item.peers[p]
      BY <1>1, <2>4, <3>4 DEF FlightOK
    <3> QED
      BY <3>1, <3>2, <3>3, <3>4
  <2> QED
    BY <2>3, <2>4 DEF RecordOK, IsAnnouncement
<1> QED
  BY <1>2, <1>3

\* ... takes no time but that of the item, and no other node changes.
LEMMA LoadTimes ==
  ASSUME Shape, NEW m \in msgs, NEW dst \in Nodes,
         rec' = [rec EXCEPT ![dst] = BulkLoad(@, m.item)]
  PROVE  /\ rec' \in [Nodes -> Records]
         /\ \A n \in Nodes : rec[n].ts <= rec'[n].ts
         /\ \A n \in Nodes : rec'[n].ts \in {rec[n].ts, m.item.ts}
<1>1. m.item \in Items /\ rec \in [Nodes -> Records]
  BY DEF Shape, Messages
<1>2. rec' \in [Nodes -> Records]
  BY <1>1, BulkLoadType
<1>3. ASSUME NEW n \in Nodes
      PROVE  /\ rec[n].ts <= rec'[n].ts
             /\ rec'[n].ts \in {rec[n].ts, m.item.ts}
  <2>1. CASE n # dst
    BY <1>1, <2>1 DEF Records
  <2>2. CASE n = dst
    BY <1>1, <2>2, BulkLoadTime
  <2> QED
    BY <2>1, <2>2
<1> QED
  BY <1>2, <1>3

\* A step that moves no record keeps the head ahead.
LEMMA HeadStaysFreshest ==
  ASSUME HeadIsFreshest, rec' = rec, issued' = issued
  PROVE  HeadIsFreshest'
  BY DEF HeadIsFreshest

LEMMA HeadInsertStep ==
  ASSUME Inv, NEW m \in msgs, HeadInsert(m)
  PROVE  Inv'
<1>0. m \in Messages /\ FlightOK(m) /\ Head \in Nodes /\ Replicas \subseteq Nodes
  BY DEF Inv, Shape, Nodes
<1> DEFINE sent == {Call("replica", r, m.item) : r \in Replicas}
<1>1. PICK rest \in SUBSET Retried(m) : msgs' = (msgs \ {m}) \cup rest \cup sent
  BY DEF HeadInsert, Execute
<1>2. /\ m.type = "client" /\ issued' = issued /\ losses' = losses
      /\ rec' = [rec EXCEPT ![Head] = BulkLoad(@, m.item)]
  BY DEF HeadInsert
<1> HIDE DEF sent
<1>3. /\ rec' \in [Nodes -> Records]
      /\ \A n \in Nodes : rec[n].ts <= rec'[n].ts
  BY <1>0, <1>2, LoadTimes DEF Inv
<1>4. ASSUME NEW n \in sent
      PROVE  n \in Messages /\ n.type = "replica" /\ n.item = m.item
  BY <1>0, NewCall DEF Messages, sent
<1>5. m.item.ts <= rec'[Head].ts \/ IsRemovalTime(m.item.ts)'
  <2>1. m.item \in Items /\ rec[Head] \in Records
    BY <1>0 DEF Messages, Inv, Shape
  <2>2. CASE m.item.kind = "insert"
    BY <1>0, <1>2, <2>1, <2>2, BulkLoadTime DEF Inv, Shape
  <2>3. CASE m.item.kind = "remove"
    BY <1>0, <1>2, <2>3 DEF FlightOK, IsRemovalTime
  <2> QED
    BY <1>0, <1>2, <2>2, <2>3 DEF FlightOK
<1>6. ASSUME NEW n \in sent PROVE FlightOK(n)'
  BY <1>0, <1>2, <1>4, <1>5 DEF FlightOK
<1>7. ASSUME NEW n \in msgs'
      PROVE  n \in Messages /\ (n \in sent \/ \E o \in msgs : n.type = o.type /\ n.item = o.item)
  BY <1>1, <1>4, FlightAfter DEF Inv
<1>8. Shape'
  BY <1>2, <1>3, <1>7 DEF Inv, Shape
<1>9. HeadIsFreshest'
  <2> SUFFICES ASSUME NEW r \in Replicas, rec'[r].ts > rec'[Head].ts
               PROVE  \E d \in issued' : d.kind = "remove" /\ d.ts = rec'[r].ts
    BY DEF HeadIsFreshest
  <2>1. rec'[r] = rec[r]
    BY <1>0, <1>2, HeadAssumption DEF Inv, Shape
  <2>2. rec[r].ts > rec[Head].ts
    BY <1>0, <1>3, <2>1 DEF Inv, Shape, Records
  <2> QED
    BY <1>2, <2>1, <2>2 DEF Inv, HeadIsFreshest
<1>10. ASSUME NEW n \in Nodes PROVE RecordOK(n)'
  BY <1>0, <1>2, LoadKeepsRecords
<1> QED
  BY <1>0, <1>2, <1>3, <1>6, <1>7, <1>8, <1>9, <1>10, Preserved

LEMMA ReplicaInsertStep ==
  ASSUME Inv, NEW m \in msgs, ReplicaInsert(m)
  PROVE  Inv'
<1>0. m \in Messages /\ FlightOK(m) /\ m.dst \in Nodes /\ Head \in Nodes
  BY DEF Inv, Shape, Nodes, Messages
<1> DEFINE sent == {}
<1>1. PICK rest \in SUBSET Retried(m) : msgs' = (msgs \ {m}) \cup rest \cup sent
  BY DEF ReplicaInsert, Execute
<1>2. /\ m.type = "replica" /\ issued' = issued /\ losses' = losses
      /\ rec' = [rec EXCEPT ![m.dst] = BulkLoad(@, m.item)]
  BY DEF ReplicaInsert
<1>3. /\ rec' \in [Nodes -> Records]
      /\ \A n \in Nodes : rec[n].ts <= rec'[n].ts
      /\ \A n \in Nodes : rec'[n].ts \in {rec[n].ts, m.item.ts}
  BY <1>0, <1>2, LoadTimes DEF Inv
<1> HIDE DEF sent
<1>4. ASSUME NEW n \in msgs'
      PROVE  n \in Messages /\ \E o \in msgs : n.type = o.type /\ n.item = o.item
  <2>1. n \notin sent
    BY DEF sent
  <2> QED
    BY <1>1, <2>1, FlightAfter DEF Inv
<1>5. Shape'
  BY <1>2, <1>3, <1>4 DEF Inv, Shape
<1>6. HeadIsFreshest'
  <2> SUFFICES ASSUME NEW r \in Replicas, rec'[r].ts > rec'[Head].ts
               PROVE  \E d \in issued : d.kind = "remove" /\ d.ts = rec'[r].ts
    BY <1>2 DEF HeadIsFreshest
  <2>1. /\ r \in Nodes /\ rec[r].ts \in Nat /\ rec'[r].ts \in Nat
        /\ rec[Head].ts \in Nat /\ rec'[Head].ts \in Nat /\ m.item.ts \in Nat
    BY <1>0, <1>3 DEF Inv, Shape, Nodes, Records, Messages, Items, Deltas, Exports
  <2>2. rec[Head].ts <= rec'[Head].ts
    BY <1>0, <1>3
  <2>3. rec'[r].ts > rec[Head].ts
    BY <2>1, <2>2
  <2>4. CASE rec'[r].ts = rec[r].ts
    BY <2>3, <2>4 DEF Inv, HeadIsFreshest
  <2>5. CASE rec'[r].ts = m.item.ts
    <3>1. ~ (m.item.ts <= rec[Head].ts)
      BY <2>1, <2>3, <2>5
    <3> QED
      BY <1>0, <1>2, <2>5, <3>1 DEF FlightOK, IsRemovalTime
  <2> QED
    BY <1>3, <2>1, <2>4, <2>5
<1>7. ASSUME NEW n \in Nodes PROVE RecordOK(n)'
  BY <1>0, <1>2, LoadKeepsRecords
<1> QED
  BY <1>0, <1>2, <1>3, <1>4, <1>5, <1>6, <1>7, Preserved

LEMMA TickStep ==
  ASSUME Inv, AntiEntropyTick
  PROVE  Inv'
<1> DEFINE snapshot == Export(rec[Head])
<1> DEFINE sent == {Call("check", r, snapshot) : r \in Replicas}
<1>1. /\ rec[Head] # Absent /\ msgs' = msgs \cup sent
      /\ rec' = rec /\ issued' = issued /\ losses' = losses
  BY DEF AntiEntropyTick
<1>2. rec[Head] \in Records /\ WellFormed(rec[Head]) /\ RecordOK(Head)
  BY DEF Inv, Shape, RecordOK, Nodes
<1>3. /\ snapshot \in Items /\ WellFormedItem(snapshot)
      /\ snapshot.ts = rec[Head].ts
      /\ snapshot.kind \in {"state", "tombstone"}
      /\ snapshot.kind = "state" => snapshot.peers = rec[Head].peers
  BY <1>1, <1>2, ExportItem
<1> HIDE DEF snapshot
<1>4. ASSUME NEW n \in sent
      PROVE  n \in Messages /\ n.type = "check" /\ n.item = snapshot
  BY <1>3, NewCall DEF Nodes
<1>5. ASSUME NEW n \in sent PROVE FlightOK(n)'
  <2>1. snapshot.ts <= rec[Head].ts
    BY <1>2, <1>3 DEF Records
  <2> QED
    BY <1>1, <1>2, <1>3, <1>4, <2>1 DEF FlightOK, RecordOK, IsAnnouncement
<1> HIDE DEF sent
<1>6. Shape'
  BY <1>1, <1>4 DEF Inv, Shape
<1>7. ASSUME NEW n \in Nodes PROVE RecordOK(n)'
  BY <1>1 DEF Inv, RecordOK, IsAnnouncement
<1>8. rec[Head].ts <= rec'[Head].ts /\ HeadIsFreshest'
  BY <1>1, <1>2, HeadStaysFreshest DEF Inv, Records
<1> QED
  BY <1>1, <1>5, <1>6, <1>7, <1>8, Preserved

\* A step that changes calls only, each new one being like an old one.
LEMMA CallsOnlyStep ==
  ASSUME Inv, rec' = rec, issued' = issued, losses' \in 0 .. MaxLosses,
         \A n \in msgs' : n \in Messages /\ (FlightOK(n)' \/
                         \E o \in msgs : n.type = o.type /\ n.item = o.item)
  PROVE  Inv'
<1>1. Shape'
  BY DEF Inv, Shape
<1>2. ASSUME NEW n \in Nodes PROVE RecordOK(n)'
  BY DEF Inv, RecordOK, IsAnnouncement
<1>3. rec[Head].ts <= rec'[Head].ts /\ HeadIsFreshest'
  BY HeadStaysFreshest DEF Inv, Shape, Records, Nodes
<1> QED
  BY <1>1, <1>2, <1>3, Preserved

LEMMA RootCheckStep ==
  ASSUME Inv, NEW m \in msgs, RootCheck(m)
  PROVE  Inv'
<1>0. /\ m \in Messages /\ m.item \in Items /\ m.dst \in Nodes
      /\ FlightOK(m) /\ losses \in 0 .. MaxLosses
  BY DEF Inv, Shape, Messages
<1> DEFINE push == Call("replica", m.dst, m.item)
<1>1. /\ m.type = "check" /\ rec' = rec /\ issued' = issued /\ losses' = losses
      /\ msgs' \subseteq msgs \cup {push}
  BY DEF RootCheck
<1>2. push \in Messages /\ push.type = "replica" /\ push.item = m.item
  BY <1>0, NewCall
<1> HIDE DEF push
<1>3. FlightOK(push)'
  BY <1>0, <1>1, <1>2 DEF FlightOK, IsAnnouncement, IsRemovalTime
<1>4. ASSUME NEW n \in msgs'
      PROVE  n \in Messages /\ (FlightOK(n)' \/
               \E o \in msgs : n.type = o.type /\ n.item = o.item)
  BY <1>1, <1>2, <1>3 DEF Inv, Shape
<1> QED
  BY <1>0, <1>1, <1>4, CallsOnlyStep

LEMMA LoseStep ==
  ASSUME Inv, NEW m \in msgs, Lose(m)
  PROVE  Inv'
<1> DEFINE sent == {}
<1> DEFINE rest == Retried(m)
<1>1. /\ rec' = rec /\ issued' = issued
      /\ losses < MaxLosses /\ losses' = losses + 1
      /\ msgs' = (msgs \ {m}) \cup rest \cup sent
  BY DEF Lose
<1>2. losses' \in 0 .. MaxLosses
  BY <1>1, BoundsAssumption DEF Inv, Shape
<1>3. rest \in SUBSET Retried(m)
  OBVIOUS
<1> HIDE DEF sent, rest
<1>4. ASSUME NEW n \in msgs'
      PROVE  n \in Messages /\ \E o \in msgs : n.type = o.type /\ n.item = o.item
  <2>1. n \notin sent
    BY DEF sent
  <2> QED
    BY <1>1, <1>3, <2>1, FlightAfter DEF Inv
<1> QED
  BY <1>1, <1>2, <1>4, CallsOnlyStep

-----------------------------------------------------------------------------
\* Inv is inductive.
THEOREM Invariance == Spec => []Inv
<1>1. Init => Inv
  BY InitInv
<1>2. Inv /\ [Next]_vars => Inv'
  <2> SUFFICES ASSUME Inv, [Next]_vars PROVE Inv'
    OBVIOUS
  <2>1. ASSUME NEW kind \in OpKinds, NEW p \in Peers, NEW t \in 1 .. MaxTime,
               Request(kind, p, t)
        PROVE  Inv'
    BY <2>1, RequestStep
  <2>2. ASSUME NEW m \in msgs, HeadInsert(m) PROVE Inv'
    BY <2>2, HeadInsertStep
  <2>3. ASSUME NEW m \in msgs, ReplicaInsert(m) PROVE Inv'
    BY <2>3, ReplicaInsertStep
  <2>4. CASE AntiEntropyTick
    BY <2>4, TickStep
  <2>5. ASSUME NEW m \in msgs, RootCheck(m) PROVE Inv'
    BY <2>5, RootCheckStep
  <2>6. ASSUME NEW m \in msgs, Lose(m) PROVE Inv'
    BY <2>6, LoseStep
  <2>7. CASE UNCHANGED vars
    BY <2>7 DEF vars, Inv, Shape, RecordOK, FlightOK, IsAnnouncement,
                IsRemovalTime, HeadIsFreshest
  <2> QED
    BY <2>1, <2>2, <2>3, <2>4, <2>5, <2>6, <2>7 DEF Next
<1> QED
  BY <1>1, <1>2, PTL DEF Spec

\* All variables keep their types, and records their schema (EventualReplication, TypeOK).
THEOREM TypeCorrect == Spec => []TypeOK
<1>1. Inv => TypeOK
  BY DEF Inv, TypeOK, RecordsWellFormed, RecordOK, FlightOK
<1> QED
  BY <1>1, Invariance, PTL

\* No node ever lists a seeder at a time at which it announced nothing.
THEOREM NoInventedSeeder == Spec => []SeedersWereAnnounced
<1>1. Inv => SeedersWereAnnounced
  BY DEF Inv, SeedersWereAnnounced, RecordOK, IsAnnouncement
<1> QED
  BY <1>1, Invariance, PTL

\* No successor is ahead of the head, except by the time of a removal.
THEOREM HeadFreshest == Spec => []HeadIsFreshest
<1>1. Inv => HeadIsFreshest
  BY DEF Inv
<1> QED
  BY <1>1, Invariance, PTL

\* No message takes a node back to an older timestamp.
THEOREM LastWriteStands == Spec => TimestampsNeverRegress
<1>1. Inv /\ [Next]_vars => [\A n \in Nodes : rec[n].ts <= rec'[n].ts]_vars
  <2> SUFFICES ASSUME Inv, Next, NEW n \in Nodes
               PROVE  rec[n].ts <= rec'[n].ts
    OBVIOUS
  <2>1. rec[n].ts \in Nat
    BY DEF Inv, Shape, Records
  <2>2. CASE rec' = rec
    BY <2>1, <2>2
  <2>3. ASSUME NEW m \in msgs, NEW dst \in Nodes,
               rec' = [rec EXCEPT ![dst] = BulkLoad(@, m.item)]
        PROVE  rec[n].ts <= rec'[n].ts
    BY <2>3, LoadTimes DEF Inv
  <2>4. ASSUME NEW m \in msgs, HeadInsert(m) PROVE rec[n].ts <= rec'[n].ts
    BY <2>3, <2>4 DEF HeadInsert, Nodes
  <2>5. ASSUME NEW m \in msgs, ReplicaInsert(m) PROVE rec[n].ts <= rec'[n].ts
    BY <2>3, <2>5 DEF ReplicaInsert, Inv, Shape, Messages
  <2> QED
    BY <2>2, <2>4, <2>5
       DEF Next, Request, AntiEntropyTick, RootCheck, Lose
<1> QED
  BY <1>1, Invariance, PTL DEF Spec, TimestampsNeverRegress

-----------------------------------------------------------------------------
(* The head lists whom its successors list, up to the removals it has loaded. *)

Outdated(t) ==
  \E d \in issued : d.kind = "remove" /\ t < d.ts /\ d.ts <= rec[Head].ts

Known(p, t) == t <= rec[Head].peers[p] \/ Outdated(t)

\* No two stamps are equal.
StampsDiffer == \A d, e \in issued : d.ts = e.ts => d = e

\* The head's record is as old as one of its seeders or as a removal, so that a
\* tombstone is as old as a removal.
HeadTimeOK ==
  \/ rec[Head].ts = 0
  \/ IsRemovalTime(rec[Head].ts)
  \/ \E p \in Peers : rec[Head].peers[p] = rec[Head].ts

\* What a call tells a successor of, the head knows.
CallKnown(m) ==
  m.type # "client" =>
    /\ m.dst \in Replicas
    /\ m.item.kind = "insert" => Known(m.item.peer, m.item.ts)
    /\ m.item.kind = "state" => \A p \in Peers : Known(p, m.item.peers[p])

KnownInv ==
  /\ StampsDiffer
  /\ HeadTimeOK
  /\ \A r \in Replicas, p \in Peers : Known(p, rec[r].peers[p])
  /\ \A m \in msgs : CallKnown(m)

LEMMA KnownInit == Init => KnownInv
<1> SUFFICES ASSUME Init PROVE KnownInv
  OBVIOUS
<1>1. Head \in Nodes /\ Replicas \subseteq Nodes
  BY DEF Nodes
<1>2. rec[Head].ts = 0
  BY <1>1 DEF Init, Absent
<1>3. ASSUME NEW r \in Replicas, NEW p \in Peers PROVE Known(p, rec[r].peers[p])
  BY <1>1 DEF Init, Known, Absent, NoPeers
<1> QED
  BY <1>2, <1>3 DEF Init, KnownInv, StampsDiffer, HeadTimeOK

\* A step that leaves the head's record alone, and issues no removal less.
LEMMA KnownStays ==
  ASSUME NEW p, NEW t, Known(p, t), issued \subseteq issued', rec'[Head] = rec[Head]
  PROVE  Known(p, t)'
  BY DEF Known, Outdated

LEMMA CallKnownStays ==
  ASSUME NEW o, NEW n, CallKnown(o), n.item = o.item, n.dst = o.dst,
         n.type # "client" => o.type # "client",
         issued \subseteq issued', rec'[Head] = rec[Head]
  PROVE  CallKnown(n)'
  BY KnownStays DEF CallKnown, Known, Outdated

LEMMA HeadTimeStays ==
  ASSUME HeadTimeOK, issued \subseteq issued', rec'[Head] = rec[Head]
  PROVE  HeadTimeOK'
  BY DEF HeadTimeOK, IsRemovalTime

\* A delta that a record loads takes away no seeder that a removal has not outdated...
LEMMA DeltaOutdates ==
  ASSUME NEW r \in Records, WellFormed(r), NEW item \in Deltas, item \in issued,
         NEW p \in Peers
  PROVE  \/ r.peers[p] <= BulkLoad(r, item).peers[p]
         \/ item.kind = "remove" /\ r.peers[p] < item.ts /\ item.ts <= BulkLoad(r, item).ts
<1> DEFINE new == BulkLoad(r, item)
<1>0. /\ item.peer \in Peers /\ item.ts \in Nat /\ item.kind \in {"insert", "remove"}
      /\ r.peers \in [Peers -> Nat] /\ r.peers[p] \in Nat /\ r.ts \in Nat
  BY DEF Deltas, Records
<1>1. CASE r.tomb \/ r = Absent
  <2>1. r.peers[p] = 0
    BY <1>1, EmptyRecord
  <2>2. new \in Records
    BY BulkLoadType DEF Items
  <2> QED
    BY <2>1, <2>2 DEF Records
<1>2. CASE ~ r.tomb /\ r # Absent /\ item.kind = "insert"
  <2>1. new.peers = [r.peers EXCEPT ![item.peer] = Later(@, item.ts)]
    BY <1>2 DEF BulkLoad, Insert
  <2> QED
    BY <1>0, <2>1 DEF Later
<1>3. CASE ~ r.tomb /\ r # Absent /\ item.kind = "remove"
  <2>1. CASE item.ts > r.peers[item.peer]
    <3>1. new.peers = [r.peers EXCEPT ![item.peer] = 0]
      BY <1>3, <2>1 DEF BulkLoad, RemoveValue
    <3>2. CASE p = item.peer
      <4>1. new.ts = Later(r.ts, item.ts)
        BY <1>3, <2>1 DEF BulkLoad, RemoveValue
      <4> QED
        BY <1>0, <1>3, <2>1, <3>2, <4>1 DEF Later
    <3>3. CASE p # item.peer
      BY <1>0, <3>1, <3>3
    <3> QED
      BY <3>2, <3>3
  <2>2. CASE ~ (item.ts > r.peers[item.peer])
    BY <1>0, <1>3, <2>2 DEF BulkLoad, RemoveValue
  <2> QED
    BY <2>1, <2>2
<1> QED
  BY <1>0, <1>1, <1>2, <1>3

\* ... and an announcement is listed, or refused by a tombstone as fresh.
LEMMA InsertIsListed ==
  ASSUME NEW r \in Records, NEW item \in Deltas, item.kind = "insert"
  PROVE  \/ item.ts <= BulkLoad(r, item).peers[item.peer]
         \/ r.tomb /\ item.ts <= r.ts
<1>0. /\ item.peer \in Peers /\ item.ts \in Nat
      /\ r.peers \in [Peers -> Nat] /\ r.peers[item.peer] \in Nat /\ r.ts \in Nat
      /\ BulkLoad(r, item) = Insert(r, item.peer, item.ts)
  BY DEF Deltas, Records, BulkLoad
<1>1. CASE r.tomb /\ item.ts > r.ts
  BY <1>0, <1>1, NoPeersType DEF Insert
<1>2. CASE ~ r.tomb
  BY <1>0, <1>2 DEF Insert, Later
<1> QED
  BY <1>0, <1>1, <1>2

\* The time of a delta becomes the record's only with its seeder's, or as a removal's.
LEMMA DeltaTime ==
  ASSUME NEW r \in Records, WellFormed(r), NEW item \in Deltas
  PROVE  LET new == BulkLoad(r, item) IN
         \/ item.kind = "insert" /\ new.ts = item.ts /\ new.peers[item.peer] = new.ts
         \/ item.kind = "remove" /\ new.ts = item.ts
         \/ /\ new.ts = r.ts
            /\ \A q \in Peers : r.peers[q] = r.ts /\ r.ts > 0 => new.peers[q] = r.ts
<1> DEFINE new == BulkLoad(r, item)
<1>0. /\ item.peer \in Peers /\ item.ts \in Nat /\ item.kind \in {"insert", "remove"}
      /\ r.peers \in [Peers -> Nat] /\ r.ts \in Nat
      /\ \A q \in Peers : r.peers[q] \in Nat /\ r.peers[q] <= r.ts
  BY PeersWithinTime DEF Deltas, Records
<1>1. CASE item.kind = "insert" /\ r.tomb
  <2>1. new = Insert(r, item.peer, item.ts)
    BY <1>1 DEF BulkLoad
  <2> QED
    BY <1>0, <1>1, <2>1, NoPeersType DEF Insert
<1>2. CASE item.kind = "insert" /\ ~ r.tomb
  <2>1. /\ new.peers = [r.peers EXCEPT ![item.peer] = Later(@, item.ts)]
        /\ new.ts = Later(r.ts, item.ts)
    BY <1>2 DEF BulkLoad, Insert
  <2>2. CASE item.ts > r.ts
    <3>1. item.ts > r.peers[item.peer]
      BY <1>0, <2>2
    <3> QED
      BY <1>0, <1>2, <2>1, <2>2, <3>1 DEF Later
  <2>3. CASE ~ (item.ts > r.ts)
    BY <1>0, <1>2, <2>1, <2>3 DEF Later
  <2> QED
    BY <2>2, <2>3
<1>3. CASE item.kind = "remove"
  <2>1. new = RemoveValue(r, item.peer, item.ts)
    BY <1>3 DEF BulkLoad
  <2>2. CASE r = Absent
    BY <1>0, <2>1, <2>2 DEF RemoveValue
  <2>3. CASE r # Absent /\ r.tomb
    <3>1. new.peers = r.peers /\ new.ts = Later(r.ts, item.ts)
      BY <2>1, <2>3 DEF RemoveValue
    <3> QED
      BY <1>0, <1>3, <3>1 DEF Later
  <2>4. CASE r # Absent /\ ~ r.tomb /\ item.ts > r.peers[item.peer]
    <3>1. /\ new.peers = [r.peers EXCEPT ![item.peer] = 0]
          /\ new.ts = Later(r.ts, item.ts)
      BY <2>1, <2>4 DEF RemoveValue
    <3>2. CASE item.ts > r.ts
      BY <1>3, <3>1, <3>2 DEF Later
    <3>3. CASE ~ (item.ts > r.ts)
      <4>1. r.peers[item.peer] # r.ts
        BY <1>0, <2>4, <3>3
      <4> QED
        BY <1>0, <1>3, <3>1, <3>3, <4>1 DEF Later
    <3> QED
      BY <3>2, <3>3
  <2>5. CASE r # Absent /\ ~ r.tomb /\ ~ (item.ts > r.peers[item.peer])
    BY <1>0, <1>3, <2>1, <2>5 DEF RemoveValue
  <2> QED
    BY <2>2, <2>3, <2>4, <2>5
<1> QED
  BY <1>0, <1>1, <1>2, <1>3

\* All times of a call are numbers.
LEMMA CallTimes ==
  ASSUME Shape, NEW m \in msgs
  PROVE  /\ m.item \in Items /\ m.item.ts \in Nat
         /\ m.item.kind = "insert" => m.item.peer \in Peers
         /\ m.item.kind = "state" => m.item.peers \in [Peers -> Nat]
  BY DEF Shape, Messages, Items, Deltas, Exports

LEMMA KnownRequest ==
  ASSUME Inv, KnownInv, NEW kind \in OpKinds, NEW p \in Peers, NEW t \in 1 .. MaxTime,
         Request(kind, p, t)
  PROVE  KnownInv'
<1> DEFINE delta == [kind |-> kind, peer |-> p, ts |-> t]
<1>1. /\ issued' = issued \cup {delta}
      /\ msgs' = msgs \cup {Call("client", Head, delta)}
      /\ rec' = rec
      /\ \A d \in issued : d.ts # delta.ts
  BY DEF Request
<1> HIDE DEF delta
<1>2. StampsDiffer'
  BY <1>1 DEF KnownInv, StampsDiffer
<1>3. HeadTimeOK'
  BY <1>1, HeadTimeStays DEF KnownInv
<1>4. ASSUME NEW r \in Replicas, NEW q \in Peers PROVE Known(q, rec[r].peers[q])'
  BY <1>1 DEF KnownInv, Known, Outdated
<1>5. ASSUME NEW m \in msgs' PROVE CallKnown(m)'
  <2>1. CASE m \in msgs
    BY <1>1, <2>1, CallKnownStays DEF KnownInv
  <2>2. CASE m = Call("client", Head, delta)
    BY <2>2 DEF CallKnown, Call
  <2> QED
    BY <1>1, <2>1, <2>2
<1> QED
  BY <1>2, <1>3, <1>4, <1>5 DEF KnownInv

LEMMA KnownHeadInsert ==
  ASSUME Inv, KnownInv, NEW m \in msgs, HeadInsert(m)
  PROVE  KnownInv'
<1> DEFINE sent == {Call("replica", r, m.item) : r \in Replicas}
<1> DEFINE old == rec[Head]
<1> DEFINE new == BulkLoad(rec[Head], m.item)
<1>0. /\ Shape /\ m.item \in issued /\ m.item \in Deltas
      /\ old \in Records /\ WellFormed(old) /\ Head \in Nodes
      /\ m.item.kind \in {"insert", "remove"}
  BY DEF Inv, Shape, FlightOK, RecordOK, HeadInsert, Nodes
<1>1. PICK rest \in SUBSET Retried(m) : msgs' = (msgs \ {m}) \cup rest \cup sent
  BY DEF HeadInsert, Execute
<1>2. /\ issued' = issued /\ rec' = [rec EXCEPT ![Head] = BulkLoad(@, m.item)]
      /\ rec'[Head] = new
  BY <1>0 DEF HeadInsert, Shape
<1>3. new \in Records
  BY <1>0, BulkLoadType DEF Items
<1>4. ASSUME NEW p \in Peers
      PROVE  /\ \/ old.peers[p] <= new.peers[p]
                \/ m.item.kind = "remove" /\ old.peers[p] < m.item.ts /\ m.item.ts <= new.ts
             /\ old.peers[p] \in Nat /\ new.peers[p] \in Nat
  BY <1>0, <1>3, DeltaOutdates DEF Records
<1>11. old.ts \in Nat /\ new.ts \in Nat /\ old.ts <= new.ts
  BY <1>0, <1>3, BulkLoadTime DEF Records, Items
<1> HIDE DEF sent, old, new
<1>5. ASSUME NEW p \in Peers, NEW t \in Nat, Known(p, t)
      PROVE  Known(p, t)'
  <2>1. CASE Outdated(t)
    <3>1. PICK d \in issued : d.kind = "remove" /\ t < d.ts /\ d.ts <= old.ts
      BY <2>1 DEF Outdated, old
    <3>2. d.ts \in Nat /\ d.ts <= new.ts
      BY <1>0, <1>11, <3>1 DEF Shape, Deltas
    <3> QED
      BY <1>2, <3>1, <3>2 DEF Known, Outdated
  <2>2. CASE t <= old.peers[p] /\ old.peers[p] <= new.peers[p]
    BY <1>2, <1>4, <2>2 DEF Known
  <2>3. CASE /\ t <= old.peers[p]
             /\ m.item.kind = "remove" /\ old.peers[p] < m.item.ts /\ m.item.ts <= new.ts
    <3>1. t < m.item.ts
      BY <1>0, <1>4, <2>3 DEF Deltas
    <3> QED
      BY <1>0, <1>2, <2>3, <3>1 DEF Known, Outdated
  <2> QED
    BY <1>4, <1>5, <2>1, <2>2, <2>3 DEF Known, old
<1>6. m.item.kind = "insert" => Known(m.item.peer, m.item.ts)'
  <2> SUFFICES ASSUME m.item.kind = "insert" PROVE Known(m.item.peer, m.item.ts)'
    OBVIOUS
  <2>1. CASE m.item.ts <= new.peers[m.item.peer]
    BY <1>2, <2>1 DEF Known
  <2>2. CASE old.tomb /\ m.item.ts <= old.ts
    <3>1. old.ts > 0 /\ \A p \in Peers : old.peers[p] = 0
      BY <1>0, <2>2, EmptyRecord DEF WellFormed, Absent
    <3>2. PICK d \in issued : d.kind = "remove" /\ d.ts = old.ts
      BY <3>1 DEF KnownInv, HeadTimeOK, IsRemovalTime, old
    <3>3. d.ts # m.item.ts
      BY <1>0, <3>2 DEF KnownInv, StampsDiffer
    <3>4. d.ts \in Nat /\ m.item.ts \in Nat
      BY <1>0, <3>2 DEF Shape, Deltas
    <3>5. m.item.ts < d.ts /\ d.ts <= new.ts
      BY <1>11, <2>2, <3>2, <3>3, <3>4
    <3> QED
      BY <1>2, <3>2, <3>5 DEF Known, Outdated
  <2> QED
    BY <1>0, <2>1, <2>2, InsertIsListed DEF new, old
<1>7. HeadTimeOK'
  <2>1. CASE m.item.kind = "insert" /\ new.ts = m.item.ts /\ new.peers[m.item.peer] = new.ts
    BY <1>0, <1>2, <2>1 DEF HeadTimeOK, Deltas
  <2>2. CASE m.item.kind = "remove" /\ new.ts = m.item.ts
    BY <1>0, <1>2, <2>2 DEF HeadTimeOK, IsRemovalTime
  <2>3. CASE /\ new.ts = old.ts
             /\ \A q \in Peers : old.peers[q] = old.ts /\ old.ts > 0 => new.peers[q] = old.ts
    <3>1. old.ts = 0 \/ old.ts > 0
      BY <1>0 DEF Records
    <3> QED
      BY <1>2, <2>3, <3>1 DEF KnownInv, HeadTimeOK, IsRemovalTime, old
  <2> QED
    BY <1>0, <2>1, <2>2, <2>3, DeltaTime DEF new, old
<1>8. ASSUME NEW r \in Replicas, NEW p \in Peers PROVE Known(p, rec[r].peers[p])'
  <2>1. rec'[r] = rec[r] /\ rec[r].peers[p] \in Nat
    BY <1>0, <1>2, HeadAssumption DEF Shape, Nodes, Records
  <2>2. Known(p, rec[r].peers[p])
    BY DEF KnownInv
  <2> QED
    BY <1>5, <2>1, <2>2 DEF Known, Outdated
<1>9. ASSUME NEW n \in msgs' PROVE CallKnown(n)'
  <2>1. CASE n \in sent
    <3>1. PICK r \in Replicas : n = Call("replica", r, m.item)
      BY <2>1 DEF sent
    <3>2. n.dst = r /\ n.item = m.item
      BY <3>1 DEF Call
    <3>3. m.item.kind # "state"
      BY <1>0
    <3> QED
      BY <1>6, <3>2, <3>3 DEF CallKnown
  <2>2. CASE \E o \in msgs : n.type = o.type /\ n.dst = o.dst /\ n.item = o.item
    <3>1. PICK o \in msgs : n.type = o.type /\ n.dst = o.dst /\ n.item = o.item
      BY <2>2
    <3>2. CallKnown(o)
      BY DEF KnownInv
    <3>3. n.item = o.item /\ n.dst = o.dst /\ n.type = o.type
      BY <3>1
    <3>4. /\ o.item.ts \in Nat
          /\ o.item.kind = "insert" => o.item.peer \in Peers
          /\ o.item.kind = "state" => o.item.peers \in [Peers -> Nat]
      BY <1>0, CallTimes
    <3>5. o.type # "client" /\ o.item.kind = "insert" => Known(o.item.peer, o.item.ts)'
      BY <1>5, <3>2, <3>4 DEF CallKnown
    <3>6. o.type # "client" /\ o.item.kind = "state" =>
            \A p \in Peers : Known(p, o.item.peers[p])'
      BY <1>5, <3>2, <3>4 DEF CallKnown
    <3> QED
      BY <3>2, <3>3, <3>5, <3>6 DEF CallKnown
  <2> QED
    BY <1>0, <1>1, <2>1, <2>2, FlightAfter
<1>10. StampsDiffer'
  BY <1>2 DEF KnownInv, StampsDiffer
<1> QED
  BY <1>7, <1>8, <1>9, <1>10 DEF KnownInv

\* A step that leaves the head alone and adds calls the head knows the news of.
LEMMA KnownByCalls ==
  ASSUME KnownInv, issued' = issued, rec'[Head] = rec[Head],
         \A r \in Replicas, p \in Peers : Known(p, rec'[r].peers[p]),
         \A n \in msgs' :
           \/ CallKnown(n)
           \/ \E o \in msgs : n.type = o.type /\ n.dst = o.dst /\ n.item = o.item
  PROVE  KnownInv'
<1>1. StampsDiffer' /\ HeadTimeOK'
  BY HeadTimeStays DEF KnownInv, StampsDiffer
<1>2. ASSUME NEW r \in Replicas, NEW p \in Peers PROVE Known(p, rec[r].peers[p])'
  BY DEF Known, Outdated
<1>3. ASSUME NEW n \in msgs' PROVE CallKnown(n)'
  <2>1. CASE CallKnown(n)
    BY <2>1, CallKnownStays
  <2>2. CASE \E o \in msgs : n.type = o.type /\ n.dst = o.dst /\ n.item = o.item
    BY <2>2, CallKnownStays DEF KnownInv
  <2> QED
    BY <2>1, <2>2
<1> QED
  BY <1>1, <1>2, <1>3 DEF KnownInv

LEMMA KnownReplicaInsert ==
  ASSUME Inv, KnownInv, NEW m \in msgs, ReplicaInsert(m)
  PROVE  KnownInv'
<1> DEFINE sent == {}
<1>0. /\ Shape /\ CallKnown(m) /\ m.type = "replica" /\ m.item \in Items
      /\ m.dst \in Replicas /\ Head \in Nodes /\ Replicas \subseteq Nodes
      /\ rec \in [Nodes -> Records]
  BY DEF Inv, Shape, KnownInv, CallKnown, ReplicaInsert, Nodes, Messages
<1>1. PICK rest \in SUBSET Retried(m) : msgs' = (msgs \ {m}) \cup rest \cup sent
  BY DEF ReplicaInsert, Execute
<1>2. issued' = issued /\ rec' = [rec EXCEPT ![m.dst] = BulkLoad(@, m.item)]
  BY DEF ReplicaInsert
<1> HIDE DEF sent
<1>3. rec'[Head] = rec[Head]
  BY <1>0, <1>2, HeadAssumption
<1>4. ASSUME NEW r \in Replicas, NEW p \in Peers PROVE Known(p, rec'[r].peers[p])
  <2>1. Known(p, rec[r].peers[p])
    BY DEF KnownInv
  <2>2. CASE r # m.dst
    BY <1>0, <1>2, <2>1, <2>2
  <2>3. CASE r = m.dst
    <3>1. rec'[r] = BulkLoad(rec[r], m.item) /\ rec[r] \in Records
      BY <1>0, <1>2, <2>3
    <3>2. rec'[r].peers[p] \in Nat /\ rec[Head].peers[p] \in Nat
      BY <1>0, <3>1, BulkLoadType DEF Records
    <3>3. CASE rec'[r].peers[p] = 0
      BY <3>2, <3>3 DEF Known
    <3>4. CASE rec'[r].peers[p] > 0
      <4>1. \/ rec'[r].peers[p] = rec[r].peers[p]
            \/ m.item.kind = "insert" /\ m.item.peer = p /\ rec'[r].peers[p] = m.item.ts
            \/ m.item.kind = "state" /\ rec'[r].peers[p] = m.item.peers[p]
        BY <1>0, <3>1, <3>4, BulkLoadPeers
      <4> QED
        BY <1>0, <2>1, <4>1 DEF CallKnown
    <3> QED
      BY <3>2, <3>3, <3>4
  <2> QED
    BY <2>2, <2>3
<1>5. ASSUME NEW n \in msgs'
      PROVE  \E o \in msgs : n.type = o.type /\ n.dst = o.dst /\ n.item = o.item
  <2>1. n \notin sent
    BY DEF sent
  <2> QED
    BY <1>0, <1>1, <2>1, FlightAfter
<1> QED
  BY <1>2, <1>3, <1>4, <1>5, KnownByCalls

LEMMA KnownTick ==
  ASSUME Inv, KnownInv, AntiEntropyTick
  PROVE  KnownInv'
<1> DEFINE snapshot == Export(rec[Head])
<1> DEFINE sent == {Call("check", r, snapshot) : r \in Replicas}
<1>1. /\ rec[Head] # Absent /\ msgs' = msgs \cup sent
      /\ rec' = rec /\ issued' = issued
  BY DEF AntiEntropyTick
<1>2. rec[Head] \in Records /\ WellFormed(rec[Head])
  BY DEF Inv, Shape, RecordOK, Nodes
<1>3. /\ snapshot.kind \in {"state", "tombstone"}
      /\ snapshot.kind = "state" => snapshot.peers = rec[Head].peers
  BY <1>1, <1>2, ExportItem
<1> HIDE DEF snapshot
<1>4. ASSUME NEW n \in sent PROVE CallKnown(n)
  <2>1. PICK r \in Replicas : n = Call("check", r, snapshot)
    BY <1>4
  <2>2. n.dst = r /\ n.item = snapshot
    BY <2>1 DEF Call
  <2>3. \A p \in Peers : rec[Head].peers[p] <= rec[Head].peers[p]
    BY <1>2 DEF Records
  <2> QED
    BY <1>3, <2>2, <2>3 DEF CallKnown, Known
<1> HIDE DEF sent
<1>5. ASSUME NEW r \in Replicas, NEW p \in Peers PROVE Known(p, rec'[r].peers[p])
  BY <1>1 DEF KnownInv
<1> QED
  BY <1>1, <1>4, <1>5, KnownByCalls

LEMMA KnownRootCheck ==
  ASSUME Inv, KnownInv, NEW m \in msgs, RootCheck(m)
  PROVE  KnownInv'
<1> DEFINE push == Call("replica", m.dst, m.item)
<1>1. /\ m.type = "check" /\ rec' = rec /\ issued' = issued
      /\ msgs' \subseteq msgs \cup {push}
  BY DEF RootCheck
<1>2. CallKnown(push)
  BY <1>1 DEF KnownInv, CallKnown, Call
<1> HIDE DEF push
<1>3. ASSUME NEW r \in Replicas, NEW p \in Peers PROVE Known(p, rec'[r].peers[p])
  BY <1>1 DEF KnownInv
<1> QED
  BY <1>1, <1>2, <1>3, KnownByCalls

LEMMA KnownLose ==
  ASSUME Inv, KnownInv, NEW m \in msgs, Lose(m)
  PROVE  KnownInv'
<1> DEFINE sent == {}
<1> DEFINE rest == Retried(m)
<1>1. /\ Shape /\ rec' = rec /\ issued' = issued
      /\ msgs' = (msgs \ {m}) \cup rest \cup sent
      /\ rest \in SUBSET Retried(m)
  BY DEF Inv, Lose
<1> HIDE DEF sent, rest
<1>2. ASSUME NEW n \in msgs'
      PROVE  \E o \in msgs : n.type = o.type /\ n.dst = o.dst /\ n.item = o.item
  <2>1. n \notin sent
    BY DEF sent
  <2> QED
    BY <1>1, <2>1, FlightAfter
<1>3. ASSUME NEW r \in Replicas, NEW p \in Peers PROVE Known(p, rec'[r].peers[p])
  BY <1>1 DEF KnownInv
<1> QED
  BY <1>1, <1>2, <1>3, KnownByCalls

\* A seeder that a successor lists and the head does not, or not as fresh, is older
\* than a removal that the head has loaded (EventualReplication, HeadListsAll):
\* what the fast read of _eventual_query misses, it misses by a removal, be it of
\* another seeder, and never by reordered inserts and snapshots alone.
THEOREM HeadIsComplete == Spec => []HeadListsAll
<1>1. Init => KnownInv
  BY KnownInit
<1>2. Inv /\ KnownInv /\ [Next]_vars => KnownInv'
  <2> SUFFICES ASSUME Inv, KnownInv, [Next]_vars PROVE KnownInv'
    OBVIOUS
  <2>1. ASSUME NEW kind \in OpKinds, NEW p \in Peers, NEW t \in 1 .. MaxTime,
               Request(kind, p, t)
        PROVE  KnownInv'
    BY <2>1, KnownRequest
  <2>2. ASSUME NEW m \in msgs, HeadInsert(m) PROVE KnownInv'
    BY <2>2, KnownHeadInsert
  <2>3. ASSUME NEW m \in msgs, ReplicaInsert(m) PROVE KnownInv'
    BY <2>3, KnownReplicaInsert
  <2>4. CASE AntiEntropyTick
    BY <2>4, KnownTick
  <2>5. ASSUME NEW m \in msgs, RootCheck(m) PROVE KnownInv'
    BY <2>5, KnownRootCheck
  <2>6. ASSUME NEW m \in msgs, Lose(m) PROVE KnownInv'
    BY <2>6, KnownLose
  <2>7. CASE UNCHANGED vars
    BY <2>7 DEF vars, KnownInv, StampsDiffer, HeadTimeOK, IsRemovalTime, Known,
                Outdated, CallKnown
  <2> QED
    BY <2>1, <2>2, <2>3, <2>4, <2>5, <2>6, <2>7 DEF Next
<1>3. Inv /\ KnownInv => HeadListsAll
  <2> SUFFICES ASSUME Inv, KnownInv, NEW r \in Replicas, NEW p \in Peers,
                      rec[r].peers[p] > rec[Head].peers[p]
               PROVE  Outdated(rec[r].peers[p])
    BY DEF HeadListsAll, Outdated
  <2>1. rec[r].peers[p] \in Nat /\ rec[Head].peers[p] \in Nat
    BY DEF Inv, Shape, Nodes, Records
  <2> QED
    BY <2>1 DEF KnownInv, Known
<1> QED
  BY <1>1, <1>2, <1>3, Invariance, PTL DEF Spec
=============================================================================
