----------------------------- MODULE FileProofs ------------------------------
(***************************************************************************)
(* What is proved of one file, for every set of nodes and seeders: of its  *)
(* record in the stores (StoreMerge) and of its downloads (Download).      *)
(*                                                                         *)
(* DataStore behaves as the CRDT it is called when announcements commute,  *)
(* and removals do as long as no store sees an older delta after a newer   *)
(* one.  Of a download, what it returns is told by what its seeders were   *)
(* when it asked them, and by what has become of them since.               *)
(***************************************************************************)
EXTENDS StoreMerge, Download, DataStoreProofs

\* All variables keep their types.
LEMMA TypeStep == TypeOK /\ [Next]_vars => TypeOK'
<1> SUFFICES ASSUME TypeOK, [Next]_vars PROVE TypeOK'
  OBVIOUS
<1>1. ASSUME NEW n \in Stores, NEW d \in Issued, Deliver(n, d)
      PROVE  TypeOK'
  <2>1. rec[n] \in Records /\ d \in Items
    BY IssuedAssumption DEF TypeOK, Items
  <2>2. BulkLoad(rec[n], d) \in Records
    BY <2>1, BulkLoadType
  <2>3. timely' \in [Stores -> BOOLEAN]
    BY <1>1 DEF Deliver, TypeOK
  <2> QED
    BY <1>1, <2>2, <2>3 DEF Deliver, TypeOK
<1>2. CASE UNCHANGED vars
  BY <1>2 DEF vars, TypeOK
<1> QED
  BY <1>1, <1>2 DEF Next

LEMMA InitType == Init => TypeOK
  BY NoPeersType DEF Init, TypeOK, Absent, Records

THEOREM MergeTypeCorrect == Spec => []TypeOK
  BY InitType, TypeStep, PTL DEF Spec

-----------------------------------------------------------------------------
(* Announcements commute. *)

\* r lists, for every seeder, the latest announcement in S.
IsMergeOf(r, S) ==
  /\ ~r.tomb
  /\ \A d \in S : d.ts <= r.peers[d.peer] /\ d.ts <= r.ts
  /\ \A p \in Peers : r.peers[p] > 0 => \E d \in S : d.peer = p /\ d.ts = r.peers[p]
  /\ r.ts > 0 => \E d \in S : d.ts = r.ts

\* One set of announcements has one merge.
LEMMA MergeUnique ==
  ASSUME NEW r \in Records, NEW q \in Records, NEW S \in SUBSET Deltas,
         IsMergeOf(r, S), IsMergeOf(q, S)
  PROVE  r = q
<1>1. r.ts \in Nat /\ q.ts \in Nat /\ \A d \in S : d.ts \in Nat
  BY DEF Records, Deltas
<1>2. r.ts = q.ts
  BY <1>1 DEF IsMergeOf
<1>3. ASSUME NEW p \in Peers PROVE r.peers[p] = q.peers[p]
  <2>1. r.peers[p] \in Nat /\ q.peers[p] \in Nat
    BY DEF Records
  <2> QED
    BY <1>1, <2>1 DEF IsMergeOf
<1>4. r.peers = q.peers
  BY <1>3 DEF Records
<1>5. r.tomb = FALSE /\ q.tomb = FALSE
  BY DEF IsMergeOf, Records
<1> QED
  BY <1>2, <1>4, <1>5 DEF Records

\* insert extends a merge by the announcement it is given.
LEMMA InsertMerges ==
  ASSUME NEW r \in Records, NEW S \in SUBSET Deltas, NEW d \in Deltas,
         d.ts > 0, d.kind = "insert", IsMergeOf(r, S)
  PROVE  IsMergeOf(BulkLoad(r, d), S \cup {d})
<1> DEFINE new == BulkLoad(r, d)
<1>0. d.peer \in Peers /\ d.ts \in Nat /\ r.ts \in Nat /\ \A e \in S : e.ts \in Nat
  BY DEF Deltas, Records
<1>1. new = [peers |-> [r.peers EXCEPT ![d.peer] = Later(@, d.ts)],
             ts |-> Later(r.ts, d.ts), tomb |-> FALSE]
  BY DEF BulkLoad, Insert, IsMergeOf
<1>2. \A p \in Peers :
        new.peers[p] = IF p = d.peer THEN Later(r.peers[p], d.ts) ELSE r.peers[p]
  BY <1>0, <1>1 DEF Records
<1>3. new.ts = Later(r.ts, d.ts) /\ new.tomb = FALSE
  BY <1>1
<1>4. \A p \in Peers : r.peers[p] \in Nat
  BY DEF Records
<1>5. \A e \in S : e.peer \in Peers
  BY DEF Deltas
<1> HIDE DEF new
<1>6. \A e \in S \cup {d} : e.ts <= new.peers[e.peer] /\ e.ts <= new.ts
  BY <1>0, <1>2, <1>3, <1>4, <1>5 DEF IsMergeOf, Later
<1>7. ASSUME NEW p \in Peers, new.peers[p] > 0
      PROVE  \E e \in S \cup {d} : e.peer = p /\ e.ts = new.peers[p]
  BY <1>0, <1>2, <1>4, <1>7 DEF IsMergeOf, Later
<1>8. new.ts > 0 => \E e \in S \cup {d} : e.ts = new.ts
  BY <1>0, <1>3 DEF IsMergeOf, Later
<1> QED
  BY <1>3, <1>6, <1>7, <1>8 DEF IsMergeOf, new

Merged ==
  \A n \in Stores : AnnouncementsOnly(seen[n]) => IsMergeOf(rec[n], seen[n])

\* Stores that received the same announcements hold the same record, in
\* whatever order and however often they came.
THEOREM AnnouncementsCommute == Spec => []SameDeltasSameRecord
<1>1. Init => Merged
  BY DEF Init, Merged, IsMergeOf, Absent, NoPeers
<1>2. TypeOK /\ Merged /\ [Next]_vars => Merged'
  <2> SUFFICES ASSUME TypeOK, Merged, [Next]_vars, NEW m \in Stores,
                      AnnouncementsOnly(seen'[m])
               PROVE  IsMergeOf(rec'[m], seen'[m])
    BY DEF Merged, AnnouncementsOnly
  <2>1. ASSUME NEW n \in Stores, NEW d \in Issued, Deliver(n, d)
        PROVE  IsMergeOf(rec'[m], seen'[m])
    <3>1. CASE m # n
      BY <2>1, <3>1 DEF Deliver, Merged, TypeOK
    <3>2. CASE m = n
      <4>1. rec'[m] = BulkLoad(rec[m], d) /\ seen'[m] = seen[m] \cup {d}
        BY <2>1, <3>2 DEF Deliver, TypeOK
      <4>2. rec[m] \in Records /\ seen[m] \in SUBSET Deltas /\ d \in Deltas
            /\ d.ts > 0 /\ d.kind = "insert"
        BY <4>1, IssuedAssumption DEF TypeOK, AnnouncementsOnly
      <4>3. IsMergeOf(rec[m], seen[m])
        BY <4>1 DEF Merged, AnnouncementsOnly
      <4> QED
        BY <4>1, <4>2, <4>3, InsertMerges
    <3> QED
      BY <3>1, <3>2
  <2>2. CASE UNCHANGED vars
    BY <2>2 DEF vars, Merged
  <2> QED
    BY <2>1, <2>2 DEF Next
<1>3. TypeOK /\ Merged => SameDeltasSameRecord
  <2> SUFFICES ASSUME TypeOK, Merged, NEW m \in Stores, NEW n \in Stores,
                      seen[m] = seen[n], AnnouncementsOnly(seen[m])
               PROVE  rec[m] = rec[n]
    BY DEF SameDeltasSameRecord
  <2>1. rec[m] \in Records /\ rec[n] \in Records /\ seen[m] \in SUBSET Deltas
    BY IssuedAssumption DEF TypeOK
  <2> QED
    BY <2>1, MergeUnique DEF Merged
<1> QED
  BY <1>1, <1>2, <1>3, MergeTypeCorrect, PTL DEF Spec

-----------------------------------------------------------------------------
(* Removals and announcements in the order of their stamps. *)

IsLatestAnnouncement(d, S) ==
  d \in S /\ d.kind = "insert" /\ \A e \in S : e.peer = d.peer => e.ts <= d.ts

\* r lists the seeders whose newest delta in S is an announcement, at its time.
IsLatestOf(r, S) ==
  /\ WellFormed(r)
  /\ \A d \in S : IsLatestAnnouncement(d, S) => r.peers[d.peer] = d.ts
  /\ \A p \in Peers : r.peers[p] > 0 =>
       \E d \in S : d.peer = p /\ d.ts = r.peers[p] /\ IsLatestAnnouncement(d, S)
  /\ r.ts > 0 => \E d \in S : d.ts = r.ts

\* Such a record answers as last write wins demands.
LEMMA LatestAnswers ==
  ASSUME NEW r \in Records, NEW S \in SUBSET Issued, IsLatestOf(r, S)
  PROVE  Query(r) = Announced(S)
<1>1. \A e \in S : e.ts \in Nat /\ e.peer \in Peers /\ e.ts > 0
  BY IssuedAssumption DEF Deltas
<1>2. \A d \in S : IsLatestAnnouncement(d, S) <=>
                     d.kind = "insert" /\ Newer(S, d.peer, d.ts) = {}
  BY <1>1 DEF IsLatestAnnouncement, Newer
<1>3. \A p \in Peers : r.peers[p] > 0 <=> p \in Announced(S)
  BY <1>1, <1>2 DEF IsLatestOf, Announced
<1>4. Announced(S) \subseteq Peers
  BY DEF Announced
<1>5. r.tomb => \A p \in Peers : r.peers[p] = 0
  BY EmptyRecord DEF IsLatestOf
<1> QED
  BY <1>3, <1>4, <1>5 DEF Query

\* One delta that is not older than any before it keeps a record so.
LEMMA NewestDelta ==
  ASSUME NEW r \in Records, NEW S \in SUBSET Issued, NEW d \in Issued,
         \A e \in S : e.ts <= d.ts, IsLatestOf(r, S)
  PROVE  IsLatestOf(BulkLoad(r, d), S \cup {d})
<1> DEFINE new == BulkLoad(r, d)
<1> DEFINE T == S \cup {d}
<1>0. /\ d \in Deltas /\ d \in Items /\ d.ts > 0 /\ d.ts \in Nat /\ d.peer \in Peers
      /\ d.kind \in {"insert", "remove"}
      /\ \A e \in S : e.ts \in Nat /\ e.ts > 0 /\ e.peer \in Peers /\ (e.ts = d.ts => e = d)
  BY IssuedAssumption DEF Deltas, Items
<1>1. r.ts \in Nat /\ \A p \in Peers : r.peers[p] \in Nat /\ r.peers[p] <= r.ts
  BY PeersWithinTime DEF IsLatestOf, Records
<1>2. r.ts <= d.ts /\ r.ts \in Nat
  BY <1>0, <1>1 DEF IsLatestOf
<1>3. new \in Records /\ WellFormed(new)
  BY <1>0, BulkLoadType, BulkLoadWellFormed DEF IsLatestOf, WellFormedItem
<1>4. \A e \in S : e.peer # d.peer =>
        (IsLatestAnnouncement(e, T) <=> IsLatestAnnouncement(e, S))
  BY DEF IsLatestAnnouncement
<1>5. IsLatestAnnouncement(d, T) <=> d.kind = "insert"
  BY <1>0 DEF IsLatestAnnouncement
<1>6. \A e \in S : e.peer = d.peer /\ IsLatestAnnouncement(e, T) => e = d
  BY <1>0 DEF IsLatestAnnouncement
<1>7. new.ts > 0 => \E e \in T : e.ts = new.ts
  <2>1. new.ts \in {r.ts, d.ts}
    BY <1>0, BulkLoadTime
  <2> QED
    BY <2>1 DEF IsLatestOf
<1>8. /\ \A p \in Peers \ {d.peer} : new.peers[p] = r.peers[p]
      /\ new.peers[d.peer] = IF d.kind = "insert" THEN d.ts ELSE 0
  <2>1. CASE d.kind = "insert"
    <3>1. new = Insert(r, d.peer, d.ts)
      BY <2>1 DEF BulkLoad
    <3>2. CASE r.tomb
      <4>1. \A p \in Peers : r.peers[p] = 0
        BY <3>2, EmptyRecord DEF IsLatestOf
      <4>2. d.ts > r.ts
        <5>1. PICK e \in S : e.ts = r.ts
          BY <3>2 DEF IsLatestOf, WellFormed, Absent
        <5>2. CASE e = d
          <6>1. IsLatestAnnouncement(d, S)
            BY <2>1, <5>1, <5>2, <1>0 DEF IsLatestAnnouncement
          <6> QED
            BY <1>0, <4>1, <5>1, <5>2, <6>1 DEF IsLatestOf
        <5> QED
          BY <1>0, <1>2, <5>1, <5>2
      <4>3. new.peers = [NoPeers EXCEPT ![d.peer] = d.ts]
        BY <3>1, <3>2, <4>2 DEF Insert
      <4> QED
        BY <1>0, <2>1, <4>1, <4>3 DEF NoPeers
    <3>3. CASE ~r.tomb
      <4>1. new.peers = [r.peers EXCEPT ![d.peer] = Later(@, d.ts)]
        BY <3>1, <3>3 DEF Insert
      <4>2. Later(r.peers[d.peer], d.ts) = d.ts
        BY <1>0, <1>1, <1>2 DEF Later
      <4> QED
        BY <1>0, <2>1, <4>1, <4>2 DEF Records
    <3> QED
      BY <3>2, <3>3
  <2>2. CASE d.kind = "remove"
    <3>1. new = RemoveValue(r, d.peer, d.ts)
      BY <2>2 DEF BulkLoad
    <3>2. d.ts > r.peers[d.peer]
      <4>1. CASE r.peers[d.peer] > 0
        <5>1. PICK e \in S : e.ts = r.peers[d.peer] /\ IsLatestAnnouncement(e, S)
          BY <1>0, <4>1 DEF IsLatestOf
        <5> QED
          BY <1>0, <2>2, <5>1 DEF IsLatestAnnouncement
      <4> QED
        BY <1>0, <1>1, <4>1
    <3>3. CASE r = Absent \/ r.tomb
      <4>1. \A p \in Peers : r.peers[p] = 0
        BY <3>3, EmptyRecord DEF IsLatestOf
      <4>2. new.peers = r.peers
        BY <3>1, <3>3 DEF RemoveValue
      <4> QED
        BY <1>0, <2>2, <4>1, <4>2
    <3>4. CASE r # Absent /\ ~r.tomb
      <4>1. new.peers = [r.peers EXCEPT ![d.peer] = 0]
        BY <3>1, <3>2, <3>4 DEF RemoveValue
      <4> QED
        BY <1>0, <2>2, <4>1 DEF Records
    <3> QED
      BY <3>3, <3>4
  <2> QED
    BY <1>0, <2>1, <2>2
<1> HIDE DEF new
<1>9. ASSUME NEW e \in T, IsLatestAnnouncement(e, T)
      PROVE  new.peers[e.peer] = e.ts
  <2>1. CASE e.peer = d.peer
    <3>1. e = d /\ d.kind = "insert"
      BY <1>5, <1>6, <1>9, <2>1
    <3> QED
      BY <1>8, <3>1
  <2>2. CASE e.peer # d.peer
    BY <1>0, <1>4, <1>8, <1>9, <2>2 DEF IsLatestOf
  <2> QED
    BY <2>1, <2>2
<1>10. ASSUME NEW p \in Peers, new.peers[p] > 0
       PROVE  \E e \in T : e.peer = p /\ e.ts = new.peers[p] /\ IsLatestAnnouncement(e, T)
  <2>1. CASE p = d.peer
    <3>1. d.kind = "insert" /\ new.peers[p] = d.ts
      BY <1>8, <1>10, <2>1
    <3> QED
      BY <1>5, <2>1, <3>1
  <2>2. CASE p # d.peer
    <3>1. PICK e \in S : e.peer = p /\ e.ts = r.peers[p] /\ IsLatestAnnouncement(e, S)
      BY <1>8, <1>10, <2>2 DEF IsLatestOf
    <3> QED
      BY <1>4, <1>8, <2>2, <3>1
  <2> QED
    BY <2>1, <2>2
<1> QED
  BY <1>3, <1>7, <1>9, <1>10 DEF IsLatestOf, new

Latest == \A n \in Stores : timely[n] => IsLatestOf(rec[n], seen[n])

\* A store that no older delta reached after a newer one answers as last write
\* wins demands, removals and all (storage.py, insert and remove_value).
THEOREM StampOrderSuffices == Spec => []LastWriteWins
<1>1. Init => Latest
  BY DEF Init, Latest, IsLatestOf, WellFormed, Absent, NoPeers
<1>2. TypeOK /\ Latest /\ [Next]_vars => Latest'
  <2> SUFFICES ASSUME TypeOK, Latest, [Next]_vars, NEW m \in Stores, timely'[m]
               PROVE  IsLatestOf(rec'[m], seen'[m])
    BY DEF Latest
  <2>1. ASSUME NEW n \in Stores, NEW d \in Issued, Deliver(n, d)
        PROVE  IsLatestOf(rec'[m], seen'[m])
    <3>1. CASE m # n
      BY <2>1, <3>1 DEF Deliver, Latest, TypeOK
    <3>2. CASE m = n
      <4>1. rec[m] \in Records /\ seen[m] \in SUBSET Issued
        BY DEF TypeOK
      <4>2. rec'[m] = BulkLoad(rec[m], d) /\ seen'[m] = seen[m] \cup {d}
        BY <2>1, <3>2 DEF Deliver, TypeOK
      <4>3. timely[m] /\ \A e \in seen[m] : e.ts <= d.ts
        BY <2>1, <3>2 DEF Deliver, TypeOK
      <4> QED
        BY <4>1, <4>2, <4>3, NewestDelta DEF Latest
    <3> QED
      BY <3>1, <3>2
  <2>2. CASE UNCHANGED vars
    BY <2>2 DEF vars, Latest
  <2> QED
    BY <2>1, <2>2 DEF Next
<1>3. TypeOK /\ Latest => LastWriteWins
  BY LatestAnswers DEF TypeOK, Latest, LastWriteWins
<1> QED
  BY <1>1, <1>2, <1>3, MergeTypeCorrect, PTL DEF Spec

-----------------------------------------------------------------------------
(* Download *)

Working(n) == job[n].phase # "idle"

\* It has been told a length and waits for, or reads, the stream.
Attached(n) == job[n].phase \in {"told", "streaming"}

\* Whoever works on a download has returned nothing yet.
WorkersAreOpen == \A n \in Nodes : Working(n) => outcome[n] = "none"

\* Who stayed well runs, has the whole file, and is either still to be asked or
\* the one that is asked.
WellAreWell == \A n \in Nodes : \A s \in well[n] : s \in up /\ file[s] = Chunks
WellRemain ==
  \A n \in Nodes : Working(n) =>
    well[n] \subseteq job[n].todo \cup (IF Attached(n) THEN {job[n].seeder} ELSE {})

\* The stream of a seeder that stayed well ends with the file, not before.
WellStream(n) ==
  Attached(n) /\ job[n].seeder \in well[n] =>
    feed[n].open \/ (job[n].phase = "streaming" /\ feed[n].sent = Chunks)

TriesInv ==
  /\ WorkersAreOpen
  /\ WellAreWell
  /\ WellRemain
  /\ \A n \in Nodes : WellStream(n)
  /\ FallbackTriesAll

\* All variables of Download keep their types.
LEMMA DownloadInitType == DownloadInit => DownloadTypeOK
<1> SUFFICES ASSUME DownloadInit PROVE DownloadTypeOK
  OBVIOUS
<1>1. 0 \in Lengths /\ Chunks \in Lengths /\ 0 \in 0 .. MaxFaults
  BY ConstantsAssumption DEF Lengths
<1>2. NoFeed \in Feeds
  BY <1>1 DEF NoFeed, Feeds
<1>3. \A n \in Nodes : [phase |-> "idle", todo |-> {}, seeder |-> n, told |-> 0] \in Jobs
  BY <1>1 DEF Jobs
<1>4. file \in [Nodes -> Lengths \cup {Missing}]
  BY <1>1 DEF DownloadInit
<1>5. job \in [Nodes -> Jobs] /\ \A n \in Nodes : job[n].phase = "idle"
  BY <1>3 DEF DownloadInit
<1>6. feed \in [Nodes -> Feeds]
  BY <1>2 DEF DownloadInit
<1> QED
  BY <1>1, <1>4, <1>5, <1>6 DEF DownloadInit, DownloadTypeOK

\* What of the type invariant a node's own job, stream and copy say.
LEMMA JobType ==
  ASSUME DownloadTypeOK, NEW n \in Nodes
  PROVE  /\ job[n] \in Jobs
         /\ job[n].phase \in {"idle", "choosing", "told", "streaming"}
         /\ job[n].todo \subseteq Nodes /\ job[n].seeder \in Nodes
         /\ job[n].told \in 0 .. Chunks
  BY DEF DownloadTypeOK, Jobs, Lengths

LEMMA StreamType ==
  ASSUME DownloadTypeOK, NEW n \in Nodes
  PROVE  /\ feed[n] \in Feeds
         /\ feed[n].sent \in 0 .. Chunks /\ feed[n].open \in BOOLEAN
  BY DEF DownloadTypeOK, Feeds, Lengths

LEMMA CopyType ==
  ASSUME DownloadTypeOK, NEW n \in Nodes
  PROVE  /\ file[n] \in Lengths \cup {Missing}
         /\ file[n] \in Int /\ file[n] <= Chunks /\ -1 <= file[n]
         /\ file[n] # Missing => file[n] \in 0 .. Chunks
  BY ConstantsAssumption DEF DownloadTypeOK, Lengths, Missing

\* A job or a stream that is replaced by one of its type.
LEMMA JobUpdate ==
  ASSUME DownloadTypeOK, NEW n \in Nodes, NEW j \in Jobs,
         job' = [job EXCEPT ![n] = j]
  PROVE  job' \in [Nodes -> Jobs]
  BY DEF DownloadTypeOK

LEMMA FeedUpdate ==
  ASSUME DownloadTypeOK, NEW n \in Nodes, NEW f \in Feeds,
         feed' = [feed EXCEPT ![n] = f]
  PROVE  feed' \in [Nodes -> Feeds]
  BY DEF DownloadTypeOK

LEMMA NoFeedType == NoFeed \in Feeds
  BY ConstantsAssumption DEF NoFeed, Feeds, Lengths

\* Between two attempts.
LEMMA TriesNextType ==
  ASSUME DownloadTypeOK, NEW n \in Nodes, TriesNext(n)
  PROVE  /\ job' \in [Nodes -> Jobs] /\ feed' \in [Nodes -> Feeds]
         /\ \A m \in Nodes : job'[m].phase = "streaming" => job'[m] = job[m]
<1>1. 0 \in Lengths
  BY ConstantsAssumption DEF Lengths
<1>2. [job[n] EXCEPT !.phase = "choosing", !.seeder = n, !.told = 0] \in Jobs
  BY <1>1, JobType DEF Jobs
<1>3. job' = [job EXCEPT ![n] = [job[n] EXCEPT !.phase = "choosing", !.seeder = n, !.told = 0]]
  BY DEF TriesNext, DownloadTypeOK
<1>4. job' \in [Nodes -> Jobs]
  BY <1>2, <1>3, JobUpdate
<1>5. feed' \in [Nodes -> Feeds]
  BY NoFeedType, FeedUpdate DEF TriesNext
<1>6. ASSUME NEW m \in Nodes, job'[m].phase = "streaming" PROVE job'[m] = job[m]
  <2>1. job'[n].phase = "choosing"
    BY <1>3, JobType DEF DownloadTypeOK, Jobs
  <2> QED
    BY <1>3, <1>6, <2>1 DEF DownloadTypeOK
<1> QED
  BY <1>4, <1>5, <1>6

LEMMA DownloadTypeStep ==
  DownloadTypeOK /\ [DownloadNext]_downloadVars => DownloadTypeOK'
<1> SUFFICES ASSUME DownloadTypeOK, [DownloadNext]_downloadVars PROVE DownloadTypeOK'
  OBVIOUS
<1>1. ASSUME NEW n \in Nodes, Announce(n) PROVE DownloadTypeOK'
  BY <1>1 DEF Announce, DownloadTypeOK
<1>2. ASSUME NEW n \in Nodes, Begin(n) PROVE DownloadTypeOK'
  <2> DEFINE j == [job[n] EXCEPT !.phase = "choosing", !.todo = listed \ {n}]
  <2>0. listed \ {n} \in SUBSET Nodes
    BY DEF DownloadTypeOK
  <2>1. j \in Jobs /\ j.phase = "choosing"
    BY <2>0, JobType DEF Jobs
  <2>2. job' = [job EXCEPT ![n] = j]
    BY <1>2 DEF Begin, DownloadTypeOK
  <2> HIDE DEF j
  <2>3. job' \in [Nodes -> Jobs]
    BY <2>1, <2>2, JobUpdate
  <2>4. \A m \in Nodes : job'[m].phase = "streaming" => job'[m] = job[m]
    BY <2>1, <2>2 DEF DownloadTypeOK
  <2>5. well' \in [Nodes -> SUBSET Nodes] /\ outcome' \in [Nodes -> {"none", "ok", "failed"}]
    BY <1>2 DEF Begin, DownloadTypeOK
  <2>6. UNCHANGED <<up, file, listed, feed, faults>>
    BY <1>2 DEF Begin, DownloadTypeOK
  <2> QED
    BY <2>3, <2>4, <2>5, <2>6 DEF DownloadTypeOK
<1>3. ASSUME NEW n \in Nodes, NEW s \in Nodes, Ask(n, s) PROVE DownloadTypeOK'
  <2> DEFINE j == IF Serves(s)
                  THEN [phase |-> "told", todo |-> job[n].todo \ {s}, seeder |-> s, told |-> file[s]]
                  ELSE [job[n] EXCEPT !.todo = job[n].todo \ {s}]
             f == [feed[n] EXCEPT !.open = Serves(s)]
  <2>1. j \in Jobs /\ j.phase # "streaming"
    <3>1. CASE Serves(s)
      BY <3>1, JobType, CopyType DEF Serves, Jobs, Lengths
    <3>2. CASE ~Serves(s)
      BY <1>3, <3>2, JobType DEF Ask, Jobs
    <3> QED
      BY <3>1, <3>2
  <2>2. job' = [job EXCEPT ![n] = j] /\ feed' = [feed EXCEPT ![n] = f]
    BY <1>3 DEF Ask, DownloadTypeOK
  <2>3. f \in Feeds
    BY StreamType DEF Feeds, Serves
  <2> HIDE DEF j, f
  <2>4. job' \in [Nodes -> Jobs] /\ feed' \in [Nodes -> Feeds]
    BY <2>1, <2>2, <2>3, JobUpdate, FeedUpdate
  <2>5. \A m \in Nodes : job'[m].phase = "streaming" => job'[m] = job[m]
    BY <2>1, <2>2 DEF DownloadTypeOK
  <2>6. UNCHANGED <<up, file, listed, outcome, well, faults>>
    BY <1>3 DEF Ask
  <2> QED
    BY <2>4, <2>5, <2>6 DEF DownloadTypeOK
<1>4. ASSUME NEW n \in Nodes, Open(n) PROVE DownloadTypeOK'
  <2>1. 0 \in Lengths
    BY ConstantsAssumption DEF Lengths
  <2> DEFINE j == [job[n] EXCEPT !.phase = "streaming"]
  <2>9. j \in Jobs /\ j.told = job[n].told
    BY JobType DEF Jobs
  <2>8. job' = [job EXCEPT ![n] = j]
    BY <1>4 DEF Open, DownloadTypeOK
  <2> HIDE DEF j
  <2>2. job' \in [Nodes -> Jobs] /\ \A m \in Nodes : job'[m].told = job[m].told
    BY <2>8, <2>9, JobUpdate DEF DownloadTypeOK
  <2>3. \A m \in Nodes \ {n} : job'[m] = job[m]
    BY <1>4 DEF Open, DownloadTypeOK
  <2>4. file' = [file EXCEPT ![n] = 0] /\ file' \in [Nodes -> Lengths \cup {Missing}]
    BY <1>4, <2>1 DEF Open, DownloadTypeOK
  <2>5. ASSUME NEW m \in Nodes, job'[m].phase = "streaming" PROVE file'[m] <= job'[m].told
    <3>1. CASE m = n
      <4>1. file'[n] = 0 /\ job[n].told >= 0
        BY <2>4, JobType DEF DownloadTypeOK
      <4> QED
        BY <2>2, <3>1, <4>1
    <3>2. CASE m # n
      BY <2>3, <2>4, <2>5, <3>2 DEF DownloadTypeOK
    <3> QED
      BY <3>1, <3>2
  <2>6. well' \in [Nodes -> SUBSET Nodes] /\ UNCHANGED <<up, listed, feed, outcome, faults>>
    BY <1>4 DEF Open, DownloadTypeOK
  <2> QED
    BY <2>2, <2>4, <2>5, <2>6 DEF DownloadTypeOK
<1>5. ASSUME NEW n \in Nodes, Receive(n) PROVE DownloadTypeOK'
  <2>1. file[n] + 1 <= job[n].told /\ file[n] + 1 \in Lengths
    BY <1>5, JobType, CopyType, ConstantsAssumption DEF Receive, Wanted, Lengths
  <2>2. file' = [file EXCEPT ![n] = file[n] + 1]
        /\ UNCHANGED <<up, listed, job, feed, outcome, well, faults>>
    BY <1>5 DEF Receive, DownloadTypeOK
  <2>3. file' \in [Nodes -> Lengths \cup {Missing}]
    BY <2>1, <2>2 DEF DownloadTypeOK
  <2>4. \A m \in Nodes : job[m].phase = "streaming" => file'[m] <= job[m].told
    BY <2>1, <2>2 DEF DownloadTypeOK
  <2> QED
    BY <2>2, <2>3, <2>4 DEF DownloadTypeOK
<1>6. ASSUME NEW n \in Nodes, Finish(n) PROVE DownloadTypeOK'
  <2> DEFINE j == [job[n] EXCEPT !.phase = "idle", !.seeder = n, !.told = 0, !.todo = {}]
  <2>0. 0 \in Lengths
    BY ConstantsAssumption DEF Lengths
  <2>1. j \in Jobs /\ j.phase = "idle"
    BY <2>0, JobType DEF Jobs
  <2>2. job' = [job EXCEPT ![n] = j] /\ feed' = [feed EXCEPT ![n] = NoFeed]
    BY <1>6 DEF Finish, DownloadTypeOK
  <2> HIDE DEF j
  <2>3. job' \in [Nodes -> Jobs] /\ feed' \in [Nodes -> Feeds]
    BY <2>1, <2>2, JobUpdate, FeedUpdate, NoFeedType
  <2>4. \A m \in Nodes : job'[m].phase = "streaming" => job'[m] = job[m]
    BY <2>1, <2>2 DEF DownloadTypeOK
  <2>5. outcome' \in [Nodes -> {"none", "ok", "failed"}]
        /\ UNCHANGED <<up, file, listed, well, faults>>
    BY <1>6 DEF Finish, DownloadTypeOK
  <2> QED
    BY <2>3, <2>4, <2>5 DEF DownloadTypeOK
<1>7. ASSUME NEW n \in Nodes, Dropped(n) PROVE DownloadTypeOK'
  <2>1. UNCHANGED <<up, file, listed, outcome, well, faults>> /\ TriesNext(n)
    BY <1>7 DEF Dropped
  <2>2. /\ job' \in [Nodes -> Jobs] /\ feed' \in [Nodes -> Feeds]
        /\ \A m \in Nodes : job'[m].phase = "streaming" => job'[m] = job[m]
    BY <2>1, TriesNextType
  <2> QED
    BY <2>1, <2>2 DEF DownloadTypeOK
<1>8. ASSUME NEW n \in Nodes, Cut(n) PROVE DownloadTypeOK'
  <2>1. UNCHANGED <<up, file, listed, outcome>> /\ TriesNext(n)
    BY <1>8 DEF Cut
  <2>2. /\ job' \in [Nodes -> Jobs] /\ feed' \in [Nodes -> Feeds]
        /\ \A m \in Nodes : job'[m].phase = "streaming" => job'[m] = job[m]
    BY <2>1, TriesNextType
  <2>3. well' \in [Nodes -> SUBSET Nodes] /\ faults' \in 0 .. MaxFaults
    BY <1>8, ConstantsAssumption DEF Cut, Fault, DownloadTypeOK
  <2> QED
    BY <2>1, <2>2, <2>3 DEF DownloadTypeOK
<1>9. ASSUME NEW n \in Nodes, Exhaust(n) PROVE DownloadTypeOK'
  <2> DEFINE j == [job[n] EXCEPT !.phase = "idle"]
  <2>1. j \in Jobs /\ j.phase = "idle"
    BY JobType DEF Jobs
  <2>2. job' = [job EXCEPT ![n] = j]
    BY <1>9 DEF Exhaust, DownloadTypeOK
  <2> HIDE DEF j
  <2>3. job' \in [Nodes -> Jobs]
    BY <2>1, <2>2, JobUpdate
  <2>4. \A m \in Nodes : job'[m].phase = "streaming" => job'[m] = job[m]
    BY <2>1, <2>2 DEF DownloadTypeOK
  <2>5. outcome' \in [Nodes -> {"none", "ok", "failed"}]
        /\ UNCHANGED <<up, file, listed, feed, well, faults>>
    BY <1>9 DEF Exhaust, DownloadTypeOK
  <2> QED
    BY <2>3, <2>4, <2>5 DEF DownloadTypeOK
<1>10. ASSUME NEW n \in Nodes, Feed(n) PROVE DownloadTypeOK'
  <2> DEFINE f == IF feed[n].sent < file[job[n].seeder]
                  THEN [feed[n] EXCEPT !.sent = feed[n].sent + 1]
                  ELSE [feed[n] EXCEPT !.open = FALSE]
  <2>1. f \in Feeds
    <3>1. job[n].seeder \in Nodes
      BY JobType
    <3>2. file[job[n].seeder] \in Int /\ file[job[n].seeder] <= Chunks
      BY <3>1, CopyType
    <3>3. feed[n].sent < file[job[n].seeder] => feed[n].sent + 1 \in Lengths
      BY <3>2, StreamType, ConstantsAssumption DEF Lengths
    <3> QED
      BY <3>3, StreamType DEF Feeds
  <2>2. feed' = [feed EXCEPT ![n] = f]
    <3>1. CASE feed[n].sent < file[job[n].seeder]
      <4>1. feed' = [feed EXCEPT ![n] = [feed[n] EXCEPT !.sent = feed[n].sent + 1]]
        BY <1>10, <3>1, StreamType DEF Feed, DownloadTypeOK, Feeds
      <4> QED
        BY <3>1, <4>1
    <3>2. CASE ~(feed[n].sent < file[job[n].seeder])
      <4>1. feed' = [feed EXCEPT ![n] = [feed[n] EXCEPT !.open = FALSE]]
        BY <1>10, <3>2 DEF Feed, DownloadTypeOK
      <4> QED
        BY <3>2, <4>1
    <3> QED
      BY <3>1, <3>2
  <2>3. UNCHANGED <<up, file, listed, job, outcome, well, faults>>
    BY <1>10 DEF Feed
  <2> HIDE DEF f
  <2>4. feed' \in [Nodes -> Feeds]
    BY <2>1, <2>2, FeedUpdate
  <2> QED
    BY <2>3, <2>4 DEF DownloadTypeOK
<1>11. ASSUME NEW n \in Nodes, Kill(n) PROVE DownloadTypeOK'
  <2> DEFINE j == [phase |-> "idle", todo |-> {}, seeder |-> n, told |-> 0]
  <2>1. j \in Jobs /\ j.phase = "idle"
    BY ConstantsAssumption DEF Jobs, Lengths
  <2>2. job' = [job EXCEPT ![n] = j]
    BY <1>11 DEF Kill
  <2> HIDE DEF j
  <2>3. job' \in [Nodes -> Jobs]
    BY <2>1, <2>2, JobUpdate
  <2>4. \A m \in Nodes : job'[m].phase = "streaming" => job'[m] = job[m]
    BY <2>1, <2>2 DEF DownloadTypeOK
  <2>5. feed' \in [Nodes -> Feeds]
    <3>1. \A l \in Nodes : [feed[l] EXCEPT !.open = FALSE] \in Feeds /\ feed[l] \in Feeds
      BY StreamType DEF Feeds
    <3> QED
      BY <1>11, <3>1, NoFeedType DEF Kill
  <2>6. up' \subseteq Nodes /\ well' \in [Nodes -> SUBSET Nodes] /\ faults' \in 0 .. MaxFaults
        /\ UNCHANGED <<file, listed, outcome>>
    BY <1>11, ConstantsAssumption DEF Kill, Fault, DownloadTypeOK
  <2> QED
    BY <2>3, <2>4, <2>5, <2>6 DEF DownloadTypeOK
<1>12. ASSUME NEW n \in Nodes, Restart(n) PROVE DownloadTypeOK'
  BY <1>12 DEF Restart, DownloadTypeOK
<1>13. CASE UNCHANGED downloadVars
  BY <1>13 DEF downloadVars, DownloadTypeOK
<1> QED
  BY <1>1, <1>2, <1>3, <1>4, <1>5, <1>6, <1>7, <1>8, <1>9, <1>10, <1>11, <1>12, <1>13
  DEF DownloadNext

\* A download's state stays within its types: nothing is written or sent beyond
\* the length of the file, and no copy outgrows the length its leecher was told
\* (download_file, stream_file_to_socket), whoever else downloads meanwhile.
THEOREM DownloadTypeCorrect == DownloadSpec => []DownloadTypeOK
  BY DownloadInitType, DownloadTypeStep, PTL DEF DownloadSpec

-----------------------------------------------------------------------------
(* What the steps of a download do to its job, and leave of the others'.    *)

LEMMA BeginJob ==
  ASSUME DownloadTypeOK, NEW n \in Nodes, Begin(n)
  PROVE  /\ job'[n].phase = "choosing" /\ job'[n].todo = listed \ {n}
         /\ \A m \in Nodes \ {n} : job'[m] = job[m]
  BY JobType DEF Begin, DownloadTypeOK, Jobs

LEMMA AskJob ==
  ASSUME DownloadTypeOK, NEW n \in Nodes, NEW s \in Nodes, Ask(n, s)
  PROVE  /\ job[n].phase = "choosing" /\ s \in job[n].todo
         /\ job'[n].todo = job[n].todo \ {s}
         /\ Serves(s) => /\ job'[n].phase = "told" /\ job'[n].seeder = s
                         /\ job'[n].told = file[s] /\ feed'[n].open
         /\ ~Serves(s) => job'[n].phase = "choosing"
         /\ \A m \in Nodes \ {n} : job'[m] = job[m] /\ feed'[m] = feed[m]
<1>1. /\ job[n].phase = "choosing" /\ s \in job[n].todo
      /\ \A m \in Nodes \ {n} : job'[m] = job[m] /\ feed'[m] = feed[m]
  BY DEF Ask, DownloadTypeOK
<1>2. ASSUME Serves(s)
      PROVE  job'[n] = [phase |-> "told", todo |-> job[n].todo \ {s}, seeder |-> s, told |-> file[s]]
  BY <1>2 DEF Ask, DownloadTypeOK
<1>3. ASSUME Serves(s) PROVE feed'[n].open
  BY <1>3, StreamType DEF Ask, DownloadTypeOK, Feeds
<1>4. ASSUME ~Serves(s) PROVE job'[n] = [job[n] EXCEPT !.todo = job[n].todo \ {s}]
  BY <1>4 DEF Ask, DownloadTypeOK
<1>5. ASSUME ~Serves(s)
      PROVE  job'[n].phase = "choosing" /\ job'[n].todo = job[n].todo \ {s}
  BY <1>1, <1>4, <1>5, JobType DEF Jobs
<1> QED
  BY <1>1, <1>2, <1>3, <1>5

LEMMA OpenJob ==
  ASSUME DownloadTypeOK, NEW n \in Nodes, Open(n)
  PROVE  /\ job[n].phase = "told" /\ job'[n].phase = "streaming"
         /\ job'[n].todo = job[n].todo /\ job'[n].seeder = job[n].seeder
         /\ job'[n].told = job[n].told
         /\ \A m \in Nodes \ {n} : job'[m] = job[m] /\ file'[m] = file[m]
  BY JobType DEF Open, DownloadTypeOK, Jobs

LEMMA TriesNextJob ==
  ASSUME DownloadTypeOK, NEW n \in Nodes, TriesNext(n)
  PROVE  /\ job'[n].phase = "choosing" /\ job'[n].todo = job[n].todo
         /\ \A m \in Nodes \ {n} : job'[m] = job[m] /\ feed'[m] = feed[m]
  BY JobType DEF TriesNext, DownloadTypeOK, Jobs

LEMMA FinishJob ==
  ASSUME DownloadTypeOK, NEW n \in Nodes, Finish(n)
  PROVE  /\ job'[n].phase = "idle" /\ job'[n].todo = {}
         /\ \A m \in Nodes \ {n} : job'[m] = job[m] /\ feed'[m] = feed[m]
  BY JobType DEF Finish, DownloadTypeOK, Jobs

LEMMA ExhaustJob ==
  ASSUME DownloadTypeOK, NEW n \in Nodes, Exhaust(n)
  PROVE  /\ job[n].phase = "choosing" /\ job[n].todo = {}
         /\ job'[n].phase = "idle" /\ job'[n].todo = {}
         /\ \A m \in Nodes \ {n} : job'[m] = job[m]
  BY JobType DEF Exhaust, DownloadTypeOK, Jobs

LEMMA KillJob ==
  ASSUME DownloadTypeOK, NEW n \in Nodes, Kill(n)
  PROVE  /\ job'[n].phase = "idle" /\ job'[n].todo = {}
         /\ \A m \in Nodes \ {n} : job'[m] = job[m]
  BY DEF Kill, DownloadTypeOK

-----------------------------------------------------------------------------
(* A download fails only when every seeder has. *)

LEMMA TriesStep ==
  DownloadTypeOK /\ TriesInv /\ [DownloadNext]_downloadVars => TriesInv'
<1> SUFFICES ASSUME DownloadTypeOK, TriesInv, [DownloadNext]_downloadVars PROVE TriesInv'
  OBVIOUS
<1> USE DEF WorkersAreOpen, WellAreWell, WellRemain, WellStream, FallbackTriesAll,
            Working, Attached
<1>0. \A m \in Nodes : well[m] \subseteq Nodes
  BY DEF DownloadTypeOK
<1>1. ASSUME NEW n \in Nodes, Announce(n) PROVE TriesInv'
  BY <1>1 DEF Announce, TriesInv
<1>2. ASSUME NEW n \in Nodes, Begin(n) PROVE TriesInv'
  <2>1. /\ outcome'[n] = "none" /\ UNCHANGED <<up, file, feed>>
        /\ \A m \in Nodes \ {n} : outcome'[m] = outcome[m]
    BY <1>2 DEF Begin, DownloadTypeOK
  <2>2. /\ well'[n] \subseteq listed \ {n}
        /\ \A s \in well'[n] : s \in up /\ file[s] = Chunks
        /\ \A m \in Nodes \ {n} : well'[m] = well[m]
    BY <1>2 DEF Begin, DownloadTypeOK
  <2> QED
    BY <1>2, <2>1, <2>2, BeginJob DEF TriesInv
<1>3. ASSUME NEW n \in Nodes, NEW s \in Nodes, Ask(n, s) PROVE TriesInv'
  <2>1. UNCHANGED <<up, file, outcome, well>>
    BY <1>3 DEF Ask
  <2>2. CASE Serves(s)
    BY <1>3, <2>1, <2>2, AskJob DEF TriesInv
  <2>3. CASE ~Serves(s)
    <3>1. s \notin well[n]
      BY <2>3, ConstantsAssumption DEF Serves, TriesInv, Missing
    <3> QED
      BY <1>3, <2>1, <2>3, <3>1, AskJob DEF TriesInv
  <2> QED
    BY <2>2, <2>3
<1>4. ASSUME NEW n \in Nodes, Open(n) PROVE TriesInv'
  <2>1. /\ UNCHANGED <<up, outcome, feed>>
        /\ \A m \in Nodes : well'[m] = well[m] \ {n}
    BY <1>4 DEF Open
  <2> QED
    BY <1>0, <1>4, <2>1, OpenJob DEF TriesInv
<1>5. ASSUME NEW n \in Nodes, Receive(n) PROVE TriesInv'
  <2>1. /\ UNCHANGED <<up, outcome, feed, job, well>>
        /\ \A m \in Nodes \ {n} : file'[m] = file[m]
    BY <1>5 DEF Receive, DownloadTypeOK
  <2>2. file[n] # Chunks
    BY <1>5, JobType, CopyType, ConstantsAssumption DEF Receive, Wanted
  <2>3. \A m \in Nodes : n \notin well[m]
    BY <2>2 DEF TriesInv
  <2> QED
    BY <1>0, <2>1, <2>3 DEF TriesInv
<1>6. ASSUME NEW n \in Nodes, Finish(n) PROVE TriesInv'
  <2>1. UNCHANGED <<up, file, well>>
        /\ outcome'[n] = "ok" /\ \A m \in Nodes \ {n} : outcome'[m] = outcome[m]
    BY <1>6 DEF Finish, DownloadTypeOK
  <2> QED
    BY <1>6, <2>1, FinishJob DEF TriesInv
<1>7. ASSUME NEW n \in Nodes, Dropped(n) PROVE TriesInv'
  <2>1. UNCHANGED <<up, file, outcome, well>> /\ TriesNext(n)
        /\ job[n].phase \in {"told", "streaming"}
    BY <1>7 DEF Dropped, Wanted
  <2>2. job[n].seeder \notin well[n]
    <3>1. SUFFICES ASSUME job[n].seeder \in well[n] PROVE FALSE
      OBVIOUS
    <3>2. ~feed[n].open
      BY <1>7 DEF Dropped
    <3>3. job[n].phase = "streaming" /\ feed[n].sent = Chunks
      BY <2>1, <3>1, <3>2 DEF TriesInv
    <3>4. file[n] = Chunks /\ file[n] < job[n].told
      BY <1>7, <3>3 DEF Dropped, Wanted
    <3> QED
      BY <3>4, JobType, ConstantsAssumption
  <2> QED
    BY <2>1, <2>2, TriesNextJob DEF TriesInv
<1>8. ASSUME NEW n \in Nodes, Cut(n) PROVE TriesInv'
  <2>1. UNCHANGED <<up, file, outcome>> /\ TriesNext(n)
        /\ job[n].phase \in {"told", "streaming"}
        /\ well'[n] = well[n] \ {job[n].seeder} /\ \A m \in Nodes \ {n} : well'[m] = well[m]
    BY <1>8 DEF Cut, Wanted, DownloadTypeOK
  <2> QED
    BY <2>1, TriesNextJob DEF TriesInv
<1>9. ASSUME NEW n \in Nodes, Exhaust(n) PROVE TriesInv'
  <2>1. UNCHANGED <<up, file, well, feed>>
        /\ outcome'[n] = "failed" /\ \A m \in Nodes \ {n} : outcome'[m] = outcome[m]
    BY <1>9 DEF Exhaust, DownloadTypeOK
  <2>2. well[n] = {}
    BY <1>9, ExhaustJob DEF TriesInv
  <2> QED
    BY <1>9, <2>1, <2>2, ExhaustJob DEF TriesInv
<1>10. ASSUME NEW n \in Nodes, Feed(n) PROVE TriesInv'
  <2>1. UNCHANGED <<up, file, outcome, well, job>>
        /\ feed[n].open /\ job[n].phase = "streaming"
        /\ \A m \in Nodes \ {n} : feed'[m] = feed[m]
    BY <1>10 DEF Feed, DownloadTypeOK
  <2>2. job[n].seeder \in well[n] => feed'[n].open \/ feed'[n].sent = Chunks
    <3>1. CASE feed[n].sent < file[job[n].seeder]
      BY <1>10, <2>1, <3>1, StreamType DEF Feed, DownloadTypeOK, Feeds
    <3>2. CASE ~(feed[n].sent < file[job[n].seeder])
      <4>1. feed'[n].sent = feed[n].sent
        BY <1>10, <3>2, StreamType DEF Feed, DownloadTypeOK, Feeds
      <4>2. job[n].seeder \in well[n] => ~(feed[n].sent < Chunks)
        BY <3>2 DEF TriesInv
      <4> QED
        BY <4>1, <4>2, StreamType, ConstantsAssumption
    <3> QED
      BY <3>1, <3>2
  <2> QED
    BY <2>1, <2>2 DEF TriesInv
<1>11. ASSUME NEW n \in Nodes, Kill(n) PROVE TriesInv'
  <2>1. UNCHANGED <<file, outcome>> /\ up' = up \ {n}
        /\ \A m \in Nodes : well'[m] = well[m] \ {n}
    BY <1>11 DEF Kill
  <2>2. \A m \in Nodes \ {n} : job[m].seeder # n => feed'[m] = feed[m]
    BY <1>11 DEF Kill
  <2> QED
    BY <1>0, <1>11, <2>1, <2>2, KillJob DEF TriesInv
<1>12. ASSUME NEW n \in Nodes, Restart(n) PROVE TriesInv'
  BY <1>12 DEF Restart, TriesInv
<1>13. CASE UNCHANGED downloadVars
  BY <1>13 DEF downloadVars, TriesInv
<1> QED
  BY <1>1, <1>2, <1>3, <1>4, <1>5, <1>6, <1>7, <1>8, <1>9, <1>10, <1>11, <1>12, <1>13
  DEF DownloadNext

LEMMA TriesInit == DownloadInit => TriesInv
  BY DEF DownloadInit, TriesInv, WorkersAreOpen, WellAreWell, WellRemain, WellStream,
         FallbackTriesAll, Working, Attached

\* A download does not fail while a seeder it was told of stays up with the whole
\* file and an uncut connection: it asks every one of them, and the stream of
\* such a seeder does not end early (download_file's loop).
THEOREM FallbackIsComplete == DownloadSpec => []FallbackTriesAll
<1>1. TriesInv => FallbackTriesAll
  BY DEF TriesInv
<1> QED
  BY <1>1, TriesInit, TriesStep, DownloadTypeCorrect, PTL DEF DownloadSpec
=============================================================================
