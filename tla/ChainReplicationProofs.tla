----------------------- MODULE ChainReplicationProofs ------------------------
(***************************************************************************)
(* Chain replication, for every ring, every length of the chain and every  *)
(* number of attempts: an acknowledged write is at every link, writes fill *)
(* the chain from the head, and the chain implements a single copy.        *)
(***************************************************************************)
EXTENDS ChainReplication, DataStoreProofs, WellFoundedInduction, SequenceTheorems

-----------------------------------------------------------------------------
(* Paths and links                                                         *)

LEMMA PathType ==
  ASSUME NEW q \in Paths
  PROVE  q \in Seq(Attempts) /\ Len(q) \in 0 .. K
<1>1. PICK i \in 0 .. K : q \in [1 .. i -> Attempts]
  BY DEF Paths
<1> QED
  BY <1>1, BoundsAssumption

LEMMA EmptyPath == <<>> \in Paths /\ Len(<<>>) = 0
<1>1. 0 \in 0 .. K
  BY BoundsAssumption
<1>2. <<>> \in [1 .. 0 -> Attempts]
  OBVIOUS
<1> QED
  BY <1>1, <1>2 DEF Paths

LEMMA LongerPath ==
  ASSUME NEW q \in Paths, Len(q) < K, NEW a \in Attempts
  PROVE  /\ Append(q, a) \in Paths
         /\ Len(Append(q, a)) = Len(q) + 1
         /\ Append(q, a) # <<>>
<1>1. q \in Seq(Attempts) /\ Len(q) \in 0 .. K
  BY PathType
<1>2. Append(q, a) \in Seq(Attempts) /\ Len(Append(q, a)) = Len(q) + 1
  BY <1>1
<1>3. Append(q, a) \in [1 .. Len(q) + 1 -> Attempts]
  BY <1>2, LenProperties
<1>4. Len(q) + 1 \in 0 .. K
  BY <1>1, BoundsAssumption
<1>5. Append(q, a) \in Paths
  BY <1>3, <1>4 DEF Paths
<1>6. Len(Append(q, a)) # Len(<<>>)
  BY <1>1, <1>2, EmptyPath
<1> QED
  BY <1>2, <1>5, <1>6

\* A handler's path is not empty.
LEMMA HandlerPath ==
  ASSUME NEW q \in Paths, q # <<>>
  PROVE  Len(q) \in 1 .. K
<1>1. q \in Seq(Attempts) /\ Len(q) \in 0 .. K
  BY PathType
<1>2. Len(q) # 0
  BY <1>1
<1> QED
  BY <1>1, <1>2

LEMMA LinkType ==
  ASSUME NEW n \in Nodes, NEW i \in 1 .. K
  PROVE  Link[n][i] \in Nodes
  BY LinkAssumption

\* Beyond a link that is its own successor there is only itself.
LEMMA LoneLink ==
  ASSUME NEW n \in Nodes, NEW i \in 1 .. K, Successor[Link[n][i]] = Link[n][i],
         NEW j \in 1 .. K, i <= j
  PROVE  Link[n][j] = Link[n][i]
<1> DEFINE Other == {k \in Nat : i + k \in 1 .. K /\ Link[n][i + k] # Link[n][i]}
<1>1. Other = {}
  <2> SUFFICES ASSUME Other # {} PROVE FALSE
    OBVIOUS
  <2>0. Other \subseteq Nat
    OBVIOUS
  <2> HIDE DEF Other
  <2>1. \E x \in Other : \A y \in Other : ~(<<y, x>> \in OpToRel(<, Nat))
    BY <2>0, WFMin, NatLessThanWellFounded
  <2>2. PICK x \in Other : \A y \in Other : ~(y < x)
    BY <2>0, <2>1 DEF OpToRel
  <2> USE DEF Other
  <2>3. x \in Nat /\ i + x \in 1 .. K /\ Link[n][i + x] # Link[n][i]
    BY <2>2
  <2>4. x # 0
    BY <2>3, i + 0 = i
  <2>5. x - 1 \in Nat /\ i + (x - 1) \in 1 .. K
    BY <2>3, <2>4, BoundsAssumption
  <2>6. Link[n][i + (x - 1)] = Link[n][i]
    BY <2>2, <2>5, x - 1 < x
  <2>7. i + (x - 1) \in 1 .. K - 1 /\ (i + (x - 1)) + 1 = i + x
    BY <2>2, <2>5, BoundsAssumption
  <2>8. Link[n][i + x] = Successor[Link[n][i]]
    BY <2>6, <2>7, LinkAssumption
  <2> QED
    BY <2>2, <2>8
<1>2. j - i \in Nat /\ i + (j - i) = j
  OBVIOUS
<1> QED
  BY <1>1, <1>2

-----------------------------------------------------------------------------
(* The inductive invariant                                                 *)

\* The call of operation o has been made.
Started(o) == Caller(o).phase \notin {"none", "checking", "matched"}

\* p has announced the key at time t.
Told(p, t) ==
  \E o \in Ops : Started(o) /\ op[o].item = [kind |-> "insert", peer |-> p, ts |-> t]

LinkAt(o, i) == Link[op[o].start][i]

\* Clients call the owner; snapshots list nobody who did not announce.
ItemOK(o) ==
  /\ ~IsPush(o) => op[o].start = Owner
  /\ op[o].item.kind = "state" =>
       \A p \in Peers : op[o].item.peers[p] > 0 => Told(p, op[o].item.peers[p])

RecordOK(n) == \A p \in Peers : rec[n].peers[p] > 0 => Told(p, rec[n].peers[p])

Shape(q, h) ==
  /\ h.phase \in {"none", "checking", "matched"} => h.attempt = 0
  /\ h.phase \in {"checking", "matched"} => q = <<>>
  /\ h.phase = "waiting" => h.attempt \in Attempts /\ Len(q) < K
  /\ h.phase # "acked" => h.answer = {}

\* A handler of a write has loaded the data, and when it answers, so has the
\* rest of the chain.
LoadedOK(o, q) ==
  Writes(o) =>
    /\ q # <<>> /\ run[o][q].phase # "none" => o \in held[LinkAt(o, Len(q))]
    /\ run[o][q].phase = "acked" =>
         \A i \in 1 .. K : Len(q) <= i => o \in held[LinkAt(o, i)]

\* A read is answered with what the end of the chain said.
AnswerOK(o, q) ==
  ~Writes(o) /\ run[o][q].phase = "acked" => run[o][q].answer \in Seen(o)

\* The last two conjuncts: a handler implies a call, and the end of a chain
\* never waits.
HandlerOK(o, q) ==
  /\ Shape(q, run[o][q])
  /\ LoadedOK(o, q)
  /\ AnswerOK(o, q)
  /\ q # <<>> /\ run[o][q].phase # "none" => Started(o)
  /\ EndsAt(o, q) => run[o][q].phase \in {"none", "acked"}

Inv ==
  /\ TypeOK
  /\ \A o \in Ops : ItemOK(o)
  /\ \A n \in Nodes : RecordOK(n)
  /\ \A o \in Ops, q \in Paths : HandlerOK(o, q)

-----------------------------------------------------------------------------
(* One caller or handler moves                                             *)

LEMMA Moved ==
  ASSUME TypeOK, NEW o \in Ops, NEW q \in Paths, NEW h \in Handlers, Becomes(o, q, h)
  PROVE  /\ run' \in [Ops -> [Paths -> Handlers]]
         /\ run'[o][q] = h
         /\ \A x \in Ops, y \in Paths : x # o \/ y # q => run'[x][y] = run[x][y]
<1>1. run \in [Ops -> [Paths -> Handlers]] /\ run[o] \in [Paths -> Handlers]
  BY DEF TypeOK
<1>2. run' = [run EXCEPT ![o] = [run[o] EXCEPT ![q] = h]]
  BY DEF Becomes
<1>3. [run[o] EXCEPT ![q] = h] \in [Paths -> Handlers]
  BY <1>1
<1> QED
  BY <1>1, <1>2, <1>3

LEMMA HandlerType ==
  ASSUME NEW phase \in {"none", "checking", "matched", "waiting", "acked", "failed"},
         NEW attempt \in 0 .. MaxRetries, NEW answer \in SUBSET Peers
  PROVE  /\ Handler(phase, attempt, answer) \in Handlers
         /\ Handler(phase, attempt, answer).phase = phase
         /\ Handler(phase, attempt, answer).attempt = attempt
         /\ Handler(phase, attempt, answer).answer = answer
  BY DEF Handler, Handlers

\* What a step of one caller or handler must keep: other operations stay what
\* they are, and so does its own, if its call has been made; nothing is taken
\* out of a node; an answer stands.
Steps(o, q, h) ==
  /\ Becomes(o, q, h)
  /\ \A x \in Ops : x # o \/ Started(o) => op'[x] = op[x]
  /\ \A n \in Nodes : held[n] \subseteq held'[n]
  /\ run[o][q].phase # "acked"
  /\ q = <<>> /\ Started(o) => h.phase \notin {"none", "checking", "matched"}

LEMMA StartedStays ==
  ASSUME TypeOK, NEW o \in Ops, NEW q \in Paths, NEW h \in Handlers, Steps(o, q, h),
         NEW x \in Ops, Started(x)
  PROVE  Started(x)' /\ op'[x] = op[x]
<1>1. op'[x] = op[x]
  BY DEF Steps
<1>2. run'[x][<<>>] = IF x = o /\ q = <<>> THEN h ELSE run[x][<<>>]
  BY Moved, EmptyPath DEF Steps
<1>3. Started(x)'
  BY <1>2 DEF Steps, Started, Caller
<1> QED
  BY <1>1, <1>3

LEMMA ToldStays ==
  ASSUME TypeOK, NEW o \in Ops, NEW q \in Paths, NEW h \in Handlers, Steps(o, q, h),
         NEW p, NEW t, Told(p, t)
  PROVE  Told(p, t)'
<1>1. PICK x \in Ops : Started(x) /\ op[x].item = [kind |-> "insert", peer |-> p, ts |-> t]
  BY DEF Told
<1>2. Started(x)' /\ op'[x] = op[x]
  BY <1>1, StartedStays
<1> QED
  BY <1>1, <1>2 DEF Told

LEMMA SeenStays ==
  ASSUME TypeOK, NEW o \in Ops, NEW q \in Paths, NEW h \in Handlers, Steps(o, q, h),
         NEW x \in Ops, op'[x] = op[x]
  PROVE  Seen(x) \subseteq Seen(x)'
<1> SUFFICES ASSUME ~Writes(x), NEW p \in Paths, EndsAt(x, p), run[x][p].phase = "acked"
             PROVE  run[x][p].answer \in Seen(x)'
  BY DEF Seen, Writes
<1>1. run'[x][p] = run[x][p]
  BY Moved DEF Steps
<1>2. EndsAt(x, p)' /\ ~Writes(x)'
  BY DEF EndsAt, Writes
<1> QED
  BY <1>1, <1>2 DEF Seen

\* No handler of a call that has not been made has begun.
LEMMA NotBegun ==
  ASSUME Inv, NEW o \in Ops, ~Started(o), NEW q \in Paths, q # <<>>
  PROVE  run[o][q].phase = "none"
  BY DEF Inv, HandlerOK

\* Every other caller and handler stays as it should be.
LEMMA OthersStay ==
  ASSUME Inv, TypeOK', NEW o \in Ops, NEW q \in Paths, NEW h \in Handlers,
         Steps(o, q, h),
         NEW x \in Ops, NEW y \in Paths, x # o \/ y # q
  PROVE  HandlerOK(x, y)'
<1>1. TypeOK /\ HandlerOK(x, y)
  BY DEF Inv
<1>2. run'[x][y] = run[x][y]
  BY <1>1, Moved DEF Steps
<1>3. CASE op'[x] = op[x]
  <2>1. Shape(y, run[x][y])'
    BY <1>1, <1>2 DEF HandlerOK, Shape
  <2>2. LoadedOK(x, y)'
    <3>1. \A i \in 1 .. K : LinkAt(x, i)' = LinkAt(x, i) /\ LinkAt(x, i) \in Nodes
      BY <1>1, <1>3, LinkType DEF LinkAt, TypeOK, Operations
    <3>2. \A i \in 1 .. K : x \in held[LinkAt(x, i)] => x \in held'[LinkAt(x, i)]
      BY <3>1 DEF Steps
    <3>3. Writes(x)' = Writes(x)
      BY <1>3 DEF Writes
    <3>4. y # <<>> => Len(y) \in 1 .. K
      BY HandlerPath
    <3> QED
      BY <1>1, <1>2, <3>1, <3>2, <3>3, <3>4 DEF HandlerOK, LoadedOK
  <2>3. AnswerOK(x, y)'
    BY <1>1, <1>2, <1>3, SeenStays DEF HandlerOK, AnswerOK, Writes
  <2>4. y # <<>> /\ run'[x][y].phase # "none" => Started(x)'
    BY <1>1, <1>2, StartedStays DEF HandlerOK
  <2>5. EndsAt(x, y)' => run'[x][y].phase \in {"none", "acked"}
    BY <1>1, <1>2, <1>3 DEF HandlerOK, EndsAt
  <2> QED
    BY <2>1, <2>2, <2>3, <2>4, <2>5 DEF HandlerOK
<1>4. CASE op'[x] # op[x]
  <2>1. x = o /\ ~Started(o)
    BY <1>4 DEF Steps
  <2>2. CASE y # <<>>
    <3>1. run'[x][y].phase = "none"
      BY <1>2, <2>1, <2>2, NotBegun
    <3>2. Shape(y, run[x][y])'
      BY <1>1, <1>2 DEF HandlerOK, Shape
    <3> QED
      BY <3>1, <3>2 DEF HandlerOK, LoadedOK, AnswerOK
  <2>3. CASE y = <<>>
    <3>1. run'[x][y].phase \in {"none", "checking", "matched"}
      BY <1>2, <2>1, <2>3 DEF Started, Caller
    <3>2. Shape(y, run[x][y])'
      BY <1>1, <1>2 DEF HandlerOK, Shape
    <3> QED
      BY <2>3, <3>1, <3>2 DEF HandlerOK, LoadedOK, AnswerOK, EndsAt
  <2> QED
    BY <2>2, <2>3
<1> QED
  BY <1>3, <1>4

\* The step keeps the invariant if what it touches is as it should be.
LEMMA Kept ==
  ASSUME Inv, TypeOK', NEW o \in Ops, NEW q \in Paths, NEW h \in Handlers,
         Steps(o, q, h),
         HandlerOK(o, q)', ItemOK(o)', \A n \in Nodes : RecordOK(n)'
  PROVE  Inv'
<1>1. \A x \in Ops, y \in Paths : HandlerOK(x, y)'
  BY OthersStay
<1>2. ASSUME NEW x \in Ops PROVE ItemOK(x)'
  <2>1. CASE x = o
    BY <2>1
  <2>2. CASE x # o
    <3>1. ItemOK(x) /\ op'[x] = op[x]
      BY <2>2 DEF Inv, Steps
    <3>2. \A p \in Peers : Told(p, op[x].item.peers[p]) => Told(p, op[x].item.peers[p])'
      BY <3>1, ToldStays DEF Inv
    <3> QED
      BY <3>1, <3>2 DEF ItemOK, IsPush, Told
  <2> QED
    BY <2>1, <2>2
<1> QED
  BY <1>1, <1>2 DEF Inv

-----------------------------------------------------------------------------
(* The actions                                                             *)

LEMMA InitOK == Init => Inv
<1> SUFFICES ASSUME Init PROVE Inv
  OBVIOUS
<1>1. Absent \in Records /\ \A p \in Peers : Absent.peers[p] = 0
  BY NoPeersType DEF Absent, Records, NoPeers
<1>2. Idle \in Handlers /\ Idle.phase = "none" /\ Idle.attempt = 0 /\ Idle.answer = {}
  BY BoundsAssumption, 0 \in 0 .. MaxRetries, HandlerType DEF Idle
<1>3. \A o \in Ops, q \in Paths : run[o][q] = Idle
  BY DEF Init
<1>4. \A o \in Ops : op[o] = [item |-> Read, start |-> Owner, before |-> {}]
  BY DEF Init
<1>5. TypeOK
  <2>1. rec \in [Nodes -> Records] /\ held \in [Nodes -> SUBSET Ops]
    BY <1>1 DEF Init
  <2>2. [item |-> Read, start |-> Owner, before |-> {}] \in Operations
    BY LinkAssumption DEF Operations
  <2>3. op \in [Ops -> Operations]
    BY <2>2 DEF Init
  <2>4. run \in [Ops -> [Paths -> Handlers]]
    BY <1>2 DEF Init
  <2> QED
    BY <2>1, <2>3, <2>4 DEF TypeOK
<1>6. \A o \in Ops : ItemOK(o)
  BY <1>4 DEF ItemOK, Read
<1>7. \A n \in Nodes : RecordOK(n)
  BY <1>1 DEF Init, RecordOK
<1>8. ASSUME NEW o \in Ops, NEW q \in Paths PROVE HandlerOK(o, q)
  <2>1. run[o][q] = Idle
    BY <1>3
  <2> QED
    BY <1>2, <2>1 DEF HandlerOK, Shape, LoadedOK, AnswerOK
<1> QED
  BY <1>5, <1>6, <1>7, <1>8 DEF Inv

LEMMA RecordsStay ==
  ASSUME Inv, NEW o \in Ops, NEW q \in Paths, NEW h \in Handlers, Steps(o, q, h),
         NEW n \in Nodes, rec'[n] = rec[n]
  PROVE  RecordOK(n)'
<1>1. RecordOK(n) /\ TypeOK
  BY DEF Inv
<1>2. ASSUME NEW p \in Peers, rec[n].peers[p] > 0
      PROVE  \E x \in Ops : /\ Started(x)'
                            /\ op'[x].item = [kind |-> "insert", peer |-> p, ts |-> rec[n].peers[p]]
  <2>1. PICK x \in Ops :
          Started(x) /\ op[x].item = [kind |-> "insert", peer |-> p, ts |-> rec[n].peers[p]]
    BY <1>1, <1>2 DEF RecordOK, Told
  <2> QED
    BY <1>1, <2>1, StartedStays
<1> QED
  BY <1>2 DEF RecordOK, Told

CallerStates == {Waiting(1), Checking}

LEMMA CallerStateOK ==
  ASSUME NEW c \in CallerStates
  PROVE  /\ c \in Handlers /\ c.phase \in {"waiting", "checking"} /\ Shape(<<>>, c)
         /\ c.phase = "waiting" => c = Waiting(1)
<1>1. 1 \in Attempts /\ 1 \in 0 .. MaxRetries /\ 0 \in 0 .. MaxRetries /\ 0 < K
  BY BoundsAssumption DEF Attempts
<1> QED
  BY <1>1, EmptyPath, HandlerType DEF CallerStates, Waiting, Checking, Shape

IsSnapshot(item) == item.kind \in {"state", "tombstone"}

\* A call begins, with a delta or a read for the owner, or with a snapshot.
LEMMA BeginsOK ==
  ASSUME Inv, NEW o \in Ops, NEW item \in Items \cup {Read}, NEW start \in Nodes,
         NEW c \in CallerStates, Begins(o, item, start, c),
         IsSnapshot(item) \/ start = Owner,
         item.kind = "state" => \A p \in Peers : item.peers[p] > 0 => Told(p, item.peers[p])
  PROVE  Inv' /\ Steps(o, <<>>, c)
<1>1. TypeOK /\ ~Started(o) /\ run[o][<<>>].phase = "none"
  BY DEF Inv, Begins, IsNext, Started, Caller
<1>2. <<>> \in Paths /\ c \in Handlers /\ c.phase \in {"waiting", "checking"} /\ Shape(<<>>, c)
  BY EmptyPath, CallerStateOK
<1>3. rec' = rec /\ held' = held /\ Becomes(o, <<>>, c)
  BY DEF Begins
<1>4. PICK before \in SUBSET Ops :
        op' = [op EXCEPT ![o] = [item |-> item, start |-> start, before |-> before]]
  <2>1. {x \in Ops : Caller(x).phase = "acked"} \in SUBSET Ops /\ {} \in SUBSET Ops
    OBVIOUS
  <2>2. CASE item = Read
    BY <2>1, <2>2 DEF Begins
  <2>3. CASE item # Read
    BY <2>1, <2>3 DEF Begins
  <2> QED
    BY <2>2, <2>3
<1>5. op'[o] = [item |-> item, start |-> start, before |-> before]
      /\ op' \in [Ops -> Operations] /\ \A x \in Ops : x # o => op'[x] = op[x]
  BY <1>1, <1>4 DEF TypeOK, Operations
<1>6. Steps(o, <<>>, c)
  BY <1>1, <1>3, <1>5 DEF Steps
<1>7. TypeOK'
  BY <1>1, <1>2, <1>3, <1>5, Moved DEF TypeOK
<1>8. run'[o][<<>>] = c
  BY <1>1, <1>2, <1>3, Moved
<1>9. HandlerOK(o, <<>>)'
  <2>1. run'[o][<<>>].phase \notin {"none", "acked"}
    BY <1>2, <1>8
  <2>2. Shape(<<>>, run[o][<<>>])'
    BY <1>2, <1>8 DEF Shape
  <2> QED
    BY <2>1, <2>2 DEF HandlerOK, LoadedOK, AnswerOK, EndsAt
<1>10. ItemOK(o)'
  <2>1. item.kind = "state" => \A p \in Peers : item.peers[p] > 0 => Told(p, item.peers[p])'
    BY <1>1, <1>2, <1>6, ToldStays
  <2> QED
    BY <1>5, <2>1 DEF ItemOK, IsPush, Told, IsSnapshot
<1>11. \A n \in Nodes : RecordOK(n)'
  BY <1>2, <1>3, <1>6, RecordsStay
<1> QED
  BY <1>2, <1>6, <1>7, <1>9, <1>10, <1>11, Kept

LEMMA IssueOK ==
  ASSUME Inv, NEW o \in Ops, NEW item \in ClientItems, Issue(o, item)
  PROVE  /\ Inv' /\ Steps(o, <<>>, Waiting(1))
         /\ item \in Items \cup {Read} /\ ~IsSnapshot(item)
<1>1. item \in Items \cup {Read} /\ ~IsSnapshot(item)
  <2>1. CASE item = Read
    BY <2>1 DEF IsSnapshot, Read
  <2>2. CASE item \in [kind : OpKinds, peer : Peers, ts : 1 .. MaxTime]
    <3>1. PICK kind \in OpKinds, p \in Peers, t \in 1 .. MaxTime :
            item = [kind |-> kind, peer |-> p, ts |-> t]
      BY <2>2
    <3>2. kind \in {"insert", "remove"} /\ t \in Nat
      BY OpKindsAssumption, BoundsAssumption
    <3> QED
      BY <3>1, <3>2 DEF IsSnapshot, Items, Deltas
  <2> QED
    BY <2>1, <2>2 DEF ClientItems
<1>2. Waiting(1) \in CallerStates /\ Owner \in Nodes
  BY LinkAssumption DEF CallerStates
<1>3. Begins(o, item, Owner, Waiting(1))
  BY DEF Issue
<1>4. item.kind # "state"
  BY <1>1 DEF IsSnapshot
<1>5. Inv' /\ Steps(o, <<>>, Waiting(1))
  BY <1>1, <1>2, <1>3, <1>4, BeginsOK
<1> QED
  BY <1>1, <1>5

\* A snapshot of the owner lists nobody who did not announce.
LEMMA SnapshotOK ==
  ASSUME Inv
  PROVE  LET item == Export(rec[Owner]) IN
         /\ item \in Items /\ item.kind \in {"state", "tombstone"}
         /\ item.kind = "state" => \A p \in Peers : item.peers[p] > 0 => Told(p, item.peers[p])
<1>1. rec[Owner] \in Records /\ RecordOK(Owner)
  BY LinkAssumption DEF Inv, TypeOK
<1>2. CASE rec[Owner].tomb
  BY <1>1, <1>2 DEF Export, Items, Exports, Records
<1>3. CASE ~rec[Owner].tomb
  <2>1. Export(rec[Owner]) = [kind |-> "state", peers |-> rec[Owner].peers, ts |-> rec[Owner].ts]
    BY <1>3 DEF Export
  <2>2. Export(rec[Owner]) \in Exports
    BY <1>1, <2>1 DEF Exports, Records
  <2> QED
    BY <1>1, <2>1, <2>2 DEF Items, RecordOK
<1> QED
  BY <1>2, <1>3

LEMMA AntiEntropyTickOK ==
  ASSUME Inv, NEW o \in Ops, NEW r \in Backups, AntiEntropyTick(o, r)
  PROVE  Inv' /\ Steps(o, <<>>, Checking)
<1>1. r \in Nodes
  <2>1. ASSUME NEW i \in 2 .. K PROVE Link[Owner][i] \in Nodes
    <3>1. i \in 1 .. K
      BY BoundsAssumption
    <3> QED
      BY <3>1, LinkAssumption, LinkType
  <2> QED
    BY <2>1 DEF Backups
<1>2. Checking \in CallerStates
  BY DEF CallerStates
<1>3. Begins(o, Export(rec[Owner]), r, Checking)
  BY DEF AntiEntropyTick
<1>4. Export(rec[Owner]) \in Items \cup {Read}
  BY SnapshotOK
<1>5. PICK item \in Items : item = Export(rec[Owner])
  BY SnapshotOK
<1>6. IsSnapshot(item)
  BY <1>5, SnapshotOK DEF IsSnapshot
<1>7. item.kind = "state" => \A p \in Peers : item.peers[p] > 0 => Told(p, item.peers[p])
  BY <1>5, SnapshotOK
<1> QED
  BY <1>1, <1>2, <1>3, <1>5, <1>6, <1>7, BeginsOK

LEMMA HealOK ==
  ASSUME Inv, NEW o \in Ops, Heal(o)
  PROVE  Inv' /\ Steps(o, <<>>, Waiting(1))
<1>1. Owner \in Nodes
  BY LinkAssumption
<1>2. Waiting(1) \in CallerStates
  BY DEF CallerStates
<1>3. Begins(o, Export(rec[Owner]), Owner, Waiting(1))
  BY DEF Heal
<1>4. PICK item \in Items : item = Export(rec[Owner])
  BY SnapshotOK
<1>5. item.kind = "state" => \A p \in Peers : item.peers[p] > 0 => Told(p, item.peers[p])
  BY <1>4, SnapshotOK
<1> QED
  BY <1>1, <1>2, <1>3, <1>4, <1>5, BeginsOK

LEMMA RootCheckOK ==
  ASSUME Inv, NEW o \in Ops, RootCheck(o)
  PROVE  /\ Inv' /\ ~Started(o)
         /\ \E h \in Handlers : /\ Steps(o, <<>>, h)
                                /\ h = Handler("matched", 0, {}) \/ h = Waiting(1)
<1>1. TypeOK /\ run[o][<<>>].phase = "checking" /\ ~Started(o) /\ ItemOK(o)
  BY DEF Inv, RootCheck, Started, Caller
<1>2. PICK h : /\ h = Handler("matched", 0, {}) \/ h = Waiting(1)
               /\ Becomes(o, <<>>, h)
  BY DEF RootCheck
<1>3. /\ h \in Handlers /\ h.phase \in {"matched", "waiting"} /\ Shape(<<>>, h)
      /\ h.answer = {}
  <2>1. 0 \in 0 .. MaxRetries /\ 1 \in 0 .. MaxRetries /\ 1 \in Attempts /\ 0 < K
    BY BoundsAssumption DEF Attempts
  <2> QED
    BY <1>2, <2>1, HandlerType, EmptyPath DEF Shape, Waiting
<1>4. UNCHANGED <<rec, held, op>>
  BY DEF RootCheck
<1>5. Steps(o, <<>>, h)
  BY <1>1, <1>2, <1>4 DEF Steps
<1>6. TypeOK' /\ run'[o][<<>>] = h
  BY <1>1, <1>2, <1>3, <1>4, Moved, EmptyPath DEF TypeOK
<1>7. HandlerOK(o, <<>>)'
  <2>1. Shape(<<>>, run[o][<<>>])'
    BY <1>3, <1>6 DEF Shape
  <2> QED
    BY <1>3, <1>6, <2>1 DEF HandlerOK, LoadedOK, AnswerOK, EndsAt
<1>8. ItemOK(o)'
  <2>1. \A p \in Peers : Told(p, op[o].item.peers[p]) => Told(p, op[o].item.peers[p])'
    BY <1>1, <1>3, <1>4, <1>5, ToldStays, EmptyPath
  <2> QED
    BY <1>1, <1>4, <2>1 DEF ItemOK, IsPush, Told
<1>9. \A n \in Nodes : RecordOK(n)'
  BY <1>3, <1>4, <1>5, RecordsStay, EmptyPath
<1> QED
  BY <1>1, <1>2, <1>3, <1>5, <1>6, <1>7, <1>8, <1>9, Kept, EmptyPath

\* A handler that begins was called by one that has, and by a call that was made.
LEMMA ArrivalOK ==
  ASSUME Inv, NEW o \in Ops, NEW q \in Paths, NEW a \in Attempts, Arrives(o, q, a)
  PROVE  /\ Append(q, a) \in Paths /\ Append(q, a) # <<>>
         /\ Len(Append(q, a)) = Len(q) + 1 /\ Len(Append(q, a)) \in 1 .. K
         /\ run[o][Append(q, a)].phase = "none"
         /\ run[o][q].phase # "none" /\ Started(o)
         /\ LinkAt(o, Len(Append(q, a))) \in Nodes
<1>1. Len(q) < K /\ a \in 1 .. run[o][q].attempt /\ run[o][Append(q, a)].phase = "none"
  BY DEF Arrives
<1>2. /\ Append(q, a) \in Paths /\ Append(q, a) # <<>>
      /\ Len(Append(q, a)) = Len(q) + 1
  BY <1>1, LongerPath
<1>3. Len(Append(q, a)) \in 1 .. K
  BY <1>2, HandlerPath
<1>4. HandlerOK(o, q) /\ TypeOK
  BY DEF Inv
<1>5. run[o][q].attempt # 0
  BY <1>1
<1>6. run[o][q].phase \notin {"none", "checking", "matched"}
  BY <1>4, <1>5 DEF HandlerOK, Shape
<1>7. Started(o)
  <2>1. CASE q = <<>>
    BY <1>6, <2>1 DEF Started, Caller
  <2>2. CASE q # <<>>
    BY <1>4, <1>6, <2>2 DEF HandlerOK
  <2> QED
    BY <2>1, <2>2
<1>8. LinkAt(o, Len(Append(q, a))) \in Nodes
  BY <1>3, <1>4, LinkType DEF LinkAt, TypeOK, Operations
<1> QED
  BY <1>1, <1>2, <1>3, <1>6, <1>7, <1>8

LEMMA LinkStateOK ==
  ASSUME NEW answer \in SUBSET Peers
  PROVE  /\ Answered(answer) \in Handlers /\ Answered(answer).phase = "acked"
         /\ Answered(answer).answer = answer
         /\ Waiting(1) \in Handlers /\ Waiting(1).phase = "waiting"
         /\ Waiting(1).attempt = 1 /\ Waiting(1).answer = {} /\ 1 \in Attempts
<1>1. 0 \in 0 .. MaxRetries /\ 1 \in 0 .. MaxRetries /\ 1 \in Attempts
  BY BoundsAssumption DEF Attempts
<1> QED
  BY <1>1, HandlerType DEF Answered, Waiting

\* What a node holds after a load was announced.
LEMMA LoadedRecordOK ==
  ASSUME Inv, NEW o \in Ops, NEW q \in Paths, NEW h \in Handlers, Steps(o, q, h),
         Started(o), Writes(o), NEW n \in Nodes, rec'[n] = BulkLoad(rec[n], op[o].item)
  PROVE  RecordOK(n)' /\ op[o].item \in Items
<1>1. TypeOK /\ RecordOK(n) /\ ItemOK(o) /\ rec[n] \in Records
  BY DEF Inv, TypeOK
<1>2. op[o].item \in Items
  BY <1>1 DEF TypeOK, Operations, Writes, Read
<1>3. ASSUME NEW p \in Peers, rec'[n].peers[p] > 0
      PROVE  \E x \in Ops :
               Started(x) /\ op[x].item = [kind |-> "insert", peer |-> p, ts |-> rec'[n].peers[p]]
  <2>1. CASE rec'[n].peers[p] = rec[n].peers[p]
    BY <1>1, <1>3, <2>1 DEF RecordOK, Told
  <2>2. CASE /\ op[o].item.kind = "insert" /\ op[o].item.peer = p
             /\ rec'[n].peers[p] = op[o].item.ts
    <3>1. op[o].item = [kind |-> "insert", peer |-> p, ts |-> op[o].item.ts]
      BY <1>2, <2>2 DEF Items, Deltas, Exports
    <3> QED
      BY <2>2, <3>1
  <2>3. CASE op[o].item.kind = "state" /\ rec'[n].peers[p] = op[o].item.peers[p]
    BY <1>1, <1>3, <2>3 DEF ItemOK, Told
  <2> QED
    BY <1>1, <1>2, <1>3, <2>1, <2>2, <2>3, BulkLoadPeers
<1>4. \A x \in Ops : Started(x) => Started(x)' /\ op'[x] = op[x]
  BY <1>1, StartedStays
<1> QED
  BY <1>2, <1>3, <1>4 DEF RecordOK, Told

LEMMA LinkLoadsOK ==
  ASSUME Inv, NEW o \in Ops, NEW q \in Paths, NEW a \in Attempts, LinkLoads(o, q, a)
  PROVE  Inv'
<1> DEFINE p == Append(q, a)
<1>0. PICK n \in Nodes : n = LinkAt(o, Len(p))
  BY ArrivalOK DEF LinkLoads
<1> DEFINE h == IF Ends(n, Len(p)) THEN Answered({}) ELSE Waiting(1)
<1>1. /\ Arrives(o, q, a) /\ Writes(o)
      /\ rec' = [rec EXCEPT ![n] = BulkLoad(rec[n], op[o].item)]
      /\ held' = [held EXCEPT ![n] = held[n] \cup {o}]
      /\ Becomes(o, p, h) /\ op' = op
  BY <1>0 DEF LinkLoads, LinkAt
<1>2. /\ p \in Paths /\ p # <<>> /\ Len(p) \in 1 .. K
      /\ run[o][p].phase = "none" /\ Started(o)
  BY <1>1, ArrivalOK
<1>3. /\ h \in Handlers /\ h.phase = (IF Ends(n, Len(p)) THEN "acked" ELSE "waiting")
      /\ h.phase = "waiting" => h.attempt \in Attempts
      /\ h.phase = "waiting" => h.answer = {}
  BY LinkStateOK
<1>4. TypeOK /\ held \in [Nodes -> SUBSET Ops] /\ rec \in [Nodes -> Records]
  BY DEF Inv, TypeOK
<1>5. held' \in [Nodes -> SUBSET Ops] /\ o \in held'[n]
      /\ \A m \in Nodes : held[m] \subseteq held'[m]
  BY <1>1, <1>2, <1>4
<1> HIDE DEF h, p
<1>6. Steps(o, p, h)
  BY <1>1, <1>2, <1>5 DEF Steps
<1>7. run' \in [Ops -> [Paths -> Handlers]] /\ run'[o][p] = h
  BY <1>1, <1>2, <1>3, <1>4, Moved
<1>8. RecordOK(n)' /\ op[o].item \in Items
  <2>1. rec'[n] = BulkLoad(rec[n], op[o].item)
    BY <1>1, <1>2, <1>4
  <2> QED
    BY <1>1, <1>2, <1>3, <1>6, <2>1, LoadedRecordOK
<1>9. rec' \in [Nodes -> Records]
  BY <1>1, <1>2, <1>4, <1>8, BulkLoadType
<1>10. TypeOK'
  BY <1>1, <1>4, <1>5, <1>7, <1>9 DEF TypeOK
<1>11. \A m \in Nodes : RecordOK(m)'
  <2> SUFFICES ASSUME NEW m \in Nodes, m # n PROVE RecordOK(m)'
    BY <1>8
  <2>1. rec'[m] = rec[m]
    BY <1>1, <1>4
  <2> QED
    BY <1>2, <1>3, <1>6, <2>1, RecordsStay
<1>12. LoadedOK(o, p)'
  <2>1. ASSUME Ends(n, Len(p)), NEW i \in 1 .. K, Len(p) <= i
        PROVE  LinkAt(o, i) = n
    <3>1. CASE i = Len(p)
      BY <1>0, <3>1
    <3>2. CASE Successor[n] = n
      <4>1. op[o].start \in Nodes
        BY <1>4 DEF TypeOK, Operations
      <4> QED
        BY <1>0, <1>2, <2>1, <3>2, <4>1, LoneLink DEF LinkAt
    <3> QED
      BY <1>2, <2>1, <3>1, <3>2, BoundsAssumption DEF Ends
  <2>2. \A i \in 1 .. K : LinkAt(o, i)' = LinkAt(o, i)
    BY <1>1 DEF LinkAt
  <2>3. LinkAt(o, Len(p)) = n
    BY <1>0
  <2> QED
    BY <1>2, <1>3, <1>5, <1>7, <2>1, <2>2, <2>3 DEF LoadedOK
<1>13. HandlerOK(o, p)'
  <2>1. h.phase = "waiting" => Len(p) < K
    BY <1>2, <1>3, BoundsAssumption DEF Ends
  <2>2. Shape(p, run[o][p])'
    BY <1>3, <1>7, <2>1 DEF Shape
  <2>3. AnswerOK(o, p)'
    BY <1>1 DEF AnswerOK, Writes
  <2>4. Started(o)'
    BY <1>2, <1>3, <1>4, <1>6, StartedStays
  <2>5. EndsAt(o, p)' => h.phase = "acked"
    BY <1>0, <1>1, <1>3 DEF EndsAt, LinkAt
  <2> QED
    BY <1>7, <1>12, <2>2, <2>3, <2>4, <2>5 DEF HandlerOK
<1>14. ItemOK(o)'
  <2>1. ItemOK(o) /\ op'[o] = op[o]
    BY <1>1 DEF Inv
  <2>2. \A x \in Ops : Started(x) => Started(x)' /\ op'[x] = op[x]
    BY <1>2, <1>3, <1>4, <1>6, StartedStays
  <2> QED
    BY <2>1, <2>2 DEF ItemOK, IsPush, Told
<1> QED
  BY <1>2, <1>3, <1>6, <1>10, <1>11, <1>13, <1>14, Kept

\* A step that changes neither records nor operations keeps the invariant if the
\* one caller or handler it moves is as it should be.
LEMMA OnlyRunMoves ==
  ASSUME Inv, NEW o \in Ops, NEW q \in Paths, NEW h \in Handlers,
         Becomes(o, q, h), UNCHANGED <<rec, held, op>>,
         run[o][q].phase # "acked", Started(o),
         h.phase \notin {"none", "checking", "matched"},
         Shape(q, h), LoadedOK(o, q)', AnswerOK(o, q)',
         EndsAt(o, q) => h.phase = "acked"
  PROVE  Inv'
<1>1. TypeOK /\ ItemOK(o)
  BY DEF Inv
<1>2. Steps(o, q, h)
  BY DEF Steps
<1>3. run' \in [Ops -> [Paths -> Handlers]] /\ run'[o][q] = h
  BY <1>1, Moved
<1>4. TypeOK'
  BY <1>1, <1>3 DEF TypeOK
<1>5. \A n \in Nodes : RecordOK(n)'
  BY <1>2, RecordsStay
<1>6. ItemOK(o)'
  <2>1. \A x \in Ops : Started(x) => Started(x)' /\ op'[x] = op[x]
    BY <1>1, <1>2, StartedStays
  <2> QED
    BY <1>1, <2>1 DEF ItemOK, IsPush, Told
<1>7. HandlerOK(o, q)'
  <2>1. Shape(q, run[o][q])'
    BY <1>3 DEF Shape
  <2>2. Started(o)'
    BY <1>1, <1>2, StartedStays
  <2>3. EndsAt(o, q)' => h.phase = "acked"
    BY DEF EndsAt
  <2> QED
    BY <1>3, <2>1, <2>2, <2>3 DEF HandlerOK
<1> QED
  BY <1>2, <1>4, <1>5, <1>6, <1>7, Kept

LEMMA LinkReadsOK ==
  ASSUME Inv, NEW o \in Ops, NEW q \in Paths, NEW a \in Attempts, LinkReads(o, q, a)
  PROVE  Inv'
<1> DEFINE p == Append(q, a)
<1>0. PICK n \in Nodes : n = LinkAt(o, Len(p))
  BY ArrivalOK DEF LinkReads
<1>1. PICK answer \in SUBSET Peers : answer = Query(rec[n])
  BY DEF Query
<1> DEFINE h == IF Ends(n, Len(p)) THEN Answered(answer) ELSE Waiting(1)
<1>2. /\ Arrives(o, q, a) /\ ~Writes(o)
      /\ Becomes(o, p, h) /\ UNCHANGED <<rec, held, op>>
  BY <1>0, <1>1 DEF LinkReads, LinkAt
<1>3. /\ p \in Paths /\ p # <<>> /\ Len(p) \in 1 .. K
      /\ run[o][p].phase = "none" /\ Started(o)
  BY <1>2, ArrivalOK
<1>4. /\ h \in Handlers /\ h.phase = (IF Ends(n, Len(p)) THEN "acked" ELSE "waiting")
      /\ h.phase = "waiting" => h.attempt \in Attempts
      /\ h.phase = "waiting" => h.answer = {}
  BY LinkStateOK
<1> HIDE DEF h, p
<1>5. run'[o][p] = h
  BY <1>2, <1>3, <1>4, Moved DEF Inv
<1>6. EndsAt(o, p) <=> Ends(n, Len(p))
  BY <1>0, <1>3 DEF EndsAt, LinkAt
<1>7. Shape(p, h)
  <2>1. h.phase = "waiting" => Len(p) < K
    BY <1>3, <1>4, BoundsAssumption DEF Ends
  <2> QED
    BY <1>4, <2>1 DEF Shape
<1>8. AnswerOK(o, p)'
  <2>1. EndsAt(o, p)' = EndsAt(o, p) /\ ~Writes(o)'
    BY <1>2 DEF EndsAt, Writes
  <2> QED
    BY <1>3, <1>4, <1>5, <1>6, <2>1 DEF AnswerOK, Seen
<1>9. LoadedOK(o, p)'
  BY <1>2 DEF LoadedOK, Writes
<1>10. EndsAt(o, p) => h.phase = "acked"
  BY <1>4, <1>6
<1>11. run[o][p].phase # "acked" /\ h.phase \notin {"none", "checking", "matched"}
  BY <1>3, <1>4
<1> QED
  BY <1>2, <1>3, <1>4, <1>7, <1>8, <1>9, <1>10, <1>11, OnlyRunMoves

\* A caller that waits has made its call, and waits for the next link.
LEMMA WaitingOK ==
  ASSUME Inv, NEW o \in Ops, NEW q \in Paths, run[o][q].phase = "waiting"
  PROVE  /\ Started(o) /\ Len(q) < K /\ ~EndsAt(o, q) /\ run[o][q].answer = {}
         /\ run[o][q].attempt \in Attempts
         /\ Append(q, run[o][q].attempt) \in Paths /\ Append(q, run[o][q].attempt) # <<>>
         /\ Len(Append(q, run[o][q].attempt)) = Len(q) + 1
<1>1. HandlerOK(o, q)
  BY DEF Inv
<1>2. Len(q) < K /\ run[o][q].attempt \in Attempts /\ run[o][q].answer = {}
  BY <1>1 DEF HandlerOK, Shape
<1>3. ~EndsAt(o, q)
  BY <1>1 DEF HandlerOK
<1>4. Started(o)
  <2>1. CASE q = <<>>
    BY <2>1 DEF Started, Caller
  <2>2. CASE q # <<>>
    BY <1>1, <2>2 DEF HandlerOK
  <2> QED
    BY <2>1, <2>2
<1> QED
  BY <1>2, <1>3, <1>4, LongerPath

LEMMA HearsOK ==
  ASSUME Inv, NEW o \in Ops, NEW q \in Paths, Hears(o, q)
  PROVE  Inv'
<1>1. PICK a \in Attempts : a = run[o][q].attempt
  BY WaitingOK DEF Hears
<1> DEFINE p == Append(q, a)
<1>2. /\ run[o][q].phase = "waiting" /\ Len(q) < K
      /\ run[o][p].phase \in {"acked", "failed"}
      /\ Becomes(o, q, Handler(run[o][p].phase, a, run[o][p].answer))
      /\ UNCHANGED <<rec, held, op>>
  BY <1>1 DEF Hears
<1>3. /\ Started(o) /\ ~EndsAt(o, q) /\ p \in Paths /\ p # <<>> /\ Len(p) = Len(q) + 1
  BY <1>1, <1>2, WaitingOK
<1>4. HandlerOK(o, p) /\ HandlerOK(o, q) /\ TypeOK
  BY <1>3 DEF Inv
<1>5. PICK reply \in Handlers : reply = run[o][p]
  BY <1>3, <1>4 DEF TypeOK
<1> DEFINE h == Handler(reply.phase, a, reply.answer)
<1>6. h \in Handlers /\ h.phase = reply.phase /\ h.answer = reply.answer
  <2>1. a \in 0 .. MaxRetries
    BY BoundsAssumption DEF Attempts
  <2> QED
    BY <1>5, <2>1, HandlerType DEF Handlers
<1> HIDE DEF h
<1>7. Becomes(o, q, h)
  BY <1>2, <1>5 DEF h
<1>8. run'[o][q] = h
  BY <1>4, <1>6, <1>7, Moved
<1>9. h.phase \in {"acked", "failed"}
  BY <1>2, <1>5, <1>6
<1>10. Shape(q, h)
  BY <1>4, <1>5, <1>6, <1>9 DEF HandlerOK, Shape
<1>11. AnswerOK(o, q)'
  <2>1. Steps(o, q, h)
    BY <1>2, <1>7, <1>9 DEF Steps
  <2>2. Seen(o) \subseteq Seen(o)'
    BY <1>2, <1>4, <1>6, <2>1, SeenStays
  <2> QED
    BY <1>2, <1>4, <1>5, <1>6, <1>8, <2>2 DEF HandlerOK, AnswerOK, Writes
<1>12. LoadedOK(o, q)'
  <2> SUFFICES ASSUME Writes(o) PROVE LoadedOK(o, q)'
    BY <1>2 DEF LoadedOK, Writes
  <2>1. \A i \in 1 .. K : LinkAt(o, i)' = LinkAt(o, i)
    BY <1>2 DEF LinkAt
  <2>2. q # <<>> => o \in held[LinkAt(o, Len(q))] /\ Len(q) \in 1 .. K
    BY <1>2, <1>4, HandlerPath DEF HandlerOK, LoadedOK
  <2>3. reply.phase = "acked" => \A i \in 1 .. K : Len(q) + 1 <= i => o \in held[LinkAt(o, i)]
    BY <1>3, <1>4, <1>5 DEF HandlerOK, LoadedOK
  <2>4. reply.phase = "acked" => \A i \in 1 .. K : Len(q) <= i => o \in held[LinkAt(o, i)]
    <3> SUFFICES ASSUME reply.phase = "acked", NEW i \in 1 .. K, Len(q) <= i
                 PROVE  o \in held[LinkAt(o, i)]
      OBVIOUS
    <3>1. Len(q) \in 0 .. K
      BY PathType
    <3>2. CASE i = Len(q)
      <4>1. q # <<>>
        BY <3>2, EmptyPath
      <4> QED
        BY <2>2, <3>2, <4>1
    <3>3. CASE i # Len(q)
      BY <2>3, <3>1, <3>3, BoundsAssumption
    <3> QED
      BY <3>2, <3>3
  <2> QED
    BY <1>2, <1>6, <1>8, <2>1, <2>2, <2>4 DEF LoadedOK
<1> QED
  BY <1>2, <1>3, <1>6, <1>7, <1>9, <1>10, <1>11, <1>12, OnlyRunMoves

LEMMA TimesOutOK ==
  ASSUME Inv, NEW o \in Ops, NEW q \in Paths, TimesOut(o, q)
  PROVE  /\ Inv' /\ UNCHANGED <<rec, held, op>>
         /\ \E h \in Handlers : /\ Becomes(o, q, h) /\ h.answer = {}
                                /\ h.phase \in {"waiting", "failed"}
<1>1. PICK a \in Attempts : a = run[o][q].attempt
  BY WaitingOK DEF TimesOut
<1>2. PICK h : /\ \/ a < MaxRetries /\ h = Waiting(a + 1)
                  \/ h = Handler("failed", a, {})
               /\ Becomes(o, q, h)
  BY <1>1 DEF TimesOut
<1>3. UNCHANGED <<rec, held, op>> /\ run[o][q].phase = "waiting"
  BY DEF TimesOut
<1>4. Started(o) /\ ~EndsAt(o, q) /\ Len(q) < K
  BY <1>3, WaitingOK
<1>5. h \in Handlers /\ h.answer = {} /\ h.phase \in {"waiting", "failed"} /\ Shape(q, h)
  <2>1. a \in 0 .. MaxRetries
    BY BoundsAssumption DEF Attempts
  <2>2. CASE a < MaxRetries /\ h = Waiting(a + 1)
    <3>1. a + 1 \in 0 .. MaxRetries /\ a + 1 \in Attempts
      BY <2>2, BoundsAssumption DEF Attempts
    <3> QED
      BY <1>4, <2>2, <3>1, HandlerType DEF Waiting, Shape
  <2>3. CASE h = Handler("failed", a, {})
    BY <2>1, <2>3, HandlerType DEF Shape
  <2> QED
    BY <1>2, <2>2, <2>3
<1>6. run'[o][q] = h
  BY <1>2, <1>5, Moved DEF Inv
<1>7. AnswerOK(o, q)'
  BY <1>5, <1>6 DEF AnswerOK
<1>8. LoadedOK(o, q)'
  <2>1. HandlerOK(o, q)
    BY DEF Inv
  <2>2. Writes(o)' = Writes(o) /\ LinkAt(o, Len(q))' = LinkAt(o, Len(q))
    BY <1>3 DEF Writes, LinkAt
  <2> QED
    BY <1>3, <1>5, <1>6, <2>1, <2>2 DEF LoadedOK, HandlerOK
<1>9. Inv'
  BY <1>2, <1>3, <1>4, <1>5, <1>7, <1>8, OnlyRunMoves
<1> QED
  BY <1>2, <1>3, <1>5, <1>9

LEMMA NothingMoves ==
  ASSUME Inv, UNCHANGED <<rec, held, op, run>>
  PROVE  Inv'
<1>1. \A o \in Ops : Started(o)' = Started(o)
  BY DEF Started, Caller
<1>2. TypeOK'
  BY DEF Inv, TypeOK
<1>3. ASSUME NEW o \in Ops PROVE ItemOK(o)'
  BY <1>1 DEF Inv, ItemOK, IsPush, Told
<1>4. ASSUME NEW n \in Nodes PROVE RecordOK(n)'
  BY <1>1 DEF Inv, RecordOK, Told
<1>5. ASSUME NEW o \in Ops, NEW q \in Paths PROVE HandlerOK(o, q)'
  <2>1. HandlerOK(o, q)
    BY DEF Inv
  <2>2. Shape(q, run[o][q])'
    BY <2>1 DEF HandlerOK, Shape
  <2>3. LoadedOK(o, q)'
    BY <2>1 DEF HandlerOK, LoadedOK, LinkAt, Writes
  <2>4. AnswerOK(o, q)'
    BY <2>1 DEF HandlerOK, AnswerOK, Seen, EndsAt, Writes
  <2>5. EndsAt(o, q)' = EndsAt(o, q)
    BY DEF EndsAt
  <2> QED
    BY <1>1, <2>1, <2>2, <2>3, <2>4, <2>5 DEF HandlerOK
<1> QED
  BY <1>2, <1>3, <1>4, <1>5 DEF Inv

LEMMA StepOK == Inv /\ [Next]_vars => Inv'
<1> SUFFICES ASSUME Inv, [Next]_vars PROVE Inv'
  OBVIOUS
<1>1. CASE UNCHANGED vars
  BY <1>1, NothingMoves DEF vars
<1>2. ASSUME NEW o \in Ops, NEW item \in ClientItems, Issue(o, item)
      PROVE  Inv'
  BY <1>2, IssueOK
<1>3. ASSUME NEW o \in Ops, NEW r \in Backups, AntiEntropyTick(o, r)
      PROVE  Inv'
  BY <1>3, AntiEntropyTickOK
<1>4. ASSUME NEW o \in Ops, NEW q \in Paths, NEW a \in Attempts,
             LinkLoads(o, q, a) \/ LinkReads(o, q, a)
      PROVE  Inv'
  BY <1>4, LinkLoadsOK, LinkReadsOK
<1>5. ASSUME NEW o \in Ops, NEW q \in Paths, Hears(o, q) \/ TimesOut(o, q)
      PROVE  Inv'
  BY <1>5, HearsOK, TimesOutOK
<1> QED
  BY <1>1, <1>2, <1>3, <1>4, <1>5, RootCheckOK, HealOK DEF Next

LEMMA Invariance == Spec => []Inv
  BY InitOK, StepOK, PTL DEF Spec

-----------------------------------------------------------------------------
(* What follows                                                            *)

\* All variables keep their types, whatever is repeated, lost and pushed.
THEOREM TypeCorrect == Spec => []TypeOK
<1>1. Inv => TypeOK
  BY DEF Inv
<1> QED
  BY <1>1, Invariance, PTL

\* An answer to a client went through every handler of its chain.
LEMMA AckedLoaded == Inv => AckedByWholeChain
<1> SUFFICES ASSUME Inv, NEW o \in ClientWrites, Caller(o).phase = "acked",
                    NEW i \in 1 .. K
             PROVE  o \in held[Chain[i]]
  BY DEF AckedByWholeChain
<1>1. o \in Ops /\ Writes(o) /\ ~IsPush(o)
  BY DEF ClientWrites
<1>2. HandlerOK(o, <<>>) /\ ItemOK(o)
  BY <1>1, EmptyPath DEF Inv
<1>3. o \in held[LinkAt(o, i)]
  BY <1>1, <1>2, EmptyPath DEF HandlerOK, LoadedOK, Caller
<1>4. Chain[i] = LinkAt(o, i)
  BY <1>1, <1>2 DEF Chain, LinkAt, ItemOK
<1> QED
  BY <1>3, <1>4

\* "Returns ACK only when Tail commits": every link has loaded a write that was
\* acknowledged, on every ring and for every K.
THEOREM AcknowledgedByChain == Spec => []AckedByWholeChain
  BY AckedLoaded, Invariance, PTL

-----------------------------------------------------------------------------
(* The chain implements a single copy                                      *)

\* What the step of one caller or handler changes of the single copy's calls
\* and answers: those of its own operation, and nothing if it is not the
\* caller, or not the end of a chain.
LEMMA OthersUnseen ==
  ASSUME Inv, NEW o \in Ops, NEW q \in Paths, NEW h \in Handlers, Becomes(o, q, h),
         NEW x \in Ops, op'[x] = op[x]
  PROVE  /\ x # o \/ q # <<>> => Known(x)' = Known(x)
         /\ x # o \/ Writes(x) \/ ~EndsAt(x, q) => Seen(x)' = Seen(x)
<1>1. TypeOK
  BY DEF Inv
<1>2. \A y \in Paths : x # o \/ y # q => run'[x][y] = run[x][y]
  BY <1>1, Moved
<1>3. x # o \/ q # <<>> => Known(x)' = Known(x)
  BY <1>2, EmptyPath DEF Known, Caller
<1>4. \A y \in Paths : EndsAt(x, y)' = EndsAt(x, y)
  BY DEF EndsAt
<1>5. Writes(x)' = Writes(x)
  BY DEF Writes
<1>6. CASE Writes(x)
  BY <1>3, <1>5, <1>6 DEF Seen
<1>7. CASE ~Writes(x) /\ (x # o \/ ~EndsAt(x, q))
  <2>1. {y \in Paths : EndsAt(x, y) /\ run[x][y].phase = "acked"}
        = {y \in Paths : EndsAt(x, y)' /\ run'[x][y].phase = "acked"}
    BY <1>2, <1>4, <1>7
  <2>2. \A y \in Paths : EndsAt(x, y) => run'[x][y] = run[x][y]
    BY <1>2, <1>7
  <2>3. Seen(x)' = Seen(x)
    BY <1>4, <1>5, <1>7, <2>2 DEF Seen
  <2> QED
    BY <1>3, <2>3
<1> QED
  BY <1>3, <1>6, <1>7

LEMMA LastLinkType == LastLink \in Nodes /\ \A i \in 1 .. K : Chain[i] = Link[Owner][i]
<1>1. K \in 1 .. K
  BY BoundsAssumption
<1> QED
  BY <1>1, LinkAssumption, LinkType DEF LastLink, Chain

\* Nothing that the single copy knows of has changed.
LEMMA StutterOK ==
  ASSUME rec'[LastLink] = rec[LastLink], held'[LastLink] = held[LastLink],
         \A x \in Ops : Known(x)' = Known(x) /\ Seen(x)' = Seen(x)
  PROVE  UNCHANGED Copy!vars
  BY DEF Copy!vars, LastLink, Chain

LEMMA ToldIsAnnounced ==
  ASSUME NEW p, NEW t, Told(p, t)
  PROVE  Copy!Announced(p, t)
<1>1. PICK x \in Ops : Started(x) /\ op[x].item = [kind |-> "insert", peer |-> p, ts |-> t]
  BY DEF Told
<1>2. Known(x).phase # "none" /\ Known(x).item = op[x].item
  BY <1>1 DEF Known, Started
<1> QED
  BY <1>1, <1>2 DEF Copy!Announced

\* A call is made.
LEMMA InvokeOK ==
  ASSUME Inv, NEW o \in Ops, NEW item \in Items \cup {Read}, ~Started(o),
         Known(o)' = [phase |-> "waiting", item |-> item, answer |-> {}],
         \A x \in Ops : x # o => Known(x)' = Known(x),
         \A x \in Ops : Seen(x)' = Seen(x), UNCHANGED <<rec, held>>,
         item.kind = "state" => \A p \in Peers : item.peers[p] > 0 => Told(p, item.peers[p])
  PROVE  Copy!Next
<1>1. Known(o).phase = "none"
  BY DEF Known, Started
<1>2. item.kind = "state" =>
        \A p \in Peers : item.peers[p] > 0 => Copy!Announced(p, item.peers[p])
  BY ToldIsAnnounced
<1>3. Copy!Items = Items /\ Copy!Read = Read
  BY DEF Copy!Items, Copy!Deltas, Copy!Exports, Items, Deltas, Exports, Copy!Read, Read
<1> DEFINE call == [x \in Ops |-> Known(x)]
<1>4. call[o].phase = "none" /\ call'[o].item = item
  BY <1>1
<1>5. call' = [call EXCEPT ![o] = [phase |-> "waiting", item |-> item, answer |-> {}]]
  OBVIOUS
<1>6. UNCHANGED <<rec[LastLink], held[LastLink], [x \in Ops |-> Seen(x)]>>
  BY DEF LastLink, Chain
<1>7. Copy!Invoke(o)
  BY <1>2, <1>3, <1>4, <1>5, <1>6 DEF Copy!Invoke
<1> QED
  BY <1>7 DEF Copy!Next

\* A client's call, or a node's, begins; a root check comes before the call.
LEMMA BeginsImplements ==
  ASSUME Inv, NEW o \in Ops, NEW item \in Items \cup {Read}, NEW start \in Nodes,
         NEW c \in CallerStates, Begins(o, item, start, c),
         item.kind = "state" => \A p \in Peers : item.peers[p] > 0 => Told(p, item.peers[p])
  PROVE  IF c = Waiting(1) THEN Copy!Next ELSE UNCHANGED Copy!vars
<1>1. TypeOK /\ ~Started(o) /\ run[o][<<>>].phase = "none"
  BY DEF Inv, Begins, IsNext, Started, Caller
<1>2. <<>> \in Paths /\ c \in Handlers /\ c.phase \in {"waiting", "checking"}
      /\ (c.phase = "waiting" => c = Waiting(1))
  BY EmptyPath, CallerStateOK
<1>3. rec' = rec /\ held' = held /\ Becomes(o, <<>>, c)
  BY DEF Begins
<1>4. op'[o].item = item /\ \A x \in Ops : x # o => op'[x] = op[x]
  BY <1>1 DEF Begins, TypeOK, Operations
<1>5. /\ run'[o][<<>>] = c
      /\ \A q \in Paths : q # <<>> => run'[o][q].phase = "none" /\ run[o][q].phase = "none"
  BY <1>1, <1>2, <1>3, Moved, NotBegun
<1>6. \A x \in Ops : x # o => Known(x)' = Known(x) /\ Seen(x)' = Seen(x)
  BY <1>2, <1>3, <1>4, OthersUnseen
<1>7. Seen(o) = {} /\ Seen(o)' = {}
  BY <1>5 DEF Seen, EndsAt
<1>8. CASE c.phase = "waiting"
  <2>1. c.answer = {} /\ c = Waiting(1)
    BY <1>2, <1>8, LinkStateOK
  <2>2. Known(o)' = [phase |-> "waiting", item |-> item, answer |-> {}]
    BY <1>4, <1>5, <1>8, <2>1 DEF Known, Caller
  <2> QED
    BY <1>1, <1>3, <1>6, <1>7, <2>1, <2>2, InvokeOK
<1>9. CASE c.phase = "checking"
  <2>1. c # Waiting(1)
    BY <1>9, LinkStateOK
  <2>2. Known(o)' = Known(o)
    BY <1>1, <1>5, <1>9 DEF Known, Caller
  <2> QED
    BY <1>3, <1>6, <1>7, <2>1, <2>2, StutterOK
<1> QED
  BY <1>2, <1>8, <1>9

LEMMA RootCheckImplements ==
  ASSUME Inv, NEW o \in Ops, RootCheck(o)
  PROVE  Copy!Next \/ UNCHANGED Copy!vars
<1>1. /\ TypeOK /\ run[o][<<>>].phase = "checking" /\ ~Started(o)
      /\ ItemOK(o) /\ op[o].item \in Items \cup {Read}
  BY DEF Inv, RootCheck, Started, Caller, TypeOK, Operations
<1>2. PICK h \in Handlers : /\ Steps(o, <<>>, h)
                            /\ h = Handler("matched", 0, {}) \/ h = Waiting(1)
  BY RootCheckOK
<1>3. UNCHANGED <<rec, held, op>> /\ Becomes(o, <<>>, h)
  BY <1>2 DEF RootCheck, Steps
<1>4. run'[o][<<>>] = h
  BY <1>1, <1>3, Moved, EmptyPath
<1>5. \A x \in Ops : /\ x # o => Known(x)' = Known(x)
                     /\ Seen(x)' = Seen(x)
  BY <1>3, OthersUnseen, EmptyPath DEF EndsAt
<1>6. CASE h = Waiting(1)
  <2>1. h.phase = "waiting" /\ h.answer = {}
    BY <1>6, LinkStateOK
  <2>2. Known(o)' = [phase |-> "waiting", item |-> op[o].item, answer |-> {}]
    BY <1>3, <1>4, <2>1 DEF Known, Caller
  <2>3. PICK item \in Items \cup {Read} : item = op[o].item
    BY <1>1
  <2>4. item.kind = "state" => \A p \in Peers : item.peers[p] > 0 => Told(p, item.peers[p])
    BY <1>1, <2>3 DEF ItemOK
  <2> QED
    BY <1>1, <1>3, <1>5, <2>2, <2>3, <2>4, InvokeOK
<1>7. CASE h = Handler("matched", 0, {})
  <2>1. h.phase = "matched"
    BY <1>7 DEF Handler
  <2>2. Known(o)' = Known(o)
    BY <1>1, <1>4, <2>1 DEF Known, Caller
  <2> QED
    BY <1>3, <1>5, <2>2, StutterOK
<1> QED
  BY <1>2, <1>6, <1>7

\* The single copy loads as the data store does.
LEMMA SameLoads == \A r, item : Copy!BulkLoad(r, item) = BulkLoad(r, item)
<1>1. Copy!NoPeers = NoPeers /\ Copy!Absent = Absent
  BY DEF Copy!NoPeers, NoPeers, Copy!Absent, Absent
<1>2. \A s, t : Copy!Later(s, t) = Later(s, t)
  BY DEF Copy!Later, Later
<1>3. \A r, p, t : Copy!Insert(r, p, t) = Insert(r, p, t)
  BY <1>1, <1>2 DEF Copy!Insert, Insert
<1>4. \A r, p, t : Copy!RemoveValue(r, p, t) = RemoveValue(r, p, t)
  BY <1>1, <1>2 DEF Copy!RemoveValue, RemoveValue
<1>5. \A r, t : Copy!TombstoneEntireKey(r, t) = TombstoneEntireKey(r, t)
  BY <1>1 DEF Copy!TombstoneEntireKey, TombstoneEntireKey
<1>6. \A r, list, t : Copy!OverwriteState(r, list, t) = OverwriteState(r, list, t)
  BY DEF Copy!OverwriteState, OverwriteState
<1> QED
  BY <1>3, <1>4, <1>5, <1>6 DEF Copy!BulkLoad, BulkLoad

\* A link loads the data: the last link's load is the copy's.
LEMMA LinkLoadsImplements ==
  ASSUME Inv, NEW o \in Ops, NEW q \in Paths, NEW a \in Attempts, LinkLoads(o, q, a)
  PROVE  Copy!Next \/ UNCHANGED Copy!vars
<1> DEFINE p == Append(q, a)
<1>1. PICK n \in Nodes : n = LinkAt(o, Len(p))
  BY ArrivalOK DEF LinkLoads
<1>2. PICK h \in Handlers : h = IF Ends(n, Len(p)) THEN Answered({}) ELSE Waiting(1)
  BY LinkStateOK
<1>3. /\ Arrives(o, q, a) /\ Writes(o)
      /\ rec' = [rec EXCEPT ![n] = BulkLoad(rec[n], op[o].item)]
      /\ held' = [held EXCEPT ![n] = held[n] \cup {o}]
      /\ Becomes(o, p, h) /\ op' = op
  BY <1>1, <1>2 DEF LinkLoads, LinkAt
<1>4. p \in Paths /\ p # <<>> /\ Started(o)
  BY <1>3, ArrivalOK
<1> HIDE DEF p
<1>5. \A x \in Ops : Known(x)' = Known(x) /\ Seen(x)' = Seen(x)
  BY <1>3, <1>4, OthersUnseen
<1>6. LastLink \in Nodes /\ rec \in [Nodes -> Records] /\ held \in [Nodes -> SUBSET Ops]
  BY LastLinkType DEF Inv, TypeOK
<1>7. CASE n = LastLink
  <2>1. Known(o).phase # "none" /\ Known(o).item = op[o].item
    BY <1>4 DEF Known, Started
  <2>2. Known(o).item.kind # "read"
    BY <1>3, <2>1 DEF Writes
  <2>3. /\ rec'[LastLink] = BulkLoad(rec[LastLink], op[o].item)
        /\ held'[LastLink] = held[LastLink] \cup {o}
    BY <1>3, <1>6, <1>7
  <2>4. rec[LastLink]' = rec'[LastLink] /\ held[LastLink]' = held'[LastLink]
    BY DEF LastLink, Chain
  <2>5. Copy!BulkLoad(rec[LastLink], op[o].item) = BulkLoad(rec[LastLink], op[o].item)
    BY SameLoads
  <2>6. /\ [x \in Ops |-> Known(x)]' = [x \in Ops |-> Known(x)]
        /\ [x \in Ops |-> Seen(x)]' = [x \in Ops |-> Seen(x)]
    BY <1>5
  <2>7. Copy!Load(o)
    BY <2>1, <2>2, <2>3, <2>4, <2>5, <2>6 DEF Copy!Load
  <2> QED
    BY <2>7 DEF Copy!Next
<1>8. CASE n # LastLink
  <2>1. rec'[LastLink] = rec[LastLink] /\ held'[LastLink] = held[LastLink]
    BY <1>3, <1>6, <1>8
  <2> QED
    BY <1>5, <2>1, StutterOK
<1> QED
  BY <1>7, <1>8

\* Where the chain of a call to the owner ends there is its last link.
LEMMA EndIsLastLink ==
  ASSUME Inv, NEW o \in Ops, ~IsPush(o), NEW i \in 1 .. K, Ends(LinkAt(o, i), i)
  PROVE  LinkAt(o, i) = LastLink
<1>1. op[o].start = Owner
  BY DEF Inv, ItemOK
<1>2. LastLink = Link[Owner][K] /\ K \in 1 .. K /\ Owner \in Nodes
  BY BoundsAssumption, LastLinkType, LinkAssumption DEF LastLink
<1>3. CASE i >= K
  BY <1>1, <1>2, <1>3, BoundsAssumption, i = K DEF LinkAt
<1>4. CASE Successor[LinkAt(o, i)] = LinkAt(o, i)
  BY <1>1, <1>2, <1>4, LoneLink DEF LinkAt
<1> QED
  BY <1>3, <1>4 DEF Ends

\* The end of a chain answers a read with what the copy says.
LEMMA LinkReadsImplements ==
  ASSUME Inv, NEW o \in Ops, NEW q \in Paths, NEW a \in Attempts, LinkReads(o, q, a)
  PROVE  Copy!Next \/ UNCHANGED Copy!vars
<1> DEFINE p == Append(q, a)
<1>1. PICK n \in Nodes : n = LinkAt(o, Len(p))
  BY ArrivalOK DEF LinkReads
<1>2. PICK answer \in SUBSET Peers : answer = Query(rec[n])
  BY DEF Query
<1>3. PICK h \in Handlers : h = IF Ends(n, Len(p)) THEN Answered(answer) ELSE Waiting(1)
  BY LinkStateOK
<1>4. /\ Arrives(o, q, a) /\ ~Writes(o)
      /\ Becomes(o, p, h) /\ UNCHANGED <<rec, held, op>>
  BY <1>1, <1>2, <1>3 DEF LinkReads, LinkAt
<1>5. /\ p \in Paths /\ p # <<>> /\ Len(p) \in 1 .. K /\ Started(o)
      /\ run[o][p].phase = "none"
  BY <1>4, ArrivalOK
<1>6. EndsAt(o, p) <=> Ends(n, Len(p))
  BY <1>1, <1>5 DEF EndsAt, LinkAt
<1> HIDE DEF p
<1>7. \A x \in Ops : Known(x)' = Known(x) /\ (x # o => Seen(x)' = Seen(x))
  BY <1>4, <1>5, OthersUnseen
<1>8. CASE Ends(n, Len(p))
  <2>1. ~IsPush(o)
    BY <1>4 DEF Inv, TypeOK, Operations, Items, Deltas, Exports, Read, Writes, IsPush
  <2>2. n = LastLink
    BY <1>1, <1>5, <1>8, <2>1, EndIsLastLink
  <2>3. Seen(o)' = Seen(o) \cup {answer}
    <3>1. /\ run'[o][p] = h
          /\ \A y \in Paths : y # p => run'[o][y] = run[o][y]
      BY <1>4, <1>5, Moved DEF Inv
    <3>2. \A y \in Paths : EndsAt(o, y)' = EndsAt(o, y)
      BY <1>4 DEF EndsAt
    <3>3. ~Writes(o)' /\ h.phase = "acked" /\ h.answer = answer
      BY <1>3, <1>4, <1>8, LinkStateOK DEF Writes
    <3> QED
      BY <1>4, <1>5, <1>6, <1>8, <3>1, <3>2, <3>3 DEF Seen
  <2>4. Known(o).phase # "none" /\ Known(o).item.kind = "read"
    BY <1>4, <1>5 DEF Known, Started, Writes
  <2>5. Copy!Query(rec[LastLink]) = answer
    BY <1>2, <2>2 DEF Copy!Query, Query
  <2>6. UNCHANGED <<rec[LastLink], held[LastLink]>>
    BY <1>4 DEF LastLink, Chain
  <2>7. [x \in Ops |-> Known(x)]' = [x \in Ops |-> Known(x)]
    BY <1>7
  <2>8. [x \in Ops |-> Seen(x)]'
        = [[x \in Ops |-> Seen(x)] EXCEPT ![o] = Seen(o) \cup {answer}]
    BY <1>7, <2>3
  <2>9. Copy!Look(o)
    BY <2>4, <2>5, <2>6, <2>7, <2>8 DEF Copy!Look
  <2> QED
    BY <2>9 DEF Copy!Next
<1>9. CASE ~Ends(n, Len(p))
  <2>1. Seen(o)' = Seen(o)
    BY <1>4, <1>5, <1>6, <1>9, OthersUnseen
  <2> QED
    BY <1>4, <1>7, <2>1, StutterOK
<1> QED
  BY <1>8, <1>9

\* A caller hears a reply, or gives up: the client's is the single copy's.
LEMMA FailsImplements ==
  ASSUME Inv, NEW o \in Ops, run[o][<<>>].phase = "waiting", UNCHANGED <<rec, held, op>>,
         NEW h \in Handlers, Becomes(o, <<>>, h), h.phase = "failed", h.answer = {}
  PROVE  Copy!Next
<1>1. run'[o][<<>>] = h
  BY EmptyPath, Moved DEF Inv
<1>2. \A x \in Ops : Seen(x)' = Seen(x) /\ (x # o => Known(x)' = Known(x))
  BY EmptyPath, OthersUnseen DEF EndsAt
<1>3. /\ Known(o).phase = "waiting"
      /\ Known(o)' = [phase |-> "failed", item |-> Known(o).item, answer |-> {}]
  BY <1>1 DEF Known, Caller
<1>4. UNCHANGED <<rec[LastLink], held[LastLink], [x \in Ops |-> Seen(x)]>>
  BY <1>2 DEF LastLink, Chain
<1>5. [x \in Ops |-> Known(x)]' = [[x \in Ops |-> Known(x)] EXCEPT
        ![o] = [phase |-> "failed", item |-> Known(o).item, answer |-> {}]]
  BY <1>2, <1>3
<1>6. Copy!Fail(o)
  BY <1>3, <1>4, <1>5 DEF Copy!Fail
<1> QED
  BY <1>6 DEF Copy!Next

LEMMA HearsImplements ==
  ASSUME Inv, NEW o \in Ops, NEW q \in Paths, Hears(o, q)
  PROVE  Copy!Next \/ UNCHANGED Copy!vars
<1>1. PICK a \in Attempts : a = run[o][q].attempt
  BY WaitingOK DEF Hears
<1> DEFINE p == Append(q, a)
<1>2. /\ run[o][q].phase = "waiting" /\ run[o][p].phase \in {"acked", "failed"}
      /\ Becomes(o, q, Handler(run[o][p].phase, a, run[o][p].answer))
      /\ UNCHANGED <<rec, held, op>>
  BY <1>1 DEF Hears
<1>3. /\ Started(o) /\ ~EndsAt(o, q) /\ p \in Paths /\ p # <<>> /\ Len(p) = Len(q) + 1
  BY <1>1, <1>2, WaitingOK
<1>4. HandlerOK(o, p) /\ TypeOK /\ ItemOK(o)
  BY <1>3 DEF Inv
<1>5. PICK reply \in Handlers : reply = run[o][p]
  BY <1>3, <1>4 DEF TypeOK
<1>6. PICK h \in Handlers : /\ h = Handler(reply.phase, a, reply.answer)
                            /\ h.phase = reply.phase /\ h.answer = reply.answer
  <2>1. a \in 0 .. MaxRetries
    BY BoundsAssumption DEF Attempts
  <2> QED
    BY <1>5, <2>1, HandlerType DEF Handlers
<1>7. Becomes(o, q, h)
  BY <1>2, <1>5, <1>6
<1>8. \A x \in Ops : /\ Seen(x)' = Seen(x)
                     /\ x # o \/ q # <<>> => Known(x)' = Known(x)
  BY <1>2, <1>3, <1>7, OthersUnseen
<1>9. CASE q # <<>>
  BY <1>2, <1>8, <1>9, StutterOK
<1>10. CASE q = <<>> /\ reply.phase = "failed"
  <2>1. h.answer = {}
    BY <1>4, <1>5, <1>6, <1>10 DEF HandlerOK, Shape
  <2> QED
    BY <1>2, <1>6, <1>7, <1>10, <2>1, FailsImplements
<1>11. CASE q = <<>> /\ reply.phase = "acked"
  <2>1. /\ Known(o).phase = "waiting" /\ Known(o).item = op[o].item
        /\ Known(o)' = [phase |-> "acked", item |-> op[o].item, answer |-> reply.answer]
    <3>1. run'[o][q] = h
      BY <1>4, <1>7, Moved
    <3> QED
      BY <1>2, <1>6, <1>11, <3>1 DEF Known, Caller
  <2>2. op[o].item.kind \in {"insert", "remove"} => o \in held[LastLink]
    <3> SUFFICES ASSUME Writes(o), ~IsPush(o) PROVE o \in held[LastLink]
      BY DEF Writes, IsPush
    <3>1. Len(p) = 1 /\ K \in 1 .. K
      BY <1>3, <1>11, EmptyPath, BoundsAssumption
    <3>2. o \in held[LinkAt(o, K)]
      BY <1>4, <1>5, <1>11, <3>1, BoundsAssumption DEF HandlerOK, LoadedOK
    <3> QED
      BY <1>4, <3>1, <3>2, LastLinkType DEF LinkAt, ItemOK, LastLink
  <2>3. op[o].item.kind = "read" => reply.answer \in Seen(o)
    BY <1>4, <1>5, <1>11 DEF HandlerOK, AnswerOK, Writes
  <2>4. UNCHANGED <<rec[LastLink], held[LastLink], [x \in Ops |-> Seen(x)]>>
    BY <1>2, <1>8 DEF LastLink, Chain
  <2>5. [x \in Ops |-> Known(x)]' = [[x \in Ops |-> Known(x)] EXCEPT
          ![o] = [phase |-> "acked", item |-> Known(o).item, answer |-> reply.answer]]
    BY <1>8, <2>1
  <2>6. Copy!Return(o, reply.answer)
    BY <2>1, <2>2, <2>3, <2>4, <2>5 DEF Copy!Return
  <2>7. reply.answer \in SUBSET Peers
    BY DEF Handlers
  <2> QED
    BY <2>6, <2>7 DEF Copy!Next
<1> QED
  BY <1>2, <1>5, <1>9, <1>10, <1>11

LEMMA TimesOutImplements ==
  ASSUME Inv, NEW o \in Ops, NEW q \in Paths, TimesOut(o, q)
  PROVE  Copy!Next \/ UNCHANGED Copy!vars
<1>1. UNCHANGED <<rec, held, op>> /\ run[o][q].phase = "waiting"
  BY DEF TimesOut
<1>2. ~EndsAt(o, q) /\ run[o][q].answer = {} /\ Started(o)
  BY <1>1, WaitingOK
<1>3. PICK h \in Handlers : /\ Becomes(o, q, h) /\ h.answer = {}
                            /\ h.phase \in {"waiting", "failed"}
  BY TimesOutOK
<1>4. \A x \in Ops : /\ Seen(x)' = Seen(x)
                     /\ x # o \/ q # <<>> => Known(x)' = Known(x)
  BY <1>1, <1>2, <1>3, OthersUnseen
<1>5. CASE q # <<>>
  BY <1>1, <1>4, <1>5, StutterOK
<1>6. CASE q = <<>> /\ h.phase = "failed"
  BY <1>1, <1>3, <1>6, FailsImplements
<1>7. CASE q = <<>> /\ h.phase = "waiting"
  <2>1. run'[o][<<>>] = h
    BY <1>3, <1>7, Moved, EmptyPath DEF Inv
  <2>2. Known(o)' = Known(o)
    BY <1>1, <1>2, <1>3, <1>7, <2>1 DEF Known, Caller
  <2> QED
    BY <1>1, <1>4, <2>2, StutterOK
<1> QED
  BY <1>3, <1>5, <1>6, <1>7

LEMMA InitImplements == Init => Copy!Init
<1> SUFFICES ASSUME Init PROVE Copy!Init
  OBVIOUS
<1>1. \A o \in Ops, q \in Paths : run[o][q].phase = "none"
  BY DEF Init, Idle, Handler
<1>2. \A o \in Ops : Known(o) = Copy!Unused
  BY <1>1, EmptyPath DEF Known, Caller, Copy!Unused, Copy!Read, Read
<1>3. \A o \in Ops : Seen(o) = {}
  BY <1>1 DEF Seen
<1>4. rec[LastLink] = Copy!Absent /\ held[LastLink] = {}
  BY LastLinkType DEF Init, Copy!Absent, Absent, Copy!NoPeers, NoPeers
<1> QED
  BY <1>2, <1>3, <1>4 DEF Copy!Init

LEMMA StepImplements == Inv /\ [Next]_vars => [Copy!Next]_(Copy!vars)
<1> SUFFICES ASSUME Inv, [Next]_vars PROVE Copy!Next \/ UNCHANGED Copy!vars
  OBVIOUS
<1>1. CASE UNCHANGED vars
  <2>1. \A o \in Ops : Known(o)' = Known(o) /\ Seen(o)' = Seen(o)
    BY <1>1 DEF vars, Known, Caller, Seen, EndsAt, Writes
  <2> QED
    BY <1>1, <2>1, StutterOK DEF vars
<1>2. ASSUME NEW o \in Ops, NEW item \in ClientItems, Issue(o, item)
      PROVE  Copy!Next
  <2>1. item \in Items \cup {Read} /\ item.kind # "state"
    BY <1>2, IssueOK DEF IsSnapshot
  <2>2. Owner \in Nodes /\ Waiting(1) \in CallerStates
    BY LinkAssumption DEF CallerStates
  <2> QED
    BY <1>2, <2>1, <2>2, BeginsImplements DEF Issue
<1>3. ASSUME NEW o \in Ops, NEW r \in Backups, AntiEntropyTick(o, r)
      PROVE  UNCHANGED Copy!vars
  <2>1. r \in Nodes
    <3>1. ASSUME NEW i \in 2 .. K PROVE Link[Owner][i] \in Nodes
      <4>1. i \in 1 .. K
        BY BoundsAssumption
      <4> QED
        BY <4>1, LinkAssumption, LinkType
    <3> QED
      BY <3>1 DEF Backups
  <2>2. PICK item \in Items : item = Export(rec[Owner])
    BY SnapshotOK
  <2>3. item.kind = "state" => \A p \in Peers : item.peers[p] > 0 => Told(p, item.peers[p])
    BY <2>2, SnapshotOK
  <2>4. Begins(o, item, r, Checking) /\ Checking \in CallerStates
    BY <1>3, <2>2 DEF AntiEntropyTick, CallerStates
  <2>5. Checking # Waiting(1)
    BY DEF Checking, Waiting, Handler
  <2> QED
    BY <2>1, <2>3, <2>4, <2>5, BeginsImplements
<1>4. ASSUME NEW o \in Ops, Heal(o)
      PROVE  Copy!Next
  <2>1. Owner \in Nodes /\ Waiting(1) \in CallerStates
    BY LinkAssumption DEF CallerStates
  <2>2. PICK item \in Items : item = Export(rec[Owner])
    BY SnapshotOK
  <2>3. item.kind = "state" => \A p \in Peers : item.peers[p] > 0 => Told(p, item.peers[p])
    BY <2>2, SnapshotOK
  <2>4. Begins(o, item, Owner, Waiting(1))
    BY <1>4, <2>2 DEF Heal
  <2> QED
    BY <2>1, <2>3, <2>4, BeginsImplements
<1>5. ASSUME NEW o \in Ops, NEW q \in Paths, NEW a \in Attempts,
             LinkLoads(o, q, a) \/ LinkReads(o, q, a)
      PROVE  Copy!Next \/ UNCHANGED Copy!vars
  BY <1>5, LinkLoadsImplements, LinkReadsImplements
<1>6. ASSUME NEW o \in Ops, NEW q \in Paths, Hears(o, q) \/ TimesOut(o, q)
      PROVE  Copy!Next \/ UNCHANGED Copy!vars
  BY <1>6, HearsImplements, TimesOutImplements
<1> QED
  BY <1>1, <1>2, <1>3, <1>4, <1>5, <1>6, RootCheckImplements DEF Next

\* The chain, with its lost and repeated calls, its half-done writes and its
\* pushes, behaves towards its clients like one copy of the key.
THEOREM ChainImplementsSingleCopy == Spec => TailIsTheCopy
<1>1. Init => Copy!Init
  BY InitImplements
<1>2. Inv /\ [Next]_vars => [Copy!Next]_(Copy!vars)
  BY StepImplements
<1> QED
  BY <1>1, <1>2, Invariance, PTL DEF Spec, Copy!Spec, TailIsTheCopy

-----------------------------------------------------------------------------
(* Writes fill the chain from the head                                     *)

\* The links of the owner's chain are nodes of their own.
LinksDiffer == \A i, j \in 1 .. K : Link[Owner][i] = Link[Owner][j] => i = j

\* What a node holds was called for.
HeldOK == \A n \in Nodes, o \in Ops : o \in held[n] => Started(o)

FillInv == Inv /\ HeldOK /\ WritesFillFromTheHead

\* A step that loads nothing keeps it.
LEMMA QuietFill ==
  ASSUME FillInv, held' = held,
         \A x \in Ops : Started(x) => Started(x)' /\ op'[x] = op[x]
  PROVE  HeldOK' /\ WritesFillFromTheHead'
<1>1. HeldOK'
  BY DEF FillInv, HeldOK
<1>2. ASSUME NEW o \in Ops, Writes(o)' /\ ~IsPush(o)', NEW i \in 1 .. K - 1,
             o \in held[Chain[i + 1]]
      PROVE  o \in held[Chain[i]]
  <2>1. i + 1 \in 1 .. K
    BY BoundsAssumption
  <2>2. Chain[i + 1] \in Nodes
    BY <2>1, LinkAssumption, LinkType DEF Chain
  <2>3. op'[o] = op[o]
    BY <1>2, <2>2 DEF FillInv, HeldOK
  <2>4. o \in ClientWrites
    BY <1>2, <2>3 DEF ClientWrites, Writes, IsPush
  <2> QED
    BY <1>2, <2>4 DEF FillInv, WritesFillFromTheHead
<1> QED
  BY <1>1, <1>2 DEF WritesFillFromTheHead, ClientWrites, Chain

\* A caller that has made its call has made it.
LEMMA StaysStarted ==
  ASSUME Inv, NEW o \in Ops, NEW q \in Paths, NEW h \in Handlers, Becomes(o, q, h), op' = op,
         q # <<>> \/ h.phase \notin {"none", "checking", "matched"},
         NEW x \in Ops, Started(x)
  PROVE  Started(x)' /\ op'[x] = op[x]
<1>1. run'[x][<<>>] = IF x = o /\ q = <<>> THEN h ELSE run[x][<<>>]
  BY Moved, EmptyPath DEF Inv
<1> QED
  BY <1>1 DEF Started, Caller

\* A link loads what the link before it holds: its caller's handler did.
LEMMA LoadFill ==
  ASSUME FillInv, LinksDiffer,
         NEW o \in Ops, NEW q \in Paths, NEW a \in Attempts, LinkLoads(o, q, a)
  PROVE  HeldOK' /\ WritesFillFromTheHead'
<1> DEFINE p == Append(q, a)
<1>1. Inv /\ held \in [Nodes -> SUBSET Ops]
  BY DEF FillInv, Inv, TypeOK
<1>2. PICK n \in Nodes : n = LinkAt(o, Len(p))
  BY <1>1, ArrivalOK DEF LinkLoads
<1>3. PICK h \in Handlers : h = IF Ends(n, Len(p)) THEN Answered({}) ELSE Waiting(1)
  BY LinkStateOK
<1>4. /\ Arrives(o, q, a) /\ Writes(o)
      /\ held' = [held EXCEPT ![n] = held[n] \cup {o}]
      /\ Becomes(o, p, h) /\ op' = op
  BY <1>2, <1>3 DEF LinkLoads, LinkAt
<1>5. /\ p \in Paths /\ p # <<>> /\ Started(o) /\ run[o][q].phase # "none"
      /\ Len(p) = Len(q) + 1 /\ Len(p) \in 1 .. K
  BY <1>1, <1>4, ArrivalOK
<1> HIDE DEF p
<1>6. \A x \in Ops : Started(x) => Started(x)'
  BY <1>1, <1>4, <1>5, StaysStarted
<1>7. \A m \in Nodes : held'[m] = held[m] \/ (m = n /\ held'[m] = held[m] \cup {o})
  BY <1>1, <1>4
<1>8. HeldOK'
  BY <1>5, <1>6, <1>7 DEF FillInv, HeldOK
<1>9. ASSUME NEW x \in ClientWrites, NEW i \in 1 .. K - 1, x \in held'[Chain[i + 1]]
      PROVE  x \in held'[Chain[i]]
  <2>1. i \in 1 .. K /\ i + 1 \in 1 .. K
    BY BoundsAssumption
  <2>2. /\ Chain[i] \in Nodes /\ Chain[i + 1] \in Nodes
        /\ Chain[i] = Link[Owner][i] /\ Chain[i + 1] = Link[Owner][i + 1]
    BY <2>1, LastLinkType, LinkAssumption, LinkType
  <2>3. CASE x \in held[Chain[i + 1]]
    BY <1>7, <1>9, <2>2, <2>3 DEF FillInv, WritesFillFromTheHead
  <2>4. CASE x = o /\ Chain[i + 1] = n
    <3>1. op[o].start = Owner
      BY <1>1, <1>9, <2>4 DEF Inv, ItemOK, ClientWrites
    <3>2. Len(p) = i + 1
      BY <1>2, <1>5, <2>1, <2>2, <2>4, <3>1 DEF LinksDiffer, LinkAt
    <3>3. Len(q) = i /\ q # <<>>
      BY <1>5, <3>2, PathType, EmptyPath
    <3>4. o \in held[LinkAt(o, Len(q))]
      BY <1>1, <1>4, <1>5, <3>3 DEF Inv, HandlerOK, LoadedOK
    <3> QED
      BY <1>7, <2>2, <2>4, <3>1, <3>3, <3>4 DEF LinkAt
  <2> QED
    BY <1>7, <1>9, <2>2, <2>3, <2>4
<1>10. ClientWrites' = ClientWrites /\ Chain' = Chain
  BY <1>4 DEF ClientWrites, Writes, IsPush, Chain
<1> QED
  BY <1>8, <1>9, <1>10 DEF WritesFillFromTheHead

LEMMA FillInit == Init => FillInv
<1> SUFFICES ASSUME Init PROVE HeldOK /\ WritesFillFromTheHead
  BY InitOK DEF FillInv
<1>1. \A n \in Nodes : held[n] = {}
  BY DEF Init
<1>2. \A i \in 1 .. K - 1 : Chain[i + 1] \in Nodes
  <2>1. \A i \in 1 .. K - 1 : i + 1 \in 1 .. K
    BY BoundsAssumption
  <2> QED
    BY <2>1, LastLinkType, LinkAssumption, LinkType
<1> QED
  BY <1>1, <1>2 DEF HeldOK, WritesFillFromTheHead

LEMMA FillStep == FillInv /\ LinksDiffer /\ [Next]_vars => FillInv'
<1> SUFFICES ASSUME FillInv, LinksDiffer, [Next]_vars
             PROVE  HeldOK' /\ WritesFillFromTheHead'
  BY StepOK DEF FillInv
<1>0. Inv /\ TypeOK /\ <<>> \in Paths
  BY EmptyPath DEF FillInv, Inv
<1>1. CASE UNCHANGED vars
  BY <1>1, QuietFill DEF vars, Started, Caller
<1>2. ASSUME NEW o \in Ops, NEW item \in ClientItems, Issue(o, item)
      PROVE  HeldOK' /\ WritesFillFromTheHead'
  <2>1. PICK h \in Handlers : Steps(o, <<>>, h)
    BY <1>0, <1>2, IssueOK, LinkStateOK
  <2> QED
    BY <1>0, <1>2, <2>1, StartedStays, QuietFill DEF Issue, Begins
<1>3. ASSUME NEW o \in Ops, NEW r \in Backups, AntiEntropyTick(o, r)
      PROVE  HeldOK' /\ WritesFillFromTheHead'
  <2>1. PICK h \in Handlers : Steps(o, <<>>, h)
    BY <1>0, <1>3, AntiEntropyTickOK, CallerStateOK DEF CallerStates
  <2> QED
    BY <1>0, <1>3, <2>1, StartedStays, QuietFill DEF AntiEntropyTick, Begins
<1>4. ASSUME NEW o \in Ops, Heal(o)
      PROVE  HeldOK' /\ WritesFillFromTheHead'
  <2>1. PICK h \in Handlers : Steps(o, <<>>, h)
    BY <1>0, <1>4, HealOK, LinkStateOK
  <2> QED
    BY <1>0, <1>4, <2>1, StartedStays, QuietFill DEF Heal, Begins
<1>5. ASSUME NEW o \in Ops, RootCheck(o)
      PROVE  HeldOK' /\ WritesFillFromTheHead'
  <2>1. PICK h \in Handlers : Steps(o, <<>>, h)
    BY <1>0, <1>5, RootCheckOK
  <2> QED
    BY <1>0, <1>5, <2>1, StartedStays, QuietFill DEF RootCheck
<1>6. ASSUME NEW o \in Ops, NEW q \in Paths, NEW a \in Attempts, LinkLoads(o, q, a)
      PROVE  HeldOK' /\ WritesFillFromTheHead'
  BY <1>6, LoadFill
<1>7. ASSUME NEW o \in Ops, NEW q \in Paths, NEW a \in Attempts, LinkReads(o, q, a)
      PROVE  HeldOK' /\ WritesFillFromTheHead'
  <2>1. Append(q, a) \in Paths /\ Append(q, a) # <<>>
    BY <1>0, <1>7, ArrivalOK DEF LinkReads
  <2>2. \A n : Query(rec[n]) \in SUBSET Peers
    BY DEF Query
  <2>3. PICK h \in Handlers : Becomes(o, Append(q, a), h)
    BY <1>7, <2>2, LinkStateOK DEF LinkReads
  <2> QED
    BY <1>0, <1>7, <2>1, <2>3, StaysStarted, QuietFill DEF LinkReads
<1>8. ASSUME NEW o \in Ops, NEW q \in Paths, Hears(o, q)
      PROVE  HeldOK' /\ WritesFillFromTheHead'
  <2>1. PICK a \in Attempts : a = run[o][q].attempt
    BY <1>0, <1>8, WaitingOK DEF Hears
  <2>2. /\ run[o][q].phase = "waiting" /\ UNCHANGED <<rec, held, op>>
        /\ run[o][Append(q, a)].phase \in {"acked", "failed"}
        /\ Becomes(o, q, Handler(run[o][Append(q, a)].phase, a, run[o][Append(q, a)].answer))
    BY <1>8, <2>1 DEF Hears
  <2>3. PICK reply \in Handlers : reply = run[o][Append(q, a)]
    BY <1>0, <2>1, <2>2, WaitingOK DEF TypeOK
  <2>4. a \in 0 .. MaxRetries
    BY BoundsAssumption DEF Attempts
  <2>5. PICK h \in Handlers : Becomes(o, q, h) /\ h.phase \in {"acked", "failed"}
    BY <2>2, <2>3, <2>4, HandlerType DEF Handlers
  <2> QED
    BY <1>0, <2>2, <2>5, StaysStarted, QuietFill
<1>9. ASSUME NEW o \in Ops, NEW q \in Paths, TimesOut(o, q)
      PROVE  HeldOK' /\ WritesFillFromTheHead'
  <2>1. PICK h \in Handlers : Becomes(o, q, h) /\ h.phase \in {"waiting", "failed"}
    BY <1>0, <1>9, TimesOutOK
  <2> QED
    BY <1>0, <1>9, <2>1, StaysStarted, QuietFill DEF TimesOut
<1> QED
  BY <1>1, <1>2, <1>3, <1>4, <1>5, <1>6, <1>7, <1>8, <1>9 DEF Next

\* On a ring with room for the chain, no link holds a write that the link
\* before it does not hold, whatever fails.
THEOREM ChainFillsFromTheHead ==
  ASSUME LinksDiffer
  PROVE  Spec => []WritesFillFromTheHead
<1>1. Init => FillInv
  BY FillInit
<1>2. FillInv /\ [Next]_vars => FillInv'
  BY LinksDiffer, FillStep
<1>3. FillInv => WritesFillFromTheHead
  BY DEF FillInv
<1> QED
  BY <1>1, <1>2, <1>3, PTL DEF Spec
-----------------------------------------------------------------------------
(* Reads, as long as nobody pushes a snapshot and nobody withdraws         *)

Unmixed == Pushes = {} /\ Removals = {}

\* A call that has not been made is no write, an announcement has a time, and
\* what a read must tell of has been acknowledged.
CallOK(o) ==
  /\ Caller(o).phase = "none" => ~Writes(o)
  /\ op[o].item.kind = "insert" => op[o].item.ts > 0
  /\ \A x \in op[o].before : Caller(x).phase = "acked"

\* A node lists the seeders of all the announcements it has loaded.
ListsLoaded(n) ==
  /\ ~rec[n].tomb
  /\ \A x \in held[n] : op[x].item.kind = "insert" => op[x].item.peer \in Query(rec[n])

\* The end of a chain tells a read of all the announcements it must tell of.
TellsAll(o, p) ==
  ~Writes(o) /\ EndsAt(o, p) /\ run[o][p].phase = "acked" =>
    \A x \in op[o].before \cap ClientWrites : op[x].item.peer \in run[o][p].answer

StrictInv ==
  /\ Inv
  /\ HeldOK
  /\ \A o \in Ops : CallOK(o)
  /\ Unmixed => /\ \A n \in Nodes : ListsLoaded(n)
                /\ \A o \in Ops, p \in Paths : TellsAll(o, p)

\* Reads return what some end of a chain has told them.
LEMMA ReadsAreTold == StrictInv => ReadsAreStrictUnhealed
<1> SUFFICES ASSUME StrictInv, Unmixed, NEW o \in Ops, ~Writes(o), Caller(o).phase = "acked",
                    NEW x \in op[o].before \cap ClientWrites
             PROVE  op[x].item.peer \in Caller(o).answer
  BY DEF ReadsAreStrictUnhealed, ReadsSeeAckedInserts, Unmixed
<1>1. Caller(o).answer \in Seen(o)
  BY EmptyPath DEF StrictInv, Inv, HandlerOK, AnswerOK, Caller
<1>2. PICK p \in Paths : /\ EndsAt(o, p) /\ run[o][p].phase = "acked"
                         /\ Caller(o).answer = run[o][p].answer
  BY <1>1 DEF Seen
<1>3. TellsAll(o, p)
  BY DEF StrictInv
<1> QED
  BY <1>2, <1>3 DEF TellsAll

\* A caller or handler moves, and no node loads anything.
LEMMA QuietStrict ==
  ASSUME StrictInv, Inv', UNCHANGED <<rec, held, op>>,
         NEW o \in Ops, NEW q \in Paths, NEW h \in Handlers, Becomes(o, q, h),
         run[o][q].phase # "acked", h.phase # "none",
         \A x \in Ops : Started(x) => Started(x)',
         Unmixed /\ ~Writes(o) /\ EndsAt(o, q) =>
           \A x \in op[o].before \cap ClientWrites : op[x].item.peer \in h.answer
  PROVE  StrictInv'
<1>1. /\ run'[o][q] = h
      /\ \A x \in Ops, y \in Paths : x # o \/ y # q => run'[x][y] = run[x][y]
  BY Moved DEF StrictInv, Inv
<1>2. HeldOK'
  BY DEF StrictInv, HeldOK
<1>3. ASSUME NEW x \in Ops PROVE CallOK(x)'
  <2>1. CallOK(x) /\ op[x].before \subseteq Ops
    BY DEF StrictInv, Inv, TypeOK, Operations
  <2>2. ASSUME NEW y \in op[x].before PROVE Caller(y)'.phase = "acked"
    <3>1. Caller(y).phase = "acked" /\ y \in Ops
      BY <2>1 DEF CallOK
    <3> QED
      BY <1>1, <3>1, EmptyPath DEF Caller
  <2>3. Caller(x)'.phase = "none" => Caller(x).phase = "none"
    BY <1>1, EmptyPath DEF Caller
  <2> QED
    BY <2>1, <2>2, <2>3 DEF CallOK, Writes
<1>4. Unmixed' = Unmixed /\ ClientWrites' = ClientWrites
  BY DEF Unmixed, Pushes, Removals, IsPush, ClientWrites, Writes
<1>5. ASSUME Unmixed, NEW n \in Nodes PROVE ListsLoaded(n)'
  BY <1>5 DEF StrictInv, ListsLoaded
<1>6. ASSUME Unmixed, NEW x \in Ops, NEW p \in Paths PROVE TellsAll(x, p)'
  <2>1. TellsAll(x, p)
    BY <1>6 DEF StrictInv
  <2>2. Writes(x)' = Writes(x) /\ EndsAt(x, p)' = EndsAt(x, p)
    BY DEF Writes, EndsAt
  <2>3. CASE x = o /\ p = q
    BY <1>1, <1>4, <1>6, <2>2, <2>3 DEF TellsAll
  <2>4. CASE x # o \/ p # q
    BY <1>1, <1>4, <2>1, <2>2, <2>4 DEF TellsAll
  <2> QED
    BY <2>3, <2>4
<1> QED
  BY <1>2, <1>3, <1>4, <1>5, <1>6 DEF StrictInv

\* A call begins: what it must tell of has been acknowledged.
LEMMA BeginsStrict ==
  ASSUME StrictInv, Inv', NEW o \in Ops, NEW item, NEW start, NEW c \in Handlers,
         Begins(o, item, start, c), Steps(o, <<>>, c),
         c.phase \notin {"none", "acked"}, item.kind = "insert" => item.ts > 0
  PROVE  StrictInv'
<1>0. TypeOK /\ <<>> \in Paths
  BY EmptyPath DEF StrictInv, Inv
<1>1. /\ run'[o][<<>>] = c
      /\ \A x \in Ops, y \in Paths : x # o \/ y # <<>> => run'[x][y] = run[x][y]
  BY <1>0, Moved DEF Begins
<1>2. rec' = rec /\ held' = held /\ Caller(o).phase = "none"
  BY DEF Begins, IsNext
<1>3. /\ op'[o].item = item
      /\ \A y \in op'[o].before : y \in Ops /\ Caller(y).phase = "acked"
      /\ \A x \in Ops : x # o => op'[x] = op[x]
  BY <1>0 DEF Begins, TypeOK
<1>4. ~Started(o) /\ ~Writes(o)
  BY <1>2 DEF Started, StrictInv, CallOK
<1>5. \A x \in Ops : Started(x) => Started(x)' /\ x # o
  BY <1>0, <1>4, StartedStays
<1>6. HeldOK'
  BY <1>2, <1>5 DEF StrictInv, HeldOK
<1>7. \A x \in Ops : Caller(x).phase = "acked" => Caller(x)'.phase = "acked" /\ x # o
  BY <1>0, <1>1, <1>2 DEF Caller
<1>8. ASSUME NEW x \in Ops PROVE CallOK(x)'
  <2>1. CASE x = o
    BY <1>0, <1>1, <1>3, <1>7, <2>1 DEF CallOK, Caller
  <2>2. CASE x # o
    <3>1. CallOK(x) /\ op'[x] = op[x] /\ op[x].before \subseteq Ops
      BY <1>0, <1>3, <2>2 DEF StrictInv, TypeOK, Operations
    <3>2. Caller(x)' = Caller(x)
      BY <1>0, <1>1, <2>2 DEF Caller
    <3> QED
      BY <1>7, <3>1, <3>2 DEF CallOK, Writes
  <2> QED
    BY <2>1, <2>2
<1>9. Unmixed' => Unmixed
  <2>1. \A x \in Ops : x # o => (IsPush(x)' <=> IsPush(x))
    BY <1>3 DEF IsPush
  <2>2. ~IsPush(o) /\ op[o].item.kind # "remove"
    BY <1>4 DEF Writes, IsPush
  <2> QED
    BY <1>3, <2>1, <2>2 DEF Unmixed, Pushes, Removals
<1>10. ASSUME Unmixed, NEW n \in Nodes PROVE ListsLoaded(n)'
  <2>1. ListsLoaded(n) /\ held[n] \subseteq Ops
    BY <1>0, <1>10 DEF StrictInv, TypeOK
  <2>2. \A x \in held[n] : op'[x] = op[x]
    BY <1>3, <1>5, <2>1 DEF StrictInv, HeldOK
  <2> QED
    BY <1>2, <2>1, <2>2 DEF ListsLoaded
<1>11. ASSUME Unmixed, NEW x \in Ops, NEW p \in Paths PROVE TellsAll(x, p)'
  <2>1. CASE x = o
    <3>1. p # <<>> => run'[o][p].phase = "none"
      BY <1>1, <1>4, NotBegun DEF StrictInv
    <3> QED
      BY <2>1, <3>1 DEF TellsAll, EndsAt
  <2>2. CASE x # o
    <3>1. TellsAll(x, p) /\ op'[x] = op[x] /\ run'[x][p] = run[x][p]
      BY <1>1, <1>3, <1>11, <2>2 DEF StrictInv
    <3>2. \A y \in op[x].before : y \in Ops /\ y # o
      BY <1>0, <1>7 DEF StrictInv, CallOK, TypeOK, Operations
    <3>3. \A y \in op[x].before : op'[y] = op[y] /\ (y \in ClientWrites' <=> y \in ClientWrites)
      BY <1>3, <3>2 DEF ClientWrites, Writes, IsPush
    <3> QED
      BY <3>1, <3>3 DEF TellsAll, Writes, EndsAt
  <2> QED
    BY <2>1, <2>2
<1> QED
  BY <1>6, <1>8, <1>9, <1>10, <1>11 DEF StrictInv

\* An announcement lists its seeder, and drops none.
LEMMA InsertLists ==
  ASSUME NEW r \in Records, ~r.tomb, NEW p \in Peers, NEW t \in Nat, t > 0
  PROVE  /\ ~Insert(r, p, t).tomb
         /\ p \in Query(Insert(r, p, t)) /\ Query(r) \subseteq Query(Insert(r, p, t))
<1> DEFINE peers == [r.peers EXCEPT ![p] = Later(@, t)]
<1>1. r.peers \in [Peers -> Nat]
  BY DEF Records
<1>2. \A s \in Peers : peers[s] = IF s = p THEN Later(r.peers[p], t) ELSE r.peers[s]
  BY <1>1
<1>3. Later(r.peers[p], t) > 0
  BY <1>1 DEF Later
<1>4. Insert(r, p, t) = [peers |-> peers, ts |-> Later(r.ts, t), tomb |-> FALSE]
  BY DEF Insert
<1> HIDE DEF peers
<1> QED
  BY <1>2, <1>3, <1>4 DEF Query

\* A node loads an announcement.
LEMMA LoadStrict ==
  ASSUME StrictInv, Inv', NEW o \in Ops, NEW q \in Paths, NEW a \in Attempts,
         LinkLoads(o, q, a)
  PROVE  StrictInv'
<1> DEFINE p == Append(q, a)
<1>0. Inv /\ TypeOK
  BY DEF StrictInv, Inv
<1>1. PICK n \in Nodes : n = LinkAt(o, Len(p))
  BY <1>0, ArrivalOK DEF LinkLoads
<1>2. PICK h \in Handlers : /\ h = IF Ends(n, Len(p)) THEN Answered({}) ELSE Waiting(1)
                            /\ h.phase # "none"
  BY LinkStateOK
<1>3. /\ Arrives(o, q, a) /\ Writes(o)
      /\ rec' = [rec EXCEPT ![n] = BulkLoad(rec[n], op[o].item)]
      /\ held' = [held EXCEPT ![n] = held[n] \cup {o}]
      /\ Becomes(o, p, h) /\ op' = op
  BY <1>1, <1>2 DEF LinkLoads, LinkAt
<1>4. /\ p \in Paths /\ p # <<>> /\ Started(o) /\ run[o][p].phase = "none"
  BY <1>0, <1>3, ArrivalOK
<1> HIDE DEF p
<1>5. /\ run'[o][p] = h
      /\ \A x \in Ops, y \in Paths : x # o \/ y # p => run'[x][y] = run[x][y]
  BY <1>0, <1>3, <1>4, Moved
<1>6. \A x \in Ops : Caller(x)' = Caller(x) /\ Started(x)' = Started(x)
  BY <1>4, <1>5, EmptyPath DEF Caller, Started
<1>7. \A m \in Nodes : /\ held'[m] = IF m = n THEN held[n] \cup {o} ELSE held[m]
                       /\ rec'[m] = IF m = n THEN BulkLoad(rec[n], op[o].item) ELSE rec[m]
  BY <1>0, <1>3 DEF TypeOK
<1>8. HeldOK'
  BY <1>4, <1>6, <1>7 DEF StrictInv, HeldOK
<1>9. \A x \in Ops : CallOK(x)'
  BY <1>0, <1>3, <1>6 DEF StrictInv, CallOK, Writes, TypeOK, Operations
<1>10. Unmixed' = Unmixed /\ ClientWrites' = ClientWrites
  BY <1>3 DEF Unmixed, Pushes, Removals, IsPush, ClientWrites, Writes
<1>11. ASSUME Unmixed, NEW m \in Nodes PROVE ListsLoaded(m)'
  <2>1. ListsLoaded(m) /\ rec[m] \in Records
    BY <1>0, <1>11 DEF StrictInv, TypeOK
  <2>2. CASE m # n
    BY <1>3, <1>7, <2>1, <2>2 DEF ListsLoaded
  <2>3. CASE m = n
    <3>1. op[o].item \in Deltas /\ op[o].item.kind = "insert"
      <4>1. op[o].item \in Items \cup {Read}
        BY <1>0 DEF TypeOK, Operations
      <4>2. ~IsPush(o) /\ op[o].item.kind \notin {"remove", "read"}
        BY <1>3, <1>11 DEF Unmixed, Pushes, Removals, Writes
      <4> QED
        BY <4>1, <4>2 DEF Items, Deltas, Exports, Read, IsPush
    <3>2. op[o].item.peer \in Peers /\ op[o].item.ts \in Nat /\ op[o].item.ts > 0
      BY <3>1 DEF Deltas, StrictInv, CallOK
    <3>3. rec'[n] = Insert(rec[n], op[o].item.peer, op[o].item.ts)
      BY <1>7, <3>1 DEF BulkLoad
    <3>4. /\ ~rec'[n].tomb /\ op[o].item.peer \in Query(rec'[n])
          /\ Query(rec[n]) \subseteq Query(rec'[n])
      BY <2>1, <2>3, <3>2, <3>3, InsertLists DEF ListsLoaded
    <3>5. \A x \in held'[n] : op[x].item.kind = "insert" => op[x].item.peer \in Query(rec'[n])
      BY <1>7, <2>1, <2>3, <3>4 DEF ListsLoaded
    <3> QED
      BY <1>3, <2>3, <3>4, <3>5 DEF ListsLoaded
  <2> QED
    BY <2>2, <2>3
<1>12. ASSUME Unmixed, NEW x \in Ops, NEW y \in Paths PROVE TellsAll(x, y)'
  <2>1. TellsAll(x, y)
    BY <1>12 DEF StrictInv
  <2>2. Writes(x)' = Writes(x) /\ EndsAt(x, y)' = EndsAt(x, y)
    BY <1>3 DEF Writes, EndsAt
  <2>3. ~Writes(x) => run'[x][y] = run[x][y]
    BY <1>3, <1>5
  <2> QED
    BY <1>3, <1>10, <2>1, <2>2, <2>3 DEF TellsAll
<1> QED
  BY <1>8, <1>9, <1>10, <1>11, <1>12 DEF StrictInv

\* The end of a chain holds what was acknowledged before the read began.
LEMMA ReadStrict ==
  ASSUME StrictInv, Inv', NEW o \in Ops, NEW q \in Paths, NEW a \in Attempts,
         LinkReads(o, q, a)
  PROVE  StrictInv'
<1> DEFINE p == Append(q, a)
<1>0. Inv /\ TypeOK
  BY DEF StrictInv, Inv
<1>1. PICK n \in Nodes : n = LinkAt(o, Len(p))
  BY <1>0, ArrivalOK DEF LinkReads
<1>2. PICK answer \in SUBSET Peers : answer = Query(rec[n])
  BY DEF Query
<1>3. PICK h \in Handlers : /\ h = IF Ends(n, Len(p)) THEN Answered(answer) ELSE Waiting(1)
                            /\ h.phase # "none" /\ (Ends(n, Len(p)) => h.answer = answer)
  BY LinkStateOK
<1>4. /\ Arrives(o, q, a) /\ ~Writes(o)
      /\ Becomes(o, p, h) /\ UNCHANGED <<rec, held, op>>
  BY <1>1, <1>2, <1>3 DEF LinkReads, LinkAt
<1>5. /\ p \in Paths /\ p # <<>> /\ Len(p) \in 1 .. K /\ Started(o)
      /\ run[o][p].phase = "none"
  BY <1>0, <1>4, ArrivalOK
<1>6. EndsAt(o, p) <=> Ends(n, Len(p))
  BY <1>1, <1>5 DEF EndsAt, LinkAt
<1> HIDE DEF p
<1>7. \A x \in Ops : Started(x) => Started(x)'
  BY <1>0, <1>4, <1>5, StaysStarted
<1>8. ASSUME Unmixed, EndsAt(o, p), NEW x \in op[o].before \cap ClientWrites
      PROVE  op[x].item.peer \in h.answer
  <2>1. x \in Ops /\ Caller(x).phase = "acked" /\ Writes(x) /\ ~IsPush(x)
    BY <1>0, <1>8 DEF StrictInv, CallOK, ClientWrites
  <2>2. op[x].item.kind = "insert"
    <3>1. op[x].item \in Items \cup {Read} /\ op[x].item.kind \notin {"remove", "read"}
      BY <1>0, <1>8, <2>1 DEF TypeOK, Operations, Unmixed, Removals, Writes
    <3> QED
      BY <2>1, <3>1 DEF Items, Deltas, Exports, Read, IsPush
  <2>3. op[o].start = Owner
    <3>1. ~IsPush(o)
      BY <1>8 DEF Unmixed, Pushes
    <3> QED
      BY <1>0, <3>1 DEF Inv, ItemOK
  <2>4. Chain[Len(p)] = n
    BY <1>1, <1>5, <2>3, LastLinkType DEF LinkAt
  <2>5. x \in held[n]
    BY <1>0, <1>5, <2>1, <2>4, AckedLoaded DEF AckedByWholeChain, ClientWrites
  <2>6. op[x].item.peer \in Query(rec[n])
    BY <1>8, <2>2, <2>5 DEF StrictInv, ListsLoaded
  <2> QED
    BY <1>2, <1>3, <1>6, <1>8, <2>6
<1> QED
  BY <1>3, <1>4, <1>5, <1>7, <1>8, QuietStrict

LEMMA StrictInit == Init => StrictInv
<1> SUFFICES ASSUME Init PROVE StrictInv
  OBVIOUS
<1>1. Inv
  BY InitOK
<1>2. HeldOK
  BY DEF Init, HeldOK
<1>3. \A o \in Ops : op[o] = [item |-> Read, start |-> Owner, before |-> {}]
  BY DEF Init
<1>4. \A o \in Ops : CallOK(o)
  BY <1>3 DEF CallOK, Writes, Read
<1>5. \A n \in Nodes : ListsLoaded(n)
  BY DEF Init, ListsLoaded, Absent
<1>6. \A o \in Ops, p \in Paths : TellsAll(o, p)
  BY <1>3 DEF TellsAll
<1> QED
  BY <1>1, <1>2, <1>4, <1>5, <1>6 DEF StrictInv

LEMMA StrictStep == StrictInv /\ [Next]_vars => StrictInv'
<1> SUFFICES ASSUME StrictInv, [Next]_vars PROVE StrictInv'
  OBVIOUS
<1>0. Inv /\ Inv' /\ <<>> \in Paths
  BY StepOK, EmptyPath DEF StrictInv
<1>1. CASE UNCHANGED vars
  <2>1. \A o \in Ops : Caller(o)' = Caller(o) /\ Started(o)' = Started(o)
    BY <1>1 DEF vars, Caller, Started
  <2>2. HeldOK' /\ (\A o \in Ops : CallOK(o)')
    BY <1>0, <1>1, <2>1 DEF vars, StrictInv, HeldOK, CallOK, Writes, Inv, TypeOK, Operations
  <2>3. Unmixed' = Unmixed /\ ClientWrites' = ClientWrites
    BY <1>1 DEF vars, Unmixed, Pushes, Removals, IsPush, ClientWrites, Writes
  <2>4. \A n \in Nodes : ListsLoaded(n)' = ListsLoaded(n)
    BY <1>1 DEF vars, ListsLoaded
  <2>5. \A o \in Ops, p \in Paths : TellsAll(o, p)' = TellsAll(o, p)
    BY <1>1, <2>3 DEF vars, TellsAll, Writes, EndsAt
  <2> QED
    BY <1>0, <2>2, <2>3, <2>4, <2>5 DEF StrictInv
<1>2. ASSUME NEW o \in Ops, NEW item \in ClientItems, Issue(o, item) PROVE StrictInv'
  <2>1. Waiting(1) \in Handlers /\ Waiting(1).phase = "waiting"
    BY LinkStateOK
  <2>2. item.kind = "insert" => item.ts > 0
    BY BoundsAssumption DEF ClientItems, Read
  <2> QED
    BY <1>0, <1>2, <2>1, <2>2, IssueOK, BeginsStrict DEF Issue
<1>3. ASSUME NEW o \in Ops, NEW r \in Backups, AntiEntropyTick(o, r) PROVE StrictInv'
  <2>1. Checking \in Handlers /\ Checking.phase = "checking"
    BY CallerStateOK, HandlerType, BoundsAssumption, 0 \in 0 .. MaxRetries DEF Checking
  <2>2. Export(rec[Owner]).kind # "insert"
    BY DEF Export
  <2>3. Steps(o, <<>>, Checking)
    BY <1>0, <1>3, AntiEntropyTickOK
  <2> QED
    BY <1>0, <1>3, <2>1, <2>2, <2>3, BeginsStrict DEF AntiEntropyTick
<1>4. ASSUME NEW o \in Ops, Heal(o) PROVE StrictInv'
  <2>1. Waiting(1) \in Handlers /\ Waiting(1).phase = "waiting"
    BY LinkStateOK
  <2>2. Export(rec[Owner]).kind # "insert"
    BY DEF Export
  <2>3. Steps(o, <<>>, Waiting(1))
    BY <1>0, <1>4, HealOK
  <2> QED
    BY <1>0, <1>4, <2>1, <2>2, <2>3, BeginsStrict DEF Heal
<1>5. ASSUME NEW o \in Ops, RootCheck(o) PROVE StrictInv'
  <2>1. Waiting(1).phase = "waiting" /\ Handler("matched", 0, {}).phase = "matched"
    BY BoundsAssumption, HandlerType, 0 \in 0 .. MaxRetries, 1 \in 0 .. MaxRetries
    DEF Waiting
  <2>2. PICK h \in Handlers : /\ Steps(o, <<>>, h)
                              /\ h = Handler("matched", 0, {}) \/ h = Waiting(1)
    BY <1>0, <1>5, RootCheckOK
  <2>3. h.phase \notin {"none", "acked"}
    BY <2>1, <2>2
  <2>4. \A x \in Ops : Started(x) => Started(x)'
    BY <1>0, <2>2, StartedStays DEF Inv
  <2> QED
    BY <1>0, <1>5, <2>2, <2>3, <2>4, QuietStrict DEF RootCheck, Steps, EndsAt
<1>6. ASSUME NEW o \in Ops, NEW q \in Paths, NEW a \in Attempts, LinkLoads(o, q, a)
      PROVE  StrictInv'
  BY <1>0, <1>6, LoadStrict
<1>7. ASSUME NEW o \in Ops, NEW q \in Paths, NEW a \in Attempts, LinkReads(o, q, a)
      PROVE  StrictInv'
  BY <1>0, <1>7, ReadStrict
<1>8. ASSUME NEW o \in Ops, NEW q \in Paths, Hears(o, q) PROVE StrictInv'
  <2>1. PICK a \in Attempts : a = run[o][q].attempt
    BY <1>0, <1>8, WaitingOK DEF Hears
  <2>2. /\ run[o][q].phase = "waiting" /\ UNCHANGED <<rec, held, op>>
        /\ run[o][Append(q, a)].phase \in {"acked", "failed"}
        /\ Becomes(o, q, Handler(run[o][Append(q, a)].phase, a, run[o][Append(q, a)].answer))
    BY <1>8, <2>1 DEF Hears
  <2>3. PICK reply \in Handlers : reply = run[o][Append(q, a)]
    BY <1>0, <2>1, <2>2, WaitingOK DEF Inv, TypeOK
  <2>4. a \in 0 .. MaxRetries
    BY BoundsAssumption DEF Attempts
  <2>5. PICK h \in Handlers : Becomes(o, q, h) /\ h.phase \in {"acked", "failed"}
    BY <2>2, <2>3, <2>4, HandlerType DEF Handlers
  <2>6. ~EndsAt(o, q)
    BY <1>0, <2>2, WaitingOK
  <2>7. \A x \in Ops : Started(x) => Started(x)'
    BY <1>0, <2>2, <2>5, StaysStarted
  <2> QED
    BY <1>0, <2>2, <2>5, <2>6, <2>7, QuietStrict
<1>9. ASSUME NEW o \in Ops, NEW q \in Paths, TimesOut(o, q) PROVE StrictInv'
  <2>1. PICK h \in Handlers : Becomes(o, q, h) /\ h.phase \in {"waiting", "failed"}
    BY <1>0, <1>9, TimesOutOK
  <2>2. run[o][q].phase = "waiting" /\ UNCHANGED <<rec, held, op>>
    BY <1>9 DEF TimesOut
  <2>3. ~EndsAt(o, q)
    BY <1>0, <2>2, WaitingOK
  <2>4. \A x \in Ops : Started(x) => Started(x)'
    BY <1>0, <2>1, <2>2, StaysStarted
  <2> QED
    BY <1>0, <2>1, <2>2, <2>3, <2>4, QuietStrict
<1> QED
  BY <1>1, <1>2, <1>3, <1>4, <1>5, <1>6, <1>7, <1>8, <1>9 DEF Next

\* "Strict read" (replication.py:291): while nobody pushes a snapshot or
\* withdraws, a read tells of every announcement acknowledged before it began,
\* whatever is lost and repeated, and on every ring.
THEOREM StrictReads == Spec => []ReadsAreStrictUnhealed
  BY StrictInit, StrictStep, ReadsAreTold, PTL DEF Spec
=============================================================================
