---------------------- MODULE QuorumReplicationProofs -----------------------
(***************************************************************************)
(* What an acknowledgement of the quorum strategy is worth, for every k,   *)
(* every sequence of successor lists and any number of attempts.           *)
(***************************************************************************)
EXTENDS QuorumReplication, DataStoreProofs, FiniteSetTheorems

LEMMA DeltaIsItem ==
  ASSUME NEW d \in Deltas
  PROVE  d \in Items
  BY DEF Items

LEMMA ClientItemsType == ClientItems \subseteq Deltas \cup {Read}
<1>1. 1 .. MaxTime \subseteq Nat
  BY BoundsAssumption
<1> QED
  BY <1>1, OpKindsAssumption DEF ClientItems, Deltas

LEMMA ReplyType ==
  ASSUME TypeOK, NEW n \in Nodes
  PROVE  Reply(n) \in Replies
<1>1. rec[n] \in Records
  BY DEF TypeOK
<1> QED
  BY <1>1 DEF Reply, Replies, Query, Records

LEMMA FreshestType ==
  ASSUME NEW replies \in SUBSET Replies, NEW x \in Freshest(replies)
  PROVE  x.peers \in SUBSET Peers /\ x.ts \in Nat
  BY DEF Freshest, Nobody, Replies

LEMMA WritesItem ==
  ASSUME TypeOK, NEW o \in Ops, Writes(o)
  PROVE  op[o].item \in Deltas
  BY DEF TypeOK, ClientSides, Writes, Read

LEMMA OverType ==
  ASSUME NEW phase \in {"none", "waiting", "done", "died"}
  PROVE  Over(phase) \in Handlers
  BY DEF Over, Handlers

LEMMA InitType == Init => TypeOK
<1> SUFFICES ASSUME Init
             PROVE  TypeOK
  OBVIOUS
<1>1. Absent \in Records
  BY NoPeersType DEF Absent, Records
<1>2. op \in [Ops -> ClientSides]
  BY BoundsAssumption DEF Init, ClientSides
<1>3. run \in [Ops -> [Attempts -> Handlers]]
  BY OverType DEF Init
<1> QED
  BY <1>1, <1>2, <1>3 DEF Init, TypeOK

LEMMA IssueType ==
  ASSUME TypeOK, NEW o \in Ops, NEW item \in ClientItems, Issue(o, item)
  PROVE  TypeOK'
<1> DEFINE side == [phase |-> "called", item |-> item, attempt |-> 1,
                    before |-> {x \in Ops : op[x].phase \in {"acked", "answered"}},
                    answer |-> {}, asOf |-> 0]
<1>1. side \in ClientSides
  BY ClientItemsType, BoundsAssumption DEF ClientSides
<1>2. op' = [op EXCEPT ![o] = side]
  BY DEF Issue
<1> HIDE DEF side
<1> QED
  BY <1>1, <1>2 DEF TypeOK, Issue

\* One handler of the table changes.
LEMMA OneHandler ==
  ASSUME TypeOK, NEW o \in Ops, NEW a \in Attempts, NEW h \in Handlers,
         run' = [run EXCEPT ![o][a] = h]
  PROVE  run' \in [Ops -> [Attempts -> Handlers]]
  BY DEF TypeOK

LEMMA HeadBeginsType ==
  ASSUME TypeOK, NEW o \in Ops, NEW a \in Attempts,
         HeadWrites(o, a) \/ HeadReads(o, a)
  PROVE  TypeOK'
<1>1. CallsTo(list, o, a) \subseteq Calls
  BY BoundsAssumption DEF CallsTo, Calls, TypeOK, Nodes, Attempts
<1>2. Head \in Nodes
  BY DEF Nodes
<1>3. CASE HeadWrites(o, a)
  <2> DEFINE h == [phase |-> "waiting", votes |-> {Head}, replies |-> {}]
  <2>1. BulkLoad(rec[Head], op[o].item) \in Records
    BY <1>2, <1>3, WritesItem, DeltaIsItem, BulkLoadType DEF HeadWrites, TypeOK
  <2>2. h \in Handlers
    BY <1>2 DEF Handlers
  <2>3. run' = [run EXCEPT ![o][a] = h]
    BY <1>3 DEF HeadWrites
  <2> HIDE DEF h
  <2>4. run' \in [Ops -> [Attempts -> Handlers]]
    BY <2>2, <2>3, OneHandler
  <2> QED
    BY <1>1, <1>2, <1>3, <2>1, <2>4 DEF TypeOK, HeadWrites
<1>4. CASE HeadReads(o, a)
  <2> DEFINE h == [phase |-> "waiting", votes |-> {Head}, replies |-> {Reply(Head)}]
  <2>1. h \in Handlers
    BY <1>2, ReplyType DEF Handlers
  <2>2. run' = [run EXCEPT ![o][a] = h]
    BY <1>4 DEF HeadReads
  <2> HIDE DEF h
  <2>3. run' \in [Ops -> [Attempts -> Handlers]]
    BY <2>1, <2>2, OneHandler
  <2> QED
    BY <1>1, <1>4, <2>3 DEF TypeOK, HeadReads
<1> QED
  BY <1>3, <1>4

LEMMA RetriedType ==
  ASSUME NEW c \in Calls
  PROVE  Retried(c) \subseteq Calls
<1>1. c.tries \in Attempts /\ c.op \in Ops /\ c.attempt \in Attempts /\ c.dst \in Nodes
  BY DEF Calls
<1>2. CASE c.tries > 1
  <2>1. c.tries - 1 \in Attempts
    BY <1>1, <1>2, BoundsAssumption DEF Attempts
  <2> QED
    BY <1>1, <1>2, <2>1 DEF Retried, Calls
<1>3. CASE ~(c.tries > 1)
  BY <1>3 DEF Retried
<1> QED
  BY <1>2, <1>3

LEMMA VoteType ==
  ASSUME TypeOK, NEW c \in Calls, NEW replies \in SUBSET Replies, Vote(c, replies)
  PROVE  run' \in [Ops -> [Attempts -> Handlers]]
<1> DEFINE h == [phase |-> "waiting", votes |-> run[c.op][c.attempt].votes \cup {c.dst},
                 replies |-> run[c.op][c.attempt].replies \cup replies]
<1>1. c.op \in Ops /\ c.attempt \in Attempts /\ c.dst \in Nodes
  BY DEF Calls
<1>2. run[c.op][c.attempt] \in Handlers
  BY <1>1 DEF TypeOK
<1>3. h \in Handlers
  BY <1>1, <1>2 DEF Handlers
<1>4. run' = [run EXCEPT ![c.op][c.attempt] = h] \/ run' = run
  BY DEF Vote
<1> HIDE DEF h
<1>5. CASE run' = run
  BY <1>5 DEF TypeOK
<1> QED
  BY <1>1, <1>3, <1>4, <1>5, OneHandler

LEMMA CallType ==
  ASSUME TypeOK, NEW c \in calls, NEW heard \in BOOLEAN,
         ReplicaWrites(c, heard) \/ ReplicaReads(c) \/ CallLost(c)
  PROVE  TypeOK'
<1>1. c \in Calls /\ c.op \in Ops /\ c.attempt \in Attempts /\ c.dst \in Nodes
  BY DEF TypeOK, Calls
<1>2. Retried(c) \subseteq Calls
  BY <1>1, RetriedType
<1>3. CASE ReplicaWrites(c, heard)
  <2>1. BulkLoad(rec[c.dst], op[c.op].item) \in Records
    BY <1>1, <1>3, WritesItem, DeltaIsItem, BulkLoadType DEF ReplicaWrites, TypeOK
  <2>2. run' \in [Ops -> [Attempts -> Handlers]]
    BY <1>1, <1>3, VoteType DEF ReplicaWrites, TypeOK
  <2> QED
    BY <1>1, <1>2, <1>3, <2>1, <2>2 DEF TypeOK, ReplicaWrites
<1>4. CASE ReplicaReads(c)
  <2>1. run' \in [Ops -> [Attempts -> Handlers]]
    BY <1>1, <1>4, ReplyType, VoteType DEF ReplicaReads
  <2> QED
    BY <1>4, <2>1 DEF TypeOK, ReplicaReads
<1>5. CASE CallLost(c)
  BY <1>2, <1>5 DEF TypeOK, CallLost
<1> QED
  BY <1>3, <1>4, <1>5

LEMMA ToldType ==
  ASSUME TypeOK, NEW o \in Ops, NEW a \in Attempts, NEW phase \in Answers,
         NEW answer \in SUBSET Peers, NEW asOf \in Nat,
         Told(o, a, phase, answer, asOf)
  PROVE  op' \in [Ops -> ClientSides]
<1> DEFINE side == [phase |-> phase, item |-> op[o].item, attempt |-> a,
                    before |-> op[o].before, answer |-> answer, asOf |-> asOf]
<1>1. op[o] \in ClientSides
  BY DEF TypeOK
<1>2. side \in ClientSides
  BY <1>1, BoundsAssumption DEF ClientSides, Attempts
<1>3. op' = [op EXCEPT ![o] = side] \/ op' = op
  BY DEF Told
<1>4. CASE op' = op
  BY <1>4 DEF TypeOK
<1>5. CASE op' = [op EXCEPT ![o] = side]
  <2> HIDE DEF side
  <2> QED
    BY <1>2, <1>5 DEF TypeOK
<1> HIDE DEF side
<1> QED
  BY <1>3, <1>4, <1>5

LEMMA HeadEndsType ==
  ASSUME TypeOK, NEW o \in Ops, NEW a \in Attempts,
         \/ HeadWriteDies(o, a) \/ HeadRefusesRead(o, a)
         \/ HeadAcks(o, a) \/ HeadAnswersRead(o, a) \/ HeadGivesUp(o, a)
  PROVE  TypeOK'
<1>1. run' \in [Ops -> [Attempts -> Handlers]]
  BY OverType, OneHandler
  DEF HeadWriteDies, HeadRefusesRead, HeadAcks, HeadAnswersRead, HeadGivesUp
<1>2. calls' \subseteq Calls /\ UNCHANGED <<rec, held, list>>
  BY DEF TypeOK, HeadWriteDies, HeadRefusesRead, HeadAcks, HeadAnswersRead,
         HeadGivesUp, Forgotten
<1>3. op' \in [Ops -> ClientSides]
  <2>1. CASE HeadWriteDies(o, a)
    BY <2>1 DEF HeadWriteDies, TypeOK
  <2>2. CASE HeadRefusesRead(o, a) \/ HeadAcks(o, a) \/ HeadGivesUp(o, a)
    BY <2>2, ToldType DEF HeadRefusesRead, HeadAcks, HeadGivesUp, Answers
  <2>3. CASE HeadAnswersRead(o, a)
    <3>1. PICK x \in Freshest(run[o][a].replies) :
            Told(o, a, "answered", x.peers, x.ts)
      BY <2>3 DEF HeadAnswersRead
    <3>2. run[o][a].replies \in SUBSET Replies
      BY DEF TypeOK, Handlers
    <3>3. x.peers \in SUBSET Peers /\ x.ts \in Nat
      BY <3>2, FreshestType
    <3> QED
      BY <3>1, <3>3, ToldType DEF Answers
  <2> QED
    BY <2>1, <2>2, <2>3
<1> QED
  BY <1>1, <1>2, <1>3 DEF TypeOK

LEMMA ClientTimesOutType ==
  ASSUME TypeOK, NEW o \in Ops, ClientTimesOut(o)
  PROVE  TypeOK'
<1>1. op[o] \in ClientSides
  BY DEF TypeOK
<1>2. op[o].attempt < MaxRetries => op[o].attempt + 1 \in 0 .. MaxRetries
  BY <1>1, BoundsAssumption DEF ClientSides
<1>3. op' \in [Ops -> ClientSides]
  <2>1. CASE op[o].attempt < MaxRetries
    <3>1. [op[o] EXCEPT !.attempt = op[o].attempt + 1] \in ClientSides
      BY <1>1, <1>2, <2>1 DEF ClientSides
    <3>2. op' = [op EXCEPT ![o] = [op[o] EXCEPT !.attempt = op[o].attempt + 1]]
      BY <1>1, <2>1, BoundsAssumption DEF ClientTimesOut, ClientSides
    <3> QED
      BY <3>1, <3>2 DEF TypeOK
  <2>2. CASE ~(op[o].attempt < MaxRetries)
    <3>1. [op[o] EXCEPT !.phase = "unanswered"] \in ClientSides
      BY <1>1 DEF ClientSides, Answers
    <3>2. op' = [op EXCEPT ![o] = [op[o] EXCEPT !.phase = "unanswered"]]
      BY <2>2 DEF ClientTimesOut
    <3> QED
      BY <3>1, <3>2 DEF TypeOK
  <2> QED
    BY <2>1, <2>2
<1> QED
  BY <1>3 DEF TypeOK, ClientTimesOut

\* Every variable keeps its shape.
THEOREM TypeCorrect == Spec => []TypeOK
<1>1. TypeOK /\ [Next]_vars => TypeOK'
  <2> SUFFICES ASSUME TypeOK, [Next]_vars
               PROVE  TypeOK'
    OBVIOUS
  <2>1. CASE UNCHANGED vars
    BY <2>1 DEF vars, TypeOK
  <2>2. ASSUME NEW L \in Lists, NewList(L)
        PROVE  TypeOK'
    BY <2>2 DEF NewList, TypeOK
  <2>3. CASE Next
    BY <2>2, <2>3, IssueType, HeadBeginsType, HeadEndsType, CallType,
       ClientTimesOutType DEF Next
  <2> QED
    BY <2>1, <2>3
<1> QED
  BY <1>1, InitType, PTL DEF Spec
-----------------------------------------------------------------------------
(***************************************************************************)
(* An acknowledgement.  The votes of a handler that still waits for a      *)
(* quorum are those of nodes that have executed the operation; nobody      *)
(* forgets what it executed; and a handler begins only once the client has *)
(* fixed the operation.                                                    *)
(***************************************************************************)
Holders(o) == {n \in Nodes : o \in held[n]}

NotYetCalled ==
  \A o \in Ops : op[o].phase = "unused" =>
    op[o].attempt = 0 /\ \A a \in Attempts : run[o][a].phase = "none"

VotersHold ==
  \A o \in Ops, a \in Attempts :
    run[o][a].phase = "waiting" /\ Writes(o) => run[o][a].votes \subseteq Holders(o)

AckInv == TypeOK /\ NotYetCalled /\ VotersHold /\ AckedByMajority
LEMMA HoldersFinite ==
  ASSUME NEW o \in Ops
  PROVE  IsFiniteSet(Holders(o)) /\ IsFiniteSet(Holders(o))'
<1>1. IsFiniteSet({Head})
  BY FS_Singleton
<1>2. IsFiniteSet(Nodes)
  BY <1>1, NodesAssumption, FS_Union DEF Nodes
<1>3. Holders(o) \subseteq Nodes /\ Holders(o)' \subseteq Nodes
  BY DEF Holders
<1> QED
  BY <1>2, <1>3, FS_Subset

\* Nobody forgets an operation it has executed.
LEMMA HoldersGrow ==
  ASSUME TypeOK, [Next]_vars, NEW o \in Ops
  PROVE  Holders(o) \subseteq Holders(o)'
<1>1. CASE UNCHANGED vars
  BY <1>1 DEF vars, Holders
<1>2. ASSUME NEW x \in Ops, NEW item \in ClientItems, Issue(x, item)
      PROVE  held' = held
  BY <1>2 DEF Issue
<1>3. ASSUME NEW x \in Ops, NEW a \in Attempts, HeadWrites(x, a)
      PROVE  \A n \in Nodes : held[n] \subseteq held'[n]
  BY <1>3 DEF HeadWrites, TypeOK
<1>4. ASSUME NEW c \in calls, NEW heard \in BOOLEAN, ReplicaWrites(c, heard)
      PROVE  \A n \in Nodes : held[n] \subseteq held'[n]
  BY <1>4 DEF ReplicaWrites, TypeOK
<1>5. ASSUME Next
      PROVE  \A n \in Nodes : held[n] \subseteq held'[n]
  <2>1. \/ held' = held
        \/ \E x \in Ops, a \in Attempts : HeadWrites(x, a)
        \/ \E c \in calls, heard \in BOOLEAN : ReplicaWrites(c, heard)
    BY <1>2, <1>5
    DEF Next, HeadWriteDies, HeadReads, HeadRefusesRead, HeadAcks, HeadAnswersRead,
        HeadGivesUp, ReplicaReads, CallLost, ClientTimesOut, NewList
  <2> QED
    BY <1>3, <1>4, <2>1
<1> QED
  BY <1>1, <1>5 DEF Holders

\* An answer moves its client's phase, nothing else of the operations.
LEMMA ToldKeeps ==
  ASSUME TypeOK, NEW o \in Ops, NEW a \in Attempts, NEW phase \in Answers,
         NEW answer, NEW asOf, Told(o, a, phase, answer, asOf), NEW x \in Ops
  PROVE  /\ op'[x].item = op[x].item
         /\ op'[x].phase = "unused" => op[x].phase = "unused" /\ op'[x] = op[x]
         /\ op'[x].phase = op[x].phase \/ (x = o /\ op'[x].phase = phase)
  BY DEF Told, TypeOK, Answers

\* The end of a handler.
LEMMA HeadEndsKeeps ==
  ASSUME TypeOK, NEW o \in Ops, NEW a \in Attempts,
         \/ HeadWriteDies(o, a) \/ HeadRefusesRead(o, a)
         \/ HeadAcks(o, a) \/ HeadAnswersRead(o, a) \/ HeadGivesUp(o, a),
         NEW x \in Ops
  PROVE  /\ op'[x].item = op[x].item
         /\ op'[x].phase = "unused" => op[x].phase = "unused" /\ op'[x] = op[x]
         /\ op'[x].phase = "acked" => op[x].phase = "acked" \/ (x = o /\ HeadAcks(o, a))
<1>1. CASE HeadWriteDies(o, a)
  BY <1>1 DEF HeadWriteDies
<1>2. CASE HeadRefusesRead(o, a)
  BY <1>2, ToldKeeps DEF HeadRefusesRead, Answers
<1>3. CASE HeadAcks(o, a)
  BY <1>3, ToldKeeps DEF HeadAcks, Answers
<1>4. CASE HeadAnswersRead(o, a)
  BY <1>4, ToldKeeps DEF HeadAnswersRead, Answers
<1>5. CASE HeadGivesUp(o, a)
  BY <1>5, ToldKeeps DEF HeadGivesUp, Answers
<1> QED
  BY <1>1, <1>2, <1>3, <1>4, <1>5

LEMMA TimesOutKeeps ==
  ASSUME TypeOK, NEW o \in Ops, ClientTimesOut(o), NEW x \in Ops
  PROVE  /\ op'[x].item = op[x].item
         /\ op'[x].phase = "unused" => op[x].phase = "unused" /\ op'[x] = op[x]
         /\ op'[x].phase = "acked" => op[x].phase = "acked"
<1>1. op[o] \in ClientSides /\ op[x] \in ClientSides
  BY DEF TypeOK
<1>2. CASE x # o
  BY <1>2 DEF ClientTimesOut, TypeOK
<1>3. CASE x = o
  BY <1>1, <1>3 DEF ClientTimesOut, TypeOK, ClientSides
<1> QED
  BY <1>2, <1>3
\* What a step does to a handler that is in the table beside the one it serves.
LEMMA UpdateElsewhere ==
  ASSUME TypeOK, NEW o \in Ops, NEW a \in Attempts, NEW h,
         run' = [run EXCEPT ![o][a] = h], NEW x \in Ops, NEW b \in Attempts
  PROVE  run'[x][b] = IF x = o /\ b = a THEN h ELSE run[x][b]
  BY DEF TypeOK

LEMMA NotYetCalledKept ==
  ASSUME AckInv, Next
  PROVE  NotYetCalled'
<1> USE DEF AckInv
<1> SUFFICES ASSUME NEW x \in Ops, op'[x].phase = "unused", NEW b \in Attempts
             PROVE  op'[x].attempt = 0 /\ run'[x][b].phase = "none"
  <2>1. 1 \in Attempts
    BY BoundsAssumption DEF Attempts
  <2> QED
    BY <2>1 DEF NotYetCalled
<1>1. ASSUME op[x].phase = "unused"
      PROVE  \A a \in Attempts : ~Arrives(x, a)
  BY <1>1 DEF NotYetCalled, Arrives, Attempts
<1>2. ASSUME NEW o \in Ops, NEW item \in ClientItems, Issue(o, item)
      PROVE  op[x] = op'[x] /\ run' = run
  BY <1>2 DEF Issue, TypeOK
<1>3. ASSUME NEW o \in Ops, NEW a \in Attempts, HeadWrites(o, a) \/ HeadReads(o, a)
      PROVE  op' = op /\ run'[x] = run[x]
  BY <1>1, <1>3 DEF HeadWrites, HeadReads, TypeOK
<1>4. ASSUME NEW o \in Ops, NEW a \in Attempts,
             \/ HeadWriteDies(o, a) \/ HeadRefusesRead(o, a)
             \/ HeadAcks(o, a) \/ HeadAnswersRead(o, a) \/ HeadGivesUp(o, a)
      PROVE  op'[x] = op[x] /\ run'[x] = run[x]
  <2>1. op[x].phase = "unused" /\ op'[x] = op[x]
    BY <1>4, HeadEndsKeeps
  <2>2. Arrives(o, a) \/ run[o][a].phase = "waiting"
    BY <1>4 DEF HeadWriteDies, HeadRefusesRead, HeadAcks, HeadAnswersRead, HeadGivesUp
  <2>3. x # o
    BY <1>1, <2>1, <2>2 DEF NotYetCalled
  <2> QED
    BY <1>4, <2>1, <2>3
    DEF TypeOK, HeadWriteDies, HeadRefusesRead, HeadAcks, HeadAnswersRead, HeadGivesUp
<1>5. ASSUME NEW c \in calls, NEW replies, Vote(c, replies), op[x].phase = "unused"
      PROVE  run'[x] = run[x]
  <2>1. c.op \in Ops /\ c.attempt \in Attempts
    BY DEF TypeOK, Calls
  <2> QED
    BY <1>5, <2>1 DEF Vote, NotYetCalled, TypeOK
<1>6. ASSUME NEW c \in calls, NEW heard \in BOOLEAN,
             ReplicaWrites(c, heard) \/ ReplicaReads(c) \/ CallLost(c)
      PROVE  op'[x] = op[x] /\ run'[x] = run[x]
  BY <1>5, <1>6 DEF ReplicaWrites, ReplicaReads, CallLost
<1>7. ASSUME NEW o \in Ops, ClientTimesOut(o)
      PROVE  op'[x] = op[x] /\ run'[x] = run[x]
  BY <1>7, TimesOutKeeps DEF ClientTimesOut
<1>8. op'[x] = op[x] /\ run'[x] = run[x]
  BY <1>2, <1>3, <1>4, <1>6, <1>7 DEF Next, NewList
<1> QED
  BY <1>8 DEF NotYetCalled

LEMMA VotersHoldKept ==
  ASSUME AckInv, Next
  PROVE  VotersHold'
<1> USE DEF AckInv
<1> SUFFICES ASSUME NEW x \in Ops, NEW b \in Attempts,
                    run'[x][b].phase = "waiting", Writes(x)'
             PROVE  run'[x][b].votes \subseteq Holders(x)'
  BY DEF VotersHold
<1>1. Holders(x) \subseteq Holders(x)'
  BY HoldersGrow
<1>2. ASSUME run'[x][b] = run[x][b], op'[x].item = op[x].item
      PROVE  run'[x][b].votes \subseteq Holders(x)'
  BY <1>1, <1>2 DEF VotersHold, Writes
<1>3. ASSUME NEW o \in Ops, NEW item \in ClientItems, Issue(o, item)
      PROVE  run'[x][b] = run[x][b] /\ op'[x].item = op[x].item
  BY <1>3 DEF Issue, NotYetCalled, TypeOK
<1>4. ASSUME NEW o \in Ops, NEW a \in Attempts, HeadWrites(o, a)
      PROVE  run'[x][b].votes \subseteq Holders(x)'
  <2>1. CASE x = o /\ b = a
    <3>1. run'[x][b].votes = {Head}
      BY <1>4, <2>1 DEF HeadWrites, TypeOK
    <3>2. x \in held'[Head] /\ Head \in Nodes
      BY <1>4, <2>1 DEF HeadWrites, TypeOK, Nodes
    <3> QED
      BY <3>1, <3>2 DEF Holders
  <2>2. CASE ~(x = o /\ b = a)
    BY <1>2, <1>4, <2>2, UpdateElsewhere DEF HeadWrites
  <2> QED
    BY <2>1, <2>2
<1>5. ASSUME NEW o \in Ops, NEW a \in Attempts, HeadReads(o, a)
      PROVE  run'[x][b] = run[x][b] /\ op'[x].item = op[x].item
  <2>1. x # o
    BY <1>5 DEF HeadReads, Writes
  <2> QED
    BY <1>5, <2>1, UpdateElsewhere DEF HeadReads
<1>6. ASSUME NEW o \in Ops, NEW a \in Attempts,
             \/ HeadWriteDies(o, a) \/ HeadRefusesRead(o, a)
             \/ HeadAcks(o, a) \/ HeadAnswersRead(o, a) \/ HeadGivesUp(o, a)
      PROVE  run'[x][b] = run[x][b] /\ op'[x].item = op[x].item
  <2>1. \E phase \in {"done", "died"} : run' = [run EXCEPT ![o][a] = Over(phase)]
    BY <1>6 DEF HeadWriteDies, HeadRefusesRead, HeadAcks, HeadAnswersRead, HeadGivesUp
  <2>2. ~(x = o /\ b = a)
    BY <2>1 DEF Over, TypeOK
  <2> QED
    BY <1>6, <2>1, <2>2, UpdateElsewhere, HeadEndsKeeps
<1>7. ASSUME NEW c \in calls, NEW replies, Vote(c, replies), op' = op, x \in held'[c.dst]
      PROVE  run'[x][b].votes \subseteq Holders(x)'
  <2>1. c.op \in Ops /\ c.attempt \in Attempts /\ c.dst \in Nodes
    BY DEF TypeOK, Calls
  <2>2. CASE run[c.op][c.attempt].phase = "waiting" /\ c.op = x /\ c.attempt = b
    <3>1. run'[x][b].votes = run[x][b].votes \cup {c.dst}
      BY <1>7, <2>1, <2>2 DEF Vote, TypeOK
    <3>2. run[x][b].votes \subseteq Holders(x)
      BY <1>7, <2>2 DEF VotersHold, Writes
    <3> QED
      BY <1>1, <1>7, <2>1, <3>1, <3>2 DEF Holders
  <2>3. CASE ~(run[c.op][c.attempt].phase = "waiting" /\ c.op = x /\ c.attempt = b)
    <3>1. run'[x][b] = run[x][b]
      BY <1>7, <2>1, <2>3 DEF Vote, TypeOK
    <3> QED
      BY <1>2, <1>7, <3>1
  <2> QED
    BY <2>2, <2>3
<1>8. ASSUME NEW c \in calls, NEW replies, Vote(c, replies), op' = op, c.op # x
      PROVE  run'[x][b] = run[x][b]
  <2>1. c.op \in Ops /\ c.attempt \in Attempts
    BY DEF TypeOK, Calls
  <2> QED
    BY <1>8, <2>1 DEF Vote, TypeOK
<1>9. ASSUME NEW c \in calls, NEW heard \in BOOLEAN, ReplicaWrites(c, heard)
      PROVE  run'[x][b].votes \subseteq Holders(x)'
  <2>1. CASE run' = run
    BY <1>2, <1>9, <2>1 DEF ReplicaWrites
  <2>2. CASE Vote(c, {}) /\ c.op # x
    BY <1>2, <1>8, <1>9, <2>2 DEF ReplicaWrites
  <2>3. CASE Vote(c, {}) /\ c.op = x
    <3>1. c.dst \in Nodes
      BY DEF TypeOK, Calls
    <3>2. x \in held'[c.dst]
      BY <1>9, <2>3, <3>1 DEF ReplicaWrites, TypeOK
    <3> QED
      BY <1>7, <1>9, <2>3, <3>2 DEF ReplicaWrites
  <2> QED
    BY <1>9, <2>1, <2>2, <2>3 DEF ReplicaWrites
<1>10. ASSUME NEW c \in calls, ReplicaReads(c)
       PROVE  run'[x][b] = run[x][b] /\ op' = op
  <2>1. c.op # x
    BY <1>10 DEF ReplicaReads, Writes
  <2> QED
    BY <1>8, <1>10, <2>1 DEF ReplicaReads
<1>11. ASSUME NEW o \in Ops, ClientTimesOut(o)
       PROVE  run'[x][b] = run[x][b] /\ op'[x].item = op[x].item
  BY <1>11, TimesOutKeeps DEF ClientTimesOut
<1> QED
  BY <1>2, <1>3, <1>4, <1>5, <1>6, <1>9, <1>10, <1>11 DEF Next, CallLost, NewList

LEMMA AcksKept ==
  ASSUME AckInv, Next
  PROVE  AckedByMajority'
<1> USE DEF AckInv
<1>1. SUFFICES ASSUME NEW x \in Ops, op'[x].phase = "acked"
               PROVE  Cardinality(Holders(x)') >= Majority
  BY DEF AckedByMajority, Holders
<1>2. Majority \in Nat
  BY BoundsAssumption DEF Majority
<1>3. IsFiniteSet(Holders(x)) /\ IsFiniteSet(Holders(x)')
  BY HoldersFinite
<1>4. Holders(x) \subseteq Holders(x)'
  BY HoldersGrow
<1>5. CASE op[x].phase = "acked"
  <2>1. Cardinality(Holders(x)) >= Majority
    BY <1>5 DEF AckedByMajority, Holders
  <2>2. Cardinality(Holders(x)) <= Cardinality(Holders(x)')
    BY <1>3, <1>4, FS_Subset
  <2> QED
    BY <1>2, <1>3, <2>1, <2>2, FS_CardinalityType
<1>6. ASSUME NEW a \in Attempts, HeadAcks(x, a)
      PROVE  Cardinality(Holders(x)') >= Majority
  <2>1. run[x][a].votes \subseteq Holders(x)'
    BY <1>4, <1>6 DEF HeadAcks, VotersHold
  <2>2. Cardinality(run[x][a].votes) <= Cardinality(Holders(x)')
    BY <1>3, <2>1, FS_Subset
  <2>3. IsFiniteSet(run[x][a].votes)
    BY <1>3, <2>1, FS_Subset
  <2>4. Cardinality(run[x][a].votes) >= Majority
    BY <1>6 DEF HeadAcks, QuorumReached
  <2> QED
    BY <1>2, <1>3, <2>2, <2>3, <2>4, FS_CardinalityType
<1>7. op[x].phase = "acked" \/ \E a \in Attempts : HeadAcks(x, a)
  <2>1. ASSUME NEW o \in Ops, NEW item \in ClientItems, Issue(o, item)
        PROVE  op[x].phase = "acked"
    BY <1>1, <2>1 DEF Issue, TypeOK
  <2>2. ASSUME NEW o \in Ops, NEW a \in Attempts,
               \/ HeadWriteDies(o, a) \/ HeadRefusesRead(o, a)
               \/ HeadAcks(o, a) \/ HeadAnswersRead(o, a) \/ HeadGivesUp(o, a)
        PROVE  op[x].phase = "acked" \/ HeadAcks(x, a)
    BY <1>1, <2>2, HeadEndsKeeps
  <2>3. ASSUME NEW o \in Ops, ClientTimesOut(o)
        PROVE  op[x].phase = "acked"
    BY <1>1, <2>3, TimesOutKeeps
  <2> QED
    BY <1>1, <2>1, <2>2, <2>3
    DEF Next, HeadWrites, HeadReads, ReplicaWrites, ReplicaReads, CallLost, NewList
<1> QED
  BY <1>5, <1>6, <1>7

LEMMA Acknowledging == Spec => []AckInv
<1>1. Init => NotYetCalled /\ VotersHold /\ AckedByMajority
  BY DEF Init, NotYetCalled, VotersHold, AckedByMajority, Over
<1>2. AckInv /\ [Next]_vars => NotYetCalled' /\ VotersHold' /\ AckedByMajority'
  <2>1. ASSUME AckInv, UNCHANGED vars
        PROVE  NotYetCalled' /\ VotersHold' /\ AckedByMajority'
    BY <2>1 DEF AckInv, vars, NotYetCalled, VotersHold, AckedByMajority, Holders,
                Writes, Majority
  <2> QED
    BY <2>1, NotYetCalledKept, VotersHoldKept, AcksKept
<1> QED
  BY <1>1, <1>2, TypeCorrect, PTL DEF Spec, AckInv

\* An acknowledged write has been executed by a majority of the nodes, whatever
\* k, the successor lists, the lost answers and the repeated attempts were
\* (_quorum_insert).
THEOREM AcknowledgedByMajority == Spec => []AckedByMajority
<1>1. AckInv => AckedByMajority
  BY DEF AckInv
<1> QED
  BY <1>1, Acknowledging, PTL
-----------------------------------------------------------------------------
(***************************************************************************)
(* How fresh a read is.  Without removals the head is never behind: it is  *)
(* the first to execute a write, and what is in the calls, the records and *)
(* the replies comes from it.  Its own reply, taken when a read begins, is *)
(* then as fresh as all that was over by that time, and is never set aside *)
(* for a staler one.                                                       *)
(***************************************************************************)
IsOver(o) == op[o].phase \in {"acked", "answered"}

\* What a read that begins when o is over must not fall behind.
AgeOf(o) == IF Writes(o) THEN op[o].item.ts ELSE op[o].asOf

OpOK(o) ==
  /\ op[o].item \in ClientItems
  /\ \A x \in op[o].before : IsOver(x)

CallsBegun == \A c \in calls : op[c.op].phase # "unused"

\* A live record has a seeder as soon as it has a time.
RecordLive(n) ==
  /\ ~rec[n].tomb
  /\ rec[n].ts > 0 => Query(rec[n]) # {}

\* Nothing is newer than the record of the head.
RecordsBehind == \A n \in Nodes : RecordLive(n) /\ rec[n].ts <= rec[Head].ts
CallsBehind == \A c \in calls : Writes(c.op) => op[c.op].item.ts <= rec[Head].ts
HandlersBehind ==
  \A o \in Ops, a \in Attempts :
    /\ run[o][a].phase = "waiting" /\ Writes(o) => op[o].item.ts <= rec[Head].ts
    /\ \A y \in run[o][a].replies : y.ts <= rec[Head].ts
OversBehind == \A o \in Ops : IsOver(o) => AgeOf(o) <= rec[Head].ts

\* A reply that keeps a read from going back.
KeepsUp(o, y) ==
  /\ y.ts > 0 => y.peers # {}
  /\ \A x \in op[o].before : AgeOf(x) <= y.ts

ReadersKeepUp ==
  \A o \in Ops, a \in Attempts :
    run[o][a].phase = "waiting" /\ ~Writes(o) =>
      \E y \in run[o][a].replies : KeepsUp(o, y)

AnswersKeepUp ==
  \A o \in Ops : op[o].phase = "answered" => \A x \in op[o].before : AgeOf(x) <= op[o].asOf

FreshInv ==
  /\ TypeOK /\ NotYetCalled
  /\ \A o \in Ops : OpOK(o)
  /\ CallsBegun
  /\ Removals = {} => /\ RecordsBehind /\ CallsBehind /\ HandlersBehind /\ OversBehind
                      /\ ReadersKeepUp /\ AnswersKeepUp

\* What becomes of an operation in a step.
LEMMA ToldMoves ==
  ASSUME TypeOK, NEW o \in Ops, NEW a \in Attempts, NEW phase \in Answers,
         NEW answer, NEW asOf, Told(o, a, phase, answer, asOf), NEW x \in Ops
  PROVE  \/ op'[x] = op[x]
         \/ /\ x = o /\ op[x].phase = "called"
            /\ op'[x].item = op[x].item /\ op'[x].before = op[x].before
            /\ op'[x].phase = phase /\ op'[x].asOf = asOf
  BY DEF Told, TypeOK

LEMMA OpMoves ==
  ASSUME TypeOK, Next, NEW x \in Ops
  PROVE  \/ op'[x] = op[x]
         \/ \E item \in ClientItems : Issue(x, item)
         \/ /\ op[x].phase = "called" /\ op'[x].phase # "unused"
            /\ op'[x].item = op[x].item /\ op'[x].before = op[x].before
            /\ op'[x].phase = "acked" => \E a \in Attempts : HeadAcks(x, a)
            /\ op'[x].phase = "answered" =>
                 \E a \in Attempts :
                   /\ HeadAnswersRead(x, a)
                   /\ \E y \in Freshest(run[x][a].replies) : op'[x].asOf = y.ts
<1> DEFINE Moves == 
         \/ op'[x] = op[x]
         \/ \E item \in ClientItems : Issue(x, item)
         \/ /\ op[x].phase = "called" /\ op'[x].phase # "unused"
            /\ op'[x].item = op[x].item /\ op'[x].before = op[x].before
            /\ op'[x].phase = "acked" => \E a \in Attempts : HeadAcks(x, a)
            /\ op'[x].phase = "answered" =>
                 \E a \in Attempts :
                   /\ HeadAnswersRead(x, a)
                   /\ \E y \in Freshest(run[x][a].replies) : op'[x].asOf = y.ts
<1>1. ASSUME NEW o \in Ops, NEW item \in ClientItems, Issue(o, item)
      PROVE  Moves
  <2>1. CASE x = o
    BY <1>1, <2>1
  <2>2. CASE x # o
    BY <1>1, <2>2 DEF Issue, TypeOK
  <2> QED
    BY <2>1, <2>2
<1>2. ASSUME NEW o \in Ops, NEW a \in Attempts,
             HeadRefusesRead(o, a) \/ HeadGivesUp(o, a)
      PROVE  Moves
  <2>1. PICK phase \in {"refused", "failed", "empty"} : Told(o, a, phase, {}, 0)
    BY <1>2 DEF HeadRefusesRead, HeadGivesUp
  <2>2. phase \in Answers
    BY DEF Answers
  <2> QED
    BY <2>1, <2>2, ToldMoves
<1>3. ASSUME NEW o \in Ops, NEW a \in Attempts, HeadAcks(o, a)
      PROVE  Moves
  <2>1. Told(o, a, "acked", {}, 0) /\ "acked" \in Answers
    BY <1>3 DEF HeadAcks, Answers
  <2>2. \/ op'[x] = op[x]
        \/ /\ x = o /\ op[x].phase = "called"
           /\ op'[x].item = op[x].item /\ op'[x].before = op[x].before
           /\ op'[x].phase = "acked"
    BY <2>1, ToldMoves
  <2> QED
    BY <1>3, <2>2
<1>4. ASSUME NEW o \in Ops, NEW a \in Attempts, HeadAnswersRead(o, a)
      PROVE  Moves
  <2>1. PICK y \in Freshest(run[o][a].replies) : Told(o, a, "answered", y.peers, y.ts)
    BY <1>4 DEF HeadAnswersRead
  <2>2. "answered" \in Answers
    BY DEF Answers
  <2>3. \/ op'[x] = op[x]
        \/ /\ x = o /\ op[x].phase = "called"
           /\ op'[x].item = op[x].item /\ op'[x].before = op[x].before
           /\ op'[x].phase = "answered" /\ op'[x].asOf = y.ts
    BY <2>1, <2>2, ToldMoves
  <2> QED
    BY <1>4, <2>1, <2>3
<1>5. ASSUME NEW o \in Ops, ClientTimesOut(o)
      PROVE  Moves
  <2>1. CASE x # o
    BY <1>5, <2>1 DEF ClientTimesOut, TypeOK
  <2>2. CASE x = o
    <3>1. op[x] \in ClientSides /\ op[x].phase = "called"
      BY <1>5, <2>2 DEF ClientTimesOut, TypeOK
    <3>2. op'[x].phase \in {"called", "unanswered"}
      BY <1>5, <2>2, <3>1 DEF ClientTimesOut, TypeOK, ClientSides
    <3>3. op'[x].item = op[x].item /\ op'[x].before = op[x].before
      BY <1>5, <2>2, <3>1 DEF ClientTimesOut, TypeOK, ClientSides
    <3> QED
      BY <3>1, <3>2, <3>3
  <2> QED
    BY <2>1, <2>2
<1>6. op' = op => Moves
  OBVIOUS
<1> HIDE DEF Moves
<1>7. Moves
  BY <1>1, <1>2, <1>3, <1>4, <1>5, <1>6
  DEF Next, HeadWrites, HeadReads, HeadWriteDies, ReplicaWrites, ReplicaReads, CallLost, NewList
<1> QED
  BY <1>7 DEF Moves

\* An operation that has begun stays what it is; one that is over, for good.
LEMMA OpStays ==
  ASSUME TypeOK, Next, NEW x \in Ops, op[x].phase # "unused"
  PROVE  /\ op'[x].phase # "unused"
         /\ op'[x].item = op[x].item /\ op'[x].before = op[x].before
         /\ IsOver(x) => op'[x] = op[x]
  BY OpMoves DEF Issue, IsOver

LEMMA RemovalsStay ==
  ASSUME TypeOK, Next, Removals' = {}
  PROVE  Removals = {}
  BY OpStays DEF Removals

LEMMA OpOKKept ==
  ASSUME FreshInv, Next, NEW x \in Ops
  PROVE  OpOK(x)'
<1> USE DEF FreshInv
<1>1. \A y \in Ops : IsOver(y) => IsOver(y)'
  BY OpStays DEF IsOver
<1>2. op[x].before \subseteq Ops /\ OpOK(x)
  BY DEF TypeOK, ClientSides
<1>3. CASE op'[x].item = op[x].item /\ op'[x].before = op[x].before
  BY <1>1, <1>2, <1>3 DEF OpOK
<1>4. ASSUME NEW item \in ClientItems, Issue(x, item)
      PROVE  OpOK(x)'
  <2>1. op'[x].item = item /\ op'[x].before = {y \in Ops : IsOver(y)}
    BY <1>4 DEF Issue, TypeOK, IsOver
  <2> QED
    BY <1>1, <2>1 DEF OpOK
<1> QED
  BY <1>3, <1>4, OpMoves

\* What becomes of a handler in a step.
LEMMA VoteMoves ==
  ASSUME TypeOK, NEW c \in calls, NEW replies, Vote(c, replies),
         NEW x \in Ops, NEW b \in Attempts
  PROVE  \/ run'[x][b] = run[x][b]
         \/ /\ run[x][b].phase = "waiting" /\ run'[x][b].phase = "waiting"
            /\ run'[x][b].replies = run[x][b].replies \cup replies
<1>1. c.op \in Ops /\ c.attempt \in Attempts
  BY DEF TypeOK, Calls
<1> QED
  BY <1>1 DEF Vote, TypeOK

LEMMA RunMoves ==
  ASSUME TypeOK, Next, NEW x \in Ops, NEW b \in Attempts
  PROVE  \/ run'[x][b] = run[x][b]
         \/ HeadWrites(x, b) /\ run'[x][b].replies = {}
         \/ HeadReads(x, b) /\ run'[x][b].replies = {Reply(Head)}
         \/ run'[x][b].phase # "waiting" /\ run'[x][b].replies = {}
         \/ /\ run[x][b].phase = "waiting" /\ run'[x][b].phase = "waiting"
            /\ \E n \in Nodes :
                 run'[x][b].replies \in {run[x][b].replies, run[x][b].replies \cup {Reply(n)}}
<1> DEFINE Moves ==
         \/ run'[x][b] = run[x][b]
         \/ HeadWrites(x, b) /\ run'[x][b].replies = {}
         \/ HeadReads(x, b) /\ run'[x][b].replies = {Reply(Head)}
         \/ run'[x][b].phase # "waiting" /\ run'[x][b].replies = {}
         \/ /\ run[x][b].phase = "waiting" /\ run'[x][b].phase = "waiting"
            /\ \E n \in Nodes :
                 run'[x][b].replies \in {run[x][b].replies, run[x][b].replies \cup {Reply(n)}}
<1>1. ASSUME NEW o \in Ops, NEW a \in Attempts, HeadWrites(o, a) \/ HeadReads(o, a)
      PROVE  Moves
  <2>1. CASE ~(x = o /\ b = a)
    BY <1>1, <2>1, UpdateElsewhere DEF HeadWrites, HeadReads
  <2>2. CASE x = o /\ b = a /\ HeadWrites(x, b)
    <3>1. run' = [run EXCEPT ![x][b] = [phase |-> "waiting", votes |-> {Head}, replies |-> {}]]
      BY <2>2 DEF HeadWrites
    <3>2. run'[x][b] = [phase |-> "waiting", votes |-> {Head}, replies |-> {}]
      BY <3>1 DEF TypeOK
    <3> QED
      BY <2>2, <3>2
  <2>3. CASE x = o /\ b = a /\ HeadReads(x, b)
    <3>1. run' = [run EXCEPT ![x][b] =
                    [phase |-> "waiting", votes |-> {Head}, replies |-> {Reply(Head)}]]
      BY <2>3 DEF HeadReads
    <3>2. run'[x][b] = [phase |-> "waiting", votes |-> {Head}, replies |-> {Reply(Head)}]
      BY <3>1 DEF TypeOK
    <3> QED
      BY <2>3, <3>2
  <2> QED
    BY <1>1, <2>1, <2>2, <2>3
<1>2. ASSUME NEW o \in Ops, NEW a \in Attempts,
             \/ HeadWriteDies(o, a) \/ HeadRefusesRead(o, a)
             \/ HeadAcks(o, a) \/ HeadAnswersRead(o, a) \/ HeadGivesUp(o, a)
      PROVE  Moves
  <2>1. \E phase \in {"done", "died"} : run' = [run EXCEPT ![o][a] = Over(phase)]
    BY <1>2 DEF HeadWriteDies, HeadRefusesRead, HeadAcks, HeadAnswersRead, HeadGivesUp
  <2> QED
    BY <2>1, UpdateElsewhere DEF Over
<1>3. ASSUME NEW c \in calls, NEW heard \in BOOLEAN, ReplicaWrites(c, heard)
      PROVE  Moves
  <2>1. CASE run' = run
    BY <2>1
  <2>2. CASE Vote(c, {})
    <3>1. \/ run'[x][b] = run[x][b]
          \/ /\ run[x][b].phase = "waiting" /\ run'[x][b].phase = "waiting"
             /\ run'[x][b].replies = run[x][b].replies \cup {}
      BY <2>2, VoteMoves
    <3>2. Head \in Nodes
      BY DEF Nodes
    <3> QED
      BY <3>1, <3>2
  <2> QED
    BY <1>3, <2>1, <2>2 DEF ReplicaWrites
<1>4. ASSUME NEW c \in calls, ReplicaReads(c)
      PROVE  Moves
  <2>1. Vote(c, {Reply(c.dst)}) /\ c.dst \in Nodes
    BY <1>4 DEF ReplicaReads, TypeOK, Calls
  <2>2. \/ run'[x][b] = run[x][b]
        \/ /\ run[x][b].phase = "waiting" /\ run'[x][b].phase = "waiting"
           /\ run'[x][b].replies = run[x][b].replies \cup {Reply(c.dst)}
    BY <2>1, VoteMoves
  <2> QED
    BY <2>1, <2>2
<1>5. run' = run => Moves
  OBVIOUS
<1> HIDE DEF Moves
<1>6. Moves
  BY <1>1, <1>2, <1>3, <1>4, <1>5 DEF Next, Issue, CallLost, ClientTimesOut, NewList
<1> QED
  BY <1>6 DEF Moves

\* Calls are made by a handler that begins, and repeated.
LEMMA CallMoves ==
  ASSUME TypeOK, Next, NEW c \in calls'
  PROVE  \/ \E d \in calls : c.op = d.op
         \/ c.op \in Ops /\ \E a \in Attempts : HeadWrites(c.op, a) \/ HeadReads(c.op, a)
<1> DEFINE Moves ==
         \/ \E d \in calls : c.op = d.op
         \/ c.op \in Ops /\ \E a \in Attempts : HeadWrites(c.op, a) \/ HeadReads(c.op, a)
<1>1. ASSUME NEW o \in Ops, NEW a \in Attempts, HeadWrites(o, a) \/ HeadReads(o, a)
      PROVE  Moves
  <2>1. c \in calls \/ c \in CallsTo(list, o, a)
    BY <1>1 DEF HeadWrites, HeadReads
  <2>2. c \in CallsTo(list, o, a) => c.op = o
    BY DEF CallsTo
  <2> QED
    BY <1>1, <2>1, <2>2
<1>2. ASSUME NEW d \in calls, calls' \subseteq calls \cup Retried(d)
      PROVE  Moves
  <2>1. d \in Calls
    BY DEF TypeOK
  <2>2. \A e \in Retried(d) : e.op = d.op
    BY <2>1 DEF Retried, Calls
  <2> QED
    BY <1>2, <2>2
<1>3. ASSUME NEW d \in calls, NEW heard \in BOOLEAN,
             ReplicaWrites(d, heard) \/ ReplicaReads(d) \/ CallLost(d)
      PROVE  Moves
  <2>1. calls' \subseteq calls \cup Retried(d)
    BY <1>3 DEF ReplicaWrites, ReplicaReads, CallLost
  <2> QED
    BY <1>2, <2>1
<1>4. calls' \subseteq calls => Moves
  OBVIOUS
<1> HIDE DEF Moves
<1>5. ASSUME NEW o \in Ops, NEW a \in Attempts,
             \/ HeadWriteDies(o, a) \/ HeadRefusesRead(o, a)
             \/ HeadAcks(o, a) \/ HeadAnswersRead(o, a) \/ HeadGivesUp(o, a)
      PROVE  Moves
  BY <1>4, <1>5
  DEF HeadWriteDies, HeadRefusesRead, HeadAcks, HeadAnswersRead, HeadGivesUp, Forgotten
<1>6. Moves
  BY <1>1, <1>3, <1>4, <1>5 DEF Next, Issue, ClientTimesOut, NewList
<1> QED
  BY <1>6 DEF Moves

\* A handler begins for an operation that has been issued.
LEMMA Begun ==
  ASSUME NotYetCalled, NEW o \in Ops, NEW a \in Attempts,
         Arrives(o, a) \/ run[o][a].phase = "waiting"
  PROVE  op[o].phase # "unused"
  BY DEF NotYetCalled, Arrives, Attempts

LEMMA CallsBegunKept ==
  ASSUME FreshInv, Next
  PROVE  CallsBegun'
<1> USE DEF FreshInv
<1>1. \A c \in calls : c.op \in Ops
  BY DEF TypeOK, Calls
<1> SUFFICES ASSUME NEW c \in calls'
             PROVE  op'[c.op].phase # "unused"
  BY DEF CallsBegun
<1>2. c.op \in Ops /\ op[c.op].phase # "unused"
  BY <1>1, CallMoves, Begun DEF CallsBegun, HeadWrites, HeadReads
<1> QED
  BY <1>2, OpStays

\* While nothing is removed, a write is an announcement with a time.
LEMMA Announcement ==
  ASSUME FreshInv, Removals = {}, NEW o \in Ops, Writes(o), op[o].phase # "unused"
  PROVE  /\ op[o].item \in Deltas /\ op[o].item.kind = "insert"
         /\ op[o].item.ts \in Nat /\ op[o].item.ts > 0
<1>1. op[o].item \in ClientItems /\ op[o].item.kind # "read" /\ op[o].item.kind # "remove"
  BY DEF FreshInv, OpOK, Writes, Removals
<1>2. op[o].item \in [kind : OpKinds, peer : Peers, ts : 1 .. MaxTime]
  BY <1>1 DEF ClientItems, Read
<1>3. op[o].item \in Deltas
  BY <1>1, ClientItemsType DEF Read
<1>4. op[o].item.kind = "insert"
  BY <1>1, <1>3 DEF Deltas
<1>5. op[o].item.ts \in 1 .. MaxTime
  BY <1>2
<1> QED
  BY <1>3, <1>4, <1>5, BoundsAssumption

\* What an announcement does to a live record.
LEMMA LoadAnnouncement ==
  ASSUME NEW r \in Records, ~r.tomb, NEW item \in Deltas, item.kind = "insert", item.ts > 0
  PROVE  /\ ~BulkLoad(r, item).tomb
         /\ Query(BulkLoad(r, item)) # {}
         /\ BulkLoad(r, item).ts = Later(r.ts, item.ts)
<1>1. item.peer \in Peers /\ item.ts \in Nat
  BY DEF Deltas
<1>2. BulkLoad(r, item) = [peers |-> [r.peers EXCEPT ![item.peer] = Later(@, item.ts)],
                           ts |-> Later(r.ts, item.ts), tomb |-> FALSE]
  BY DEF BulkLoad, Insert
<1>3. Later(r.peers[item.peer], item.ts) > 0
  BY <1>1 DEF Later, Records
<1>4. [r.peers EXCEPT ![item.peer] = Later(@, item.ts)][item.peer] > 0
  BY <1>1, <1>3 DEF Records
<1> QED
  BY <1>1, <1>2, <1>4 DEF Query

\* A step of the records: one node executes a write of the head, which the
\* head has executed before or executes now.
LEMMA RecMoves ==
  ASSUME FreshInv, Next, Removals = {}, RecordsBehind, CallsBehind
  PROVE  RecordsBehind' /\ rec[Head].ts <= rec'[Head].ts
<1> USE DEF FreshInv
<1>0. Head \in Nodes /\ \A n \in Nodes : rec[n] \in Records /\ rec[n].ts \in Nat
  BY DEF TypeOK, Nodes, Records
<1>1. CASE rec' = rec
  BY <1>0, <1>1 DEF RecordsBehind, RecordLive
<1>2. ASSUME NEW o \in Ops, Writes(o), op[o].phase # "unused", NEW n \in Nodes,
             rec' = [rec EXCEPT ![n] = BulkLoad(@, op[o].item)],
             n = Head \/ op[o].item.ts <= rec[Head].ts
      PROVE  RecordsBehind' /\ rec[Head].ts <= rec'[Head].ts
  <2>1. op[o].item \in Deltas /\ op[o].item.kind = "insert"
        /\ op[o].item.ts \in Nat /\ op[o].item.ts > 0
    BY <1>2, Announcement
  <2>2. ~rec[n].tomb /\ rec[n].ts <= rec[Head].ts
    BY DEF RecordsBehind, RecordLive
  <2>3. /\ ~rec'[n].tomb /\ Query(rec'[n]) # {}
        /\ rec'[n].ts = Later(rec[n].ts, op[o].item.ts)
    <3>1. rec'[n] = BulkLoad(rec[n], op[o].item)
      BY <1>2 DEF TypeOK
    <3> QED
      BY <1>0, <2>1, <2>2, <3>1, LoadAnnouncement
  <2>4. \A m \in Nodes : m # n => rec'[m] = rec[m]
    BY <1>2 DEF TypeOK
  <2>5. rec[Head].ts <= rec'[Head].ts
    BY <1>0, <2>1, <2>3, <2>4 DEF Later
  <2>6. rec'[n].ts <= rec'[Head].ts
    BY <1>0, <1>2, <2>1, <2>2, <2>3, <2>4 DEF Later
  <2>7. ASSUME NEW m \in Nodes PROVE RecordLive(m)' /\ rec'[m].ts <= rec'[Head].ts
    <3>1. CASE m = n
      BY <2>3, <2>6, <3>1 DEF RecordLive
    <3>2. CASE m # n
      <4>1. rec'[m] = rec[m] /\ rec[m].ts <= rec[Head].ts /\ RecordLive(m)
        BY <2>4, <3>2 DEF RecordsBehind
      <4>2. rec'[Head].ts \in Nat
        BY <1>0, <2>1, <2>3, <2>4 DEF Later
      <4> QED
        BY <1>0, <2>5, <4>1, <4>2 DEF RecordLive
    <3> QED
      BY <3>1, <3>2
  <2> QED
    BY <2>5, <2>7 DEF RecordsBehind
<1>3. ASSUME NEW o \in Ops, NEW a \in Attempts, HeadWrites(o, a)
      PROVE  RecordsBehind' /\ rec[Head].ts <= rec'[Head].ts
  <2>1. op[o].phase # "unused"
    BY <1>3, Begun DEF HeadWrites
  <2> QED
    BY <1>0, <1>2, <1>3, <2>1 DEF HeadWrites
<1>4. ASSUME NEW c \in calls, NEW heard \in BOOLEAN, ReplicaWrites(c, heard)
      PROVE  RecordsBehind' /\ rec[Head].ts <= rec'[Head].ts
  <2>1. c.op \in Ops /\ c.dst \in Nodes
    BY DEF TypeOK, Calls
  <2>2. op[c.op].phase # "unused" /\ Writes(c.op) /\ op[c.op].item.ts <= rec[Head].ts
    BY <1>4 DEF CallsBegun, CallsBehind, ReplicaWrites
  <2> QED
    BY <1>2, <1>4, <2>1, <2>2 DEF ReplicaWrites
<1> QED
  BY <1>1, <1>3, <1>4
  DEF Next, Issue, HeadWriteDies, HeadReads, HeadRefusesRead, HeadAcks, HeadAnswersRead,
      HeadGivesUp, ReplicaReads, CallLost, ClientTimesOut, NewList

\* The times that are compared are numbers.
LEMMA Times ==
  ASSUME FreshInv, Removals = {}, NEW o \in Ops, op[o].phase # "unused"
  PROVE  AgeOf(o) \in Nat
  BY Announcement DEF FreshInv, TypeOK, ClientSides, AgeOf

LEMMA ReplyTimes ==
  ASSUME TypeOK, NEW o \in Ops, NEW a \in Attempts, NEW y \in run[o][a].replies
  PROVE  y \in Replies /\ y.ts \in Nat
  BY DEF TypeOK, Handlers, Replies

\* The head executes a write: it is as new as the write from then on.
LEMMA HeadTakes ==
  ASSUME FreshInv, Removals = {}, RecordsBehind, NEW o \in Ops, NEW a \in Attempts,
         HeadWrites(o, a)
  PROVE  op[o].item.ts <= rec'[Head].ts
<1>1. op[o].phase # "unused" /\ Writes(o) /\ Head \in Nodes
  BY Begun DEF FreshInv, HeadWrites, Nodes
<1>2. op[o].item \in Deltas /\ op[o].item.kind = "insert"
      /\ op[o].item.ts \in Nat /\ op[o].item.ts > 0
  BY <1>1, Announcement
<1>3. rec[Head] \in Records /\ rec'[Head] = BulkLoad(rec[Head], op[o].item)
  BY <1>1 DEF FreshInv, TypeOK, HeadWrites
<1>4. op[o].item \in Items /\ rec[Head].ts \in Nat
  BY <1>2, <1>3, DeltaIsItem DEF Records
<1> QED
  BY <1>2, <1>3, <1>4, BulkLoadTime

LEMMA CallsBehindKept ==
  ASSUME FreshInv, Next, Removals = {}, RecordsBehind, CallsBehind, TypeOK'
  PROVE  CallsBehind'
<1> USE DEF FreshInv
<1>1. rec[Head].ts \in Nat /\ rec'[Head].ts \in Nat /\ rec[Head].ts <= rec'[Head].ts
  BY RecMoves DEF TypeOK, Records, Nodes
<1> SUFFICES ASSUME NEW c \in calls', Writes(c.op)'
             PROVE  op'[c.op].item.ts <= rec'[Head].ts
  BY DEF CallsBehind
<1>2. ASSUME NEW o \in Ops, op[o].phase # "unused", Writes(o), op[o].item.ts <= rec[Head].ts
      PROVE  op'[o].item.ts <= rec'[Head].ts
  BY <1>1, <1>2, OpStays, Announcement
<1>3. CASE \E d \in calls : c.op = d.op
  <2>1. c.op \in Ops /\ op[c.op].phase # "unused"
    BY <1>3 DEF CallsBegun, TypeOK, Calls
  <2>2. Writes(c.op)
    BY <2>1, OpStays DEF Writes
  <2> QED
    BY <1>2, <1>3, <2>1, <2>2 DEF CallsBehind
<1>4. ASSUME c.op \in Ops, NEW a \in Attempts, HeadWrites(c.op, a)
      PROVE  op'[c.op].item.ts <= rec'[Head].ts
  BY <1>4, HeadTakes DEF HeadWrites
<1>5. ASSUME c.op \in Ops, NEW a \in Attempts, HeadReads(c.op, a)
      PROVE  FALSE
  BY <1>5 DEF HeadReads, Writes
<1> QED
  BY <1>3, <1>4, <1>5, CallMoves

LEMMA HandlersBehindKept ==
  ASSUME FreshInv, Next, Removals = {}, RecordsBehind, CallsBehind, HandlersBehind, TypeOK'
  PROVE  HandlersBehind'
<1> USE DEF FreshInv
<1>1. rec[Head].ts \in Nat /\ rec'[Head].ts \in Nat /\ rec[Head].ts <= rec'[Head].ts
  BY RecMoves DEF TypeOK, Records, Nodes
<1> SUFFICES ASSUME NEW o \in Ops, NEW a \in Attempts
             PROVE  /\ run'[o][a].phase = "waiting" /\ Writes(o)' =>
                         op'[o].item.ts <= rec'[Head].ts
                    /\ \A y \in run'[o][a].replies : y.ts <= rec'[Head].ts
  BY DEF HandlersBehind
<1>2. ASSUME run'[o][a].phase = "waiting", Writes(o)'
      PROVE  op'[o].item.ts <= rec'[Head].ts
  <2>1. CASE run[o][a].phase = "waiting"
    <3>1. op[o].phase # "unused"
      BY <2>1, Begun
    <3>2. op'[o].item = op[o].item /\ Writes(o)
      BY <1>2, <3>1, OpStays DEF Writes
    <3>3. op[o].item.ts \in Nat /\ op[o].item.ts <= rec[Head].ts
      BY <2>1, <3>1, <3>2, Announcement DEF HandlersBehind
    <3> QED
      BY <1>1, <3>2, <3>3
  <2>2. CASE HeadWrites(o, a)
    BY <2>2, HeadTakes DEF HeadWrites
  <2>3. CASE HeadReads(o, a)
    BY <1>2, <2>3 DEF HeadReads, Writes
  <2> QED
    BY <1>2, <2>1, <2>2, <2>3, RunMoves
<1>3. ASSUME NEW y \in run'[o][a].replies
      PROVE  y.ts <= rec'[Head].ts
  <2>1. CASE y \in run[o][a].replies
    <3>1. y.ts \in Nat /\ y.ts <= rec[Head].ts
      BY <2>1, ReplyTimes DEF HandlersBehind
    <3> QED
      BY <1>1, <3>1
  <2>2. ASSUME NEW n \in Nodes, y = Reply(n)
        PROVE  y.ts <= rec'[Head].ts
    <3>1. y.ts = rec[n].ts /\ rec[n].ts \in Nat /\ rec[n].ts <= rec[Head].ts
      BY <2>2 DEF Reply, TypeOK, Records, RecordsBehind
    <3> QED
      BY <1>1, <3>1
  <2>3. Head \in Nodes
    BY DEF Nodes
  <2> QED
    BY <1>3, <2>1, <2>2, <2>3, RunMoves
<1> QED
  BY <1>2, <1>3

\* A reply that is chosen is among the replies, and no staler than a reply with
\* a seeder.
LEMMA FreshestWins ==
  ASSUME NEW replies \in SUBSET Replies, NEW x \in Freshest(replies)
  PROVE  /\ x \in replies \/ x = Nobody
         /\ x.ts \in Nat
         /\ \A y \in replies : y.peers # {} => y.ts <= x.ts
<1>1. x.ts \in Nat
  BY FreshestType
<1>2. CASE {y \in replies : y.peers # {}} = {}
  BY <1>1, <1>2 DEF Freshest
<1>3. CASE {y \in replies : y.peers # {}} # {}
  BY <1>1, <1>3 DEF Freshest
<1> QED
  BY <1>2, <1>3

LEMMA OversBehindKept ==
  ASSUME FreshInv, Next, Removals = {}, RecordsBehind, CallsBehind, HandlersBehind,
         OversBehind, TypeOK'
  PROVE  OversBehind'
<1> USE DEF FreshInv
<1>1. rec[Head].ts \in Nat /\ rec'[Head].ts \in Nat /\ rec[Head].ts <= rec'[Head].ts
  BY RecMoves DEF TypeOK, Records, Nodes
<1> SUFFICES ASSUME NEW o \in Ops, IsOver(o)'
             PROVE  AgeOf(o)' <= rec'[Head].ts
  BY DEF OversBehind
<1>2. CASE op'[o] = op[o]
  <2>1. IsOver(o) /\ op[o].phase # "unused" /\ AgeOf(o)' = AgeOf(o)
    BY <1>2 DEF IsOver, AgeOf, Writes
  <2>2. AgeOf(o) \in Nat /\ AgeOf(o) <= rec[Head].ts
    BY <2>1, Times DEF OversBehind
  <2> QED
    BY <1>1, <2>1, <2>2
<1>3. ASSUME NEW a \in Attempts, HeadAcks(o, a), op'[o].item = op[o].item
      PROVE  AgeOf(o)' <= rec'[Head].ts
  <2>1. op[o].phase # "unused" /\ Writes(o)
    BY <1>3, Begun DEF HeadAcks
  <2>2. op[o].item.ts \in Nat /\ op[o].item.ts <= rec[Head].ts
    BY <1>3, <2>1, Announcement DEF HandlersBehind, HeadAcks
  <2>3. AgeOf(o)' = op[o].item.ts
    BY <1>3, <2>1 DEF AgeOf, Writes
  <2> QED
    BY <1>1, <2>2, <2>3
<1>4. ASSUME NEW a \in Attempts, HeadAnswersRead(o, a), op'[o].item = op[o].item,
             NEW y \in Freshest(run[o][a].replies), op'[o].asOf = y.ts
      PROVE  AgeOf(o)' <= rec'[Head].ts
  <2>1. run[o][a].replies \in SUBSET Replies
    BY DEF TypeOK, Handlers
  <2>2. y.ts \in Nat /\ (y \in run[o][a].replies \/ y = Nobody)
    BY <2>1, FreshestWins
  <2>3. y.ts <= rec[Head].ts
    BY <1>1, <2>2 DEF HandlersBehind, Nobody
  <2>4. AgeOf(o)' = y.ts
    BY <1>4 DEF AgeOf, Writes, HeadAnswersRead
  <2> QED
    BY <1>1, <2>2, <2>3, <2>4
<1>5. ASSUME NEW item \in ClientItems, Issue(o, item)
      PROVE  FALSE
  BY <1>5 DEF Issue, IsOver, TypeOK
<1> QED
  BY <1>2, <1>3, <1>4, <1>5, OpMoves DEF IsOver

LEMMA ReadersKeepUpKept ==
  ASSUME FreshInv, Next, Removals = {}, RecordsBehind, OversBehind, ReadersKeepUp
  PROVE  ReadersKeepUp'
<1> USE DEF FreshInv
<1> SUFFICES ASSUME NEW o \in Ops, NEW a \in Attempts, run'[o][a].phase = "waiting", ~Writes(o)'
             PROVE  \E y \in run'[o][a].replies : KeepsUp(o, y)'
  BY DEF ReadersKeepUp
<1>1. ASSUME op[o].phase # "unused", NEW y, KeepsUp(o, y)
      PROVE  KeepsUp(o, y)'
  <2>1. op'[o].before = op[o].before /\ op[o].before \subseteq Ops
    BY <1>1, OpStays DEF TypeOK, ClientSides
  <2>2. \A x \in op[o].before : op'[x] = op[x]
    BY <2>1, OpStays DEF OpOK, IsOver
  <2> QED
    BY <1>1, <2>1, <2>2 DEF KeepsUp, AgeOf, Writes
<1>2. CASE run[o][a].phase = "waiting"
  <2>1. op[o].phase # "unused"
    BY <1>2, Begun
  <2>2. ~Writes(o)
    BY <2>1, OpStays DEF Writes
  <2>3. PICK y \in run[o][a].replies : KeepsUp(o, y)
    BY <1>2, <2>2 DEF ReadersKeepUp
  <2>4. run[o][a].replies \subseteq run'[o][a].replies
    BY <1>2, RunMoves DEF HeadWrites, HeadReads, Arrives
  <2> QED
    BY <1>1, <2>1, <2>3, <2>4
<1>3. CASE HeadReads(o, a) /\ run'[o][a].replies = {Reply(Head)}
  <2>1. op[o].phase # "unused" /\ Head \in Nodes
    BY <1>3, Begun DEF HeadReads, Nodes
  <2>2. \A x \in op[o].before : x \in Ops /\ AgeOf(x) <= rec[Head].ts
    BY DEF OversBehind, OpOK, TypeOK, ClientSides
  <2>3. KeepsUp(o, Reply(Head))
    BY <2>1, <2>2 DEF KeepsUp, Reply, RecordsBehind, RecordLive
  <2> QED
    BY <1>1, <1>3, <2>1, <2>3
<1>4. CASE HeadWrites(o, a)
  BY <1>4 DEF HeadWrites, Writes
<1> QED
  BY <1>2, <1>3, <1>4, RunMoves

LEMMA AnswersKeepUpKept ==
  ASSUME FreshInv, Next, Removals = {}, ReadersKeepUp, AnswersKeepUp
  PROVE  AnswersKeepUp'
<1> USE DEF FreshInv
<1> SUFFICES ASSUME NEW o \in Ops, op'[o].phase = "answered", NEW x \in op'[o].before
             PROVE  AgeOf(x)' <= op'[o].asOf
  BY DEF AnswersKeepUp
<1>1. op'[o].before = op[o].before
  BY OpMoves DEF Issue, TypeOK
<1>2. x \in Ops /\ x \in op[o].before /\ IsOver(x) /\ op[x].phase # "unused"
  BY <1>1 DEF OpOK, TypeOK, ClientSides, IsOver
<1>3. AgeOf(x)' = AgeOf(x) /\ AgeOf(x) \in Nat
  BY <1>2, OpStays, Times DEF AgeOf, Writes
<1>4. CASE op'[o] = op[o]
  BY <1>2, <1>3, <1>4 DEF AnswersKeepUp
<1>5. ASSUME NEW a \in Attempts, HeadAnswersRead(o, a),
             NEW r \in Freshest(run[o][a].replies), op'[o].asOf = r.ts
      PROVE  AgeOf(x) <= op'[o].asOf
  <2>1. run[o][a].replies \in SUBSET Replies
    BY DEF TypeOK, Handlers
  <2>2. PICK y \in run[o][a].replies : KeepsUp(o, y)
    BY <1>5 DEF ReadersKeepUp, HeadAnswersRead
  <2>3. y.ts \in Nat /\ AgeOf(x) <= y.ts /\ (y.ts > 0 => y.peers # {})
    BY <1>2, <2>2, ReplyTimes DEF KeepsUp
  <2>4. r.ts \in Nat /\ (y.peers # {} => y.ts <= r.ts)
    BY <2>1, <2>2, FreshestWins
  <2> QED
    BY <1>3, <1>5, <2>3, <2>4
<1>6. ASSUME NEW item \in ClientItems, Issue(o, item)
      PROVE  FALSE
  BY <1>6 DEF Issue, TypeOK
<1> QED
  BY <1>3, <1>4, <1>5, <1>6, OpMoves

LEMMA FreshInit == Init => FreshInv
<1> SUFFICES ASSUME Init PROVE FreshInv
  OBVIOUS
<1>1. TypeOK /\ NotYetCalled /\ CallsBegun
  BY InitType DEF Init, NotYetCalled, CallsBegun, Over
<1>2. Read \in ClientItems /\ \A o \in Ops : OpOK(o)
  BY DEF Init, OpOK, ClientItems
<1>3. RecordsBehind
  BY DEF Init, RecordsBehind, RecordLive, Absent, Nodes
<1>4. CallsBehind /\ HandlersBehind /\ OversBehind /\ ReadersKeepUp /\ AnswersKeepUp
  BY DEF Init, CallsBehind, HandlersBehind, OversBehind, ReadersKeepUp, AnswersKeepUp,
         Over, IsOver
<1> QED
  BY <1>1, <1>2, <1>3, <1>4 DEF FreshInv

\* While nothing is removed, no answered read is older than what was over before
\* it began, though threads still repeat calls, answers get lost and the head's
\* list changes (_quorum_query: the head's own record is always one of the
\* replies).
THEOREM FreshReads == Spec => []ReadsNeverGoBack
<1>1. AckInv /\ AckInv' /\ FreshInv /\ [Next]_vars => FreshInv'
  <2> SUFFICES ASSUME AckInv, AckInv', FreshInv, [Next]_vars
               PROVE  FreshInv'
    OBVIOUS
  <2>1. CASE UNCHANGED vars
    <3>1. UNCHANGED <<TypeOK, NotYetCalled, CallsBegun, Removals, RecordsBehind>>
      BY <2>1 DEF vars, TypeOK, NotYetCalled, CallsBegun, Removals, RecordsBehind, RecordLive
    <3>2. UNCHANGED <<CallsBehind, HandlersBehind, OversBehind>>
      BY <2>1 DEF vars, CallsBehind, HandlersBehind, OversBehind, IsOver, AgeOf, Writes
    <3>3. UNCHANGED <<ReadersKeepUp, AnswersKeepUp>>
      BY <2>1 DEF vars, ReadersKeepUp, AnswersKeepUp, KeepsUp, AgeOf, Writes
    <3>4. \A o \in Ops : OpOK(o) => OpOK(o)'
      BY <2>1 DEF vars, OpOK, IsOver
    <3> QED
      BY <3>1, <3>2, <3>3, <3>4 DEF FreshInv
  <2>2. CASE Next
    <3>1. TypeOK /\ TypeOK' /\ NotYetCalled' /\ CallsBegun' /\ \A o \in Ops : OpOK(o)'
      BY <2>2, CallsBegunKept, OpOKKept DEF AckInv
    <3>2. ASSUME Removals' = {}
          PROVE  RecordsBehind' /\ CallsBehind' /\ HandlersBehind' /\ OversBehind'
      <4>1. /\ Removals = {} /\ RecordsBehind /\ CallsBehind /\ HandlersBehind
            /\ OversBehind
        BY <2>2, <3>1, <3>2, RemovalsStay DEF FreshInv
      <4> QED
        BY <2>2, <3>1, <4>1, RecMoves, CallsBehindKept, HandlersBehindKept, OversBehindKept
    <3>3. ASSUME Removals' = {}
          PROVE  ReadersKeepUp' /\ AnswersKeepUp'
      <4>1. /\ Removals = {} /\ RecordsBehind /\ OversBehind
            /\ ReadersKeepUp /\ AnswersKeepUp
        BY <2>2, <3>1, <3>3, RemovalsStay DEF FreshInv
      <4> QED
        BY <2>2, <4>1, ReadersKeepUpKept, AnswersKeepUpKept
    <3> QED
      BY <3>1, <3>2, <3>3 DEF FreshInv
  <2> QED
    BY <2>1, <2>2
<1>2. FreshInv => ReadsNeverGoBack
  <2> SUFFICES ASSUME FreshInv, Removals = {}, NEW o \in Ops, op[o].phase = "answered",
                      NEW x \in op[o].before
               PROVE  op[o].asOf >= AgeOf(x)
    BY DEF ReadsNeverGoBack, AgeOf
  <2>1. x \in Ops /\ op[x].phase # "unused" /\ op[o].asOf \in Nat
    BY DEF FreshInv, OpOK, IsOver, TypeOK, ClientSides
  <2>2. AgeOf(x) \in Nat /\ AgeOf(x) <= op[o].asOf
    BY <2>1, Times DEF FreshInv, AnswersKeepUp
  <2> QED
    BY <2>1, <2>2
<1>3. Spec => []AckInv
  BY Acknowledging
<1> QED
  BY <1>1, <1>2, <1>3, FreshInit, PTL DEF Spec
=============================================================================
