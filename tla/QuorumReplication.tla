-------------------------- MODULE QuorumReplication --------------------------
(***************************************************************************)
(* The "linear" strategy of chord/dht/replication.py for one key whose head*)
(* stays the same.  A client operation is a request to the head, which the *)
(* head executes once per attempt of the client: it writes or reads        *)
(* locally, asks every node of its successor list in a thread of its own,  *)
(* and answers once a majority (its own vote included) has voted, or when  *)
(* 4 seconds have passed.  The client gives an attempt 3 seconds.          *)
(***************************************************************************)
EXTENDS DataStore, FiniteSets

CONSTANTS
  Head,         \* the coordinator of the key
  K,            \* state.k, the replication factor
  Lists,        \* the successor lists the head may have over time
  OpKinds,      \* the operations of a run beside reads: "insert", "remove"
  MaxTime,      \* bound: client timestamps are 1 .. MaxTime
  MaxOps,       \* bound: the operations clients issue
  MaxRetries    \* max_retries of send_command, 3 in the code

ASSUME NodesAssumption ==
  /\ IsFiniteSet(UNION Lists)
  /\ \A L \in Lists : Head \notin L /\ Cardinality(L) < K
ASSUME OpKindsAssumption == OpKinds \subseteq {"insert", "remove"}
ASSUME BoundsAssumption == /\ K \in Nat \ {0}
                           /\ MaxTime \in Nat
                           /\ MaxOps \in Nat
                           /\ MaxRetries \in Nat \ {0}

VARIABLES
  rec,    \* rec[n] is node n's record of the key
  held,   \* held[n] are the operations node n has executed (history)
  list,   \* the head's successor_list
  op,     \* op[o] is the client's side of operation o
  run,    \* run[o][a] is the head's handler for attempt a of operation o
  calls   \* the calls the handlers' threads have in flight

vars == <<rec, held, list, op, run, calls>>

Nodes == {Head} \cup UNION Lists
Ops == 1 .. MaxOps
Attempts == 1 .. MaxRetries

Read == [kind |-> "read"]

Answers == {"acked", "failed", "answered", "empty", "refused", "unanswered"}

ClientSides == [phase : {"unused", "called"} \cup Answers,
                item : Deltas \cup {Read}, attempt : 0 .. MaxRetries,
                before : SUBSET Ops, answer : SUBSET Peers, asOf : Nat]

Replies == [from : Nodes, ts : Nat, peers : SUBSET Peers]

Handlers == [phase : {"none", "waiting", "done", "died"},
             votes : SUBSET Nodes, replies : SUBSET Replies]

Calls == [op : Ops, attempt : Attempts, dst : Nodes, tries : Attempts]

\* A handler that has no votes, because it has not begun or has returned.
Over(phase) == [phase |-> phase, votes |-> {}, replies |-> {}]

Init ==
  /\ rec = [n \in Nodes |-> Absent]
  /\ held = [n \in Nodes |-> {}]
  /\ list \in Lists
  /\ op = [o \in Ops |-> [phase |-> "unused", item |-> Read, attempt |-> 0,
                          before |-> {}, answer |-> {}, asOf |-> 0]]
  /\ run = [o \in Ops |-> [a \in Attempts |-> Over("none")]]
  /\ calls = {}

\* W and R.
Majority == (K \div 2) + 1

QuorumPossible == Cardinality(list) + 1 >= Majority

Writes(o) == op[o].item.kind # "read"

Reply(n) == [from |-> n, ts |-> rec[n].ts, peers |-> Query(rec[n])]

-----------------------------------------------------------------------------
\* insert_request, delete_request and query_request: the client stamps a write
\* and calls the head.
Issue(o, item) ==
  /\ op[o].phase = "unused"
  /\ \A x \in Ops : x < o => op[x].phase # "unused"
  /\ item.kind # "read" => \A x \in Ops : Writes(x) => op[x].item.ts # item.ts
  /\ op' = [op EXCEPT ![o] =
       [phase |-> "called", item |-> item, attempt |-> 1,
        before |-> {x \in Ops : op[x].phase \in {"acked", "answered"}},
        answer |-> {}, asOf |-> 0]]
  /\ UNCHANGED <<rec, held, list, run, calls>>

\* An attempt reaches the head, perhaps after the client has given it up.
Arrives(o, a) == a <= op[o].attempt /\ run[o][a].phase = "none"

CallsTo(nodes, o, a) ==
  {[op |-> o, attempt |-> a, dst |-> n, tries |-> MaxRetries] : n \in nodes}

\* _quorum_insert: the local write is the first vote.
HeadWrites(o, a) ==
  /\ Arrives(o, a) /\ Writes(o) /\ QuorumPossible
  /\ rec' = [rec EXCEPT ![Head] = BulkLoad(@, op[o].item)]
  /\ held' = [held EXCEPT ![Head] = @ \cup {o}]
  /\ run' = [run EXCEPT ![o][a] = [phase |-> "waiting", votes |-> {Head}, replies |-> {}]]
  /\ calls' = calls \cup CallsTo(list, o, a)
  /\ UNCHANGED <<list, op>>

\* The error branch of _quorum_insert logs data_list before it is assigned:
\* the handler dies of an UnboundLocalError and nothing is sent back.
HeadWriteDies(o, a) ==
  /\ Arrives(o, a) /\ Writes(o) /\ ~QuorumPossible
  /\ run' = [run EXCEPT ![o][a] = Over("died")]
  /\ UNCHANGED <<rec, held, list, op, calls>>

\* _quorum_query: the local read is the first vote.
HeadReads(o, a) ==
  /\ Arrives(o, a) /\ ~Writes(o) /\ QuorumPossible
  /\ run' = [run EXCEPT ![o][a] =
       [phase |-> "waiting", votes |-> {Head}, replies |-> {Reply(Head)}]]
  /\ calls' = calls \cup CallsTo(list, o, a)
  /\ UNCHANGED <<rec, held, list, op>>

\* The client of attempt a, if it still waits for it, gets an answer.
Told(o, a, phase, answer, asOf) ==
  op' = IF op[o].phase = "called" /\ op[o].attempt = a
        THEN [op EXCEPT ![o] = [phase |-> phase, item |-> @.item,
                                attempt |-> a, before |-> @.before,
                                answer |-> answer, asOf |-> asOf]]
        ELSE op

HeadRefusesRead(o, a) ==
  /\ Arrives(o, a) /\ ~Writes(o) /\ ~QuorumPossible
  /\ run' = [run EXCEPT ![o][a] = Over("done")]
  /\ Told(o, a, "refused", {}, 0)
  /\ UNCHANGED <<rec, held, list, calls>>

\* Mutant: the attempt counter is never checked.
RetriedForever(c) == {[c EXCEPT !.tries = @ - 1]}

\* What is left of a call whose attempt got no answer.
Retried(c) == IF c.tries > 1 THEN {[c EXCEPT !.tries = @ - 1]} ELSE {}

\* Nobody counts the votes of a handler that has returned.
Vote(c, replies) ==
  run' = IF run[c.op][c.attempt].phase = "waiting"
         THEN [run EXCEPT ![c.op][c.attempt] =
                 [phase |-> "waiting", votes |-> @.votes \cup {c.dst},
                  replies |-> @.replies \cup replies]]
         ELSE run

\* Mutant: the thread votes for a call that was never executed.
VotesUnheard(c) ==
  /\ calls' = calls \ {c}
  /\ Vote(c, {})
  /\ UNCHANGED <<rec, held, list, op>>

\* The replica branch of _quorum_insert; the coordinator's thread votes if it
\* hears of it, and repeats the call if it does not.
ReplicaWrites(c, heard) ==
  /\ Writes(c.op)
  /\ rec' = [rec EXCEPT ![c.dst] = BulkLoad(@, op[c.op].item)]
  /\ held' = [held EXCEPT ![c.dst] = @ \cup {c.op}]
  /\ calls' = (calls \ {c}) \cup IF heard THEN {} ELSE Retried(c)
  /\ IF heard THEN Vote(c, {}) ELSE run' = run
  /\ UNCHANGED <<list, op>>

\* The replica branch of _quorum_query: an empty answer is a vote too.
ReplicaReads(c) ==
  /\ ~Writes(c.op)
  /\ calls' = calls \ {c}
  /\ Vote(c, {Reply(c.dst)})
  /\ UNCHANGED <<rec, held, list, op>>

\* An attempt of a call is lost, or the answer of a read is.
CallLost(c) ==
  /\ calls' = (calls \ {c}) \cup Retried(c)
  /\ UNCHANGED <<rec, held, list, op, run>>

QuorumReached(o, a) == Cardinality(run[o][a].votes) >= Majority

\* No seeder at all, the answer for a key that does not exist.
Nobody == [from |-> Head, ts |-> 0, peers |-> {}]

\* Mutant: any of the replies is taken, whatever its timestamp.
AnyReply(replies) ==
  LET valid == {x \in replies : x.peers # {}} IN IF valid = {} THEN {Nobody} ELSE valid

\* Conflict resolution: empty replies are set aside, the newest of the others
\* wins, the head's own (it came first) before one of equal age.
Freshest(replies) ==
  LET valid == {x \in replies : x.peers # {}}
      newest == {x \in valid : \A y \in valid : y.ts <= x.ts}
      first == {x \in newest : x.from = Head}
  IN  IF valid = {} THEN {Nobody} ELSE IF first # {} THEN first ELSE newest

HeadAcks(o, a) ==
  /\ run[o][a].phase = "waiting" /\ Writes(o) /\ QuorumReached(o, a)
  /\ run' = [run EXCEPT ![o][a] = Over("done")]
  /\ Told(o, a, "acked", {}, 0)
  /\ UNCHANGED <<rec, held, list, calls>>

\* The threads of a read that is over change nothing any more.
Forgotten(o, a) ==
  calls' = IF Writes(o) THEN calls ELSE {c \in calls : c.op # o \/ c.attempt # a}

HeadAnswersRead(o, a) ==
  /\ run[o][a].phase = "waiting" /\ ~Writes(o) /\ QuorumReached(o, a)
  /\ run' = [run EXCEPT ![o][a] = Over("done")]
  /\ Forgotten(o, a)
  /\ \E x \in Freshest(run[o][a].replies) : Told(o, a, "answered", x.peers, x.ts)
  /\ UNCHANGED <<rec, held, list>>

\* quorum_reached.wait gives up: an error for a write, for a read the reply of
\* a key that does not exist.
HeadGivesUp(o, a) ==
  /\ run[o][a].phase = "waiting" /\ ~QuorumReached(o, a)
  /\ run' = [run EXCEPT ![o][a] = Over("done")]
  /\ Told(o, a, IF Writes(o) THEN "failed" ELSE "empty", {}, 0)
  /\ Forgotten(o, a)
  /\ UNCHANGED <<rec, held, list>>

\* The client's attempt times out, or its connection closes without an answer.
ClientTimesOut(o) ==
  /\ op[o].phase = "called"
  /\ \/ /\ op[o].attempt < MaxRetries
        /\ op' = [op EXCEPT ![o].attempt = op[o].attempt + 1]
     \/ /\ op[o].attempt = MaxRetries
        /\ op' = [op EXCEPT ![o].phase = "unanswered"]
  /\ UNCHANGED <<rec, held, list, run, calls>>

\* update_successor_list replaces the head's list (Topology).
NewList(L) ==
  /\ list' = L
  /\ UNCHANGED <<rec, held, op, run, calls>>

ClientItems == [kind : OpKinds, peer : Peers, ts : 1 .. MaxTime]
                 \cup {Read}

Next ==
  \/ \E o \in Ops, item \in ClientItems : Issue(o, item)
  \/ \E o \in Ops, a \in Attempts :
       \/ HeadWrites(o, a) \/ HeadWriteDies(o, a)
       \/ HeadReads(o, a) \/ HeadRefusesRead(o, a)
       \/ HeadAcks(o, a) \/ HeadAnswersRead(o, a) \/ HeadGivesUp(o, a)
  \/ \E c \in calls, heard \in BOOLEAN : ReplicaWrites(c, heard)
  \/ \E c \in calls : ReplicaReads(c) \/ CallLost(c)
  \/ \E o \in Ops : ClientTimesOut(o)
  \/ \E L \in Lists : NewList(L)

Spec == Init /\ [][Next]_vars

-----------------------------------------------------------------------------
TypeOK == /\ rec \in [Nodes -> Records]
          /\ held \in [Nodes -> SUBSET Ops]
          /\ list \in Lists
          /\ op \in [Ops -> ClientSides]
          /\ run \in [Ops -> [Attempts -> Handlers]]
          /\ calls \subseteq Calls

\* A write is acknowledged only after a majority of the nodes have executed it,
\* repeated calls, lost answers and a changing successor list notwithstanding
\* (_quorum_insert).
AckedByMajority ==
  \A o \in Ops :
    op[o].phase = "acked" =>
      Cardinality({n \in Nodes : o \in held[n]}) >= Majority

Removals == {x \in Ops : op[x].phase # "unused" /\ op[x].item.kind = "remove"}

\* While nothing is removed, an answered read is as fresh as everything that
\* was over before it began: every acknowledged announcement and every read,
\* though it may have met slower nodes than they did.
ReadsNeverGoBack ==
  Removals = {} =>
    \A o \in Ops :
      op[o].phase = "answered" =>
        \A x \in op[o].before :
          op[o].asOf >= IF Writes(x) THEN op[x].item.ts ELSE op[x].asOf

\* Linearizability ("LINEARIZABILITY STRATEGY: Quorum Replication",
\* replication.py:339) for announcements: a read tells of every announcement
\* that was acknowledged before the read began.  It does not hold: replies are
\* chosen, not merged (see the README).
ReadsSeeAckedInserts ==
  Removals = {} =>
    \A o \in Ops :
      op[o].phase = "answered" =>
        \A x \in op[o].before : Writes(x) => op[x].item.peer \in op[o].answer

\* A read returns "the data with the freshest timestamp" (replication.py:416):
\* not a seeder whose removal was acknowledged before the read began, when no
\* announcement bears a later time.  It does not hold: a tombstone is read as an
\* empty reply and set aside (see the README).
NoDeletedSeeder ==
  \A o \in Ops :
    op[o].phase = "answered" =>
      \A x \in op[o].before \cap Removals :
        (\A y \in Ops \ {x} : Writes(y) => op[y].item.ts < op[x].item.ts) =>
          op[x].item.peer \notin op[o].answer
=============================================================================
