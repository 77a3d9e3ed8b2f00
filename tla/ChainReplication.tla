-------------------------- MODULE ChainReplication ---------------------------
(***************************************************************************)
(* The "chain" strategy of chord/dht/replication.py for one key on a ring  *)
(* whose pointers stand still.  A command runs down a chain of K nodes,    *)
(* each the successor of the one before: every handler loads the data,     *)
(* calls its successor and waits; the last one answers, and the answer     *)
(* comes back the same way.  Reads go down the chain too and are answered  *)
(* by its last node.  Every caller, the client and each handler, makes up  *)
(* to MaxRetries attempts, each of which may run a handler of its own.     *)
(***************************************************************************)
EXTENDS DataStore, Sequences, FiniteSets

CONSTANTS
  Nodes,        \* the members of the ring
  Owner,         \* the owner of the key
  Successor,    \* Successor[n] is n's state.successor
  Link,         \* Link[n][i] is the i-th node of a chain that begins at n
  K,            \* state.k, the length of a chain
  OpKinds,      \* the writes of a run: "insert", "remove"
  MaxTime,      \* bound: client timestamps are 1 .. MaxTime
  MaxOps,       \* bound: the operations of a run, pushes included
  MaxPushes,    \* bound: the pushes among them
  MaxRetries,   \* max_retries of send_command, 3 in the code
  MaxRepeats    \* bound: the callers whose attempts are repeated

ASSUME BoundsAssumption ==
  /\ K \in Nat \ {0} /\ MaxRetries \in Nat \ {0}
  /\ MaxTime \in Nat /\ MaxOps \in Nat /\ MaxPushes \in Nat
  /\ MaxRepeats \in Nat
ASSUME OpKindsAssumption == OpKinds \subseteq {"insert", "remove"}
ASSUME LinkAssumption ==
  /\ Owner \in Nodes
  /\ Successor \in [Nodes -> Nodes]
  /\ Link \in [Nodes -> [1 .. K -> Nodes]]
  /\ \A n \in Nodes :
       /\ Link[n][1] = n
       /\ \A i \in 1 .. K - 1 : Link[n][i + 1] = Successor[Link[n][i]]

VARIABLES
  rec,    \* rec[n] is node n's record of the key
  held,   \* held[n] are the operations node n has loaded (history)
  op,     \* op[o] says what operation o is
  run     \* run[o][p] is the caller or handler that path p of attempts leads to

vars == <<rec, held, op, run>>

Ops == 1 .. MaxOps
Attempts == 1 .. MaxRetries

Read == [kind |-> "read"]

\* The attempts that led to a handler: the client's, the head's, and so on.
\* The path <<>> is the caller itself; a handler's path is as long as its
\* place in the chain, chain_index + 1.
Paths == UNION {[1 .. i -> Attempts] : i \in 0 .. K}

\* item is what the operation carries, start the node it is sent to, before
\* are the operations that were acknowledged when a read began (history).
Operations == [item : Items \cup {Read}, start : Nodes, before : SUBSET Ops]

\* attempt is that of the call to the next link, 0 if there is none.
Handlers == [phase : {"none", "checking", "matched", "waiting", "acked", "failed"},
             attempt : 0 .. MaxRetries, answer : SUBSET Peers]

Handler(phase, attempt, answer) == [phase |-> phase, attempt |-> attempt, answer |-> answer]

Idle == Handler("none", 0, {})
Checking == Handler("checking", 0, {})
Waiting(attempt) == Handler("waiting", attempt, {})
Answered(answer) == Handler("acked", 0, answer)

Becomes(o, q, handler) == run' = [run EXCEPT ![o][q] = handler]

Init ==
  /\ rec = [n \in Nodes |-> Absent]
  /\ held = [n \in Nodes |-> {}]
  /\ op = [o \in Ops |-> [item |-> Read, start |-> Owner, before |-> {}]]
  /\ run = [o \in Ops |-> [p \in Paths |-> Idle]]

Caller(o) == run[o][<<>>]
Writes(o) == op[o].item.kind # "read"
IsPush(o) == op[o].item.kind \in {"state", "tombstone"}

\* The operations are numbered in the order in which they begin.
IsNext(o) ==
  /\ Caller(o).phase = "none"
  /\ \A x \in Ops : x < o => Caller(x).phase # "none"

Begins(o, item, start, caller) ==
  /\ IsNext(o)
  /\ op' = [op EXCEPT ![o] = [item |-> item, start |-> start,
                             before |-> IF item = Read
                                        THEN {x \in Ops : Caller(x).phase = "acked"}
                                        ELSE {}]]
  /\ Becomes(o, <<>>, caller)
  /\ UNCHANGED <<rec, held>>

-----------------------------------------------------------------------------
\* insert_request, delete_request and query_request, once the head is resolved.
Issue(o, item) ==
  /\ item.kind # "read" => \A x \in Ops : Writes(x) /\ ~IsPush(x) => op[x].item.ts # item.ts
  /\ Begins(o, item, Owner, Waiting(1))

\* The nodes of the head's successor_list.
Backups == {Link[Owner][i] : i \in 2 .. K} \ {Owner}

CanPush ==
  /\ rec[Owner] # Absent
  /\ Cardinality({o \in Ops : IsPush(o)}) < MaxPushes

\* anti_entropy_worker takes a snapshot and starts a thread for every backup.
AntiEntropyTick(o, r) ==
  /\ CanPush
  /\ Begins(o, Export(rec[Owner]), r, Checking)

\* _sync_with_replica and handle_merkle_root_check: on a mismatch the snapshot
\* is sent as an insert request without a chain_index, so that the backup
\* takes itself for a head and sends it on down a chain of its own.
RootCheck(o) ==
  /\ Caller(o).phase = "checking"
  /\ Becomes(o, <<>>, IF rec[op[o].start].ts = op[o].item.ts THEN Handler("matched", 0, {})
                     ELSE Waiting(1))
  /\ UNCHANGED <<rec, held, op>>

\* heal_replication: the head runs its own data through the chain, by a direct
\* call of its own handler.
Heal(o) ==
  /\ CanPush
  /\ Begins(o, Export(rec[Owner]), Owner, Waiting(1))

-----------------------------------------------------------------------------
\* Attempt a of the caller at path q reaches its destination, perhaps after
\* the caller has given it up.
Arrives(o, q, a) ==
  /\ Len(q) < K
  /\ a \in 1 .. run[o][q].attempt
  /\ run[o][Append(q, a)].phase = "none"

\* Mutant: the link before the last takes itself for the tail.
EndsOneEarly(n, i) == i >= K - 1 \/ Successor[n] = n

\* The i-th link is the tail, or the chain wraps around to a lone node.
Ends(n, i) == i >= K \/ Successor[n] = n

\* Mutant: only the end of the chain loads the data.
LoadsAtTheEnd(o, q, a) ==
  LET p == Append(q, a)  n == Link[op[o].start][Len(p)]
  IN  /\ Arrives(o, q, a) /\ Writes(o)
      /\ rec' = [rec EXCEPT ![n] = IF Ends(n, Len(p)) THEN BulkLoad(@, op[o].item) ELSE @]
      /\ held' = [held EXCEPT ![n] = IF Ends(n, Len(p)) THEN @ \cup {o} ELSE @]
      /\ Becomes(o, p, IF Ends(n, Len(p)) THEN Answered({}) ELSE Waiting(1))
      /\ op' = op

\* Mutant: a link answers as soon as it has called the next one.
LinkLoadsAndAnswers(o, q, a) ==
  LET p == Append(q, a)  n == Link[op[o].start][Len(p)]
  IN  /\ Arrives(o, q, a) /\ Writes(o)
      /\ rec' = [rec EXCEPT ![n] = BulkLoad(@, op[o].item)]
      /\ held' = [held EXCEPT ![n] = @ \cup {o}]
      /\ Becomes(o, p, IF Ends(n, Len(p)) THEN Answered({}) ELSE Handler("acked", 1, {}))
      /\ op' = op

\* _chain_insert up to its answer or its call of the next link.
LinkLoads(o, q, a) ==
  LET p == Append(q, a)  n == Link[op[o].start][Len(p)]
  IN  /\ Arrives(o, q, a) /\ Writes(o)
      /\ rec' = [rec EXCEPT ![n] = BulkLoad(@, op[o].item)]
      /\ held' = [held EXCEPT ![n] = @ \cup {o}]
      /\ Becomes(o, p, IF Ends(n, Len(p)) THEN Answered({}) ELSE Waiting(1))
      /\ op' = op

\* Mutant: a link that holds the key answers, as eventual reads do.
AnyLinkReads(o, q, a) ==
  LET p == Append(q, a)  n == Link[op[o].start][Len(p)]
  IN  /\ Arrives(o, q, a) /\ ~Writes(o)
      /\ Becomes(o, p, IF Ends(n, Len(p)) \/ Query(rec[n]) # {}
                       THEN Answered(Query(rec[n])) ELSE Waiting(1))
      /\ UNCHANGED <<rec, held, op>>

\* _chain_query: the end of the chain answers.
LinkReads(o, q, a) ==
  LET p == Append(q, a)  n == Link[op[o].start][Len(p)]
  IN  /\ Arrives(o, q, a) /\ ~Writes(o)
      /\ Becomes(o, p, IF Ends(n, Len(p)) THEN Answered(Query(rec[n])) ELSE Waiting(1))
      /\ UNCHANGED <<rec, held, op>>

\* The caller at path q hears of its current attempt and passes the reply on;
\* an error ("NO_RESPONSE") is a reply like any other.
Hears(o, q) ==
  LET reply == run[o][Append(q, run[o][q].attempt)]
  IN  /\ run[o][q].phase = "waiting" /\ Len(q) < K
      /\ reply.phase \in {"acked", "failed"}
      /\ Becomes(o, q, Handler(reply.phase, run[o][q].attempt, reply.answer))
      /\ UNCHANGED <<rec, held, op>>

\* heal_replication calls its handler without a network between them.
IsLocal(o, q) == q = <<>> /\ IsPush(o) /\ op[o].start = Owner

Repeats == {x \in Ops \X Paths : run[x[1]][x[2]].attempt > 1}

MayRepeat(o, q) ==
  \/ run[o][q].attempt > 1
  \/ Cardinality(Repeats) < MaxRepeats

\* Mutant: one attempt too many.
TriesOnceMore(o, q) ==
  /\ run[o][q].phase = "waiting" /\ ~IsLocal(o, q)
  /\ \/ /\ run[o][q].attempt <= MaxRetries /\ MayRepeat(o, q)
        /\ Becomes(o, q, Waiting(run[o][q].attempt + 1))
     \/ Becomes(o, q, Handler("failed", run[o][q].attempt, {}))
  /\ UNCHANGED <<rec, held, op>>

\* send_command: an attempt is not answered within 3 seconds, or at all.  The
\* caller repeats it or, after MaxRetries attempts, fails; attempts that never
\* arrive are as good as none, so that it may fail after any of them.
TimesOut(o, q) ==
  /\ run[o][q].phase = "waiting" /\ ~IsLocal(o, q)
  /\ \/ /\ run[o][q].attempt < MaxRetries /\ MayRepeat(o, q)
        /\ Becomes(o, q, Waiting(run[o][q].attempt + 1))
     \/ Becomes(o, q, Handler("failed", run[o][q].attempt, {}))
  /\ UNCHANGED <<rec, held, op>>

ClientItems == [kind : OpKinds, peer : Peers, ts : 1 .. MaxTime] \cup {Read}

Next ==
  \E o \in Ops :
    \/ \E item \in ClientItems : Issue(o, item)
    \/ \E r \in Backups : AntiEntropyTick(o, r)
    \/ RootCheck(o) \/ Heal(o)
    \/ \E q \in Paths, a \in Attempts : LinkLoads(o, q, a) \/ LinkReads(o, q, a)
    \/ \E q \in Paths : Hears(o, q) \/ TimesOut(o, q)

Spec == Init /\ [][Next]_vars

-----------------------------------------------------------------------------
TypeOK ==
  /\ rec \in [Nodes -> Records]
  /\ held \in [Nodes -> SUBSET Ops]
  /\ op \in [Ops -> Operations]
  /\ run \in [Ops -> [Paths -> Handlers]]

Chain == [i \in 1 .. K |-> Link[Owner][i]]

ClientWrites == {o \in Ops : Writes(o) /\ ~IsPush(o)}

\* "Returns ACK only when Tail commits" (replication.py:249): whatever was
\* lost and repeated, an acknowledged write was loaded by every link.
AckedByWholeChain ==
  \A o \in ClientWrites :
    Caller(o).phase = "acked" => \A i \in 1 .. K : o \in held[Chain[i]]

\* A write that fails on its way is held by the links it reached, from the
\* head on: no link holds it that the one before it does not, so that what a
\* read returned is known to the head, which can push it again.
WritesFillFromTheHead ==
  \A o \in ClientWrites, i \in 1 .. K - 1 :
    o \in held[Chain[i + 1]] => o \in held[Chain[i]]

Removals == {o \in Ops : op[o].item.kind = "remove"}
Pushes == {o \in Ops : IsPush(o)}

\* "Strict read: request is forwarded to the Tail to ensure linearizability"
\* (replication.py:291): a read tells of every announcement that was
\* acknowledged before it began.  It does not hold once a head heals or pushes a
\* snapshot (see the README).
ReadsSeeAckedInserts ==
  Removals = {} =>
    \A o \in Ops :
      ~Writes(o) /\ Caller(o).phase = "acked" =>
        \A x \in op[o].before \cap ClientWrites : op[x].item.peer \in Caller(o).answer

\* It is kept as long as nobody pushes a snapshot down the chain.
ReadsAreStrictUnhealed == Pushes = {} => ReadsSeeAckedInserts

-----------------------------------------------------------------------------
(* The copy is the tail's record; a read has seen what the end of a chain   *)
(* answered to one of its attempts, whoever hears of it.                    *)

LastLink == Chain[K]

EndsAt(o, p) == p # <<>> /\ Ends(Link[op[o].start][Len(p)], Len(p))

Seen(o) ==
  IF Writes(o) THEN {}
  ELSE {run[o][p].answer : p \in {x \in Paths : EndsAt(o, x) /\ run[o][x].phase = "acked"}}

Known(o) ==
  IF Caller(o).phase \in {"none", "checking", "matched"}
  THEN [phase |-> "none", item |-> Read, answer |-> {}]
  ELSE [phase |-> Caller(o).phase, item |-> op[o].item, answer |-> Caller(o).answer]

Copy == INSTANCE SingleCopy WITH
  copy <- rec[LastLink], loaded <- held[LastLink],
  call <- [o \in Ops |-> Known(o)], seen <- [o \in Ops |-> Seen(o)]

\* The chain, with its losses, repetitions and pushes, implements one copy.
TailIsTheCopy == Copy!Spec
=============================================================================
