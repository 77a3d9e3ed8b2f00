------------------------------ MODULE Topology ------------------------------
(***************************************************************************)
(* The ring's pointers and successor lists: join, depart, stabilization and*)
(* the recovery from failures of chord/dht/topology.py, and its handlers.  *)
(*                                                                         *)
(* A node has three threads here: "main" joins and departs, "worker" is    *)
(* stabilize_worker, "rebuild" is the update_successor_list a handler      *)
(* starts (several that wait for their turn count as one).  A thread waits *)
(* for one call at a time; a call executes at its destination in one step, *)
(* and the caller goes on in the same step up to its next call, except     *)
(* that the worker takes in the answer about its successor's predecessor   *)
(* in a step of its own (Adopt): that answer may be old by then.           *)
(*                                                                         *)
(* partition_healer_worker has no action, because it changes nothing: it   *)
(* looks up its own identifier, and get_successor_port answers a member    *)
(* that asks for its own identifier with the member itself, before it      *)
(* looks at the entry node.  What joining, departing and healing do to the *)
(* data is left to the handoff.                                            *)
(***************************************************************************)
EXTENDS RingSpace, Sequences, FiniteSets, FiniteSetsExt

CONSTANTS
  Nodes,        \* the identifiers of the nodes
  Settled,      \* those that form a stable ring at first
  Successor,    \* the successor of each of these
  Predecessor,  \* the predecessor of each
  Backups,      \* the successor list of each
  K,            \* state.k
  Leavers,      \* the nodes that may depart
  MaxMoves,     \* bound: the joins and departures under way at a time
  MaxBusy,      \* bound: the threads that may be at work at a time
  MaxCrashes,   \* bound: the processes that are killed
  MaxLosses     \* bound: calls, or answers of calls, that are lost

ASSUME NodesAssumption ==
  /\ Nodes \subseteq Ids /\ Settled \subseteq Nodes /\ Leavers \subseteq Nodes
  /\ Settled # {}
ASSUME BoundsAssumption == /\ K \in Nat \ {0}
                           /\ MaxMoves \in Nat
                           /\ MaxBusy \in Nat
                           /\ MaxCrashes \in Nat
                           /\ MaxLosses \in Nat

\* The next settled node clockwise is the successor, and knows it; a list has
\* k - 1 entries at most.
ASSUME RingAssumption ==
  /\ Successor \in [Settled -> Settled]
  /\ Predecessor \in [Settled -> Settled]
  /\ Backups \in [Settled -> Seq(Settled)]
  /\ \A n, o \in Settled : Between(Successor[n], n, o)
  /\ \A n \in Settled : /\ Predecessor[Successor[n]] = n
                        /\ Len(Backups[n]) < K

VARIABLES
  alive,    \* the nodes whose process runs
  stage,    \* "out", then "fed" by the successor, then "joined" (hasJoined)
  succ,     \* state.successor
  pred,     \* state.predecessor
  list,     \* state.successor_list
  thread,   \* thread[n][r]: where thread r of node n is
  asked,    \* the nodes that a handler asks to rebuild their list
  crashes,  \* processes killed so far
  losses    \* calls lost so far

pointers == <<succ, pred, list>>
bounds == <<crashes, losses>>
vars == <<alive, stage, succ, pred, list, thread, asked, crashes, losses>>

Roles == {"main", "worker", "rebuild"}

Places == {"idle",
           "lookup", "get predecessor", "data transfer", "tell successor", "tell predecessor",
           "data handoff", "part predecessor", "part successor",
           "ping predecessor", "stabilize", "adopt", "notify", "ping survivor", "tell survivor",
           "open list", "call list", "get list", "ping backup"}

\* at: the call a thread waits for; to: whom it calls; got: what it was told;
\* todo: the candidates it still has to try; acc: the nodes it has gathered.
Threads == [at : Places, to : Nodes, got : Nodes, todo : Seq(Nodes), acc : Seq(Nodes)]

Idle(n) == [at |-> "idle", to |-> n, got |-> n, todo |-> <<>>, acc |-> <<>>]

Calling(at, to, got) == [at |-> at, to |-> to, got |-> got, todo |-> <<>>, acc |-> <<>>]

Gathering(at, to, n, acc) == [at |-> at, to |-> to, got |-> n, todo |-> <<>>, acc |-> acc]

Trying(at, todo, n, acc) ==
  [at |-> at, to |-> Head(todo), got |-> n, todo |-> Tail(todo), acc |-> acc]

\* What is left of a list from the first node on that is not to be skipped.
Rest(todo, skip) ==
  LET others == {i \in DOMAIN todo : todo[i] \notin skip}
  IN  IF others = {} THEN <<>> ELSE SubSeq(todo, Min(others), Len(todo))

-----------------------------------------------------------------------------
Init ==
  /\ alive = Nodes
  /\ stage = [n \in Nodes |-> IF n \in Settled THEN "joined" ELSE "out"]
  /\ succ = [n \in Nodes |-> IF n \in Settled THEN Successor[n] ELSE n]
  /\ pred = [n \in Nodes |-> IF n \in Settled THEN Predecessor[n] ELSE n]
  /\ list = [n \in Nodes |-> IF n \in Settled THEN Backups[n] ELSE <<>>]
  /\ thread = [n \in Nodes |-> [r \in Roles |-> Idle(n)]]
  /\ asked = {}
  /\ crashes = 0
  /\ losses = 0

Waits(n, r, at) == n \in alive /\ thread[n][r].at = at

Goes(n, r, t) == thread' = [thread EXCEPT ![n][r] = t]

Busy == {x \in Nodes \X Roles : thread[x[1]][x[2]].at # "idle"}

\* Thread r of node n, which rests, gets to work.
MayBegin(n, r) == Waits(n, r, "idle") /\ Cardinality(Busy) < MaxBusy

\* The nodes that join or depart.
Moving == {n \in alive : thread[n]["main"].at # "idle"}

\* What becomes of a call to dst: it is answered, or executed but the answer
\* is lost, or not executed at all.
Outcomes == {"answered", "unheard", "lost"}

Sent(dst, o) ==
  /\ o = "answered" => dst \in alive
  /\ o = "unheard" => dst \in alive /\ losses < MaxLosses
  /\ o = "lost" => dst \notin alive \/ losses < MaxLosses
  /\ losses' = IF dst \in alive /\ o # "answered" THEN losses + 1 ELSE losses
  /\ crashes' = crashes

\* The process ends, killed or by sys.exit; nobody reads its state again.
Exits(n) ==
  /\ alive' = alive \ {n}
  /\ thread' = [thread EXCEPT ![n] = [r \in Roles |-> Idle(n)]]
  /\ asked' = asked \ {n}

-----------------------------------------------------------------------------
(* update_successor_list, run by thread r of node n with successor s.  It    *)
(* reads the successor anew to see whether the node is alone, to open the  *)
(* list, to address the call and to sort out every candidate: a list may   *)
(* come to hold a node twice, or the node itself.                          *)

BeginList(n, r, s) ==
  IF s = n
  THEN /\ list' = [list EXCEPT ![n] = <<>>]
       /\ Goes(n, r, Idle(n))
  ELSE /\ list' = list
       /\ Goes(n, r, Calling("open list", n, n))

OpenList(n, r) ==
  /\ Waits(n, r, "open list")
  /\ Goes(n, r, Gathering("call list", n, n, <<succ[n]>>))
  /\ UNCHANGED <<alive, stage, pointers, asked, bounds>>

CallList(n, r) ==
  /\ Waits(n, r, "call list")
  /\ Goes(n, r, Gathering("get list", succ[n], n, thread[n][r].acc))
  /\ UNCHANGED <<alive, stage, pointers, asked, bounds>>

\* Mutant: one node too many is kept.
KeptTooLong(acc) == SubSeq(acc, 1, Min({K, Len(acc)}))

\* The list is cut to k - 1.
Kept(acc) == SubSeq(acc, 1, Min({K - 1, Len(acc)}))

\* Those of the successor's list that are neither the node nor its successor.
Candidates(n, todo) == Rest(todo, {n, succ[n]})

\* The next candidate is pinged; after the last one the list is stored, and
\* the predecessor is told to rebuild its own if this one has changed.
ContinueList(n, r, todo, acc) ==
  LET rest == Candidates(n, todo)
      new == Kept(acc)
  IN  IF rest # <<>>
      THEN /\ Goes(n, r, Trying("ping backup", rest, n, acc))
           /\ UNCHANGED <<list, asked>>
      ELSE /\ Goes(n, r, Idle(n))
           /\ list' = [list EXCEPT ![n] = new]
           /\ asked' = IF new # list[n] /\ pred[n] # n /\ pred[n] \in alive
                       THEN asked \cup {pred[n]} ELSE asked

GetList(n, r, o) ==
  LET t == thread[n][r]
  IN  /\ Waits(n, r, "get list")
      /\ Sent(t.to, o)
      /\ ContinueList(n, r, IF o = "answered" THEN list[t.to] ELSE <<>>, t.acc)
      /\ UNCHANGED <<alive, stage, succ, pred>>

PingBackup(n, r, o) ==
  LET t == thread[n][r]
  IN  /\ Waits(n, r, "ping backup")
      /\ Sent(t.to, o)
      /\ ContinueList(n, r, t.todo, IF o = "answered" THEN Append(t.acc, t.to) ELSE t.acc)
      /\ UNCHANGED <<alive, stage, succ, pred>>

\* The thread that handle_update_successor or handle_force_update starts.  It
\* may start late or, as when a "force update successor list" is lost, never.
StartRebuild(n) ==
  /\ n \in asked
  /\ MayBegin(n, "rebuild")
  /\ asked' = asked \ {n}
  /\ BeginList(n, "rebuild", succ[n])
  /\ UNCHANGED <<alive, stage, succ, pred, bounds>>

\* Mutant: a predecessor is taken only by a node that has none.
UpdatePredecessorIfNone(n, p, o) ==
  pred' = IF o = "lost" \/ pred[n] # n THEN pred ELSE [pred EXCEPT ![n] = p]

\* handle_update_predecessor and handle_update_successor at node n: both
\* take the new neighbour whoever it is.
UpdatePredecessor(n, p, o) ==
  pred' = IF o = "lost" THEN pred ELSE [pred EXCEPT ![n] = p]

UpdateSuccessor(n, s, o) ==
  IF o = "lost" \/ succ[n] = s
  THEN UNCHANGED <<succ, asked>>
  ELSE succ' = [succ EXCEPT ![n] = s] /\ asked' = asked \cup {n}

-----------------------------------------------------------------------------
(* join                                                                    *)

BeginJoin(n, entry) ==
  /\ stage[n] = "out"
  /\ MayBegin(n, "main")
  /\ Cardinality(Moving) < MaxMoves
  /\ stage[entry] = "joined"
  /\ Goes(n, "main", Calling("lookup", entry, n))
  /\ UNCHANGED <<alive, stage, pointers, asked, bounds>>

\* A join that fails ends the process (cli.py).
AbortJoin(n) == Exits(n) /\ UNCHANGED <<stage, pointers>>

\* The node a hop names for target t: one of its fingers, which may hold any
\* node that ever took part, a backup of it, or its successor.
Hops(h, t) == {x \in Nodes : stage[x] # "out" /\ x # h /\ Between(x, h, t)} \cup {succ[h]}

\* h answers that it is the successor of t.
Owns(h, t) == Between(t, pred[h], h) \/ succ[h] = h

\* STEP 1, one hop of get_successor_port.
Lookup(n, o) ==
  LET t == thread[n]["main"]
      h == t.to
  IN  /\ Waits(n, "main", "lookup")
      /\ Sent(h, o)
      /\ \/ /\ o # "answered" \/ h \in {t.acc[i] : i \in DOMAIN t.acc}
            /\ AbortJoin(n)
         \/ /\ o = "answered"
            /\ Owns(h, n)
            /\ succ' = [succ EXCEPT ![n] = h]
            /\ Goes(n, "main", Calling("get predecessor", h, n))
            /\ UNCHANGED <<alive, stage, pred, list, asked>>
         \/ /\ o = "answered"
            /\ ~Owns(h, n)
            /\ \E x \in Hops(h, n) :
                 Goes(n, "main", Gathering("lookup", x, n, Append(t.acc, h)))
            /\ UNCHANGED <<alive, stage, pointers, asked>>

\* Mutant: the neighbours are told before the data has come.
GetPredecessorAndRewire(n, o) ==
  LET h == thread[n]["main"].to
  IN  /\ Waits(n, "main", "get predecessor")
      /\ Sent(h, o)
      /\ \/ o # "answered" /\ AbortJoin(n)
         \/ /\ o = "answered"
            /\ pred' = [pred EXCEPT ![n] = pred[h]]
            /\ Goes(n, "main", Calling("tell successor", succ[n], n))
            /\ UNCHANGED <<alive, stage, succ, list, asked>>

\* STEP 2.
GetPredecessor(n, o) ==
  LET h == thread[n]["main"].to
  IN  /\ Waits(n, "main", "get predecessor")
      /\ Sent(h, o)
      /\ \/ o # "answered" /\ AbortJoin(n)
         \/ /\ o = "answered"
            /\ pred' = [pred EXCEPT ![n] = pred[h]]
            /\ Goes(n, "main", Calling("data transfer", succ[n], n))
            /\ UNCHANGED <<alive, stage, succ, list, asked>>

\* STEP 3.
DataTransfer(n, o) ==
  /\ Waits(n, "main", "data transfer")
  /\ Sent(thread[n]["main"].to, o)
  /\ \/ o # "answered" /\ AbortJoin(n)
     \/ /\ o = "answered"
        /\ stage' = [stage EXCEPT ![n] = "fed"]
        /\ Goes(n, "main", Calling("tell successor", succ[n], n))
        /\ UNCHANGED <<alive, pointers, asked>>

\* STEP 4, its two calls; their answers are not looked at.
TellSuccessor(n, o) ==
  LET h == thread[n]["main"].to
  IN  /\ Waits(n, "main", "tell successor")
      /\ Sent(h, o)
      /\ UpdatePredecessor(h, n, o)
      /\ Goes(n, "main", Calling("tell predecessor", pred'[n], n))
      /\ UNCHANGED <<alive, stage, succ, list, asked>>

TellPredecessor(n, o) ==
  LET h == thread[n]["main"].to
  IN  /\ Waits(n, "main", "tell predecessor")
      /\ Sent(h, o)
      /\ UpdateSuccessor(h, n, o)
      /\ stage' = [stage EXCEPT ![n] = "joined"]
      /\ BeginList(n, "main", succ'[n])
      /\ UNCHANGED <<alive, pred>>

-----------------------------------------------------------------------------
(* depart; cli.py ends the process after it, whatever came of it.          *)

BeginDepart(n) ==
  /\ n \in Leavers
  /\ stage[n] = "joined"
  /\ Cardinality(Moving) < MaxMoves
  /\ MayBegin(n, "main")
  /\ \/ succ[n] = n /\ Exits(n)
     \/ /\ succ[n] # n
        /\ Goes(n, "main", Calling("data handoff", succ[n], n))
        /\ UNCHANGED <<alive, asked>>
  /\ UNCHANGED <<stage, pointers, bounds>>

\* PHASE 1.
DataHandoff(n, o) ==
  /\ Waits(n, "main", "data handoff")
  /\ Sent(thread[n]["main"].to, o)
  /\ \/ o # "answered" /\ Exits(n)
     \/ /\ o = "answered"
        /\ Goes(n, "main", Calling("part predecessor", pred[n], succ[n]))
        /\ UNCHANGED <<alive, asked>>
  /\ UNCHANGED <<stage, pointers>>

\* PHASE 2, its two calls.
PartPredecessor(n, o) ==
  LET t == thread[n]["main"]
  IN  /\ Waits(n, "main", "part predecessor")
      /\ Sent(t.to, o)
      /\ UpdateSuccessor(t.to, t.got, o)
      /\ Goes(n, "main", Calling("part successor", succ'[n], pred[n]))
      /\ UNCHANGED <<alive, stage, pred, list>>

PartSuccessor(n, o) ==
  LET t == thread[n]["main"]
  IN  /\ Waits(n, "main", "part successor")
      /\ Sent(t.to, o)
      /\ UpdatePredecessor(t.to, t.got, o)
      /\ Exits(n)
      /\ UNCHANGED <<stage, succ, list>>

-----------------------------------------------------------------------------
(* stabilize_worker                                                        *)

Wake(n) ==
  /\ MayBegin(n, "worker")
  /\ stage[n] = "joined"
  /\ succ[n] # n
  /\ Goes(n, "worker", IF pred[n] # n THEN Calling("ping predecessor", pred[n], n)
                                      ELSE Calling("stabilize", succ[n], n))
  /\ UNCHANGED <<alive, stage, pointers, asked, bounds>>

\* A dead predecessor: handle_predecessor_failure.
PingPredecessor(n, o) ==
  /\ Waits(n, "worker", "ping predecessor")
  /\ Sent(thread[n]["worker"].to, o)
  /\ pred' = IF o = "answered" THEN pred ELSE [pred EXCEPT ![n] = n]
  /\ Goes(n, "worker", Calling("stabilize", succ[n], n))
  /\ UNCHANGED <<alive, stage, succ, list, asked>>

\* Mutant: a node without other backups keeps its dead successor.
ContinueStitchOrWait(n, todo) ==
  LET rest == Rest(todo, {succ[n]})
  IN  IF rest # <<>>
      THEN /\ Goes(n, "worker", Trying("ping survivor", rest, n, <<>>))
           /\ UNCHANGED pointers
      ELSE /\ Goes(n, "worker", Idle(n))
           /\ UNCHANGED pointers

\* handle_successor_failure: the next backup other than the successor is
\* pinged, and with none left the node is alone.
ContinueStitch(n, todo) ==
  LET rest == Rest(todo, {succ[n]})
  IN  IF rest # <<>>
      THEN /\ Goes(n, "worker", Trying("ping survivor", rest, n, <<>>))
           /\ UNCHANGED pointers
      ELSE /\ Goes(n, "worker", Idle(n))
           /\ succ' = [succ EXCEPT ![n] = n]
           /\ pred' = [pred EXCEPT ![n] = n]
           /\ list' = [list EXCEPT ![n] = <<>>]

Stabilize(n, o) ==
  LET h == thread[n]["worker"].to
  IN  /\ Waits(n, "worker", "stabilize")
      /\ Sent(h, o)
      /\ \/ o # "answered" /\ ContinueStitch(n, list[n])
         \/ /\ o = "answered"
            /\ Goes(n, "worker", Calling("adopt", h, pred[h]))
            /\ UNCHANGED pointers
      /\ UNCHANGED <<alive, stage, asked>>

\* A node between me and my successor of this moment is adopted.
Adopt(n) ==
  LET got == thread[n]["worker"].got
  IN  /\ Waits(n, "worker", "adopt")
      /\ succ' = IF got # n /\ Between(got, n, succ[n])
                 THEN [succ EXCEPT ![n] = got] ELSE succ
      /\ Goes(n, "worker", Calling("notify", succ'[n], n))
      /\ UNCHANGED <<alive, stage, pred, list, asked, bounds>>

Notify(n, at, o) ==
  LET h == thread[n]["worker"].to
  IN  /\ at \in {"notify", "tell survivor"}
      /\ Waits(n, "worker", at)
      /\ Sent(h, o)
      /\ UpdatePredecessor(h, n, o)
      /\ BeginList(n, "worker", succ[n])
      /\ UNCHANGED <<alive, stage, succ, asked>>

PingSurvivor(n, o) ==
  LET t == thread[n]["worker"]
  IN  /\ Waits(n, "worker", "ping survivor")
      /\ Sent(t.to, o)
      /\ \/ o # "answered" /\ ContinueStitch(n, t.todo)
         \/ /\ o = "answered"
            /\ succ' = [succ EXCEPT ![n] = t.to]
            /\ Goes(n, "worker", Calling("tell survivor", t.to, n))
            /\ UNCHANGED <<pred, list>>
      /\ UNCHANGED <<alive, stage, asked>>

-----------------------------------------------------------------------------
Crash(n) ==
  /\ n \in alive
  /\ crashes < MaxCrashes
  /\ crashes' = crashes + 1
  /\ Exits(n)
  /\ UNCHANGED <<stage, pointers, losses>>

MainStep(n) ==
  \E o \in Outcomes :
    \/ Lookup(n, o) \/ GetPredecessor(n, o) \/ DataTransfer(n, o)
    \/ TellSuccessor(n, o) \/ TellPredecessor(n, o)
    \/ DataHandoff(n, o) \/ PartPredecessor(n, o) \/ PartSuccessor(n, o)

WorkerStep(n) ==
  \/ Wake(n)
  \/ Adopt(n)
  \/ \E o \in Outcomes :
       \/ PingPredecessor(n, o) \/ Stabilize(n, o) \/ PingSurvivor(n, o)
       \/ \E at \in {"notify", "tell survivor"} : Notify(n, at, o)

ListStep(n, r) ==
  \/ OpenList(n, r)
  \/ CallList(n, r)
  \/ \E o \in Outcomes : GetList(n, r, o) \/ PingBackup(n, r, o)

Next ==
  \E n \in Nodes :
    \/ \E entry \in Nodes : BeginJoin(n, entry)
    \/ BeginDepart(n)
    \/ MainStep(n)
    \/ WorkerStep(n)
    \/ StartRebuild(n)
    \/ \E r \in Roles : ListStep(n, r)
    \/ Crash(n)

Spec == Init /\ [][Next]_vars

\* Threads keep running, and every call comes to an end.  The worker's fairness is
\* strong because of MaxBusy, which only the model has: it wakes time and again.
Fairness ==
  \A n \in Nodes : /\ WF_vars(MainStep(n) \/ ListStep(n, "main"))
                   /\ SF_vars(WorkerStep(n) \/ ListStep(n, "worker"))
                   /\ WF_vars(ListStep(n, "rebuild"))

FairSpec == Spec /\ Fairness

-----------------------------------------------------------------------------
Listed(n) == {list[n][i] : i \in DOMAIN list[n]}

\* A list has k - 1 entries at most.
TypeOK == /\ alive \subseteq Nodes
          /\ stage \in [Nodes -> {"out", "fed", "joined"}]
          /\ succ \in [Nodes -> Nodes]
          /\ pred \in [Nodes -> Nodes]
          /\ list \in [Nodes -> Seq(Nodes)]
          /\ \A n \in Nodes : Len(list[n]) < K
          /\ thread \in [Nodes -> [Roles -> Threads]]
          /\ asked \subseteq Nodes
          /\ crashes \in 0 .. MaxCrashes
          /\ losses \in 0 .. MaxLosses

\* Nobody learns of a joining node before it holds its data, as a successor,
\* a predecessor or a backup, directly or from another node's list (the order of
\* the steps of join).
NoStrangers ==
  \A n \in Nodes, x \in Nodes :
    x \in {succ[n], pred[n]} \cup Listed(n) => x = n \/ stage[x] # "out"

Members == {n \in alive : stage[n] = "joined"}

\* While no process ends, every identifier is claimed by a node that has its
\* data, whatever is lost and however joins and stabilization interleave (the
\* order in which join moves data and pointers, the pointers the handlers take).
NoGap ==
  alive = Nodes =>
    \A id \in Ids : \E n \in Nodes : stage[n] # "out" /\ Owns(n, id)

\* The member before n, itself if there is no other.
PreviousOf(M, n) == CHOOSE p \in M : NextOf(p, M) = n

\* The pointers are those of the ring of all members.
RingIsRight ==
  \A n \in Members : /\ succ[n] = NextOf(n, Members)
                     /\ pred[n] = PreviousOf(Members, n)

\* Members that all agree with their neighbours, and none of which believes to
\* be alone, form the ring of all members: stabilization changes nothing there,
\* so a wrong one would stay wrong.
AgreedRingIsRight ==
  /\ Moving = {}
  /\ \A n \in Members : /\ {succ[n], pred[n]} \subseteq Members
                        /\ pred[succ[n]] = n
                        /\ succ[pred[n]] = n
                        /\ succ[n] # n
  => RingIsRight

\* No node that has a successor keeps a dead neighbour for good: the worker's
\* pings and the backups replace it.
DeadAreForgotten ==
  <>[](\A n \in Members : succ[n] # n => {succ[n], pred[n]} \subseteq alive)

\* Unless something is lost or a process ends, a join comes to its end and the
\* pointers of join, handlers and stabilization become those of the right ring.
RingSettles == <>[](losses = 0 /\ alive = Nodes => Moving = {} /\ RingIsRight)
=============================================================================
