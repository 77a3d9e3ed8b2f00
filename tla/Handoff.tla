------------------------------- MODULE Handoff -------------------------------
(***************************************************************************)
(* What becomes of the data while nodes join, depart and crash: the        *)
(* handoffs of chord/dht/handoff.py, the calls for them in topology.py, the*)
(* eviction of replicas and anti-entropy, under the eventual strategy.     *)
(*                                                                         *)
(* One node joins or departs at a time, and the calls that rewire the ring *)
(* arrive: what concurrent changes and lost calls do to the pointers is in *)
(* Topology.  A node rebuilds its successor list in one thread at a time.  *)
(* Every thread that sends in the background is a message, which waits in  *)
(* net for as long as it likes, or until the process of its sender ends.   *)
(* A record is its timestamp, 0 if there is none; how records merge is in  *)
(* DataStore.                                                              *)
(***************************************************************************)
EXTENDS RingSpace, FiniteSets, FiniteSetsExt, MerkleTree

CONSTANTS
  Nodes,        \* the identifiers of the nodes
  Settled,      \* those that form a stable, empty ring at first
  Keys,         \* the identifiers of the keys
  K,            \* state.k
  Joiners,      \* the nodes that may join
  Leavers,      \* the nodes that may depart
  MaxTime,      \* bound: the writes, their timestamps are 1 .. MaxTime
  MaxChanges,   \* bound: the joins, departures and faults of a run
  MaxHasty,     \* bound: those of them that begin before the ring has recovered
  MaxFaults,    \* bound: processes that are killed, transfers and handoffs that
                \* are lost
  MaxBusy       \* bound: the lists that are rebuilt at a time

ASSUME NodesAssumption ==
  /\ Settled \subseteq Nodes /\ Nodes \subseteq Ids /\ Keys \subseteq Ids
  /\ Joiners \subseteq Nodes /\ Leavers \subseteq Nodes /\ Settled # {} /\ IsFiniteSet(Nodes)
ASSUME BoundsAssumption ==
  /\ K \in Nat \ {0, 1}
  /\ MaxTime \in Nat /\ MaxChanges \in Nat /\ MaxHasty \in Nat
  /\ MaxFaults \in Nat /\ MaxBusy \in Nat

VARIABLES
  stage,    \* how far a node's join or departure has got
  succ,     \* state.successor
  pred,     \* state.predecessor
  list,     \* state.successor_list
  rebuild,  \* where update_successor_list is at each node
  store,    \* store[n][k] is the timestamp of node n's record of key k
  net,      \* what background threads, and the handoffs, have yet to deliver
  client,   \* the write under way
  acked,    \* acked[k] is the latest acknowledged write of key k (history)
  strays,   \* keys written while the ring was changing (history)
  exposed,  \* keys that lacked a copy when a process was killed (history)
  late,     \* keys written at a node that departs, or has no data yet (history)
  count     \* what was used up of every bound

ring == <<stage, succ, pred, list, rebuild>>
history == <<client, acked, strays, late, exposed>>
vars == <<stage, succ, pred, list, rebuild, store, net, client, acked, strays, late, exposed, count>>

Times == 0 .. MaxTime
Items == [Keys -> Times]
Nothing == [k \in Keys |-> 0]

Stages == {"out", "asking", "fed", "told", "joined", "leaving", "handed", "parting"}

\* from: the process whose thread sends the message, or runs it.
Messages ==
  [kind : {"load", "handoff", "transfer", "inherit"}, from : Nodes, to : Nodes, items : Items]
    \cup [kind : {"drop"}, from : Nodes, to : Nodes, keys : SUBSET Keys]
    \cup [kind : {"heal"}, from : Nodes, to : Nodes]

Carrying(kind, n, to, items) == [kind |-> kind, from |-> n, to |-> to, items |-> items]
Load(n, to, items) == Carrying("load", n, to, items)
Drop(n, to, keys) == [kind |-> "drop", from |-> n, to |-> to, keys |-> keys]
Heal(n) == [kind |-> "heal", from |-> n, to |-> n]

\* at: the call a rebuild is about to make; todo: whom it still has to ping;
\* acc: the list it has gathered.
Rebuilds == [at : {"idle", "get list", "ping"}, todo : Seq(Nodes), acc : Seq(Nodes)]

Idle == [at |-> "idle", todo |-> <<>>, acc |-> <<>>]

NoCall == [at |-> "nowhere"]
Calls == [key : Keys, ts : Times, at : Nodes]

\* hasJoined: these serve the ring, the departing ones to the end.
Members == {n \in Nodes : stage[n] \in {"joined", "leaving", "handed", "parting"}}

Quiet == \A n \in Nodes : stage[n] \in {"out", "joined"}

Merge(s, items) == [k \in Keys |-> IF items[k] > s[k] THEN items[k] ELSE s[k]]

Only(s, keys) == [k \in Keys |-> IF k \in keys THEN s[k] ELSE 0]

Held(n) == {k \in Keys : store[n][k] > 0}

-----------------------------------------------------------------------------
\* The first member at or after x, and the members after n in turn.
Owner(x) == CHOOSE n \in Members : \A o \in Members : Distance(x, n) <= Distance(x, o)

After(n, set) ==
  LET next[i \in 0 .. K - 1] == IF i = 0 THEN n ELSE NextOf(next[i - 1], set)
      few == IF Cardinality(set) < K THEN Cardinality(set) - 1 ELSE K - 1
  IN  [i \in 1 .. few |-> next[i]]

\* The nodes that are to hold key k.
Holders(k) ==
  LET n == Owner(k)  next == After(n, Members)
  IN  {n} \cup {next[i] : i \in DOMAIN next}

Copied(k) == \A n \in Holders(k) : store[n][k] >= acked[k]

Init ==
  /\ stage = [n \in Nodes |-> IF n \in Settled THEN "joined" ELSE "out"]
  /\ succ = [n \in Nodes |-> IF n \in Settled THEN NextOf(n, Settled) ELSE n]
  /\ pred = [n \in Nodes |-> IF n \in Settled
                             THEN CHOOSE p \in Settled : NextOf(p, Settled) = n ELSE n]
  /\ list = [n \in Nodes |-> IF n \in Settled THEN After(n, Settled) ELSE <<>>]
  /\ rebuild = [n \in Nodes |-> Idle]
  /\ store = [n \in Nodes |-> Nothing]
  /\ net = {}
  /\ client = NoCall
  /\ acked = Nothing
  /\ strays = {}
  /\ late = {}
  /\ exposed = {}
  /\ count = [time |-> 0, moves |-> 0, hasty |-> 0, faults |-> 0]

-----------------------------------------------------------------------------
(* Replication                                                             *)

\* Mutant: replicas count as primary data.
PrimaryAndReplicas(n) == {k \in Held(n) : n = n}

\* get_primary_data
Primary(n) == {k \in Held(n) : Between(k, pred[n], n)}

\* valid_replicas
Backups(n) == {list[n][i] : i \in DOMAIN list[n]} \ {n}

Blast(n, items) == {Load(n, r, items) : r \in Backups(n)}

\* A client's lookup ends at a node that somebody's successor pointer names
\* and that takes the key for its own.
Resolve(k) ==
  /\ client = NoCall
  /\ count.time < MaxTime
  /\ \E n \in {succ[m] : m \in Members} :
       /\ Between(k, pred[n], n) \/ succ[n] = n
       /\ client' = [key |-> k, ts |-> count.time + 1, at |-> n]
  /\ count' = [count EXCEPT !.time = @ + 1]
  /\ strays' = IF Quiet THEN strays ELSE strays \cup {k}
  /\ UNCHANGED <<ring, store, net, acked, late, exposed>>

\* _eventual_insert at the head the client found; it does not ask whether it
\* still is the head.
Write ==
  LET n == client.at  k == client.key
      items == [Nothing EXCEPT ![k] = client.ts]
  IN  /\ client # NoCall
      /\ client' = NoCall
      /\ \/ /\ stage[n] = "out"
            /\ UNCHANGED <<store, net, acked, strays, late>>
         \/ /\ stage[n] # "out"
            /\ store' = [store EXCEPT ![n] = Merge(@, items)]
            /\ net' = net \cup Blast(n, items)
            /\ acked' = [acked EXCEPT ![k] = client.ts]
            /\ strays' = IF Quiet /\ n = Owner(k) THEN strays ELSE strays \cup {k}
            /\ late' = IF stage[n] \in {"fed", "told", "joined"} THEN late ELSE late \cup {k}
      /\ UNCHANGED <<ring, exposed, count>>

\* Deliver a message to a process that runs.
Arrives(m, kind) == m \in net /\ m.kind = kind /\ stage[m.to] # "out"

\* "insert request" with is_replica_write
Replicate(m) ==
  /\ Arrives(m, "load")
  /\ store' = [store EXCEPT ![m.to] = Merge(@, m.items)]
  /\ net' = net \ {m}
  /\ UNCHANGED <<ring, history, count>>

\* "drop keys"
DropKeys(m) ==
  /\ Arrives(m, "drop")
  /\ store' = [store EXCEPT ![m.to] = Only(@, Keys \ m.keys)]
  /\ net' = net \ {m}
  /\ UNCHANGED <<ring, history, count>>

\* heal_replication, in a thread of its own
HealReplication(m) ==
  /\ Arrives(m, "heal")
  /\ net' = (net \ {m}) \cup
       (IF Primary(m.to) = {} THEN {} ELSE Blast(m.to, Only(store[m.to], Primary(m.to))))
  /\ UNCHANGED <<ring, store, history, count>>

\* A message to a process that has ended.
Undeliverable(m) ==
  /\ m \in net /\ m.kind \notin {"handoff", "transfer"} /\ stage[m.to] = "out"
  /\ net' = net \ {m}
  /\ UNCHANGED <<ring, store, history, count>>

\* Mutant: a replica with an empty tree is passed over.
AntiEntropyButEmpty(n, r) ==
  LET mine == Primary(n)
      theirs == {k \in Held(r) : Between(k, pred[n], n)}
  IN  /\ n \in Members /\ r \in Backups(n) /\ stage[r] # "out"
      /\ RootHash(mine, store[n]) # RootHash(theirs, store[r])
      /\ mine # {} /\ theirs # {}
      /\ net' = net \cup {Load(n, r, Only(store[n], mine))}
      /\ UNCHANGED <<ring, store, history, count>>

\* anti_entropy_worker of head n and handle_merkle_root_check of replica r.
\* The replica's summary arrives with strings for keys, so that the head finds
\* none of its keys in it and sends all of its primary data.
AntiEntropy(n, r) ==
  LET mine == Primary(n)
      theirs == {k \in Held(r) : Between(k, pred[n], n)}
  IN  /\ n \in Members /\ r \in Backups(n) /\ stage[r] # "out"
      /\ RootHash(mine, store[n]) # RootHash(theirs, store[r])
      /\ mine # {}
      /\ net' = net \cup {Load(n, r, Only(store[n], mine))}
      /\ UNCHANGED <<ring, store, history, count>>

-----------------------------------------------------------------------------
(* update_successor_list, which stabilize_worker and several handlers call. *)

\* A node that is its own successor has no backups.  The reads of the successor
\* that decide this, open the list and address the call are one step; Topology
\* parts them.
BeginRebuild(n) ==
  /\ n \in Members \/ stage[n] = "told"
  /\ rebuild[n] = Idle
  /\ IF succ[n] = n
     THEN list' = [list EXCEPT ![n] = <<>>] /\ UNCHANGED rebuild
     ELSE /\ Cardinality({m \in Nodes : rebuild[m] # Idle}) < MaxBusy
          /\ rebuild' = [rebuild EXCEPT ![n] = [Idle EXCEPT !.at = "get list", !.acc = <<succ[n]>>]]
          /\ UNCHANGED list
  /\ UNCHANGED <<stage, succ, pred, store, net, history, count>>

\* Mutant: one node too many is kept.
KeptTooLong(acc) == SubSeq(acc, 1, Min({K, Len(acc)}))

\* The list is cut to k - 1.
Kept(acc) == SubSeq(acc, 1, Min({K - 1, Len(acc)}))

\* The nodes the new list leaves out.
Dropped(n, new) ==
  {list[n][i] : i \in DOMAIN list[n]} \ {new[i] : i \in DOMAIN new}

\* The candidates from the first on that is neither the node nor its successor.
Rest(n, candidates) ==
  LET others == {i \in DOMAIN candidates : candidates[i] \notin {n, succ[n]}}
  IN  IF others = {} THEN <<>> ELSE SubSeq(candidates, Min(others), Len(candidates))

\* The next candidate is to be pinged.  After the last the list is replaced; if it
\* changed, the node heals its new replicas, and tells those that are none any
\* more to drop its primary keys.
Continue(n, candidates, acc) ==
  LET todo == Rest(n, candidates)
      new == Kept(acc)
  IN  IF todo # <<>>
      THEN /\ rebuild' = [rebuild EXCEPT ![n] = [at |-> "ping", todo |-> todo, acc |-> acc]]
           /\ UNCHANGED <<list, net>>
      ELSE /\ rebuild' = [rebuild EXCEPT ![n] = Idle]
           /\ list' = [list EXCEPT ![n] = new]
           /\ net' = IF new = list[n] THEN net
                     ELSE net \cup {Heal(n)} \cup
                          (IF Primary(n) = {} THEN {}
                           ELSE {Drop(n, d, Primary(n)) : d \in Dropped(n, new)})

Fails ==
  /\ count.faults < MaxFaults
  /\ count' = [count EXCEPT !.faults = @ + 1]

\* A successor that does not answer leaves the list that was opened as it is.
GetList(n) ==
  LET s == Head(rebuild[n].acc)
  IN  /\ rebuild[n].at = "get list"
      /\ Continue(n, IF stage[s] = "out" THEN <<>> ELSE list[s], rebuild[n].acc)
      /\ UNCHANGED <<stage, succ, pred, store, history, count>>

PingBackup(n) ==
  LET r == rebuild[n]  b == Head(r.todo)
  IN  /\ r.at = "ping"
      /\ Continue(n, Tail(r.todo), IF stage[b] = "out" THEN r.acc ELSE Append(r.acc, b))
      /\ UNCHANGED <<stage, succ, pred, store, history, count>>

\* The process ends, and its memory and rebuild with it; of the calls its
\* threads have left to make, all of them daemons but those of main, some are lost.
Exits(n, left) ==
  /\ stage' = [stage EXCEPT ![n] = "out"]
  /\ store' = [store EXCEPT ![n] = Nothing]
  /\ rebuild' = [rebuild EXCEPT ![n] = Idle]
  /\ \E lost \in SUBSET {m \in left : m.from = n} : net' = left \ lost

\* It ends without a handoff.
IsKilled(n) ==
  /\ Exits(n, net)
  /\ exposed' = exposed \cup {k \in Keys : ~Copied(k)}
  /\ UNCHANGED <<client, acked, strays, late>>

-----------------------------------------------------------------------------
\* The ring has recovered from the last change: the pointers and lists are right,
\* and no eviction is under way.
Recovered ==
  /\ Quiet /\ Members # {}
  /\ \A n \in Members : /\ rebuild[n] = Idle
                        /\ succ[n] = NextOf(n, Members)
                        /\ pred[succ[n]] = n
                        /\ list[n] = After(n, Members)
  /\ \A m \in net : m.kind \in {"load", "heal", "inherit"}

Changes ==
  /\ Quiet
  /\ count.moves < MaxChanges
  /\ Recovered \/ count.hasty < MaxHasty

Hasty == IF Recovered THEN count.hasty ELSE count.hasty + 1

CanMove(n, from) ==
  /\ stage[n] = from
  /\ Changes
  /\ count' = [count EXCEPT !.moves = @ + 1, !.hasty = Hasty]

-----------------------------------------------------------------------------
(* join                                                                    *)

\* STEPS 1 and 2: the node finds its successor, and asks for its predecessor.
BeginJoin(n) ==
  /\ n \in Joiners
  /\ CanMove(n, "out")
  /\ \E s \in {succ[m] : m \in Members} :
       /\ stage[s] # "out"
       /\ Between(n, pred[s], s) \/ succ[s] = s
       /\ succ' = [succ EXCEPT ![n] = s]
       /\ pred' = [pred EXCEPT ![n] = pred[s]]
  /\ stage' = [stage EXCEPT ![n] = "asking"]
  /\ list' = [list EXCEPT ![n] = <<>>]
  /\ UNCHANGED <<rebuild, store, net, history>>

\* "Stolen Primary Data" of the new node n.
Stolen(s, n) == {k \in Held(s) : Between(k, pred[n], n)}

\* Mutant: the keys between the old and the new predecessor are overlooked.
HandedOverInheritedOnly(s, n) == {k \in Held(s) : ~Between(k, pred[s], s)}

\* That, and "Inherited Replicas".
HandedOver(s, n) == Stolen(s, n) \cup {k \in Held(s) : ~Between(k, pred[s], s)}

\* STEP 3, process_data_transfer at the successor, which tells the last node of
\* its list to drop what the new node takes over.
TransferData(n) ==
  LET s == succ[n]
  IN  /\ stage[n] = "asking" /\ stage[s] # "out"
      /\ \A m \in net : ~(m.kind = "transfer" /\ m.to = n)
      /\ net' = net
           \cup {Carrying("transfer", s, n, Only(store[s], HandedOver(s, n)))}
           \cup (IF Stolen(s, n) = {} \/ list[s] = <<>> THEN {}
                 ELSE {Drop(s, Last(list[s]), Stolen(s, n))})
      /\ UNCHANGED <<ring, store, history, count>>

\* STEP 3, its answer.
LoadTransfer(m) ==
  /\ Arrives(m, "transfer")
  /\ store' = [store EXCEPT ![m.to] = Merge(@, m.items)]
  /\ stage' = [stage EXCEPT ![m.to] = "fed"]
  /\ net' = net \ {m}
  /\ UNCHANGED <<succ, pred, list, rebuild, history, count>>

\* The answer is lost and the request repeated, or the process gives up.
LoseTransfer(m) ==
  /\ Arrives(m, "transfer") /\ Fails
  /\ \/ Exits(m.to, net \ {m})
     \/ net' = net \ {m} /\ UNCHANGED <<stage, store, rebuild>>
  /\ UNCHANGED <<succ, pred, list, history>>

\* STEP 4
TellSuccessor(n) ==
  /\ stage[n] = "fed"
  /\ pred' = [pred EXCEPT ![succ[n]] = n]
  /\ stage' = [stage EXCEPT ![n] = "told"]
  /\ UNCHANGED <<succ, list, rebuild, store, net, history, count>>

TellPredecessor(n) ==
  /\ stage[n] = "told"
  /\ succ' = [succ EXCEPT ![pred[n]] = n]
  /\ stage' = [stage EXCEPT ![n] = "joined"]
  /\ UNCHANGED <<pred, list, rebuild, store, net, history, count>>

-----------------------------------------------------------------------------
(* depart                                                                  *)

\* PHASE 1, after join has returned; a node that is alone just ends.
BeginDepart(n) ==
  /\ n \in Leavers
  /\ CanMove(n, "joined")
  /\ \/ /\ succ[n] = n
        /\ Exits(n, net)
     \/ /\ succ[n] # n
        /\ stage' = [stage EXCEPT ![n] = "leaving"]
        /\ net' = net \cup {Carrying("handoff", n, succ[n], store[n])}
        /\ UNCHANGED <<rebuild, store>>
  /\ UNCHANGED <<succ, pred, list, history>>

\* Mutant: the answer is sent before the data is loaded.
AnswerHandoffFirst(m) ==
  /\ Arrives(m, "handoff")
  /\ net' = (net \ {m}) \cup
       (IF m.items = Nothing THEN {}
        ELSE {Carrying("inherit", m.to, m.to, m.items)})
  /\ stage' = IF stage[m.from] = "leaving" THEN [stage EXCEPT ![m.from] = "handed"] ELSE stage
  /\ UNCHANGED <<succ, pred, list, rebuild, store, history, count>>

\* process_departing_handoff: the data is loaded before the answer.
AcceptHandoff(m) ==
  /\ Arrives(m, "handoff")
  /\ store' = [store EXCEPT ![m.to] = Merge(@, m.items)]
  /\ net' = (net \ {m}) \cup
       (IF m.items = Nothing THEN {}
        ELSE {Carrying("inherit", m.to, m.to, m.items)})
  /\ stage' = IF stage[m.from] = "leaving" THEN [stage EXCEPT ![m.from] = "handed"] ELSE stage
  /\ UNCHANGED <<succ, pred, list, rebuild, history, count>>

\* The handoff, or every answer to it, is lost: depart returns, and cli.py ends
\* the process all the same.
AbortDepart(n) ==
  /\ stage[n] \in {"leaving", "handed"}
  /\ Fails
  /\ IsKilled(n)
  /\ UNCHANGED <<succ, pred, list>>

\* _process_handoff_worker
ProcessHandoff(m) ==
  LET n == m.to
      inherited == {k \in Keys : m.items[k] > 0 /\ ~Between(k, pred[n], n)}
  IN  /\ Arrives(m, "inherit")
      /\ net' = (net \ {m})
           \cup (IF Primary(n) = {} THEN {} ELSE Blast(n, Only(store[n], Primary(n))))
           \cup (IF inherited = {} THEN {} ELSE {Load(n, succ[n], Only(m.items, inherited))})
      /\ UNCHANGED <<ring, store, history, count>>

\* PHASE 2
PartPredecessor(n) ==
  /\ stage[n] = "handed"
  /\ succ' = [succ EXCEPT ![pred[n]] = succ[n]]
  /\ stage' = [stage EXCEPT ![n] = "parting"]
  /\ UNCHANGED <<pred, list, rebuild, store, net, history, count>>

PartSuccessor(n) ==
  /\ stage[n] = "parting"
  /\ pred' = [pred EXCEPT ![succ[n]] = pred[n]]
  /\ Exits(n, net)
  /\ UNCHANGED <<succ, list, history, count>>

-----------------------------------------------------------------------------
(* Crashes and stabilization                                               *)

Crash(n) ==
  /\ n \in Members
  /\ Changes
  /\ count.faults < MaxFaults
  /\ count' = [count EXCEPT !.moves = @ + 1, !.faults = @ + 1, !.hasty = Hasty]
  /\ IsKilled(n)
  /\ UNCHANGED <<succ, pred, list>>

\* stabilize_worker: a node between me and my successor is adopted, and whoever
\* is my successor is told of me.
Stabilize(n) ==
  LET s == succ[n]
      new == IF pred[s] # n /\ Between(pred[s], n, s) THEN pred[s] ELSE s
  IN  /\ n \in Members /\ s # n /\ stage[s] # "out"
      /\ succ' = [succ EXCEPT ![n] = new]
      /\ pred' = IF stage[new] = "out" THEN pred ELSE [pred EXCEPT ![new] = n]
      /\ UNCHANGED <<stage, list, rebuild, store, net, history, count>>

\* handle_predecessor_failure: until a new predecessor calls, the node takes
\* the whole circle for its own.
HandlePredecessorFailure(n) ==
  /\ n \in Members /\ succ[n] # n /\ stage[pred[n]] = "out"
  /\ pred' = [pred EXCEPT ![n] = n]
  /\ net' = net \cup {Heal(n)}
  /\ UNCHANGED <<stage, succ, list, rebuild, store, history, count>>

\* handle_successor_failure: the first survivor of the list is the successor.
HandleSuccessorFailure(n) ==
  LET live == SelectSeq(list[n], LAMBDA x : x # succ[n] /\ stage[x] # "out")
  IN  /\ n \in Members /\ stage[succ[n]] = "out"
      /\ IF live = <<>>
         THEN /\ succ' = [succ EXCEPT ![n] = n]
              /\ pred' = [pred EXCEPT ![n] = n]
              /\ list' = [list EXCEPT ![n] = <<>>]
         ELSE /\ succ' = [succ EXCEPT ![n] = live[1]]
              /\ pred' = [pred EXCEPT ![live[1]] = n]
              /\ list' = list
      /\ UNCHANGED <<stage, rebuild, store, net, history, count>>

-----------------------------------------------------------------------------
Deliver(m) ==
  \/ Replicate(m) \/ DropKeys(m) \/ HealReplication(m) \/ Undeliverable(m)
  \/ LoadTransfer(m) \/ AcceptHandoff(m) \/ ProcessHandoff(m)

\* What a node goes on with once it has begun.
Proceed(n) ==
  \/ TransferData(n) \/ TellSuccessor(n) \/ TellPredecessor(n)
  \/ PartPredecessor(n) \/ PartSuccessor(n)
  \/ HandlePredecessorFailure(n) \/ HandleSuccessorFailure(n) \/ Stabilize(n)

Next ==
  \/ \E k \in Keys : Resolve(k)
  \/ Write
  \/ \E m \in net : Deliver(m) \/ LoseTransfer(m)
  \/ \E n \in Nodes :
       \/ BeginRebuild(n) \/ GetList(n) \/ PingBackup(n) \/ Proceed(n)
       \/ BeginJoin(n) \/ BeginDepart(n) \/ AbortDepart(n) \/ Crash(n)
       \/ \E r \in Nodes : AntiEntropy(n, r)

Spec == Init /\ [][Next]_vars

\* Threads run, and the workers come round; nobody has to join, depart or write.
Fairness ==
  /\ \A n \in Nodes :
       /\ WF_vars(\E m \in net : m.to = n /\ Deliver(m))
       /\ SF_vars(BeginRebuild(n))
       /\ WF_vars(GetList(n) \/ PingBackup(n))
       /\ WF_vars(Proceed(n))
       /\ \A r \in Nodes : WF_vars(AntiEntropy(n, r))

FairSpec == Spec /\ Fairness

-----------------------------------------------------------------------------
TypeOK ==
  /\ stage \in [Nodes -> Stages]
  /\ succ \in [Nodes -> Nodes] /\ pred \in [Nodes -> Nodes]
  /\ list \in [Nodes -> BoundedSeq(Nodes, K - 1)]
  /\ rebuild \in [Nodes -> Rebuilds]
  /\ store \in [Nodes -> Items]
  /\ net \subseteq Messages
  /\ client \in Calls \cup {NoCall}
  /\ acked \in Items
  /\ strays \subseteq Keys /\ late \subseteq Keys /\ exposed \subseteq Keys
  /\ count \in [time : Times, moves : 0 .. MaxChanges, hasty : 0 .. MaxHasty,
                faults : 0 .. MaxFaults]

\* Whoever joins, departs or kills a process waits until the ring has recovered
\* from the last change.  Without patience all of the following fail (README).
Patient == count.hasty = 0

\* An acknowledged write is held by a running node or on its way to one, however
\* the calls of a join, a departure or a crash, list updates and evictions are
\* interleaved with it.  Not for sure are a write that a node takes after it has
\* handed over its data, or before it has got any, and one that lacked a copy when
\* a process was killed.
WritesAreKept ==
  Patient /\ Members # {} => \A k \in Keys \ (late \cup exposed) : acked[k] > 0 =>
    \/ \E n \in Nodes : stage[n] # "out" /\ store[n][k] >= acked[k]
    \/ \E m \in net : /\ m.kind \in {"load", "handoff", "transfer"}
                      /\ m.items[k] >= acked[k]

\* Whenever no node joins or departs, the owner of a key has its latest write,
\* unless that was made while the ring changed, or lacked a copy when a process was
\* killed: the handoffs come before the pointers (join, depart, handoff.py).
OwnersHaveTheirKeys ==
  Patient /\ Quiet /\ Members # {} =>
    \A k \in Keys \ (strays \cup exposed) : store[Owner(k)][k] >= acked[k]

\* "Used for eviction when a node is no longer responsible for a replica"
\* (storage.py:268): no eviction, of however old a list, makes the owner of a key
\* forget it.
EvictionsSpareOwners ==
  [][Patient /\ Members # {} =>
       \A k \in Keys : LET n == Owner(k)
                       IN  stage'[n] # "out" => store'[n][k] >= store[n][k]]_vars

\* Every holder of a key has what its owner has.
Replicated ==
  Members # {} => \A k \in Keys : \A n \in Holders(k) : store[n][k] >= store[Owner(k)][k]

PointersRight ==
  \A n \in Members : succ[n] = NextOf(n, Members) /\ pred[succ[n]] = n

\* However lists, evictions and pushes cross, the copies of every key are restored
\* once nobody joins or departs and the pointers are right; that they become right
\* is Topology's.
ReplicasRestored == <>[](Quiet /\ PointersRight) => <>[]Replicated
=============================================================================
