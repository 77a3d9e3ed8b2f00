# ShadowChord in TLA+

Models, model-checking runs and proofs of ShadowChord, a Chord ring in Python
that keeps, per file key, the list of its seeders (`src/` in the paths below).
The models follow the code; where a comment or the documentation says something
else, section 4 tells it.

## 1. The system

A process is one node. Its threads share `NodeState` (`src/chord/state.py`) and
`DataStore` (`src/chord/dht/storage.py`); nodes talk in request/response calls
over TCP (`send_command`: three attempts, 3 seconds each, `None` after that).
A server thread per connection dispatches a command to its handler; four daemon
threads run for ever (stabilization, finger repair, partition healer,
anti-entropy); handlers and workers start short-lived threads of their own. No
lock covers `NodeState`; one lock covers the store, per operation.

| Component | State | Operations | Interacts with | What is hard |
|---|---|---|---|---|
| DataStore, `dht/storage.py` | per key: seeder -> time, timestamp, tombstone flag | insert, remove_value, _tombstone_entire_key, _overwrite_state, bulk_load, query, get_all, get_state_summary, delete_keys | called by replication, handoff, join | merges in any order, repeated; snapshots that replace newer facts; removals that leave no trace |
| Eventual replication, `dht/replication.py` | none of its own; threads in flight | head write, blast to successors, anti-entropy tick, root check, push | store, successor list, Merkle tree, TCP | lost and late calls, pushes of old snapshots |
| Quorum replication, `dht/replication.py` | votes and replies of a running handler | head and replica write, head and replica read | store, successor list, TCP | votes against timeouts, client retries that run the handler again, lists that change meanwhile |
| Chain replication, `dht/replication.py` | chain_index of a command | head, middle, tail write; tail read | store, successor, TCP | a failure in the middle, attempts given up that still run, pushes that start chains of their own |
| Routing, `dht/routing.py` | none; a lookup's hop and visited set | get_successor_port, handle_find_successor_step, closest_preceding_node, client requests | fingers and pointers of every hop | reads tables that are rewritten under it; loops, hop limit |
| Ring traversals, `dht/routing.py` | pending_requests | start, relay, return | pointers, TCP | timeout against return, packets that a retry copies, nodes that come and go under way |
| Finger tables, `state.py`, `dht/topology.py` | finger_table | init_finger_table, fix_fingers_worker | routing | repair by lookups that use the table; the batch at the wrap of the circle |
| Topology, `dht/topology.py` | hasJoined, successor, predecessor, successor_list | join, depart, stabilize_worker, update_successor_list, failure handlers, update handlers, partition healer | routing (join), handoff, every other node's handlers | two joins at once, stale answers, crashes between two calls, lost updates |
| Data handoff, `dht/handoff.py` | none; threads in flight | data transfer, departing handoff and its worker, heal_replication, "drop keys" | store, pointers, successor list, TCP | keys dropped while they are pushed, writes to a head that is none any more, a handoff or transfer lost half-way |
| RPC, `network/tcp.py` | sockets | send_command, server | all | an answer lost after the handler ran |
| Merkle tree, `common/merkle.py` | none | build, root | anti-entropy | leaves are `key:timestamp` only; odd levels |
| Dispatcher, `network/dispatcher.py` | handler table, known_peers (state) | dispatch, observe_peer | all | little |
| Streaming, `network/streamer.py`, `node.py`, `file_io.py` | sandbox files, upload threads | announce_file, download_file, stream server | query results | fallback over seeders; folders that outlive processes, copies rewritten while they are served |
| CLI, logging, `test/` | - | - | - | start-up and output; `test/` holds stand-alone experiments |

What makes each of them correct, in the words the modules use:

- **DataStore**: records keep their schema; announcements commute; last write wins.
- **Replication**: no seeder is invented, no timestamp goes back, replicas catch
  up with the head; an acknowledgement means a majority, or the whole chain;
  quorum reads do not go back; the clients of a chain see one copy.
- **Routing and fingers**: a lookup ends at the owner, without a loop, every hop
  nearer, and by more than half where the fingers are repaired; tables become right.
- **Topology**: nobody is reachable before it has its data; no identifier is
  unclaimed; the pointers become and stay those of the one ring.
- **Traversals**: an answer is a full circle in ring order; a request is in
  pending_requests exactly while somebody waits for it; packets die out.
- **Handoff**: no acknowledged write is lost by joins, departures and evictions;
  owners have their keys whenever the ring is quiet; copies are restored.
- **Streaming**: a download is given up only when every seeder has failed it.

## 2. Modules

| Module | Models | Composition |
|---|---|---|
| `DataStore` | the record operations, as operators | extended by the next five |
| `StoreMerge` | stores that receive the same deltas in any order and number | the CRDT promise of the store alone |
| `EventualReplication` | the "eventual" strategy (the default of `cli.py`) with anti-entropy | `DataStore` + calls |
| `QuorumReplication` | the "linear" strategy | `DataStore` + calls + a changing list |
| `SingleCopy` | what a chain promises: one copy of the key | the abstract specification `ChainReplication` implements |
| `ChainReplication` | the "chain" strategy on a ring that stands still | `DataStore` + calls; `Copy == INSTANCE SingleCopy WITH ...` |
| `RingSpace` | identifiers and `is_between` | extended by the next four |
| `Routing` | lookups and finger repair on a stable ring | - |
| `Topology` | join, depart, stabilization, failures, successor lists | justifies the lists `QuorumReplication` is given and the pointers `Routing` is given |
| `MerkleTree` | the tree over the records of a range | used by `Handoff` |
| `Handoff` | joins, departures and crashes with the data they move, under the eventual strategy | `MerkleTree` + the calls of `Topology` for data + writes, anti-entropy |
| `Traversal` | ring traversals while nodes join, leave and die | - |
| `Download` | announcing and downloading a file | takes the record of the replication models as a set of seeders; its specification is `DownloadSpec`, so that one module can prove about it and about `StoreMerge` |
| `MC*` | instances for TLC | - |
| `*Proofs` | theorems (section 5) | extend the module they are about; `FileProofs` extends `StoreMerge` and `Download`, a file's record and its copies |

How state and actions correspond to the code:

- **DataStore.** A record is `[peers, ts, tomb]`, the entry of `DataStore.data`.
  Time 0 is "not in the dictionary", which is the default the code uses. One key
  is modelled: no operation of these relates two keys, except the Merkle tree
  (which is in `MerkleTree` and `Handoff`). One operator per method, atomic
  because of the lock.
- **EventualReplication.** A message is one `send_command` call with the attempts
  it has left. `Execute` lets an attempt run its handler and lose its answer,
  so that the handler runs again; `Lose` is an attempt that does not run.
  `HeadInsert`/`ReplicaInsert` are the branches of `_eventual_insert`,
  `AntiEntropyTick` a turn of `anti_entropy_worker`, `RootCheck` the exchange of
  `_sync_with_replica` with `handle_merkle_root_check`. `RootCheck` pushes
  without a comparison of timestamps, as the code does: JSON turns the keys of
  the summary into strings, and the lookup by integer key finds none
  (replication.py:124).
- **QuorumReplication.** `op` is the client (its attempts time out after 3
  seconds while the head waits 4), `run[o][a]` the handler of attempt a at the
  head, `calls` its threads. `HeadWriteDies` is the error branch that uses
  `data_list` before it is assigned (replication.py:358): the client is told
  nothing. One abstraction: a replica's answer and the vote of the thread that
  receives it are one step; the variant with an answer on its way differs only in
  when the vote is counted, which votes of slower replicas give as well.
- **ChainReplication.** `run[o][p]` is the caller or handler that the path `p` of
  attempts leads to: `<<>>` is the client, `<<2>>` the head's handler of the
  client's second attempt, `<<2, 1>>` the second link's handler of that one's
  first. So every attempt runs a handler of its own, also after its caller has
  given it up (`Arrives` allows any attempt up to the current one), which is what
  a 3-second timeout around a nested chain of such timeouts gives. `LinkLoads`
  and `LinkReads` are `_chain_insert` and `_chain_query` up to their answer or
  next call, `Hears` passes the reply on, `TimesOut` is `send_command`'s retry.
  An operation is a client's, or a push: `AntiEntropyTick`/`RootCheck` send a
  snapshot to a backup without a chain_index (the backup then heads a chain of
  its own), `Heal` runs it from the head by a direct call.
- **SingleCopy** is stated in the clients' terms: a call is invoked, loaded (any
  number of times, at any time after its call), and answered after that; a read
  answers what the copy said in between. The refinement maps `copy` to the record
  of the chain's last link, `loaded` to what that link has loaded, `seen[o]` to
  the answers that ends of chains gave to read `o`, heard or not, and `call` to
  what the caller knows.
- **Routing.** `lookup[th]` is `get_successor_port` in thread th: `HopAnswers` is
  one turn of its loop with the handler at the hop, `UpdateFingers` the end of a
  turn of `fix_fingers_worker` with its batch (`Cascade`). Pointers are constant
  here: this is what routing promises once stabilization is done. `MaxHops` is the
  32 of `get_successor_port`; the run has a limit that unrepaired fingers exceed.
- **Topology.** Three threads per node, each at one of the calls it waits for
  (`thread[n][r].at`): `main` (join, depart), `worker` (stabilize_worker),
  `rebuild` (the `update_successor_list` of a handler). A call executes at its
  destination in one step and its caller goes on to its next call in that step.
  `Adopt` is a step of its own, because between the query for the successor's
  predecessor and the use of its answer everything may have changed. So are the reads
  of the successor in `update_successor_list`, which has no lock: `BeginList` asks
  whether the node is alone (line 264), `OpenList` opens the list with it (269), `CallList`
  addresses the call (275-276; address and port are taken for one read), and every
  candidate is compared with the successor of that moment (286). If it changes in
  between, the list names a node twice, or the node itself. A call is
  answered, executed without being heard, or lost; the attempts of one call are
  merged, since its handlers do the same when they run twice. Fingers a join
  may be routed through hold any node that ever took part (`Hops`).
  `partition_healer_worker` has no action: for a member, `get_successor_port` of
  its own identifier returns the member itself before it looks at the entry node
  (routing.py:91-93), so the worker never changes a pointer. A join starts at a
  member; the ring at first is given by constants, of which `RingAssumption` says
  what they are; `depart` is always followed by the end of the process (cli.py:85-88),
  also when it was aborted.
- **Handoff.** Nodes, pointers, lists and stores of several keys; a record is its
  timestamp, since the question is who holds which write, not how two seeders
  merge (that is `DataStore`). One node moves at a time and the pointer updates of
  `join` and `depart` arrive; what lost and crossing updates do to pointers is
  `Topology`'s. `stage` is the step of `join` or `depart` a node has reached; a node that
  takes itself for alone departs without a handoff (topology.py:189-191).
  `update_successor_list` is as many steps as it makes calls: `BeginRebuild` opens the list
  with the successor, `GetList` asks it for its list, whose answer may fail to come and
  then leaves the list at that one node, `PingBackup` tries each candidate, and `Continue`
  stores the list and sends the heals and evictions that a changed one entails. A node
  rebuilds in one thread at a time and the first reads of the successor are one step here.
  `Stabilize` is a turn of `stabilize_worker` up to the rebuild, `HandlePredecessorFailure` and
  `HandleSuccessorFailure` its error paths. Everything a thread sends in the background is a
  message in `net` that waits as long as it likes: blasts and pushes (`load`), evictions
  (`drop`), heals that have not started (`heal`), the worker of a received handoff
  (`inherit`), and the handoff and the transfer themselves, whose loss is a fault. The
  threads that send them are daemons, apart from those of the command line, so
  that any of them may die with the process (`Exits`), also at the end of a departure. A
  client's write is two steps, `Resolve` (the lookup) and `Write` (the handler at the node
  it named), with the ring free to change in between. `AntiEntropy` compares
  Merkle roots of the head's range and pushes everything, as `RootCheck` does.
- **MerkleTree.** A hash is what was hashed. `MCHandoff` also checks by itself that
  over five keys different sets of records have different roots.
- **Traversal.** `hops` are the `send_command` threads with the attempts they have
  left, `pending` the entries of `pending_requests`, `arrived` the handlers at an
  origin between the look for their entry and its use (`Return`, `Store`). The
  ring is right at every moment, members come and go between any two hops. A
  departing process waits for the sending threads of its command line (`Leave`); those
  that its handlers started inherit the daemon flag (tcp.py:158) and may die with
  it, as all do when it is killed (`Crash` covers both).
- **Download.** A copy is its length in chunks. `Ask` is the exchange up to the
  length, `Open` the `open(path, 'wb')` that empties the leecher's own copy,
  `Feed` the upload thread, which reads from the seeder's file as it is at that
  moment, `Receive` one `recv`. Folders survive `Kill` and `Restart`.

## 3. Runs

Twelve, each with its question. "States" are distinct states.

| Run | Instance | Shows |
|---|---|---|
| `Eventual` | 1 replica, 2 seeders, 2 operations, 2 attempts per call, 2 losses; 410k states | `SeedersWereAnnounced`, `HeadIsFreshest`, `HeadListsAll` (what a successor lists and the head does not is older than a removal the head has loaded), `TimestampsNeverRegress`, and `TypeOK` (records stay well formed) in every order of deltas, pushes, repeats and losses; `ReplicasCatchUp` |
| `Merge` | 2 stores, 6 deltas of 2 seeders | `SameDeltasSameRecord` of announcements; `LastWriteWins` when stamps arrive in order |
| `Routing` | 4 members and a joiner on a circle of 16, 3 hops allowed; 60k states | `NoRoutingLoop`, `HopsApproach`, `HopsHalve`, `FingersMoveToOwners`; `FingersSettle` |
| `QuorumWrites` | 1 operation, 3 attempts of the client and of every thread, lists of 0 to 2 nodes | `AckedByMajority` |
| `QuorumReads` | 3 operations in every interleaving | `ReadsNeverGoBack` |
| `Membership` | 1 and 3 a ring, 6 joins, 1 may depart, 1 crash, 1 loss, k = 2; 2.2M states | `NoStrangers` (also in lists), `NoGap`, and `TypeOK` (a list keeps to k - 1 entries) |
| `Stabilization` | 1 and 3 a ring, 6 joins, 1 crash, k = 3; 292k states | `DeadAreForgotten`, `RingSettles` |
| `Chain` | k = 3 on a ring of six, 2 operations of which 1 may be a push, 2 attempts; 518k states | `AckedByWholeChain`, `WritesFillFromTheHead`, `ReadsAreStrictUnhealed`, and `TailIsTheCopy`: the chain implements `SingleCopy` |
| `Handoff` | 3 and 7 a ring, 5 may join, all may depart, k = 2, 1 key, 1 write, 2 changes one after the other, 1 fault; 250k states | `WritesAreKept`, `OwnersHaveTheirKeys`, `EvictionsSpareOwners`, while every change waits until the ring has recovered from the one before (section 4 tells what happens otherwise); `ReplicasRestored` |
| `Traversal` | ring of 3 and a joiner, 2 traversals, 2 attempts, 1 loss, 2 changes; 217k states | `AnswersAreFullCircles`, `EntriesHaveWaiters`, `SnowballsRollOn`; `SnowballsMelt` |
| `Download` | 2 owners, 1 leecher, 2 chunks, 1 fault; 7.1M states (all of them downloads of one another) | `FallbackTriesAll` |
| `ConcurrentJoins` | smallest that fails | section 4 |

Every property of a passing run has a mutant: a variant of one definition, with
a bug such as a dropped filter, an off-by-one or a swapped order, that makes the
run fail. They are the definitions whose comment starts with "Mutant".

The type invariant of `StoreMerge` needs no run: it is proved (`MergeTypeCorrect`), and
`Eventual` checks the records of the same operations.

**Bounds.** Each is a constant or a guard with a name: `MaxTime`, `MaxOps`,
`MaxLosses`, `MaxRetries` (3 in the code; 3 in `QuorumWrites`, where attempts are
the question, fewer where only "again" matters), `MaxHops` (32 in
the code, 3 in the run so that lookups run out of hops), `MaxMoves`,
`MaxBusy`, `MaxCrashes`, `MaxPushes`, `MaxRepeats`, `MaxChanges`, `MaxHasty`, `MaxFaults`. Two seeders are enough for the store, because a record
treats each seeder alone and the record's timestamp is a maximum of two; three
nodes are the fewest in which a ring has an order, a backup differs from the
successor and a majority differs from everybody. Four members of a circle of 16,
one of them at its top, let ranges, fingers and batches wrap around. In `Topology`
`MaxBusy = 2` lets two threads of the ring be in the middle of their work at a time; steps
of three threads in one another's middle are not covered. The chain's ring is
twice as long as the chain, so that a push to a backup runs past the chain's end
without coming back to it; three links have a head, a middle and a tail. In
`Handoff` two holders of a key and a third node let a join push a replica out, a
departure or a death pull one in, and a node leave and come back; `MaxBusy = 1` lets
one list be rebuilt at a time, and `MaxHasty = 0` makes every change wait until
pointers and lists are right and no eviction is under way (`Recovered`). One write
suffices, since a second could only replace the first at a node. The safety
properties also passed, in complete runs too long to be kept, with k = 3 on the rings of
3, 5, 7 (three changes, one fault), of 1, 3, 7 (two changes, one fault) and of 1, 3, 7 with
5 joining (one change, one fault); and with k = 2 on 1, 3, 7 with 5 joining (two
changes, one fault) and on 3, 7 with 5 joining (three changes, two faults). What is proved (section 5), of the chain all four
invariants and the refinement, does not depend on these bounds.

**Deadlock** is not checked where the system may stop: clients that issue no
more, a ring whose only node is alone or gone.

**Fairness.** Daemon threads never end and every call ends after its attempts, so
workers and the calls in flight are weakly fair; clients, joins, departures,
crashes and losses are not fair. `WorkerBegins` is strongly fair per finger:
`random.randint` picks every finger again and again with probability one.
In `Handoff` every node's background messages, the steps of a rebuild, anti-entropy,
stabilization and begun joins and departures are weakly fair, and the begin of a rebuild
strongly, for the same reason as `Topology`'s workers; in `Traversal` the sending threads,
the handlers and the waiting callers; writes, moves and faults are not.
In `Topology` `main` and `rebuild` are weakly fair, and the worker strongly, because
`MaxBusy` would otherwise let two threads keep the others from running, which no scheduler
of the code does; that a rebuild which was asked for starts is not assumed at all. Losses are bounded in liveness runs: nothing is promised of a
network that loses everything.

## 4. What does not hold

One run refutes `AgreedRingIsRight`:

- `ConcurrentJoins`: 3 and 6 join through the lone node 1. Both learn that 1 is
  their successor; 6 tells 1 of itself, 3 then reads 6 as its predecessor and
  takes 1's predecessor pointer, tells 6 that it is 6's successor, and 6's late
  message makes 6 the successor of 1. The result, 1 -> 6 -> 3 -> 1, has matching
  predecessors everywhere; stabilization only looks between a node and its
  successor and leaves it as it is (topology.py:85 and 367 promise otherwise). With four
  nodes it happens to joins that follow one another too (nodes 2, 6, 4 into the ring of
  0 alone, `MaxMoves = 1`, `MaxBusy = 3`): 2's notification, decided on before 6
  joined, takes 0's predecessor pointer back from 6 (topology.py:380-389; the handler takes
  whoever it is told), and 4 looks up its place before 6 puts it right: the ring ends as
  0 -> 2 -> 6 -> 4 -> 0.

As long as nothing is lost and every node that ever had its data is there, newcomers
between different neighbours cannot end so: that is proved (`JoinsApart`, section 5).
No run repeats it; `UndisturbedRingIsRight` of `TopologyProofs` was checked by itself with
1 and 5 a ring, 3 and 7 joining, k = 2 and `MaxMoves = MaxBusy = 2` (284k states without a
crash, 6.7M with one), since two joiners between different neighbours are too many
states for a run.

These were refuted while the models were built. The definitions are kept, each
with a comment that says so, and the instance that shows it is given here; to see
it, name the definition as an INVARIANT (or PROPERTY) of such a cfg:

- `AgreedRingIsRight` after a crash (Topology; 0, 2, 4 a ring, 6 joins, 1 crash, k = 3,
  `MaxMoves = 1`, `MaxBusy = 3`): 2 dies. Node 4 makes itself its predecessor until "the
  actual new predecessor will find us via stabilization" (topology.py:397-402), and so
  answers every lookup with itself (`Between(id, p, p)` is the whole circle). Node 6
  looks up its place at that moment and joins before 4; the ring ends as
  0 -> 6 -> 4 -> 0, again with matching predecessors.
- `Convergence` (EventualReplication; 1 replica, no losses): a push of an old
  snapshot that arrives late makes a replica drop a seeder for good; equal
  timestamps then hide it from the Merkle roots (storage.py:160-169, merkle.py:77).
  storage.py:17-18 promises "eventual consistency across the swarm".
- `LastWriteWinsAnyOrder` (StoreMerge; deltas in any order): the removal of one
  seeder among several leaves no time behind, so an older announcement that arrives
  later is taken (storage.py:92, against 62-63).
- `ReadsSeeAckedInserts` (QuorumReplication; 2 announcements and a read): a read
  returns the reply with the newest timestamp and does not merge, so it may lack an
  acknowledged seeder (replication.py:507).
- `NoDeletedSeeder` (QuorumReplication; with a removal): a tombstone answers as an
  empty reply and is set aside; an older live reply wins (replication.py:498).
- `ReadsSeeAckedInserts` (ChainReplication; 2 seeders, k = 2 on a ring of two, 4
  operations of which one is a push): the head loads the newer of two announcements,
  which has not reached the tail, and its anti-entropy takes a snapshot; the older
  one goes down the chain and is acknowledged; the snapshot reaches the tail with a
  newer time and takes the acknowledged seeder away, which a read then lacks. The
  newer announcement may be on its way, or have failed. This is not the "strict read"
  of replication.py:291; without pushes it is (`ReadsAreStrictUnhealed`, proved).
- `WritesAreKept`, `OwnersHaveTheirKeys` and `EvictionsSpareOwners` (Handoff) when a change
  does not wait for the ring to recover from the one before (`MaxHasty = 1`, with TRUE for
  `Patient`). An eviction names keys, not who is responsible for them, and nobody asks when
  it arrives; and a node whose list names dead nodes alone takes itself for alone
  (topology.py:419-446):
  - k = 2, ring 3, 7: the transfer of the joiner 5 is lost and 5 gives up. Its successor 7
    has told 3, the last node of its list, to drop what 5 was to take over
    (handoff.py:84-88). That message waits, 7 departs and hands over to 3, and the message
    deletes the only copy.
  - k = 2, ring 1, 3, 7, no fault at all: 1 departs. Between the two calls of its PHASE 2
    node 7, which has just been told of 3, stabilizes: 3 still names 1 as its predecessor,
    and 7 adopts 1 again (topology.py:369-372). Node 1 ends, 7 finds no survivor in its list,
    takes itself for alone, departs at once without a handoff (189-191), and its write, whose
    blast was for 1 or dies with it, is lost.
  - k = 3, ring 1, 3, 7, key 4 at 7: 1 is killed after it has answered 7's stabilize
    query. 7 gets no list from it, stores the list of 1 alone (303) and tells 3 to drop the
    key (314-322); then it takes itself for alone and departs without a handoff.

  On the ring of the run two changes of which one is hasty lose nothing without a fault
  (526k states), but that is the ring's size: hence `Patient` excludes them all.
- A write at a node that has handed over its data, or has none yet (`late` in Handoff), can be
  lost however patient everybody is: `_eventual_insert` asks neither whether it is still the
  head nor whether it departs (replication.py:192-220). It loads the write, acknowledges it,
  and its blasts are daemon threads that die with the process; or a client's old lookup
  names a node that departed and is joining again, which then gives up its join.
- A download that breaks off leaves the leecher with a short copy (streamer.py:144-155),
  which `announce_file` takes for the file (node.py:117 asks only whether it exists) and
  which is then served, and received, with "[OK]". A seeder that downloads its own
  file again empties the copy it is serving, and two owners that download from each other
  can empty both. So "[OK]" means no more than that as many bytes came as the seeder
  held when it was asked, and no property says more of it.

Seen as well, of single steps or of instances that are not kept as runs:

- A first node that does not hear of the node that joins it stays alone for good:
  its worker skips while it believes to be alone (topology.py:342; the comment
  at 168 leaves the repair to it).
- A successor that dies between the stabilize query and the list query leaves a
  successor list of that dead node alone: the backups are gone and the node
  declares the ring broken (topology.py:280, 303, 446), although it had a
  living backup. With a joiner between two nodes one crash can leave two lone
  nodes; nothing bridges them, because the healer changes nothing.
- A node asks its departing successor for its predecessor, is told of its new
  successor meanwhile, and then gets no answer: `handle_successor_failure` skips the
  current successor as the dead one (topology.py:419), which by now is the living
  one, finds no other and declares the node alone.
- `depart` says "Node stays alive so data isn't lost" when its handoff fails
  (topology.py:210), but the CLI ends the process (cli.py:86-88). In `Handoff`
  that is a fault like a kill (`AbortDepart`).
- A successor list may name a node twice, or the node itself: topology.py:264-286 read
  `state.successor` four times without a lock, against "Avoid duplicates and adding myself"
  (line 285). `_quorum_insert` would then count the votes of one node twice
  (replication.py:352-354); `QuorumReplication` takes a list as a set, so its majorities are
  those of lists without duplicates.
- A quorum write or read at a node whose list is shorter than a majority ends
  in an exception (replication.py:358), not in the error it means to send.
- A traversal's handler that found its entry (routing.py:431) may find it deleted
  at the next line and end with a KeyError; nothing is left behind.
- A traversal hop that is executed twice is not dropped as a loop: the packet
  carries the blocks, so each copy goes round by itself and comes home.
- `FingersMoveToOwners` needs `GeneralPosition`: if a node sits exactly at a
  finger's start, `next_start == new_node["id"]` and a range that starts and ends
  at the same identifier let the batch go once around. With 160-bit hashes this
  does not happen.
- A lookup does run out of hops: on a ring whose fingers are not fixed yet it walks along
  the successors, so the comment "NEVER need more than ~20 hops, even with 1M nodes"
  (routing.py:98) describes repaired fingers. With 3 hops the `Routing` run reaches "Max Hops
  Exceeded"; what repaired fingers gain is `HopsHalve`.

## 5. Proofs

TLAPS checks every theorem from the assumptions (the ASSUMEs of the modules,
which TLC evaluates in every run); nothing is omitted.

- **DataStoreProofs**: lemmas on `BulkLoad` and `Export` (type, time, seeders, schema),
  used by the modules below.
- **FileProofs**, the record of a file: `MergeTypeCorrect`; `AnnouncementsCommute`: the
  record is a function of the set of announcements seen (per seeder the maximum of
  its times, and the maximum of all), hence independent of order and number;
  `StampOrderSuffices`: with stamps in order, a seeder's entry is the time of its
  newest delta if that is an announcement and 0 otherwise.
  And its copies: `DownloadTypeCorrect` and `FallbackIsComplete` (`FallbackTriesAll`), for
  every size of the file, every set of nodes and every number of faults. A failure is about
  everyone who was asked before; `TriesInv` says that who stayed well is still
  to be asked or is being asked (`WellRemain`), runs and has the whole file
  (`WellAreWell`), and that its stream is open or all of it was sent (`WellStream`), so
  that a stream of such a node cannot end short.
- **EventualReplicationProofs**: one inductive invariant `Inv` for all its theorems.
  The properties speak of records, but records come from messages; so `Inv` also
  says of every call in flight that its item is well formed, that a delta it
  carries was issued, that every seeder of a snapshot was announced at its time,
  and that a call to a replica is no newer than the head unless it is a removal
  (`FlightOK`). `TimestampsNeverRegress` follows from `BulkLoadTime`.
  `HeadIsComplete` (`HeadListsAll`) adds `KnownInv`: what a record of a successor or a
  call to it says of a seeder, the head says too, or it has loaded a removal stamped
  later (`Known`, `CallKnown`). The removal may be another seeder's: its tombstone
  refuses every older announcement, so that a fast read can miss a seeder that
  nobody removed. The one hard case is an announcement that the head's
  tombstone refuses and that is blasted all the same: it must be older than some
  removal, so `KnownInv` also says that the head's time is that of a removal or of
  one of its seeders (`HeadTimeOK`), and that no two stamps are equal (`StampsDiffer`),
  which `Request` guarantees as floats of `time.time` do.
- **RoutingProofs**: `Inv` says that fingers and hops are members, and of every
  running lookup that its visited nodes lie strictly behind the next hop on the
  way to the target, or the hop is the owner (`Walking`, `Arrived`). Every hop is
  then nearer than all visited ones: no loop (`LoopFree`). Nothing is assumed of the
  fingers but that they are members, and nothing of `MaxHops`. `RepairedHopsHalve` (`HopsHalve`)
  measures the way to the predecessor p of the target's owner: of the powers of two up to
  that distance the largest, 2^i, is more than half of it (`LongestPower`), finger i of a
  repaired hop is the first member at or after its start, which lies no further than p
  (`ShortOfOwner`), so it comes no later than p (`HopHalves`); `ClosestPreceding` takes it or one
  nearer still. `FingersAreSuccessors` assumes `GeneralPosition`.
- **QuorumReplicationProofs**: `TypeCorrect`; `AcknowledgedByMajority` from `AckInv`:
  a handler's votes are of nodes that hold the operation (`VotersHold`), nodes never
  lose what they hold, and an operation not issued has neither attempt nor
  handler (`NotYetCalled`). It holds for every k, history of lists and number
  of attempts. `FreshReads` (`ReadsNeverGoBack`) adds `FreshInv`: while nothing is
  removed, no record, call, reply or finished operation is newer than the head's
  record (`RecordsBehind`, `CallsBehind`, `HandlersBehind`, `OversBehind`), and every
  read that is being answered has a reply that is as fresh as all that was over before it
  began (`ReadersKeepUp`): the head's own, which is always one of them.
- **TopologyProofs**: `TypeCorrect` and `StrangersStayUnknown` from one invariant
  `Inv`. They speak of pointers and lists, but these are filled from answers that may be old; so `Inv`
  also says of every thread that whatever it has been told is its own node or one
  that has its data (`Told`; sound for ever, as no node loses its stage), and that only a
  node with its data is at a place where it makes itself known (`Speaking`). Assumed of
  the first ring is only `RingAssumption`; K, the bounds and the nodes are arbitrary.
  `EveryIdIsClaimed` (`NoGap`): as every predecessor is a node that has its data, the
  nearest such node from an identifier on claims it.
  `JoinsApart` (`UndisturbedRingIsRight`) says when `AgreedRingIsRight`, which is not
  invariant (section 4), does hold. It assumes `Apart`, that no two newcomers are in the
  same `Gap`, i.e. between the same two settled nodes; `ConcurrentJoins` shows what
  happens otherwise. The property itself asks that nothing was lost and that every node
  that ever had its data is alive, so a joining process may die at any time before that.
  While it is so and nobody is about to leave (`Quiet`; it never becomes so again,
  `QuietBefore`), `Calm` holds. It says of every settled node that its successor,
  and its successor's predecessor, are what they were at first or the newcomer
  between them (`SettledOK`), of every newcomer how far it has come and that it
  has found just these two neighbours (`NewcomerOK`), and of every stabilizing
  thread that what it has been told, however old, is one of the three
  (`WorkerOK`). That a lookup ends at the right neighbour though others join
  meanwhile is `OwnerIsNext`; that stabilization never adopts a node that is not
  between is `NothingToAdopt`. Members that agree with their neighbours then have
  the nearest one for a successor (`NearestIsSuccessor`).
- **TraversalProofs**: `TypeCorrect`, `FullCircles`, `WaitersHaveEntries` and `RollOn`
  from one invariant `Inv`, for every ring, number of requests, attempts, losses and
  changes. An answer was a packet before, so `Inv` says of every packet under way or
  at home that it has a block of every node that stayed and that it passed, in ring
  order from the origin, which is what remains true when the ring changes behind
  or before it; of every request that its entry in `pending_requests` and its
  caller's place agree; and, for `RollOn`, that on a steady ring a waiting
  caller's packet, or a call of its with an attempt left, exists (`Rolls`).
- **ChainReplicationProofs**: `TypeCorrect`, `AcknowledgedByChain`,
  `ChainFillsFromTheHead`, `StrictReads` and the refinement `ChainImplementsSingleCopy`, for every
  ring, k, number of operations, pushes and attempts. `AckedByWholeChain` speaks of
  callers, but a caller only knows what its handler answered, and that what the next
  link answered; so `Inv` says of every path (`LoadedOK`) that a handler that ran has
  loaded the operation at its node, and that one that answered means that all the
  links from its own to the chain's end have; of every read (`AnswerOK`) that an
  answer passed on is one that an end of a chain gave; and of every record and
  snapshot (`RecordOK`, `ItemOK`) that it lists only seeders that announced
  themselves, at their times. That a chain ends early at a lone node is `LoneLink`:
  from there on all the links are that node. `FillInv` adds that what a node
  holds was called for. `ChainFillsFromTheHead` assumes `LinksDiffer`: the links of
  the owner's chain are different nodes, i.e. the ring has at least k members; on a
  shorter ring the chain wraps around and its tail is one of the first links.
  `StrictReads` follows from `StrictInv`: while nobody pushes or withdraws, a node
  lists the seeders of all the announcements it has loaded (`ListsLoaded`), since
  then nothing overwrites or empties a record; what a read must tell of was
  acknowledged when it began (`CallOK`), so the end of a chain had loaded it and
  tells of it (`TellsAll`); and an answer passed on is one of those (`AnswerOK`).

Only model-checked: liveness (`ReplicasCatchUp`, `FingersSettle`,
`DeadAreForgotten`, `RingSettles`, `ReplicasRestored`, `SnowballsMelt`), which is out
of the prover's reach; and `Handoff`. Its module reaches the recursive `BuildLevels`, for
which the prover has no backend, and its safety properties rest on `Patient`: without it
they are false, and an invariant would have to say which copies are safe at every step of
the recovery from a change. `AgreedRingIsRight` is proved for joins apart and without faults
only (`UndisturbedRingIsRight`), because it does not hold without that.

## 6. Not modelled, and why

- *known_peers* (`observe_peer`) and *partition_healer_worker*: the set is only read
  by the healer, whose lookup changes no state (section 2).
- *Chain and quorum strategies while the ring changes data hands*: `Handoff` is
  under the eventual strategy. The other two run the same handoffs, and their
  handlers are modelled on a ring that stands still, or with changing lists.
- *Several moves at once in `Handoff`*, or a move before the ring has recovered from the last
  (`MaxHasty = 0`): writes are lost then (section 4); the pointers such moves leave are `Topology`'s
  subject, and after `ConcurrentJoins` there is no right owner to speak of.
- *Withdrawing a seeder in `Download`*: the record's removals are the replication
  models'; a download only depends on whom it was told of.
- *Contents of traversal blocks*: a block is its node's identifier, which is all that
  the traversal itself looks at.
- *extract_range* and the chunk helpers of `file_io.py` have no caller.
- *Sockets, framing, port scanning, NAT, logging, formatting, CLI, `test/`*: I/O
  and output.
- *Client lookups inside replication*: the replication models start at the head;
  Routing models how it is found.
- *Moving pointers under lookups*: Routing has stable pointers, Topology lets a
  join's lookup be led anywhere the code could.

## 7. Plan

Written in this order, most important first: DataStore and StoreMerge;
EventualReplication; Routing; QuorumReplication; Topology; ChainReplication with
SingleCopy; MerkleTree and Handoff; Traversal; Download. Left:

1. `Handoff`: an invariant of the recovery from one change, and for its proof a tree
   and an `After` without recursion.
2. Handoff with moves at two places of the ring at once.
