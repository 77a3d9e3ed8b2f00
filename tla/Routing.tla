------------------------------- MODULE Routing -------------------------------
(***************************************************************************)
(* Lookups and finger tables (chord/dht/routing.py and the                 *)
(* fix_fingers_worker of chord/dht/topology.py) on a ring whose pointers   *)
(* are stable: what routing promises once stabilization is done.           *)
(*                                                                         *)
(* A lookup runs in a thread of one node and asks one hop at a time; the   *)
(* handler at the hop reads that node's finger table, which that node's    *)
(* own worker rewrites meanwhile.  The first entry of a successor list is  *)
(* the successor when the pointers are stable, so the scan of the backups  *)
(* in closest_preceding_node comes to the same node as its last fallback.  *)
(***************************************************************************)
EXTENDS RingSpace, FiniteSets

CONSTANTS
  Bits,         \* m, the entries of a finger table, 160 in the code
  Members,      \* the identifiers of the nodes of the ring
  Successor,    \* the successor pointer of every member
  Predecessor,  \* the predecessor pointer of every member
  JoinedWith,   \* the successor a member had when it built its finger table
  Threads,      \* the threads that look up: <<node, kind>>
  MaxHops,      \* max_hops, 32 in the code
  Unlucky       \* the threads whose calls may fail for good

\* The circle has 2^m identifiers; the rest is arithmetic of powers of two.
ASSUME BitsAssumption == /\ Bits \in Nat \ {0}
                         /\ Size = 2 ^ Bits
                         /\ 2 ^ 0 = 1
                         /\ \A i \in 0 .. Bits - 1 : /\ 2 ^ i \in 1 .. Size - 1
                                                    /\ 2 ^ (i + 1) = 2 * 2 ^ i

\* A stable ring: the next member clockwise is the successor, and knows it.
ASSUME RingAssumption ==
  /\ Members \subseteq Ids
  /\ Successor \in [Members -> Members]
  /\ Predecessor \in [Members -> Members]
  /\ JoinedWith \in [Members -> Members]
  /\ \A n \in Members : Predecessor[Successor[n]] = n /\ Successor[Predecessor[n]] = n
  /\ \A n, o \in Members : Between(Successor[n], n, o)

\* Clients and the finger worker run at members, a joiner is not one yet.
ASSUME ThreadsAssumption ==
  Threads \subseteq (Members \X {"client", "worker"}) \cup
                    ((Ids \ Members) \X {"joiner"})

ASSUME LimitsAssumption == MaxHops \in Nat \ {0}

VARIABLES
  finger,   \* finger[n][i] is the node of entry i of n's finger table
  lookup    \* lookup[th] is the lookup thread th is at

vars == <<finger, lookup>>

Index == 0 .. Bits - 1

Outcomes == {"found", "failed", "loop", "toofar"}

Lookups == [phase : {"idle", "asking"} \cup Outcomes, target : Ids, hop : Ids,
            visited : SUBSET Members, index : Index]

Idle(th) == [phase |-> "idle", target |-> th[1], hop |-> th[1],
             visited |-> {}, index |-> 0]

\* init_finger_table: every finger is the successor of that moment.
Init == /\ finger = [n \in Members |-> [i \in Index |-> JoinedWith[n]]]
        /\ lookup = [th \in Threads |-> Idle(th)]

\* "start" of finger i.
Start(n, i) == (n + 2 ^ i) % Size

\* Mutant: the upper end of the range is left out.
OwnsAllButItself(n, t) ==
  \/ Between(t, Predecessor[n], n) /\ t # n
  \/ Successor[n] = n

\* The range check of both ends of a lookup; a node alone owns everything.
Owns(n, t) == Between(t, Predecessor[n], n) \/ Successor[n] = n

\* Mutant: the scan does not stop short of the target.
LongestJump(n, t) ==
  IF finger[n][Bits - 1] # n THEN finger[n][Bits - 1] ELSE Successor[n]

\* Mutant: the fingers are scanned from the nearest on.
ShortestJump(n, t) ==
  LET short == {i \in Index : Between(finger[n][i], n, t)}
  IN  IF short = {} THEN Successor[n]
      ELSE finger[n][CHOOSE i \in short : \A j \in short : i <= j]

\* The last finger in (n, t], else the successor.
ClosestPreceding(n, t) ==
  LET short == {i \in Index : Between(finger[n][i], n, t)}
  IN  IF short = {} THEN Successor[n]
      ELSE finger[n][CHOOSE i \in short : \A j \in short : j <= i]

\* The node a hop names when it is not the owner itself.
NextHop(n, t) ==
  LET c == ClosestPreceding(n, t) IN IF c = n THEN Successor[n] ELSE c

-----------------------------------------------------------------------------
\* The first lines of get_successor_port at a member: it is me, or I start at
\* my own best finger.
Begin(th, t, i) ==
  /\ lookup[th].phase = "idle"
  /\ lookup' = [lookup EXCEPT ![th] =
       IF Owns(th[1], t)
       THEN [phase |-> "found", target |-> t, hop |-> th[1], visited |-> {}, index |-> i]
       ELSE [phase |-> "asking", target |-> t, hop |-> ClosestPreceding(th[1], t),
             visited |-> {}, index |-> i]]
  /\ UNCHANGED finger

\* A client request resolves the head of a key.
ClientBegins(th, t) == th[2] = "client" /\ Begin(th, t, 0)

\* Mutant: the last finger is never picked.
AllButLast == 0 .. Bits - 2

\* Mutant: randint(0, m), whose upper bound is included.
OneTooFar == 0 .. Bits

\* random.randint(0, m - 1).
RandomIndex == Index

\* One turn of fix_fingers_worker picks a finger to fix.
WorkerBegins(th, i) == th[2] = "worker" /\ Begin(th, Start(th[1], i), i)

\* A joining node looks for its own identifier through any member.
JoinerBegins(th, entry) ==
  /\ th[2] = "joiner"
  /\ lookup[th].phase = "idle"
  /\ lookup' = [lookup EXCEPT ![th] =
       [phase |-> "asking", target |-> th[1], hop |-> entry, visited |-> {}, index |-> 0]]
  /\ UNCHANGED finger

\* for _ in range(max_hops): n hops have been asked in vain.
HopsExhausted(n) == n >= MaxHops

\* One turn of the loop: a hop already asked is a "Routing Loop"; otherwise
\* handle_find_successor_step runs at the hop and the caller takes its answer.
HopAnswers(th) ==
  LET l == lookup[th]
      asked == l.visited \cup {l.hop}
  IN  /\ l.phase = "asking"
      /\ lookup' = [lookup EXCEPT ![th] =
           IF l.hop \in l.visited THEN [l EXCEPT !.phase = "loop"]
           ELSE IF Owns(l.hop, l.target)
           THEN [l EXCEPT !.phase = "found", !.visited = asked]
           ELSE [phase |-> IF HopsExhausted(Cardinality(asked)) THEN "toofar" ELSE "asking",
                 target |-> l.target, hop |-> NextHop(l.hop, l.target),
                 visited |-> asked, index |-> l.index]]
      /\ UNCHANGED finger

\* No answer from the hop: "ERROR: Routing Failed".
HopFails(th) ==
  /\ th \in Unlucky
  /\ lookup[th].phase = "asking"
  /\ lookup[th].hop \notin lookup[th].visited
  /\ lookup' = [lookup EXCEPT ![th].phase = "failed"]
  /\ UNCHANGED finger

\* The caller takes the result; the worker ignores one that is an error.
Return(th) ==
  /\ lookup[th].phase \in Outcomes
  /\ th[2] = "worker" => lookup[th].phase # "found"
  /\ lookup' = [lookup EXCEPT ![th] = Idle(th)]
  /\ UNCHANGED finger

\* Mutant: the batch runs as long as the starts precede the node from here.
CascadeFromHere(n, i, node) ==
  {j \in Index : \A o \in 1 .. ((j - i) % Bits) :
     Between(Start(n, (i + o) % Bits), n, node)}

\* The batch: the fingers after i, as long as each start falls in the range
\* (start of i, node], or is the node itself.
Cascade(n, i, node) ==
  {j \in Index : \A o \in 1 .. ((j - i) % Bits) :
     LET next == Start(n, (i + o) % Bits)
     IN  Between(next, Start(n, i), node) \/ next = node}

\* The rest of the worker's turn: finger i and its batch point to the node.
UpdateFingers(th) ==
  LET n == th[1]
      l == lookup[th]
  IN  /\ th[2] = "worker"
      /\ l.phase = "found"
      /\ finger' = [finger EXCEPT ![n] =
           [j \in Index |-> IF j \in Cascade(n, l.index, l.hop) THEN l.hop ELSE @[j]]]
      /\ lookup' = [lookup EXCEPT ![th] = Idle(th)]

Next ==
  \E th \in Threads :
    \/ \E t \in Ids : ClientBegins(th, t)
    \/ \E i \in RandomIndex : WorkerBegins(th, i)
    \/ \E entry \in Members : JoinerBegins(th, entry)
    \/ HopAnswers(th)
    \/ HopFails(th)
    \/ Return(th)
    \/ UpdateFingers(th)

Spec == Init /\ [][Next]_vars

LuckyWorkers == {th \in Threads \ Unlucky : th[2] = "worker"}

\* The worker is a daemon thread that never stops, its calls are answered in
\* the end, and with probability one it picks every finger again and again.
Fairness ==
  \A th \in LuckyWorkers :
      /\ WF_vars(HopAnswers(th))
      /\ WF_vars(Return(th) \/ UpdateFingers(th))
      /\ \A i \in RandomIndex : SF_vars(WorkerBegins(th, i))

FairSpec == Spec /\ Fairness

-----------------------------------------------------------------------------
TypeOK == /\ finger \in [Members -> [Index -> Members]]
          /\ lookup \in [Threads -> Lookups]

\* Whatever the fingers point to, no lookup comes to a node twice: the error
\* "Routing Loop" of get_successor_port is unreachable.  The number of hops is
\* another matter, see HopsHalve.
NoRoutingLoop == \A th \in Threads : lookup[th].phase # "loop"

\* Every hop is strictly nearer to the target than the one that named it, or
\* is the owner, one step beyond the target.
HopsApproach ==
  [][\A th \in Threads :
       LET l == lookup[th]
       IN  (l.phase = "asking" /\ lookup'[th].visited # l.visited) =>
             \/ Owns(lookup'[th].hop, l.target)
             \/ Distance(lookup'[th].hop, l.target) < Distance(l.hop, l.target)]_vars

FingersRight(n) == \A i \in Index : Owns(finger[n][i], Start(n, i))

\* A hop whose fingers are repaired names the owner, or leaves less than half
\* of the way to the last node before the target: the "O(log N) magic" of
\* routing.py:98, of which a table not yet repaired promises nothing.
HopsHalve ==
  [][\A th \in Threads, owner \in Members :
       LET l == lookup[th]
           left(hop) == Distance(hop, Predecessor[owner])
       IN  (/\ l.phase = "asking"
            /\ lookup'[th].visited # l.visited
            /\ FingersRight(l.hop)
            /\ Owns(owner, l.target)) =>
             \/ lookup'[th].hop = owner
             \/ 2 * left(lookup'[th].hop) < left(l.hop)]_vars

\* No batch overshoots: a finger that changes becomes the true successor of
\* its start ("We only know the space is empty between the jump's start and
\* the node we found!", topology.py:494-495).
FingersMoveToOwners ==
  [][\A n \in Members, i \in Index :
       finger'[n][i] # finger[n][i] => Owns(finger'[n][i], Start(n, i))]_vars

\* The finger tables of the nodes whose worker is answered become and stay
\* right, though every lookup goes through tables that are not.
FingersSettle ==
  <>[](\A th \in LuckyWorkers : FingersRight(th[1]))
=============================================================================
