------------------------------ MODULE Traversal ------------------------------
(***************************************************************************)
(* The ring traversals ("snowball queries") of chord/dht/routing.py: a     *)
(* packet goes around the ring, every node adds its block and passes it on,*)
(* and the origin waits four seconds for it to come back.  Hops are calls  *)
(* of send_command in threads of their own, repeated when no answer comes, *)
(* so that one snowball can become several.  Meanwhile nodes join and leave*)
(* the ring; their successor pointers are right (Topology says when).      *)
(***************************************************************************)
EXTENDS RingSpace, Sequences, FiniteSets

CONSTANTS
  Nodes,        \* the identifiers of the nodes
  Settled,      \* those that form the ring at first
  Requests,     \* the traversals
  Origin,       \* the node where each begins
  MaxRetries,   \* max_retries of send_command, 3 in the code
  MaxLosses,    \* bound: requests and answers that are lost
  MaxChanges    \* bound: the joins and departures

ASSUME NodesAssumption ==
  /\ Settled \subseteq Nodes /\ Nodes \subseteq Ids
  /\ Origin \in [Requests -> Settled]
ASSUME BoundsAssumption ==
  MaxRetries \in Nat \ {0} /\ MaxLosses \in Nat /\ MaxChanges \in Nat

VARIABLES
  members,   \* the nodes of the ring
  caller,    \* where the thread that began a traversal is
  pending,   \* state.pending_requests[request_id]
  hops,      \* the send_command threads at work
  arrived,   \* the handlers at an origin that have found their entry
  answer,    \* what the caller returned
  stayed,    \* members ever since the traversal began (history)
  losses,    \* requests and answers lost so far
  changes    \* joins and departures so far

vars == <<members, caller, pending, hops, arrived, answer, stayed, losses, changes>>

\* A payload is the sequence of the nodes whose blocks it holds.
Payloads == UNION {[1 .. i -> Nodes] : i \in 0 .. Cardinality(Nodes)}

Hops == [req : Requests, from : Nodes, to : Nodes, payload : Payloads, left : 1 .. MaxRetries]

Places == {"idle", "calling", "waiting", "answered", "timed out", "killed"}

\* No entry, one whose event is not set, one whose event is.
NoEntry == [state |-> "absent", payload |-> <<>>]
Entries == [state : {"absent", "open", "set"}, payload : Payloads]

Init ==
  /\ members = Settled
  /\ caller = [r \in Requests |-> "idle"]
  /\ pending = [r \in Requests |-> NoEntry]
  /\ hops = {}
  /\ arrived = {}
  /\ answer = [r \in Requests |-> <<>>]
  /\ stayed = [r \in Requests |-> {}]
  /\ losses = 0
  /\ changes = 0

Busy(r) == caller[r] \in {"calling", "waiting"}

Succ(n) == NextOf(n, members)

Holds(payload, n) == \E i \in DOMAIN payload : payload[i] = n

Send(r, n, payload) ==
  [req |-> r, from |-> n, to |-> Succ(n), payload |-> payload, left |-> MaxRetries]

-----------------------------------------------------------------------------
(* The origin                                                              *)

\* _initiate_ring_traversal up to its call of the successor.
Begin(r) ==
  LET n == Origin[r]
  IN  /\ caller[r] = "idle" /\ n \in members
      /\ stayed' = [stayed EXCEPT ![r] = members]
      /\ \/ /\ Succ(n) = n
            /\ caller' = [caller EXCEPT ![r] = "answered"]
            /\ answer' = [answer EXCEPT ![r] = <<n>>]
            /\ UNCHANGED <<pending, hops>>
         \/ /\ Succ(n) # n
            /\ caller' = [caller EXCEPT ![r] = "calling"]
            /\ pending' = [pending EXCEPT ![r].state = "open"]
            /\ hops' = hops \cup {Send(r, n, <<n>>)}
            /\ UNCHANGED answer
      /\ UNCHANGED <<members, arrived, losses, changes>>

\* The call returns, with or without an answer, and event.wait begins.
BeginWait(r) ==
  /\ caller[r] = "calling"
  /\ \A h \in hops : h.req = r => h.from # Origin[r]
  /\ caller' = [caller EXCEPT ![r] = "waiting"]
  /\ UNCHANGED <<members, pending, hops, arrived, answer, stayed, losses, changes>>

\* The event is set in time: the entry is read, then deleted.
Finish(r) ==
  /\ caller[r] = "waiting" /\ pending[r].state = "set"
  /\ caller' = [caller EXCEPT ![r] = "answered"]
  /\ answer' = [answer EXCEPT ![r] = pending[r].payload]
  /\ pending' = [pending EXCEPT ![r] = NoEntry]
  /\ UNCHANGED <<members, hops, arrived, stayed, losses, changes>>

\* Four seconds are over.
TimeOut(r) ==
  /\ caller[r] = "waiting" /\ pending[r].state = "open"
  /\ caller' = [caller EXCEPT ![r] = "timed out"]
  /\ pending' = [pending EXCEPT ![r] = NoEntry]
  /\ UNCHANGED <<members, hops, arrived, answer, stayed, losses, changes>>

-----------------------------------------------------------------------------
(* The hops.  An attempt is answered, or executed and its answer lost, or  *)
(* not executed; a process that has ended executes nothing.                *)

Costs(n) == /\ losses + n <= MaxLosses
            /\ losses' = losses + n

\* Mutants: a call is made once, a call is repeated until it is answered, a call
\* is repeated once too often.
MadeOnce(h) == {}
RepeatedForever(h) == {h}
OnceTooOften(h) == IF h.left = 0 THEN {} ELSE {[h EXCEPT !.left = @ - 1]}

\* What the thread goes on with after an attempt without an answer.
Again(h) == IF h.left = 1 THEN {} ELSE {[h EXCEPT !.left = @ - 1]}

Lost(h) ==
  /\ hops' = (hops \ {h}) \cup Again(h)
  /\ Costs(IF h.to \in members THEN 1 ELSE 0)
  /\ UNCHANGED <<members, caller, pending, arrived, answer, stayed, changes>>

\* process_ring_traversal has been executed; "heard" says whether the sender
\* knows.  What it sends on is sent by a thread of its own.
Executed(h, heard, sent) ==
  /\ h.to \in members
  /\ Costs(IF heard THEN 0 ELSE 1)
  /\ hops' = (hops \ {h}) \cup sent \cup (IF heard THEN {} ELSE Again(h))

\* Mutant: the packet is sent on as it came.
RelayUnchanged(h, heard) ==
  /\ h.to # Origin[h.req] /\ ~Holds(h.payload, h.to)
  /\ Executed(h, heard, {Send(h.req, h.to, h.payload)})
  /\ UNCHANGED <<members, caller, pending, arrived, answer, stayed, changes>>

\* A node adds its block and sends the packet on.
Relay(h, heard) ==
  /\ h.to # Origin[h.req] /\ ~Holds(h.payload, h.to)
  /\ Executed(h, heard, {Send(h.req, h.to, Append(h.payload, h.to))})
  /\ UNCHANGED <<members, caller, pending, arrived, answer, stayed, changes>>

\* A node that finds its block drops the packet.
DropLoop(h, heard) ==
  /\ h.to # Origin[h.req] /\ Holds(h.payload, h.to)
  /\ Executed(h, heard, {})
  /\ UNCHANGED <<members, caller, pending, arrived, answer, stayed, changes>>

\* The packet is back: the origin looks its request up.
Return(h, heard) ==
  /\ h.to = Origin[h.req]
  /\ Executed(h, heard, {})
  /\ arrived' = IF pending[h.req].state = "absent" THEN arrived
                ELSE arrived \cup {[req |-> h.req, payload |-> h.payload]}
  /\ UNCHANGED <<members, caller, pending, answer, stayed, changes>>

\* Mutant: the entry is made again if it is gone.
StoreAnew(a) ==
  /\ a \in arrived
  /\ arrived' = arrived \ {a}
  /\ pending' = [pending EXCEPT ![a.req] = [state |-> "set", payload |-> a.payload]]
  /\ UNCHANGED <<members, caller, hops, answer, stayed, losses, changes>>

\* It stores the payload and sets the event, unless the entry is gone by then
\* (a KeyError in the handler).
Store(a) ==
  /\ a \in arrived
  /\ arrived' = arrived \ {a}
  /\ pending' = IF pending[a.req].state = "absent" THEN pending
                ELSE [pending EXCEPT ![a.req] = [state |-> "set", payload |-> a.payload]]
  /\ UNCHANGED <<members, caller, hops, answer, stayed, losses, changes>>

-----------------------------------------------------------------------------
(* The ring                                                                *)

Changes == /\ changes < MaxChanges
           /\ changes' = changes + 1

Join(n) ==
  /\ n \notin members /\ Changes
  /\ members' = members \cup {n}
  /\ UNCHANGED <<caller, pending, hops, arrived, answer, stayed, losses>>

\* What the end of a process does to the traversals it began.
Ends(n) ==
  /\ n \in members /\ members # {n} /\ Changes
  /\ members' = members \ {n}
  /\ stayed' = [r \in Requests |-> stayed[r] \ {n}]
  /\ caller' = [r \in Requests |->
       IF Origin[r] = n /\ Busy(r) THEN "killed" ELSE caller[r]]
  /\ pending' = [r \in Requests |-> IF Origin[r] = n THEN NoEntry ELSE pending[r]]
  /\ arrived' = {a \in arrived : Origin[a.req] # n}
  /\ UNCHANGED <<answer, losses>>

\* A departure whose calls are all made: the process waits for the threads the
\* command line has started.  Those a handler has started inherit its daemon flag
\* (tcp.py:158) and may die with the process, which then ends as in Crash.  The
\* command line that would depart is not waiting for an answer.
Leave(n) ==
  /\ \A r \in Requests : Origin[r] = n => ~Busy(r)
  /\ Ends(n)
  /\ UNCHANGED hops

\* The process ends, and its threads with it.
Crash(n) ==
  /\ Ends(n)
  /\ hops' = {h \in hops : h.from # n}

Next ==
  \/ \E r \in Requests : Begin(r) \/ BeginWait(r) \/ Finish(r) \/ TimeOut(r)
  \/ \E h \in hops : Lost(h)
  \/ \E h \in hops, heard \in BOOLEAN :
       Relay(h, heard) \/ DropLoop(h, heard) \/ Return(h, heard)
  \/ \E a \in arrived : Store(a)
  \/ \E n \in Nodes : Join(n) \/ Leave(n) \/ Crash(n)

Spec == Init /\ [][Next]_vars

\* Every thread runs.
Fairness ==
  /\ WF_vars(\E h \in hops, heard \in BOOLEAN :
               Relay(h, heard) \/ DropLoop(h, heard) \/ Return(h, heard) \/ Lost(h))
  /\ WF_vars(\E a \in arrived : Store(a))
  /\ \A r \in Requests : WF_vars(BeginWait(r) \/ Finish(r) \/ TimeOut(r))

FairSpec == Spec /\ Fairness

-----------------------------------------------------------------------------
TypeOK ==
  /\ members \subseteq Nodes
  /\ caller \in [Requests -> Places]
  /\ pending \in [Requests -> Entries]
  /\ hops \subseteq Hops
  /\ arrived \subseteq [req : Requests, payload : Payloads]
  /\ answer \in [Requests -> Payloads]
  /\ stayed \in [Requests -> SUBSET Nodes]
  /\ losses \in 0 .. MaxLosses
  /\ changes \in 0 .. MaxChanges

\* An answer tells of every node that was in the ring all the time, in ring
\* order: a packet that skipped a node never comes home as an answer.
AnswersAreFullCircles ==
  \A r \in Requests :
    caller[r] = "answered" =>
      /\ \A n \in stayed[r] : Holds(answer[r], n)
      /\ \A i, j \in DOMAIN answer[r] :
           i < j => Distance(Origin[r], answer[r][i]) < Distance(Origin[r], answer[r][j])

\* A request has an entry as long as its caller waits: a packet that comes home
\* late, or comes home twice, leaves none behind.
EntriesHaveWaiters ==
  \A r \in Requests : pending[r].state # "absent" <=> Busy(r)

\* On a steady ring, with fewer losses than attempts, nobody waits in vain: the
\* packet, or a copy of it, is on its way.
SnowballsRollOn ==
  \A r \in Requests :
    changes = 0 /\ losses < MaxRetries /\ caller[r] = "waiting" =>
      \/ pending[r].state = "set"
      \/ \E h \in hops : h.req = r
      \/ \E a \in arrived : a.req = r

\* However often it was copied, and whoever has left, a snowball melts away.
SnowballsMelt == <>[](hops = {} /\ arrived = {})
=============================================================================
