--------------------------- MODULE TraversalProofs ---------------------------
(***************************************************************************)
(* What comes home of a ring traversal, for every ring, every sequence of  *)
(* joins, departures and crashes, and any number of losses and repetitions.*)
(***************************************************************************)
EXTENDS Traversal, FiniteSetTheorems, FunctionTheorems, WellFoundedInduction,
        SequenceTheorems, TLAPS

\* How far a node lies from the origin of a traversal.
Along(r, n) == Distance(Origin[r], n)

\* The blocks of a packet are of different nodes; those of a packet that
\* somebody waits for are in ring order, from the origin to its sender.
NoTwice(p) == \A i, j \in DOMAIN p : p[i] = p[j] => i = j

InOrder(r, p) ==
  \A i, j \in DOMAIN p : i < j => Along(r, p[i]) < Along(r, p[j])

FullCircle(r, p) ==
  /\ \A n \in stayed[r] : Holds(p, n)
  /\ InOrder(r, p)

\* A packet on its way: all that its sender has behind it and that was in the
\* ring all the time is in the packet; it jumps over none of them.
OnItsWay(h) ==
  LET r == h.req
  IN  /\ InOrder(r, h.payload)
      /\ \A i \in DOMAIN h.payload : Along(r, h.payload[i]) <= Along(r, h.from)
      /\ h.to # Origin[r] => Along(r, h.from) < Along(r, h.to)
      /\ \A n \in stayed[r] :
           ~Holds(h.payload, n) => h.to # Origin[r] /\ Along(r, h.to) <= Along(r, n)

HopOK(h) ==
  /\ NoTwice(h.payload)
  /\ caller[h.req] # "idle"
  /\ Busy(h.req) => OnItsWay(h)
  /\ changes = 0 => h.to \in members

RequestOK(r) ==
  /\ pending[r].state # "absent" <=> Busy(r)
  /\ stayed[r] \subseteq members
  /\ Busy(r) => Origin[r] \in members
  /\ pending[r].state = "set" => FullCircle(r, pending[r].payload)
  /\ caller[r] = "answered" => FullCircle(r, answer[r])

\* A packet that has been stored, or is about to be, or is on its way with as
\* many attempts left as losses may still take.
Rolls(r) ==
  changes = 0 /\ losses < MaxRetries /\ Busy(r) =>
    \/ pending[r].state = "set"
    \/ \E a \in arrived : a.req = r
    \/ \E h \in hops : h.req = r /\ MaxRetries <= h.left + losses

Inv ==
  /\ TypeOK
  /\ \A h \in hops : HopOK(h)
  /\ \A a \in arrived : caller[a.req] # "idle" /\ (Busy(a.req) => FullCircle(a.req, a.payload))
  /\ \A r \in Requests : RequestOK(r) /\ Rolls(r)
-----------------------------------------------------------------------------
(* The ring                                                                *)

LEMMA DistanceType ==
  ASSUME NEW a \in Ids, NEW x \in Ids
  PROVE  /\ Distance(a, x) \in Nat
         /\ \A y \in Ids : Distance(a, x) = Distance(a, y) => x = y
  BY SizeAssumption DEF Distance, Ids

\* NextOf is the nearest of the others.
LEMMA NearestOther ==
  ASSUME NEW n \in Ids, NEW S \in SUBSET Ids, ~(S \subseteq {n})
  PROVE  /\ NextOf(n, S) \in S \ {n}
         /\ \A x \in S \ {n} : Distance(n, NextOf(n, S)) <= Distance(n, x)
<1> DEFINE T == {Distance(n, x) : x \in S \ {n}}
<1>1. T \subseteq Nat /\ T # {}
  BY DistanceType
<1>2. \E x \in T : \A y \in T : ~(<<y, x>> \in OpToRel(<, Nat))
  BY <1>1, WFMin, NatLessThanWellFounded
<1>3. PICK d \in T : \A y \in T : ~(y < d)
  BY <1>1, <1>2 DEF OpToRel
<1>4. PICK o \in S \ {n} : d = Distance(n, o)
  BY <1>3
<1>5. \A x \in S \ {n} : Distance(n, o) <= Distance(n, x)
  <2> TAKE x \in S \ {n}
  <2>1. Distance(n, x) \in T /\ Distance(n, x) \in Nat /\ d \in Nat
    BY <1>1, <1>3, DistanceType
  <2> QED
    BY <1>3, <1>4, <2>1
<1> QED
  BY <1>4, <1>5 DEF NextOf

LEMMA NoDistance ==
  ASSUME NEW a \in Ids
  PROVE  Distance(a, a) = 0
<1>1. a - a = 0 /\ a <= a
  BY SizeAssumption DEF Ids
<1> QED
  BY <1>1 DEF Distance

\* Clockwise of b, and not beyond a: further from a than b is.
LEMMA Onward ==
  ASSUME NEW a \in Ids, NEW b \in Ids, NEW x \in Ids, x # a, x # b,
         b = a \/ Distance(b, x) <= Distance(b, a)
  PROVE  Distance(a, b) < Distance(a, x)
  BY SizeAssumption DEF Distance, Ids

LEMMA NotSkipped ==
  ASSUME NEW a \in Ids, NEW b \in Ids, NEW t \in Ids, NEW x \in Ids, t # b, t # a,
         Distance(b, t) <= Distance(b, x), Distance(a, b) < Distance(a, x),
         Distance(a, b) < Distance(a, t)
  PROVE  Distance(a, t) <= Distance(a, x)
  BY SizeAssumption DEF Distance, Ids

LEMMA BeforeHome ==
  ASSUME NEW a \in Ids, NEW b \in Ids, NEW x \in Ids, a # b, Distance(a, b) < Distance(a, x)
  PROVE  Distance(b, x) < Distance(b, a)
  BY SizeAssumption DEF Distance, Ids

LEMMA NodesAreIds == Nodes \subseteq Ids /\ \A r \in Requests : Origin[r] \in Nodes
  BY NodesAssumption

LEMMA SuccType ==
  ASSUME members \subseteq Nodes, NEW n \in Nodes
  PROVE  Succ(n) \in Nodes /\ (n \in members => Succ(n) \in members)
<1>1. members \in SUBSET Ids /\ n \in Ids
  BY NodesAreIds
<1>2. CASE members \subseteq {n}
  BY <1>2 DEF Succ, NextOf
<1>3. CASE ~(members \subseteq {n})
  BY <1>1, <1>3, NearestOther DEF Succ
<1> QED
  BY <1>2, <1>3

\* What a packet sent from n to its successor jumps over: nothing.
LEMMA NextStop ==
  ASSUME members \subseteq Nodes, NEW r \in Requests, Origin[r] \in members,
         NEW n \in members, Succ(n) # n \/ n # Origin[r]
  PROVE  /\ Succ(n) \in members
         /\ Succ(n) # Origin[r] => Along(r, n) < Along(r, Succ(n))
         /\ \A x \in members : Along(r, n) < Along(r, x) =>
              Succ(n) # Origin[r] /\ Along(r, Succ(n)) <= Along(r, x)
<1> DEFINE t == Succ(n)
           a == Origin[r]
<1>1. members \in SUBSET Ids /\ n \in Ids /\ a \in Ids
  BY NodesAreIds
<1>2. ~(members \subseteq {n})
  BY DEF Succ, NextOf
<1>3. t \in members \ {n} /\ \A x \in members \ {n} : Distance(n, t) <= Distance(n, x)
  BY <1>1, <1>2, NearestOther DEF Succ
<1>4. t # a => Along(r, n) < Along(r, t)
  <2>1. t \in Ids /\ (n = a \/ Distance(n, t) <= Distance(n, a))
    BY <1>1, <1>3
  <2> QED
    BY <1>1, <1>3, <2>1, Onward DEF Along
<1>5. ASSUME NEW x \in members, Along(r, n) < Along(r, x)
      PROVE  t # a /\ Along(r, t) <= Along(r, x)
  <2>0. x \in Ids /\ t \in Ids /\ x # n
    BY <1>1, <1>3, <1>5, DistanceType DEF Along
  <2>1. Distance(n, t) <= Distance(n, x) /\ Distance(n, t) \in Nat /\ Distance(n, x) \in Nat
    BY <1>1, <1>3, <2>0, DistanceType
  <2>2. t # a
    <3> SUFFICES ASSUME t = a PROVE FALSE
      OBVIOUS
    <3>1. a # n /\ Distance(a, n) < Distance(a, x)
      BY <1>3, <1>5 DEF Along
    <3>2. Distance(n, x) < Distance(n, a)
      BY <1>1, <2>0, <3>1, BeforeHome
    <3> QED
      BY <2>1, <3>2
  <2>3. Distance(a, n) < Distance(a, x) /\ Distance(a, n) < Distance(a, t)
    BY <1>4, <1>5, <2>2 DEF Along
  <2>4. Distance(a, t) <= Distance(a, x)
    BY <1>1, <1>3, <2>0, <2>1, <2>2, <2>3, NotSkipped
  <2> QED
    BY <2>2, <2>4 DEF Along
<1> QED
  BY <1>3, <1>4, <1>5
-----------------------------------------------------------------------------
(* Payloads                                                                *)

LEMMA NodesFinite == IsFiniteSet(Nodes) /\ Cardinality(Nodes) \in Nat
<1>1. IsFiniteSet(Ids)
  BY SizeAssumption, FS_Interval DEF Ids
<1> QED
  BY <1>1, NodesAreIds, FS_Subset, FS_CardinalityType

LEMMA PayloadShape ==
  ASSUME NEW p \in Payloads
  PROVE  /\ p \in Seq(Nodes)
         /\ Len(p) \in 0 .. Cardinality(Nodes)
         /\ DOMAIN p = 1 .. Len(p)
         /\ p \in [1 .. Len(p) -> Nodes]
<1>1. PICK i \in 0 .. Cardinality(Nodes) : p \in [1 .. i -> Nodes]
  BY DEF Payloads
<1>2. p \in Seq(Nodes) /\ Len(p) = i
  BY <1>1, NodesFinite, SeqDef
<1> QED
  BY <1>1, <1>2

LEMMA EmptyPayload == <<>> \in Payloads /\ NoTwice(<<>>)
<1>1. 0 \in 0 .. Cardinality(Nodes)
  BY NodesFinite
<1>2. <<>> \in [1 .. 0 -> Nodes]
  OBVIOUS
<1> QED
  BY <1>1, <1>2 DEF Payloads, NoTwice

\* A node that finds no block of its own adds one; there is room for it.
LEMMA Appended ==
  ASSUME NEW p \in Payloads, NoTwice(p), NEW n \in Nodes, ~Holds(p, n)
  PROVE  /\ Append(p, n) \in Payloads
         /\ NoTwice(Append(p, n))
         /\ DOMAIN Append(p, n) = 1 .. Len(p) + 1
         /\ \A i \in 1 .. Len(p) : Append(p, n)[i] = p[i]
         /\ Append(p, n)[Len(p) + 1] = n
<1> DEFINE q == Append(p, n)
           k == Len(p)
<1>1. p \in Seq(Nodes) /\ k \in Nat /\ DOMAIN p = 1 .. k /\ p \in [1 .. k -> Nodes]
  BY PayloadShape, NodesFinite
<1>2. /\ q \in Seq(Nodes) /\ Len(q) = k + 1
      /\ \A i \in 1 .. k : q[i] = p[i]
      /\ q[k + 1] = n
  BY <1>1, AppendProperties
<1>3. q \in [1 .. k + 1 -> Nodes] /\ DOMAIN q = 1 .. k + 1
  BY <1>2, LenProperties
<1>4. NoTwice(q)
  <2> SUFFICES ASSUME NEW i \in 1 .. k + 1, NEW j \in 1 .. k + 1, q[i] = q[j]
               PROVE  i = j
    BY <1>3 DEF NoTwice
  <2>1. CASE i \in 1 .. k /\ j \in 1 .. k
    BY <1>1, <1>2, <2>1 DEF NoTwice
  <2>2. CASE i = k + 1 /\ j \in 1 .. k
    BY <1>1, <1>2, <2>2 DEF Holds
  <2>3. CASE i \in 1 .. k /\ j = k + 1
    BY <1>1, <1>2, <2>3 DEF Holds
  <2> QED
    BY <1>1, <2>1, <2>2, <2>3
<1>5. k + 1 <= Cardinality(Nodes)
  <2>1. q \in Injection(1 .. k + 1, Nodes)
    BY <1>3, <1>4 DEF Injection, IsInjective, NoTwice
  <2>2. Cardinality(1 .. k + 1) = k + 1
    BY <1>1, FS_Interval
  <2> QED
    BY <2>1, <2>2, NodesFinite, FS_Injection
<1>6. q \in Payloads
  BY <1>1, <1>3, <1>5, NodesFinite DEF Payloads
<1> QED
  BY <1>2, <1>3, <1>4, <1>6

\* The first packet of a traversal.
LEMMA FirstBlock ==
  ASSUME NEW n \in Nodes
  PROVE  /\ <<n>> \in Payloads /\ NoTwice(<<n>>)
         /\ DOMAIN <<n>> = {1} /\ <<n>>[1] = n /\ Holds(<<n>>, n)
<1>1. Append(<<>>, n) = <<n>>
  OBVIOUS
<1>2. ~Holds(<<>>, n)
  BY DEF Holds
<1>3. <<n>> \in Payloads /\ NoTwice(<<n>>)
  BY <1>1, <1>2, EmptyPayload, Appended
<1> QED
  BY <1>3 DEF Holds
-----------------------------------------------------------------------------
(* Parts of the invariant that a step leaves alone                         *)

LEMMA HopStays ==
  ASSUME NEW h \in Hops, HopOK(h), caller'[h.req] # "idle", Busy(h.req)' => Busy(h.req),
         stayed'[h.req] \subseteq stayed[h.req],
         changes' = 0 => changes = 0 /\ members' = members
  PROVE  HopOK(h)'
  BY DEF HopOK, OnItsWay

LEMMA CircleStays ==
  ASSUME NEW r \in Requests, NEW p, FullCircle(r, p), stayed'[r] \subseteq stayed[r]
  PROVE  FullCircle(r, p)'
  BY DEF FullCircle

ArrivedOK(a) == caller[a.req] # "idle" /\ (Busy(a.req) => FullCircle(a.req, a.payload))

LEMMA ArrivedStays ==
  ASSUME NEW a, a.req \in Requests, ArrivedOK(a), caller'[a.req] # "idle",
         Busy(a.req)' => Busy(a.req), stayed'[a.req] \subseteq stayed[a.req]
  PROVE  ArrivedOK(a)'
  BY CircleStays DEF ArrivedOK

\* An attempt more differs in nothing but the attempts left.
LEMMA AgainOK ==
  ASSUME NEW h \in Hops, NEW g \in Again(h)
  PROVE  /\ g \in Hops /\ g.req = h.req /\ g.from = h.from /\ g.to = h.to
         /\ g.payload = h.payload /\ g.left = h.left - 1
         /\ HopOK(h) => HopOK(g)
<1>1. h.left \in 1 .. MaxRetries /\ h.left # 1 /\ g = [h EXCEPT !.left = @ - 1]
  BY DEF Hops, Again
<1>2. h.left - 1 \in 1 .. MaxRetries
  BY <1>1, BoundsAssumption
<1>3. g \in Hops
  BY <1>1, <1>2 DEF Hops
<1>4. /\ g.req = h.req /\ g.from = h.from /\ g.to = h.to
      /\ g.payload = h.payload /\ g.left = h.left - 1
  BY <1>1 DEF Hops
<1> QED
  BY <1>3, <1>4 DEF HopOK, OnItsWay

LEMMA CostsType ==
  ASSUME TypeOK, NEW n \in {0, 1}, Costs(n)
  PROVE  losses' \in 0 .. MaxLosses /\ losses' = losses + n
  BY BoundsAssumption DEF Costs, TypeOK

\* The invariant but for what says that a snowball rolls on.
Safe ==
  /\ TypeOK
  /\ \A h \in hops : HopOK(h)
  /\ \A a \in arrived : ArrivedOK(a)
  /\ \A r \in Requests : RequestOK(r)

LEMMA InvParts == Inv <=> Safe /\ \A r \in Requests : Rolls(r)
  BY DEF Inv, Safe, ArrivedOK

\* A step of the hops: packets that are there, repeated, or new.
LEMMA HopStep ==
  ASSUME Safe, NEW h \in hops, NEW sent \in SUBSET Hops,
         hops' \subseteq hops \cup Again(h) \cup sent,
         \A g \in sent : HopOK(g),
         UNCHANGED <<members, caller, pending, answer, stayed, changes>>,
         arrived' \subseteq arrived \cup {[req |-> h.req, payload |-> h.payload]},
         arrived' \subseteq arrived \/ (Busy(h.req) => FullCircle(h.req, h.payload)),
         losses' \in 0 .. MaxLosses
  PROVE  Safe'
<1> USE DEF Safe
<1>1. h \in Hops /\ h.req \in Requests /\ h.payload \in Payloads /\ HopOK(h)
  BY DEF TypeOK, Hops
<1>2. Again(h) \subseteq Hops /\ \A g \in Again(h) : HopOK(g)
  BY <1>1, AgainOK
<1>3. hops' \subseteq Hops /\ \A g \in hops' : HopOK(g)
  BY <1>2 DEF TypeOK
<1>4. \A g \in hops' : HopOK(g)'
  <2> TAKE g \in hops'
  <2>1. g \in Hops /\ HopOK(g)
    BY <1>3
  <2>2. caller[g.req] # "idle"
    BY <2>1 DEF HopOK
  <2> QED
    BY <2>1, <2>2, HopStays DEF Busy
<1>5. ASSUME NEW a \in arrived' PROVE ArrivedOK(a)' /\ a \in [req : Requests, payload : Payloads]
  <2>1. CASE a \in arrived
    <3>1. a \in [req : Requests, payload : Payloads] /\ ArrivedOK(a)
      BY <2>1 DEF TypeOK
    <3>2. a.req \in Requests /\ caller[a.req] # "idle"
      BY <3>1 DEF ArrivedOK
    <3> QED
      BY <3>1, <3>2, ArrivedStays DEF Busy
  <2>2. CASE a \notin arrived
    <3>1. a = [req |-> h.req, payload |-> h.payload]
      BY <2>2
    <3>2. a.req = h.req /\ a.payload = h.payload /\ a \in [req : Requests, payload : Payloads]
      BY <1>1, <3>1
    <3>3. caller[h.req] # "idle" /\ (Busy(h.req) => FullCircle(h.req, h.payload))
      BY <1>1, <2>2 DEF HopOK
    <3>4. ArrivedOK(a)
      BY <3>2, <3>3 DEF ArrivedOK
    <3> QED
      BY <1>1, <3>2, <3>3, <3>4, ArrivedStays DEF Busy
  <2> QED
    BY <2>1, <2>2
<1>6. TypeOK'
  BY <1>3, <1>5 DEF TypeOK
<1>7. \A r \in Requests : RequestOK(r)'
  BY DEF RequestOK, Busy, FullCircle
<1> QED
  BY <1>4, <1>5, <1>6, <1>7

\* What a node sends on.
LEMMA RelaySends ==
  ASSUME Safe, NEW h \in hops, h.to \in members, h.to # Origin[h.req],
         ~Holds(h.payload, h.to)
  PROVE  /\ Send(h.req, h.to, Append(h.payload, h.to)) \in Hops
         /\ HopOK(Send(h.req, h.to, Append(h.payload, h.to)))
<1> DEFINE r == h.req
           p == h.payload
           q == Append(h.payload, h.to)
           g == Send(h.req, h.to, Append(h.payload, h.to))
<1>1. /\ h \in Hops /\ r \in Requests /\ p \in Payloads /\ h.to \in Nodes /\ h.from \in Nodes
      /\ HopOK(h)
  BY DEF Safe, TypeOK, Hops
<1>2. members \subseteq Nodes
  BY DEF Safe, TypeOK
<1>3. /\ q \in Payloads /\ NoTwice(q) /\ DOMAIN q = 1 .. Len(p) + 1
      /\ \A i \in 1 .. Len(p) : q[i] = p[i]
      /\ q[Len(p) + 1] = h.to
  BY <1>1, Appended DEF HopOK
<1>4. Len(p) \in Nat /\ DOMAIN p = 1 .. Len(p) /\ \A i \in 1 .. Len(p) : p[i] \in Nodes
  BY <1>1, PayloadShape, NodesFinite
<1>5. Succ(h.to) \in Nodes /\ Succ(h.to) \in members
  BY <1>1, <1>2, SuccType
<1>6. /\ g.req = r /\ g.from = h.to /\ g.to = Succ(h.to) /\ g.payload = q
      /\ g \in Hops
  BY <1>1, <1>3, <1>5, BoundsAssumption DEF Send, Hops
<1>7. ASSUME Busy(r) PROVE OnItsWay(g)
  <2>1. OnItsWay(h) /\ Origin[r] \in members /\ stayed[r] \subseteq members
    BY <1>1, <1>7 DEF Safe, RequestOK, HopOK
  <2>2. /\ Succ(h.to) # Origin[r] => Along(r, h.to) < Along(r, Succ(h.to))
        /\ \A x \in members : Along(r, h.to) < Along(r, x) =>
             Succ(h.to) # Origin[r] /\ Along(r, Succ(h.to)) <= Along(r, x)
    BY <1>1, <1>2, <2>1, NextStop
  <2>3. \A x \in Nodes : Along(r, x) \in Nat /\ (Along(r, x) = Along(r, h.to) => x = h.to)
    BY <1>1, NodesAreIds, DistanceType DEF Along
  <2>4. Along(r, h.from) < Along(r, h.to)
    BY <2>1 DEF OnItsWay
  <2>5. \A i \in 1 .. Len(p) : Along(r, p[i]) < Along(r, h.to)
    BY <1>1, <1>4, <2>1, <2>3, <2>4 DEF OnItsWay
  <2>6. InOrder(r, q)
    <3> SUFFICES ASSUME NEW i \in 1 .. Len(p) + 1, NEW j \in 1 .. Len(p) + 1, i < j
                 PROVE  Along(r, q[i]) < Along(r, q[j])
      BY <1>3 DEF InOrder
    <3>1. i \in 1 .. Len(p) /\ q[i] = p[i]
      BY <1>3, <1>4
    <3>2. CASE j \in 1 .. Len(p)
      BY <1>3, <1>4, <2>1, <3>1, <3>2 DEF OnItsWay, InOrder
    <3>3. CASE j = Len(p) + 1
      BY <1>3, <2>5, <3>1, <3>3
    <3> QED
      BY <1>4, <3>2, <3>3
  <2>7. \A i \in DOMAIN q : Along(r, q[i]) <= Along(r, h.to)
    <3> TAKE i \in DOMAIN q
    <3>1. CASE i \in 1 .. Len(p)
      BY <1>1, <1>3, <1>4, <2>3, <2>5, <3>1
    <3>2. CASE i = Len(p) + 1
      BY <1>1, <1>3, <2>3, <3>2
    <3> QED
      BY <1>3, <1>4, <3>1, <3>2
  <2>8. ASSUME NEW n \in stayed[r], ~Holds(q, n)
        PROVE  Succ(h.to) # Origin[r] /\ Along(r, Succ(h.to)) <= Along(r, n)
    <3>1. n \in members /\ n \in Nodes
      BY <1>2, <2>1
    <3>2. ~Holds(p, n) /\ n # h.to
      BY <1>3, <1>4, <2>8 DEF Holds
    <3>3. Along(r, h.to) <= Along(r, n)
      BY <2>1, <3>2 DEF OnItsWay
    <3>4. Along(r, h.to) < Along(r, n)
      BY <1>1, <2>3, <3>1, <3>2, <3>3
    <3> QED
      BY <2>2, <3>1, <3>4
  <2> HIDE DEF g, q
  <2> QED
    BY <1>6, <2>2, <2>6, <2>7, <2>8 DEF OnItsWay
<1>8. caller[r] # "idle"
  BY <1>1 DEF HopOK
<1> HIDE DEF g, q
<1> QED
  BY <1>3, <1>5, <1>6, <1>7, <1>8 DEF HopOK, q, g

\* A packet that comes back is a full circle.
LEMMA ReturnIsCircle ==
  ASSUME Safe, NEW h \in hops, h.to = Origin[h.req], Busy(h.req)
  PROVE  FullCircle(h.req, h.payload)
  BY DEF Safe, HopOK, OnItsWay, FullCircle

\* Nobody drops a packet that somebody waits for.
LEMMA NoLoop ==
  ASSUME Safe, NEW h \in hops, h.to # Origin[h.req], Busy(h.req)
  PROVE  ~Holds(h.payload, h.to)
<1>1. h \in Hops /\ h.req \in Requests /\ h.to \in Nodes /\ h.from \in Nodes /\ OnItsWay(h)
      /\ h.payload \in Payloads
  BY DEF Safe, TypeOK, Hops, HopOK
<1>2. \A x \in Nodes : Along(h.req, x) \in Nat
  BY <1>1, NodesAreIds, DistanceType DEF Along
<1>3. Along(h.req, h.from) < Along(h.req, h.to)
  BY <1>1 DEF OnItsWay
<1>4. \A i \in DOMAIN h.payload : Along(h.req, h.payload[i]) <= Along(h.req, h.from)
  BY <1>1 DEF OnItsWay
<1> SUFFICES ASSUME NEW i \in DOMAIN h.payload, h.payload[i] = h.to PROVE FALSE
  BY DEF Holds
<1> QED
  BY <1>1, <1>2, <1>3, <1>4

\* What a step leaves of a request.
LEMMA RequestStays ==
  ASSUME NEW r \in Requests, RequestOK(r), pending'[r] = pending[r], caller'[r] = caller[r],
         answer'[r] = answer[r], stayed'[r] \subseteq stayed[r], stayed'[r] \subseteq members',
         Busy(r) => Origin[r] \in members'
  PROVE  RequestOK(r)'
  BY CircleStays DEF RequestOK, Busy

\* A step of one request's thread that begins nothing: packets and arrivals stay.
LEMMA ThreadStep ==
  ASSUME Safe, NEW r \in Requests, NEW c \in Places \ {"idle"},
         caller[r] # "idle", caller' = [caller EXCEPT ![r] = c], Busy(r)' => Busy(r),
         \A s \in Requests \ {r} : pending'[s] = pending[s] /\ answer'[s] = answer[s],
         RequestOK(r)', pending' \in [Requests -> Entries], answer' \in [Requests -> Payloads],
         UNCHANGED <<members, hops, stayed, losses, changes>>, arrived' = arrived
  PROVE  Safe'
<1> USE DEF Safe
<1>1. caller' \in [Requests -> Places] /\ \A s \in Requests \ {r} : caller'[s] = caller[s]
  BY DEF TypeOK
<1>2. caller'[r] = c
  BY DEF TypeOK
<1>3. TypeOK'
  BY <1>1 DEF TypeOK
<1>4. \A s \in Requests : /\ caller[s] # "idle" => caller'[s] # "idle"
                          /\ Busy(s)' => Busy(s)
  BY <1>1, <1>2 DEF Busy
<1>5. \A h \in hops' : HopOK(h)'
  <2> TAKE h \in hops'
  <2>1. h \in Hops /\ HopOK(h) /\ h.req \in Requests /\ caller[h.req] # "idle"
    BY DEF TypeOK, Hops, HopOK
  <2> QED
    BY <1>4, <2>1, HopStays
<1>6. \A a \in arrived' : ArrivedOK(a)'
  <2> TAKE a \in arrived'
  <2>1. a.req \in Requests /\ ArrivedOK(a) /\ caller[a.req] # "idle"
    BY DEF TypeOK, ArrivedOK
  <2> QED
    BY <1>4, <2>1, ArrivedStays
<1>7. \A s \in Requests : RequestOK(s)'
  <2> TAKE s \in Requests
  <2>1. CASE s = r
    BY <2>1
  <2>2. CASE s # r
    <3>1. RequestOK(s)
      OBVIOUS
    <3> QED
      BY <1>1, <2>2, <3>1, RequestStays DEF RequestOK
  <2> QED
    BY <2>1, <2>2
<1> QED
  BY <1>3, <1>5, <1>6, <1>7
-----------------------------------------------------------------------------
(* The steps keep the invariant                                            *)

LEMMA InitSafe ==
  ASSUME Init
  PROVE  Safe
<1>1. TypeOK
  BY EmptyPayload, NodesAssumption, BoundsAssumption
     DEF Init, TypeOK, Places, Entries, NoEntry
<1>2. \A r \in Requests : RequestOK(r)
  BY DEF Init, RequestOK, Busy, NoEntry
<1> QED
  BY <1>1, <1>2 DEF Safe, Init

LEMMA BeginWaitSafe ==
  ASSUME Safe, NEW r \in Requests, BeginWait(r)
  PROVE  Safe'
<1>1. RequestOK(r)' /\ Busy(r)
  BY DEF Safe, TypeOK, BeginWait, RequestOK, Busy, FullCircle
<1>2. pending' \in [Requests -> Entries] /\ answer' \in [Requests -> Payloads]
  BY DEF Safe, TypeOK, BeginWait
<1> QED
  BY <1>1, <1>2, ThreadStep DEF BeginWait, Places

LEMMA NoEntryType == NoEntry \in Entries
  BY EmptyPayload DEF NoEntry, Entries

LEMMA FinishSafe ==
  ASSUME Safe, NEW r \in Requests, Finish(r)
  PROVE  Safe'
<1>0. pending[r] \in Entries /\ pending[r].payload \in Payloads
  BY DEF Safe, TypeOK, Entries
<1>1. pending' \in [Requests -> Entries] /\ answer' \in [Requests -> Payloads]
  BY <1>0, NoEntryType DEF Safe, TypeOK, Finish
<1>2. /\ caller'[r] = "answered" /\ answer'[r] = pending[r].payload
      /\ pending'[r] = NoEntry
  BY DEF Safe, TypeOK, Finish
<1>3. RequestOK(r)' /\ ~Busy(r)'
  BY <1>2 DEF Safe, Finish, RequestOK, Busy, FullCircle, NoEntry
<1> QED
  BY <1>1, <1>3, ThreadStep DEF Finish, Places, Safe, TypeOK

LEMMA TimeOutSafe ==
  ASSUME Safe, NEW r \in Requests, TimeOut(r)
  PROVE  Safe'
<1>1. pending' \in [Requests -> Entries] /\ answer' \in [Requests -> Payloads]
  BY NoEntryType DEF Safe, TypeOK, TimeOut
<1>2. caller'[r] = "timed out"
  BY DEF Safe, TypeOK, TimeOut
<1>3. pending'[r] = NoEntry
  BY DEF Safe, TypeOK, TimeOut
<1>4. ~Busy(r)' /\ caller'[r] # "answered" /\ pending'[r].state = "absent"
  <2>1. ~Busy(r)'
    BY <1>2 DEF Busy
  <2>2. caller'[r] # "answered"
    BY <1>2
  <2>3. pending'[r].state = "absent"
    BY <1>3 DEF NoEntry
  <2> QED
    BY <2>1, <2>2, <2>3
<1>5. RequestOK(r)
  BY DEF Safe
<1>6. RequestOK(r)'
  BY <1>4, <1>5 DEF TimeOut, RequestOK
<1> QED
  BY <1>1, <1>4, <1>6, ThreadStep DEF TimeOut, Places, Safe, TypeOK

LEMMA LostSafe ==
  ASSUME Safe, NEW h \in hops, Lost(h)
  PROVE  Safe'
<1>1. losses' \in 0 .. MaxLosses
  BY CostsType DEF Lost, Safe
<1>2. /\ hops' \subseteq hops \cup Again(h) \cup {}
      /\ {} \in SUBSET Hops /\ \A g \in {} : HopOK(g)
  BY DEF Lost
<1>3. /\ UNCHANGED <<members, caller, pending, answer, stayed, changes>>
      /\ arrived' = arrived
  BY DEF Lost
<1> QED
  BY <1>1, <1>2, <1>3, HopStep

LEMMA ExecutedStep ==
  ASSUME Safe, NEW h \in hops, NEW heard \in BOOLEAN, NEW sent, Executed(h, heard, sent)
  PROVE  /\ losses' \in 0 .. MaxLosses /\ h.to \in members
         /\ hops' \subseteq hops \cup Again(h) \cup sent
  BY CostsType DEF Executed, Safe

LEMMA RelaySafe ==
  ASSUME Safe, NEW h \in hops, NEW heard \in BOOLEAN, Relay(h, heard)
  PROVE  Safe'
<1> DEFINE g == Send(h.req, h.to, Append(h.payload, h.to))
<1>1. /\ losses' \in 0 .. MaxLosses /\ h.to \in members
      /\ hops' \subseteq hops \cup Again(h) \cup {g}
  BY ExecutedStep DEF Relay
<1>2. g \in Hops /\ HopOK(g)
  BY <1>1, RelaySends DEF Relay
<1> HIDE DEF g
<1>3. {g} \in SUBSET Hops /\ \A x \in {g} : HopOK(x)
  BY <1>2
<1>4. /\ UNCHANGED <<members, caller, pending, answer, stayed, changes>>
      /\ arrived' = arrived
  BY DEF Relay
<1> QED
  BY <1>1, <1>3, <1>4, HopStep

LEMMA DropLoopSafe ==
  ASSUME Safe, NEW h \in hops, NEW heard \in BOOLEAN, DropLoop(h, heard)
  PROVE  Safe'
<1>1. losses' \in 0 .. MaxLosses /\ hops' \subseteq hops \cup Again(h) \cup {}
  BY ExecutedStep DEF DropLoop
<1> QED
  BY <1>1, HopStep DEF DropLoop

LEMMA ReturnSafe ==
  ASSUME Safe, NEW h \in hops, NEW heard \in BOOLEAN, Return(h, heard)
  PROVE  Safe'
<1>1. losses' \in 0 .. MaxLosses /\ hops' \subseteq hops \cup Again(h) \cup {}
  BY ExecutedStep DEF Return
<1>2. arrived' \subseteq arrived \cup {[req |-> h.req, payload |-> h.payload]}
  BY DEF Return
<1>3. Busy(h.req) => FullCircle(h.req, h.payload)
  BY ReturnIsCircle DEF Return
<1> QED
  BY <1>1, <1>2, <1>3, HopStep DEF Return

LEMMA StoreSafe ==
  ASSUME Safe, NEW a \in arrived, Store(a)
  PROVE  Safe'
<1> DEFINE r == a.req
<1>1. r \in Requests /\ a.payload \in Payloads /\ ArrivedOK(a)
  BY DEF Safe, TypeOK
<1>2. \A s \in Requests \ {r} : pending'[s] = pending[s]
  BY DEF Safe, TypeOK, Store
<1>3. pending' \in [Requests -> Entries]
  BY <1>1 DEF Safe, TypeOK, Store, Entries
<1>4. /\ pending[r].state = "absent" => pending'[r] = pending[r]
      /\ pending[r].state # "absent" => pending'[r] = [state |-> "set", payload |-> a.payload]
  BY <1>1 DEF Safe, TypeOK, Store
<1>5. TypeOK'
  BY <1>3 DEF Safe, TypeOK, Store
<1>6. \A h \in hops' : HopOK(h)'
  BY DEF Safe, Store, HopOK, OnItsWay, Busy
<1>7. \A b \in arrived' : ArrivedOK(b)'
  BY DEF Safe, Store, ArrivedOK, Busy, FullCircle
<1>8. ASSUME NEW s \in Requests PROVE RequestOK(s)'
  <2>1. RequestOK(s)
    BY DEF Safe
  <2>2. CASE pending'[s] = pending[s]
    BY <2>1, <2>2, RequestStays DEF Store, RequestOK
  <2>3. CASE pending'[s] # pending[s]
    <3>1. s = r /\ pending[r].state # "absent" /\ pending'[r].state = "set"
          /\ pending'[r].payload = a.payload
      BY <1>2, <1>4, <2>3
    <3>2. Busy(r) /\ FullCircle(r, a.payload)
      BY <1>1, <2>1, <3>1 DEF RequestOK, ArrivedOK
    <3> HIDE DEF r
    <3> QED
      BY <2>1, <3>1, <3>2 DEF Store, RequestOK, Busy, FullCircle
  <2> QED
    BY <2>2, <2>3
<1> QED
  BY <1>5, <1>6, <1>7, <1>8 DEF Safe

LEMMA JoinSafe ==
  ASSUME Safe, NEW n \in Nodes, Join(n)
  PROVE  Safe'
<1>1. changes \in Nat /\ changes' = changes + 1 /\ changes' \in 0 .. MaxChanges
  BY BoundsAssumption DEF Safe, TypeOK, Join, Changes
<1>2. TypeOK'
  BY <1>1 DEF Safe, TypeOK, Join
<1>3. ASSUME NEW h \in hops' PROVE HopOK(h)'
  <2>1. h \in Hops /\ HopOK(h) /\ h.req \in Requests /\ caller[h.req] # "idle"
    BY DEF Safe, TypeOK, Join, Hops, HopOK
  <2>2. Busy(h.req)' => Busy(h.req)
    BY DEF Join, Busy
  <2> QED
    BY <1>1, <2>1, <2>2, HopStays DEF Join
<1>4. \A b \in arrived' : ArrivedOK(b)'
  BY DEF Safe, Join, ArrivedOK, Busy, FullCircle
<1>5. ASSUME NEW s \in Requests PROVE RequestOK(s)'
  <2>1. RequestOK(s)
    BY DEF Safe
  <2> QED
    BY <2>1, RequestStays DEF Join, RequestOK
<1> QED
  BY <1>2, <1>3, <1>4, <1>5 DEF Safe

LEMMA EndsSafe ==
  ASSUME Safe, NEW n \in Nodes, Ends(n), hops' \subseteq hops
  PROVE  Safe'
<1>1. changes \in Nat /\ changes' = changes + 1 /\ changes' \in 0 .. MaxChanges
  BY BoundsAssumption DEF Safe, TypeOK, Ends, Changes
<1>2. \A r \in Requests :
        /\ stayed'[r] = stayed[r] \ {n}
        /\ caller'[r] = IF Origin[r] = n /\ Busy(r) THEN "killed" ELSE caller[r]
        /\ pending'[r] = IF Origin[r] = n THEN NoEntry ELSE pending[r]
  BY DEF Ends
<1>3. TypeOK'
  <2>1. caller' \in [Requests -> Places]
    BY DEF Safe, TypeOK, Ends, Places
  <2>2. pending' \in [Requests -> Entries]
    BY NoEntryType DEF Safe, TypeOK, Ends
  <2>3. stayed' \in [Requests -> SUBSET Nodes]
    BY DEF Safe, TypeOK, Ends
  <2> QED
    BY <1>1, <2>1, <2>2, <2>3 DEF Safe, TypeOK, Ends
<1>4. \A r \in Requests : /\ caller[r] # "idle" => caller'[r] # "idle"
                          /\ Busy(r)' => Busy(r) /\ Origin[r] # n
                          /\ stayed'[r] \subseteq stayed[r]
  BY <1>2 DEF Busy
<1>5. ASSUME NEW h \in hops' PROVE HopOK(h)'
  <2>1. h \in Hops /\ HopOK(h) /\ h.req \in Requests /\ caller[h.req] # "idle"
    BY DEF Safe, TypeOK, Hops, HopOK
  <2> QED
    BY <1>1, <1>4, <2>1, HopStays
<1>6. ASSUME NEW a \in arrived' PROVE ArrivedOK(a)'
  <2>1. a.req \in Requests /\ ArrivedOK(a) /\ caller[a.req] # "idle"
    BY DEF Safe, TypeOK, Ends, ArrivedOK
  <2> QED
    BY <1>4, <2>1, ArrivedStays
<1>7. ASSUME NEW s \in Requests PROVE RequestOK(s)'
  <2>1. RequestOK(s) /\ members' = members \ {n} /\ answer' = answer
    BY DEF Safe, Ends
  <2>2. CASE Origin[s] = n
    <3>1. pending'[s].state = "absent" /\ ~Busy(s)'
      BY <1>2, <1>4, <2>2 DEF NoEntry
    <3>2. caller'[s] = "answered" => FullCircle(s, answer[s])'
      BY <1>2, <1>4, <2>1, <2>2, CircleStays DEF RequestOK
    <3> QED
      BY <1>2, <2>1, <3>1, <3>2 DEF RequestOK
  <2>3. CASE Origin[s] # n
    <3>1. pending'[s] = pending[s] /\ caller'[s] = caller[s]
      BY <1>2, <2>3
    <3> QED
      BY <1>2, <1>4, <2>1, <2>3, <3>1, RequestStays DEF RequestOK
  <2> QED
    BY <2>2, <2>3
<1> QED
  BY <1>3, <1>5, <1>6, <1>7 DEF Safe

LEMMA BeginSafe ==
  ASSUME Safe, NEW r \in Requests, Begin(r)
  PROVE  Safe'
<1> DEFINE n == Origin[r]
           g == Send(r, n, <<n>>)
<1>1. /\ n \in Nodes /\ n \in members /\ members \subseteq Nodes /\ caller[r] = "idle"
      /\ RequestOK(r) /\ UNCHANGED <<members, arrived, losses, changes>>
  BY NodesAreIds DEF Begin, Safe, TypeOK
<1>2. <<n>> \in Payloads /\ NoTwice(<<n>>) /\ DOMAIN <<n>> = {1} /\ <<n>>[1] = n
      /\ Holds(<<n>>, n)
  BY <1>1, FirstBlock
<1>3. pending[r].state = "absent" /\ pending[r] \in Entries
  BY <1>1 DEF RequestOK, Busy, Safe, TypeOK
<1>4. /\ stayed' \in [Requests -> SUBSET Nodes] /\ stayed'[r] = members
      /\ \A s \in Requests \ {r} : stayed'[s] = stayed[s]
  BY <1>1 DEF Begin, Safe, TypeOK
<1>5. InOrder(r, <<n>>)
  BY <1>2 DEF InOrder
<1>6. CASE Succ(n) = n
  <2>1. /\ caller' = [caller EXCEPT ![r] = "answered"] /\ answer' = [answer EXCEPT ![r] = <<n>>]
        /\ UNCHANGED <<pending, hops>>
    BY <1>6 DEF Begin
  <2>2. /\ caller' \in [Requests -> Places] /\ answer' \in [Requests -> Payloads]
        /\ caller'[r] = "answered" /\ answer'[r] = <<n>>
        /\ \A s \in Requests \ {r} : caller'[s] = caller[s] /\ answer'[s] = answer[s]
    BY <1>2, <2>1 DEF Safe, TypeOK, Places
  <2>3. TypeOK'
    BY <1>1, <1>4, <2>1, <2>2 DEF Safe, TypeOK
  <2>4. members \subseteq {n}
    <3>1. members \in SUBSET Ids /\ n \in Ids
      BY <1>1, NodesAreIds
    <3> QED
      BY <1>6, <3>1, NearestOther DEF Succ
  <2>5. FullCircle(r, <<n>>)'
    BY <1>2, <1>4, <1>5, <2>4 DEF FullCircle, InOrder, Along
  <2>6. \A h \in hops' : HopOK(h)'
    <3> TAKE h \in hops'
    <3>1. h \in Hops /\ HopOK(h) /\ h.req \in Requests /\ caller[h.req] # "idle"
      BY <2>1 DEF Safe, TypeOK, Hops, HopOK
    <3>2. h.req # r
      BY <1>1, <3>1
    <3> QED
      BY <1>1, <1>4, <2>2, <3>1, <3>2, HopStays DEF Busy
  <2>7. \A a \in arrived' : ArrivedOK(a)'
    <3> TAKE a \in arrived'
    <3>1. a.req \in Requests /\ ArrivedOK(a) /\ caller[a.req] # "idle"
      BY <1>1 DEF Safe, TypeOK, ArrivedOK
    <3>2. a.req # r
      BY <1>1, <3>1
    <3> QED
      BY <1>4, <2>2, <3>1, <3>2, ArrivedStays DEF Busy
  <2>8. ASSUME NEW s \in Requests PROVE RequestOK(s)'
    <3>1. CASE s = r
      BY <1>1, <1>3, <1>4, <2>1, <2>2, <2>5, <3>1 DEF RequestOK, Busy
    <3>2. CASE s # r
      <4>1. RequestOK(s)
        BY DEF Safe
      <4> QED
        BY <1>1, <1>4, <2>1, <2>2, <3>2, <4>1, RequestStays DEF RequestOK
    <3> QED
      BY <3>1, <3>2
  <2> QED
    BY <2>3, <2>6, <2>7, <2>8 DEF Safe
<1>7. CASE Succ(n) # n
  <2>1. /\ caller' = [caller EXCEPT ![r] = "calling"]
        /\ pending' = [pending EXCEPT ![r].state = "open"]
        /\ hops' = hops \cup {g} /\ answer' = answer
    BY <1>7 DEF Begin
  <2>2. /\ caller' \in [Requests -> Places]
        /\ caller'[r] = "calling"
        /\ \A s \in Requests \ {r} : caller'[s] = caller[s]
    BY <2>1 DEF Safe, TypeOK, Places
  <2>3. /\ pending' \in [Requests -> Entries]
        /\ pending'[r].state = "open"
        /\ \A s \in Requests \ {r} : pending'[s] = pending[s]
    BY <1>3, <2>1 DEF Safe, TypeOK, Entries
  <2>4. /\ Succ(n) \in members
        /\ Succ(n) # n => Along(r, n) < Along(r, Succ(n))
        /\ \A x \in members : Along(r, n) < Along(r, x) =>
             Succ(n) # n /\ Along(r, Succ(n)) <= Along(r, x)
    BY <1>1, <1>7, NextStop
  <2>5. /\ g.req = r /\ g.from = n /\ g.to = Succ(n) /\ g.payload = <<n>> /\ g.left = MaxRetries
        /\ g \in Hops
    BY <1>1, <1>2, <2>4, BoundsAssumption DEF Send, Hops
  <2>6. PICK k \in Hops : k = g
    BY <2>5
  <2> HIDE DEF g
  <2>7. \A x \in Nodes : Along(r, x) \in Nat /\ (Along(r, x) = Along(r, n) => x = n)
    BY <1>1, NodesAreIds, DistanceType DEF Along
  <2>8. \A x \in Nodes : x # n => Along(r, n) < Along(r, x)
    <3>1. Along(r, n) = 0
      <4>1. n \in Ids /\ n = Origin[r]
        BY <1>1, NodesAreIds
      <4> QED
        BY <4>1, NoDistance DEF Along
    <3> QED
      BY <1>1, <2>7, <3>1
  <2>9. OnItsWay(k)'
    <3>1. \A x \in members : ~Holds(<<n>>, x) => Succ(n) # n /\ Along(r, Succ(n)) <= Along(r, x)
      BY <1>1, <1>2, <2>4, <2>8
    <3>2. \A i \in DOMAIN <<n>> : Along(r, <<n>>[i]) <= Along(r, n)
      BY <1>1, <1>2, <2>7
    <3> QED
      BY <1>4, <1>5, <1>7, <2>4, <2>5, <2>6, <3>1, <3>2 DEF OnItsWay, InOrder, Along
  <2>10. HopOK(k)'
    BY <1>1, <1>2, <2>2, <2>4, <2>5, <2>6, <2>9 DEF HopOK
  <2>11. TypeOK'
    BY <1>1, <1>4, <2>1, <2>2, <2>3, <2>5, <2>6 DEF Safe, TypeOK
  <2>12. \A h \in hops' : HopOK(h)'
    <3> TAKE h \in hops'
    <3>0. CASE h = k
      BY <2>10, <3>0
    <3>1. CASE h \in hops
      <4>1. h \in Hops /\ HopOK(h) /\ h.req \in Requests /\ caller[h.req] # "idle"
        BY <3>1 DEF Safe, TypeOK, Hops, HopOK
      <4>2. h.req # r
        BY <1>1, <4>1
      <4> QED
        BY <1>1, <1>4, <2>2, <4>1, <4>2, HopStays DEF Busy
    <3> QED
      BY <2>1, <2>6, <3>0, <3>1
  <2>13. \A a \in arrived' : ArrivedOK(a)'
    <3> TAKE a \in arrived'
    <3>1. a.req \in Requests /\ ArrivedOK(a) /\ caller[a.req] # "idle"
      BY <1>1 DEF Safe, TypeOK, ArrivedOK
    <3>2. a.req # r
      BY <1>1, <3>1
    <3> QED
      BY <1>4, <2>2, <3>1, <3>2, ArrivedStays DEF Busy
  <2>14. ASSUME NEW s \in Requests PROVE RequestOK(s)'
    <3>1. CASE s = r
      BY <1>1, <1>4, <2>2, <2>3, <3>1 DEF RequestOK, Busy
    <3>2. CASE s # r
      <4>1. RequestOK(s)
        BY DEF Safe
      <4> QED
        BY <1>1, <1>4, <2>1, <2>2, <2>3, <3>2, <4>1, RequestStays DEF RequestOK
    <3> QED
      BY <3>1, <3>2
  <2> QED
    BY <2>11, <2>12, <2>13, <2>14 DEF Safe
<1> QED
  BY <1>6, <1>7
-----------------------------------------------------------------------------
(* A snowball rolls on                                                     *)

\* What comes of a request, as long as its caller waits.
Comes(r) ==
  \/ pending[r].state = "set"
  \/ \E a \in arrived : a.req = r
  \/ \E h \in hops : h.req = r /\ MaxRetries <= h.left + losses

LEMMA RollsStays ==
  ASSUME Safe, NEW r \in Requests, Rolls(r), Busy(r)' => Busy(r), changes' = 0 => changes = 0,
         losses' \in Nat, losses <= losses', Comes(r) => Comes(r)'
  PROVE  Rolls(r)'
<1>1. losses \in Nat
  BY BoundsAssumption DEF Safe, TypeOK
<1> QED
  BY <1>1, BoundsAssumption DEF Rolls, Comes

\* A packet that is not the one this step is about stays as good as it was.
LEMMA OthersRoll ==
  ASSUME Safe, NEW r \in Requests, NEW h \in hops, Rolls(r), hops \ {h} \subseteq hops',
         UNCHANGED <<caller, pending, changes>>, arrived \subseteq arrived',
         losses' \in Nat, losses <= losses',
         h.req = r /\ MaxRetries <= h.left + losses /\ Busy(r) /\ changes = 0 /\ losses' < MaxRetries
           => Comes(r)'
  PROVE  Rolls(r)'
<1>1. losses \in Nat /\ \A g \in hops : g.left \in Nat
  BY BoundsAssumption DEF Safe, TypeOK, Hops
<1>2. SUFFICES ASSUME changes = 0, losses' < MaxRetries, Busy(r) PROVE Comes(r)'
  BY DEF Rolls, Comes, Busy
<1>3. Comes(r)
  BY <1>1, <1>2, BoundsAssumption DEF Rolls, Comes
<1>4. CASE \E g \in hops : g.req = r /\ MaxRetries <= g.left + losses
  <2>1. PICK g \in hops : g.req = r /\ MaxRetries <= g.left + losses
    BY <1>4
  <2>2. CASE g = h
    BY <1>2, <2>1, <2>2
  <2>3. CASE g # h
    BY <1>1, <2>1, <2>3, BoundsAssumption DEF Comes
  <2> QED
    BY <2>2, <2>3
<1> QED
  BY <1>3, <1>4 DEF Comes

\* An attempt more is worth a loss.
LEMMA AgainRolls ==
  ASSUME Safe, NEW h \in hops, MaxRetries <= h.left + losses, losses' = losses + 1,
         losses' < MaxRetries, Again(h) \subseteq hops'
  PROVE  Comes(h.req)'
<1>1. losses \in Nat /\ h \in Hops /\ h.left \in Nat
  BY BoundsAssumption DEF Safe, TypeOK, Hops
<1>2. h.left # 1
  BY <1>1, BoundsAssumption
<1>3. PICK g \in Again(h) : TRUE
  BY <1>2 DEF Again
<1>4. g.req = h.req /\ g.left = h.left - 1
  BY <1>1, <1>3, AgainOK
<1>5. g \in hops' /\ MaxRetries <= g.left + losses'
  BY <1>1, <1>3, <1>4, BoundsAssumption
<1> QED
  BY <1>4, <1>5 DEF Comes

LEMMA CostsMore ==
  ASSUME Safe, NEW n \in {0, 1}, Costs(n)
  PROVE  losses \in Nat /\ losses' \in Nat /\ losses <= losses' /\ losses' = losses + n
  BY BoundsAssumption DEF Safe, TypeOK, Costs

LEMMA BeginRolls ==
  ASSUME Safe, NEW r \in Requests, Begin(r), NEW s \in Requests, Rolls(s)
  PROVE  Rolls(s)'
<1>1. caller[r] = "idle" /\ UNCHANGED <<arrived, losses, changes>> /\ hops \subseteq hops'
  BY DEF Begin
<1>2. losses \in Nat
  BY BoundsAssumption DEF Safe, TypeOK
<1>3. CASE s # r
  <2>1. caller'[s] = caller[s] /\ pending'[s] = pending[s]
    BY <1>3 DEF Begin, Safe, TypeOK
  <2>2. Comes(s) => Comes(s)'
    BY <1>1, <2>1 DEF Comes
  <2> QED
    BY <1>1, <1>2, <2>1, <2>2, RollsStays DEF Busy
<1>4. CASE s = r /\ Succ(Origin[r]) = Origin[r]
  <2>1. caller'[r] = "answered"
    BY <1>4 DEF Begin, Safe, TypeOK
  <2> QED
    BY <1>4, <2>1 DEF Rolls, Busy
<1>5. CASE s = r /\ Succ(Origin[r]) # Origin[r]
  <2>1. PICK g \in hops' : g = Send(r, Origin[r], <<Origin[r]>>)
    BY <1>5 DEF Begin
  <2>2. g.req = r /\ g.left = MaxRetries
    BY <2>1 DEF Send
  <2>3. MaxRetries <= g.left + losses'
    BY <1>1, <1>2, <2>2, BoundsAssumption
  <2> QED
    BY <1>5, <2>2, <2>3 DEF Rolls
<1> QED
  BY <1>3, <1>4, <1>5

LEMMA ThreadRolls ==
  ASSUME Safe, NEW r \in Requests, BeginWait(r) \/ Finish(r) \/ TimeOut(r),
         NEW s \in Requests, Rolls(s)
  PROVE  Rolls(s)'
<1>1. UNCHANGED <<hops, arrived, losses, changes>> /\ losses \in Nat
  <2>1. losses \in Nat
    BY BoundsAssumption DEF Safe, TypeOK
  <2>2. CASE BeginWait(r)
    BY <2>1, <2>2 DEF BeginWait
  <2>3. CASE Finish(r)
    BY <2>1, <2>3 DEF Finish
  <2>4. CASE TimeOut(r)
    BY <2>1, <2>4 DEF TimeOut
  <2> QED
    BY <2>2, <2>3, <2>4
<1>2. Busy(s)' => Busy(s) /\ pending'[s] = pending[s]
  <2>1. CASE s # r
    BY <2>1 DEF BeginWait, Finish, TimeOut, Safe, TypeOK, Busy
  <2>2. CASE s = r /\ BeginWait(r)
    BY <2>2 DEF BeginWait, Busy
  <2>3. CASE s = r /\ Finish(r)
    <3>1. caller'[r] = "answered"
      BY <2>3 DEF Finish, Safe, TypeOK
    <3> QED
      BY <2>3, <3>1 DEF Busy
  <2>4. CASE s = r /\ TimeOut(r)
    <3>1. caller'[r] = "timed out"
      BY <2>4 DEF TimeOut, Safe, TypeOK
    <3>2. ~Busy(r)'
      BY <3>1 DEF Busy
    <3> QED
      BY <2>4, <3>2
  <2> QED
    BY <2>1, <2>2, <2>3, <2>4
<1>3. CASE Busy(s)'
  <2>1. Comes(s) => Comes(s)'
    BY <1>1, <1>2, <1>3 DEF Comes
  <2> QED
    BY <1>1, <1>2, <2>1, RollsStays
<1>4. CASE ~Busy(s)'
  BY <1>4 DEF Rolls
<1> QED
  BY <1>3, <1>4

LEMMA LostRolls ==
  ASSUME Safe, NEW h \in hops, Lost(h), NEW s \in Requests, Rolls(s)
  PROVE  Rolls(s)'
<1>1. losses' \in Nat /\ losses <= losses'
  BY CostsMore DEF Lost
<1>2. UNCHANGED <<caller, pending, changes, arrived>> /\ hops \ {h} \subseteq hops'
      /\ Again(h) \subseteq hops'
  BY DEF Lost
<1>3. ASSUME MaxRetries <= h.left + losses, changes = 0, losses' < MaxRetries
      PROVE  Comes(h.req)'
  <2>1. h.to \in members
    BY <1>3 DEF Safe, HopOK
  <2>2. losses' = losses + 1
    BY <2>1, CostsMore DEF Lost
  <2> QED
    BY <1>2, <1>3, <2>2, AgainRolls
<1> QED
  BY <1>1, <1>2, <1>3, OthersRoll

LEMMA ExecutedRolls ==
  ASSUME Safe, NEW h \in hops, NEW heard \in BOOLEAN, NEW sent, Executed(h, heard, sent),
         UNCHANGED <<caller, pending, changes>>, arrived \subseteq arrived',
         Busy(h.req) => Comes(h.req)',
         NEW s \in Requests, Rolls(s)
  PROVE  Rolls(s)'
<1>1. losses' \in Nat /\ losses <= losses'
  BY CostsMore DEF Executed
<1>2. hops \ {h} \subseteq hops'
  BY DEF Executed
<1> QED
  BY <1>1, <1>2, OthersRoll

LEMMA RelayRolls ==
  ASSUME Safe, NEW h \in hops, NEW heard \in BOOLEAN, Relay(h, heard),
         NEW s \in Requests, Rolls(s)
  PROVE  Rolls(s)'
<1>1. Executed(h, heard, {Send(h.req, h.to, Append(h.payload, h.to))})
      /\ UNCHANGED <<caller, pending, changes>> /\ arrived' = arrived
  BY DEF Relay
<1>2. losses' \in Nat
  BY <1>1, CostsMore DEF Executed
<1>3. PICK g \in hops' : g = Send(h.req, h.to, Append(h.payload, h.to))
  BY <1>1 DEF Executed
<1>4. g.req = h.req /\ g.left = MaxRetries
  BY <1>3 DEF Send
<1>5. MaxRetries <= g.left + losses'
  <2>1. \A m \in Nat : MaxRetries <= MaxRetries + m
    BY BoundsAssumption
  <2> QED
    BY <1>2, <1>4, <2>1
<1>6. Comes(h.req)'
  BY <1>4, <1>5 DEF Comes
<1> QED
  BY <1>1, <1>6, ExecutedRolls

LEMMA DropLoopRolls ==
  ASSUME Safe, NEW h \in hops, NEW heard \in BOOLEAN, DropLoop(h, heard),
         NEW s \in Requests, Rolls(s)
  PROVE  Rolls(s)'
<1>1. Executed(h, heard, {}) /\ UNCHANGED <<caller, pending, changes>> /\ arrived' = arrived
  BY DEF DropLoop
<1>2. ~Busy(h.req)
  BY NoLoop DEF DropLoop
<1> QED
  BY <1>1, <1>2, ExecutedRolls

LEMMA ReturnRolls ==
  ASSUME Safe, NEW h \in hops, NEW heard \in BOOLEAN, Return(h, heard),
         NEW s \in Requests, Rolls(s)
  PROVE  Rolls(s)'
<1>1. Executed(h, heard, {}) /\ UNCHANGED <<caller, pending, changes>>
      /\ arrived \subseteq arrived'
  BY DEF Return
<1>2. ASSUME Busy(h.req) PROVE Comes(h.req)'
  <2>1. h.req \in Requests
    BY DEF Safe, TypeOK, Hops
  <2>2. pending[h.req].state # "absent"
    BY <1>2, <2>1 DEF Safe, RequestOK
  <2>3. PICK a \in arrived' : a = [req |-> h.req, payload |-> h.payload]
    BY <2>2 DEF Return
  <2>4. a.req = h.req
    BY <2>3
  <2> QED
    BY <2>4 DEF Comes
<1> QED
  BY <1>1, <1>2, ExecutedRolls

LEMMA StoreRolls ==
  ASSUME Safe, NEW a \in arrived, Store(a), NEW s \in Requests, Rolls(s)
  PROVE  Rolls(s)'
<1>1. UNCHANGED <<caller, hops, losses, changes>> /\ losses \in Nat /\ a.req \in Requests
  BY BoundsAssumption DEF Store, Safe, TypeOK
<1>2. CASE s # a.req
  <2>1. pending'[s] = pending[s]
    BY <1>2 DEF Store, Safe, TypeOK
  <2>2. \A b \in arrived : b.req = s => b \in arrived'
    BY <1>2 DEF Store
  <2>3. Comes(s) => Comes(s)'
    BY <1>1, <2>1, <2>2 DEF Comes
  <2> QED
    BY <1>1, <2>3, RollsStays DEF Busy
<1>3. CASE s = a.req /\ Busy(s)
  <2>1. pending[s].state # "absent"
    BY <1>3 DEF Safe, RequestOK
  <2>2. pending'[s] = [state |-> "set", payload |-> a.payload]
    BY <1>1, <1>3, <2>1 DEF Store, Safe, TypeOK
  <2>3. pending'[s].state = "set"
    BY <2>2
  <2> QED
    BY <2>3 DEF Rolls
<1>4. CASE ~Busy(s)
  BY <1>1, <1>4 DEF Rolls, Busy
<1> QED
  BY <1>2, <1>3, <1>4

LEMMA ChangedRolls ==
  ASSUME Safe, Changes, NEW s \in Requests
  PROVE  Rolls(s)'
<1>1. changes' # 0
  BY BoundsAssumption DEF Safe, TypeOK, Changes
<1> QED
  BY <1>1 DEF Rolls
-----------------------------------------------------------------------------
(* The theorems                                                            *)

LEMMA InvInit ==
  ASSUME Init
  PROVE  Inv
<1>1. \A r \in Requests : ~Busy(r)
  BY DEF Init, Busy
<1> QED
  BY <1>1, InitSafe, InvParts DEF Rolls

LEMMA InvStep ==
  ASSUME Inv, [Next]_vars
  PROVE  Inv'
<1> DEFINE Rolling == \A r \in Requests : Rolls(r)
<1>1. Safe /\ Rolling
  BY InvParts
<1>2. ASSUME NEW r \in Requests, Begin(r) PROVE Safe' /\ Rolling'
  BY <1>1, <1>2, BeginSafe, BeginRolls
<1>3. ASSUME NEW r \in Requests, BeginWait(r) \/ Finish(r) \/ TimeOut(r)
      PROVE  Safe' /\ Rolling'
  BY <1>1, <1>3, BeginWaitSafe, FinishSafe, TimeOutSafe, ThreadRolls
<1>4. ASSUME NEW h \in hops, Lost(h) PROVE Safe' /\ Rolling'
  BY <1>1, <1>4, LostSafe, LostRolls
<1>5. ASSUME NEW h \in hops, NEW heard \in BOOLEAN, Relay(h, heard) PROVE Safe' /\ Rolling'
  BY <1>1, <1>5, RelaySafe, RelayRolls
<1>6. ASSUME NEW h \in hops, NEW heard \in BOOLEAN, DropLoop(h, heard) PROVE Safe' /\ Rolling'
  BY <1>1, <1>6, DropLoopSafe, DropLoopRolls
<1>7. ASSUME NEW h \in hops, NEW heard \in BOOLEAN, Return(h, heard) PROVE Safe' /\ Rolling'
  BY <1>1, <1>7, ReturnSafe, ReturnRolls
<1>8. ASSUME NEW a \in arrived, Store(a) PROVE Safe' /\ Rolling'
  BY <1>1, <1>8, StoreSafe, StoreRolls
<1>9. ASSUME NEW n \in Nodes, Join(n) PROVE Safe' /\ Rolling'
  BY <1>1, <1>9, JoinSafe, ChangedRolls DEF Join
<1>10. ASSUME NEW n \in Nodes, Leave(n) PROVE Safe' /\ Rolling'
  <2>1. Ends(n) /\ Changes /\ hops' \subseteq hops
    BY <1>10 DEF Leave, Ends
  <2> QED
    BY <1>1, <2>1, EndsSafe, ChangedRolls
<1>11. ASSUME NEW n \in Nodes, Crash(n) PROVE Safe' /\ Rolling'
  <2>1. Ends(n) /\ Changes /\ hops' \subseteq hops
    BY <1>11 DEF Crash, Ends
  <2> QED
    BY <1>1, <2>1, EndsSafe, ChangedRolls
<1>12. ASSUME UNCHANGED vars PROVE Inv'
  BY <1>12 DEF Inv, TypeOK, HopOK, OnItsWay, FullCircle, RequestOK, Rolls, Busy, vars
<1> HIDE DEF Rolling
<1>13. CASE Next
  <2>1. Safe' /\ Rolling'
    BY <1>2, <1>3, <1>4, <1>5, <1>6, <1>7, <1>8, <1>9, <1>10, <1>11, <1>13 DEF Next
  <2>2. Inv' <=> Safe' /\ (\A r \in Requests : Rolls(r)')
    BY DEF Inv, Safe, ArrivedOK
  <2> QED
    BY <2>1, <2>2 DEF Rolling
<1> QED
  BY <1>12, <1>13

LEMMA Invariance == Spec => []Inv
<1>1. Init => Inv
  BY InvInit
<1>2. Inv /\ [Next]_vars => Inv'
  BY InvStep
<1> QED
  BY <1>1, <1>2, PTL DEF Spec

\* The traversals keep to their types: no packet outgrows the ring's nodes, no
\* call is repeated more often than send_command allows.
THEOREM TypeCorrect == Spec => []TypeOK
<1>1. Inv => TypeOK
  BY DEF Inv
<1> QED
  BY <1>1, Invariance, PTL

\* What _initiate_ring_traversal returns after its event was set has a block of
\* every node that was in the ring from its beginning on, in ring order from the
\* origin: however the ring changes under the packet and however often a hop is
\* repeated, process_ring_traversal jumps over nobody who stays.
THEOREM FullCircles == Spec => []AnswersAreFullCircles
<1>1. Inv => AnswersAreFullCircles
  BY DEF Inv, RequestOK, FullCircle, InOrder, Along, AnswersAreFullCircles
<1> QED
  BY <1>1, Invariance, PTL

\* pending_requests has an entry exactly as long as a thread waits for it: a
\* packet that comes back late or twice makes none.
THEOREM WaitersHaveEntries == Spec => []EntriesHaveWaiters
<1>1. Inv => EntriesHaveWaiters
  BY DEF Inv, RequestOK, EntriesHaveWaiters
<1> QED
  BY <1>1, Invariance, PTL

\* As long as the ring does not change and fewer calls failed than send_command
\* makes, a waiting thread has a packet of its own under way, or at its door.
THEOREM RollOn == Spec => []SnowballsRollOn
<1>1. Inv => SnowballsRollOn
  <2> SUFFICES ASSUME Inv, NEW r \in Requests, changes = 0, losses < MaxRetries,
                      caller[r] = "waiting"
               PROVE  \/ pending[r].state = "set"
                      \/ \E h \in hops : h.req = r
                      \/ \E a \in arrived : a.req = r
    BY DEF SnowballsRollOn
  <2>1. Busy(r) /\ Rolls(r)
    BY DEF Busy, Inv
  <2> QED
    BY <2>1 DEF Rolls
<1> QED
  BY <1>1, Invariance, PTL
=============================================================================
