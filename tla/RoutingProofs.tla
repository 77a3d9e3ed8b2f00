---------------------------- MODULE RoutingProofs ----------------------------
(***************************************************************************)
(* Lookups on a stable ring, for every ring, every finger table and every  *)
(* target: a lookup walks towards its target and ends at the owner.        *)
(***************************************************************************)
EXTENDS Routing, FiniteSetTheorems, WellFoundedInduction, TLAPS

-----------------------------------------------------------------------------
(* Circular ranges, for every size of the circle                           *)

\* The range from an identifier to itself is the whole circle.
LEMMA WholeCircle ==
  ASSUME NEW a \in Ids, NEW x \in Ids
  PROVE  Between(x, a, a)
  BY SizeAssumption DEF Between, Ids

\* is_between is the comparison of clockwise distances it is meant to be.
LEMMA BetweenIsCloser ==
  ASSUME NEW a \in Ids, NEW b \in Ids, NEW x \in Ids, a # b
  PROVE  Between(x, a, b) <=> x # a /\ Distance(a, x) <= Distance(a, b)
  BY SizeAssumption DEF Between, Distance, Ids

LEMMA DistanceType ==
  ASSUME NEW a \in Ids, NEW x \in Ids
  PROVE  /\ Distance(a, x) \in Ids
         /\ Distance(a, x) = 0 <=> x = a
  BY SizeAssumption DEF Distance, Ids

\* A point of the range short of its end leaves less of it to walk.
LEMMA CloserToEnd ==
  ASSUME NEW a \in Ids, NEW b \in Ids, NEW x \in Ids, a # b, Between(x, a, b)
  PROVE  Distance(x, b) < Distance(a, b)
  BY SizeAssumption DEF Between, Distance, Ids

\* Two identifiers cut the circle into two ranges.
LEMMA OtherArc ==
  ASSUME NEW a \in Ids, NEW b \in Ids, NEW x \in Ids, a # b
  PROVE  Between(x, a, b) <=> ~Between(x, b, a)
  BY SizeAssumption DEF Between, Ids

\* x in (a, b] means that b is the first of x, b one meets from a, or x is b.
LEMMA Rotate ==
  ASSUME NEW a \in Ids, NEW b \in Ids, NEW x \in Ids, a # b, x # a, x # b
  PROVE  Between(x, a, b) <=> Between(b, x, a)
  BY SizeAssumption DEF Between, Ids

\* What lies beyond a point of a range lies in the range.
LEMMA Beyond ==
  ASSUME NEW a \in Ids, NEW b \in Ids, NEW t \in Ids, NEW x \in Ids,
         Between(t, a, b), t # b, Between(x, t, b)
  PROVE  Between(x, a, b)
  BY SizeAssumption DEF Between, Ids

LEMMA EndOfRange ==
  ASSUME NEW a \in Ids, NEW b \in Ids
  PROVE  Between(b, a, b)
  BY SizeAssumption DEF Between, Ids

-----------------------------------------------------------------------------
(* Fingers and nearest nodes                                               *)

LEMMA StartType ==
  ASSUME NEW n \in Ids, NEW i \in Index
  PROVE  Start(n, i) \in Ids
<1>1. n + 2 ^ i \in Int /\ Size \in Nat \ {0}
  BY BitsAssumption, SizeAssumption DEF Ids, Index
<1> QED
  BY <1>1 DEF Start, Ids

\* The backward scan of the finger table has a first hit.
LEMMA GreatestIndex ==
  ASSUME NEW S \in SUBSET Index, S # {}
  PROVE  \E i \in S : \A j \in S : j <= i
<1> DEFINE T == {n \in Nat : \E i \in S : n = Bits - 1 - i}
<1>1. \A i \in S : i \in 0 .. Bits - 1 /\ Bits - 1 - i \in T
  BY BitsAssumption DEF Index
<1>2. T \subseteq Nat /\ T # {}
  BY <1>1
<1>3. \E x \in T : \A y \in T : ~(<<y, x>> \in OpToRel(<, Nat))
  BY <1>2, WFMin, NatLessThanWellFounded
<1>4. PICK x \in T : \A y \in T : ~(y < x)
  BY <1>2, <1>3 DEF OpToRel
<1>5. PICK i \in S : x = Bits - 1 - i
  BY <1>4
<1> QED
  BY <1>1, <1>4, <1>5, BitsAssumption

FingersAreMembers == finger \in [Members -> [Index -> Members]]

\* Whatever its fingers, a node names a member in (itself, target] or its
\* successor.
LEMMA HopNamed ==
  ASSUME FingersAreMembers, NEW n \in Members, NEW t \in Ids
  PROVE  /\ ClosestPreceding(n, t) \in Members
         /\ \/ Between(ClosestPreceding(n, t), n, t)
            \/ ClosestPreceding(n, t) = Successor[n]
         /\ NextHop(n, t) \in Members
         /\ Between(NextHop(n, t), n, t) \/ NextHop(n, t) = Successor[n]
<1> DEFINE short == {i \in Index : Between(finger[n][i], n, t)}
<1> DEFINE pick == CHOOSE i \in short : \A j \in short : j <= i
<1>1. Successor[n] \in Members
  BY RingAssumption
<1>2. CASE short = {}
  BY <1>1, <1>2 DEF ClosestPreceding, NextHop
<1>3. CASE short # {}
  <2>1. pick \in short
    BY <1>3, GreatestIndex
  <2>2. finger[n][pick] \in Members /\ Between(finger[n][pick], n, t)
    BY <2>1 DEF FingersAreMembers
  <2>3. ClosestPreceding(n, t) = finger[n][pick]
    BY <1>3 DEF ClosestPreceding
  <2> HIDE DEF pick
  <2> QED
    BY <1>1, <2>2, <2>3 DEF NextHop
<1> QED
  BY <1>2, <1>3

\* The node named by one that is not the owner is nearer to the target, or it
\* is the owner.
LEMMA HopProgress ==
  ASSUME FingersAreMembers, NEW n \in Members, NEW t \in Ids, ~Owns(n, t)
  PROVE  \/ Owns(NextHop(n, t), t)
         \/ Distance(NextHop(n, t), t) < Distance(n, t)
<1> DEFINE h == NextHop(n, t)
<1>1. n \in Ids /\ h \in Ids /\ h \in Members /\ Predecessor[n] \in Ids
      /\ Predecessor[Successor[n]] = n
  BY HopNamed, RingAssumption
<1>2. n # t
  BY <1>1, EndOfRange DEF Owns
<1>3. CASE Between(h, n, t)
  BY <1>1, <1>2, <1>3, CloserToEnd
<1>4. CASE h = Successor[n] /\ ~Between(h, n, t)
  <2>1. h # n
    BY <1>4 DEF Owns
  <2>2. h # t
    BY <1>1, <1>4, EndOfRange
  <2>3. Between(h, t, n)
    BY <1>1, <1>2, <1>4, OtherArc
  <2>4. Between(t, n, h)
    BY <1>1, <1>2, <2>1, <2>2, <2>3, Rotate
  <2> QED
    BY <1>1, <1>4, <2>4 DEF Owns
<1> QED
  BY <1>3, <1>4, HopNamed

-----------------------------------------------------------------------------
\* A lookup that has asked somebody knows a node that is nearer to the target
\* than everybody it has asked.
Walking(l) ==
  l.phase = "asking" =>
    /\ l.hop \in Members
    /\ \A v \in l.visited : /\ ~Owns(v, l.target)
                            /\ \/ Owns(l.hop, l.target)
                               \/ Distance(l.hop, l.target) < Distance(v, l.target)

\* A lookup that has found somebody has found the owner of its target.
Arrived(l) == l.phase = "found" => l.hop \in Members /\ Owns(l.hop, l.target)

\* The worker looks for the start of the finger it has picked.
AimsAtStart(th, l) ==
  th[2] = "worker" /\ l.phase # "idle" => l.target = Start(th[1], l.index)

LookupOK(th, l) == /\ l \in Lookups
                   /\ l.phase # "loop"
                   /\ Walking(l)
                   /\ Arrived(l)
                   /\ AimsAtStart(th, l)

Inv == /\ FingersAreMembers
       /\ lookup \in [Threads -> Lookups]
       /\ \A th \in Threads : LookupOK(th, lookup[th])

LEMMA IdleOK ==
  ASSUME NEW th \in Threads
  PROVE  LookupOK(th, Idle(th))
<1>1. th[1] \in Ids
  BY ThreadsAssumption, RingAssumption
<1>2. 0 \in Index
  BY BitsAssumption DEF Index
<1>3. Idle(th) \in Lookups
  BY <1>1, <1>2 DEF Idle, Lookups
<1> QED
  BY <1>3 DEF LookupOK, Walking, Arrived, AimsAtStart, Idle

LEMMA InitInv == Init => Inv
<1> SUFFICES ASSUME Init
             PROVE  Inv
  OBVIOUS
<1>1. FingersAreMembers
  BY RingAssumption DEF Init, FingersAreMembers
<1>2. \A th \in Threads : LookupOK(th, lookup[th])
  BY IdleOK DEF Init
<1>3. lookup \in [Threads -> Lookups]
  BY <1>2 DEF Init, LookupOK
<1> QED
  BY <1>1, <1>2, <1>3 DEF Inv

\* One thread changes its lookup, to one that is in order.
LEMMA OneLookup ==
  ASSUME Inv, FingersAreMembers', NEW th \in Threads, NEW l, LookupOK(th, l),
         lookup' = [lookup EXCEPT ![th] = l]
  PROVE  Inv'
<1>1. lookup' \in [Threads -> Lookups]
  BY DEF Inv, LookupOK
<1>2. \A o \in Threads : lookup'[o] = IF o = th THEN l ELSE lookup[o]
  BY DEF Inv
<1>3. \A o \in Threads : LookupOK(o, lookup'[o])
  BY <1>2 DEF Inv
<1>4. (\A o \in Threads : LookupOK(o, lookup[o]))'
  BY <1>3 DEF LookupOK, Walking, Arrived, AimsAtStart, Owns, Start
<1> QED
  BY <1>1, <1>4 DEF Inv

LEMMA BeginKeeps ==
  ASSUME Inv, NEW th \in Threads, th[1] \in Members, NEW t \in Ids, NEW i \in Index,
         th[2] = "worker" => t = Start(th[1], i), Begin(th, t, i)
  PROVE  Inv'
<1> DEFINE found == [phase |-> "found", target |-> t, hop |-> th[1],
                     visited |-> {}, index |-> i]
<1> DEFINE asking == [phase |-> "asking", target |-> t,
                      hop |-> ClosestPreceding(th[1], t),
                      visited |-> {}, index |-> i]
<1>1. FingersAreMembers /\ FingersAreMembers'
  BY DEF Inv, FingersAreMembers, Begin
<1>2. th[1] \in Ids /\ ClosestPreceding(th[1], t) \in Members
      /\ ClosestPreceding(th[1], t) \in Ids
  BY <1>1, HopNamed, RingAssumption
<1>3. CASE Owns(th[1], t)
  <2>1. LookupOK(th, found)
    BY <1>2, <1>3 DEF LookupOK, Lookups, Outcomes, Walking, Arrived, AimsAtStart
  <2>2. lookup' = [lookup EXCEPT ![th] = found]
    BY <1>3 DEF Begin
  <2> HIDE DEF found
  <2> QED
    BY <1>1, <2>1, <2>2, OneLookup
<1>4. CASE ~Owns(th[1], t)
  <2>1. LookupOK(th, asking)
    BY <1>2 DEF LookupOK, Lookups, Outcomes, Walking, Arrived, AimsAtStart
  <2>2. lookup' = [lookup EXCEPT ![th] = asking]
    BY <1>4 DEF Begin
  <2> HIDE DEF asking
  <2> QED
    BY <1>1, <2>1, <2>2, OneLookup
<1> QED
  BY <1>3, <1>4

\* A hop that is asked has not been asked before, and names one that has not.
LEMMA FreshHop ==
  ASSUME NEW l \in Lookups, Walking(l), l.phase = "asking"
  PROVE  l.hop \notin l.visited
<1> SUFFICES ASSUME l.hop \in l.visited
             PROVE  FALSE
  OBVIOUS
<1>1. ~Owns(l.hop, l.target) /\ Distance(l.hop, l.target) < Distance(l.hop, l.target)
  BY DEF Walking
<1>2. Distance(l.hop, l.target) \in Ids
  BY DistanceType DEF Lookups
<1> QED
  BY <1>1, <1>2 DEF Ids

\* A hop that is not the owner hands the walk on.
LEMMA HandedOn ==
  ASSUME FingersAreMembers, NEW l \in Lookups, Walking(l), l.phase = "asking",
         ~Owns(l.hop, l.target)
  PROVE  \A v \in l.visited \cup {l.hop} :
           /\ ~Owns(v, l.target)
           /\ \/ Owns(NextHop(l.hop, l.target), l.target)
              \/ Distance(NextHop(l.hop, l.target), l.target) < Distance(v, l.target)
<1> DEFINE next == NextHop(l.hop, l.target)
<1>1. l.hop \in Members /\ l.target \in Ids /\ l.visited \subseteq Members
  BY DEF Lookups, Walking
<1>2. next \in Members
  BY <1>1, HopNamed
<1>3. \/ Owns(next, l.target)
      \/ Distance(next, l.target) < Distance(l.hop, l.target)
  BY <1>1, HopProgress
<1>4. \A v \in Members : Distance(v, l.target) \in Int
  BY <1>1, DistanceType, RingAssumption DEF Ids
<1> HIDE DEF next
<1>5. ASSUME NEW v \in l.visited
      PROVE  /\ ~Owns(v, l.target)
             /\ Owns(next, l.target) \/ Distance(next, l.target) < Distance(v, l.target)
  <2>1. ~Owns(v, l.target) /\ Distance(l.hop, l.target) < Distance(v, l.target)
    BY DEF Walking
  <2>2. v \in Members
    BY <1>1
  <2> QED
    BY <1>1, <1>2, <1>3, <1>4, <2>1, <2>2
<1> QED
  BY <1>3, <1>5 DEF next

LEMMA HopAnswersKeeps ==
  ASSUME Inv, NEW th \in Threads, HopAnswers(th)
  PROVE  Inv'
<1> DEFINE l == lookup[th]
<1> DEFINE asked == l.visited \cup {l.hop}
<1> DEFINE found == [l EXCEPT !.phase = "found", !.visited = asked]
<1> DEFINE passed(p) == [phase |-> p, target |-> l.target,
                         hop |-> NextHop(l.hop, l.target),
                         visited |-> asked, index |-> l.index]
<1>1. FingersAreMembers /\ FingersAreMembers'
  BY DEF Inv, FingersAreMembers, HopAnswers
<1>2. l \in Lookups /\ Walking(l) /\ l.phase = "asking" /\ AimsAtStart(th, l)
  BY DEF Inv, LookupOK, HopAnswers
<1>3. l.hop \notin l.visited
  BY <1>2, FreshHop
<1>4. l.hop \in Members /\ asked \subseteq Members /\ l.target \in Ids
  BY <1>2 DEF Walking, Lookups
<1>5. CASE Owns(l.hop, l.target)
  <2>1. LookupOK(th, found)
    BY <1>2, <1>4, <1>5
    DEF LookupOK, Lookups, Outcomes, Walking, Arrived, AimsAtStart
  <2>2. lookup' = [lookup EXCEPT ![th] = found]
    BY <1>3, <1>5 DEF HopAnswers
  <2> HIDE DEF found
  <2> QED
    BY <1>1, <2>1, <2>2, OneLookup
<1>6. CASE ~Owns(l.hop, l.target)
  <2> DEFINE next == NextHop(l.hop, l.target)
  <2>1. next \in Members /\ next \in Ids
    BY <1>1, <1>4, HopNamed, RingAssumption
  <2>2. \A v \in asked : /\ ~Owns(v, l.target)
                         /\ \/ Owns(next, l.target)
                            \/ Distance(next, l.target) < Distance(v, l.target)
    BY <1>1, <1>2, <1>6, HandedOn
  <2>3. PICK p \in {"asking", "toofar"} : lookup' = [lookup EXCEPT ![th] = passed(p)]
    BY <1>2, <1>3, <1>6 DEF HopAnswers
  <2>4. passed(p) = [phase |-> p, target |-> l.target, hop |-> next,
                     visited |-> asked, index |-> l.index]
    OBVIOUS
  <2> HIDE DEF next, passed, asked
  <2>5. passed(p) \in Lookups
    BY <1>2, <1>4, <2>1, <2>4 DEF Lookups, Outcomes
  <2>6. Walking(passed(p))
    BY <2>1, <2>2, <2>4 DEF Walking
  <2>7. LookupOK(th, passed(p))
    BY <1>2, <2>4, <2>5, <2>6 DEF LookupOK, Arrived, AimsAtStart
  <2> QED
    BY <1>1, <2>3, <2>7, OneLookup
<1> QED
  BY <1>5, <1>6

\* A call that fails and a result that is taken leave no walk behind.
LEMMA EndKeeps ==
  ASSUME Inv, NEW th \in Threads, HopFails(th) \/ Return(th)
  PROVE  Inv'
<1>1. FingersAreMembers'
  BY DEF Inv, FingersAreMembers, HopFails, Return
<1>2. CASE HopFails(th)
  <2> DEFINE l == [lookup[th] EXCEPT !.phase = "failed"]
  <2>1. lookup[th] \in Lookups /\ LookupOK(th, lookup[th])
        /\ lookup[th].phase = "asking" /\ lookup' = [lookup EXCEPT ![th] = l]
    BY <1>2 DEF Inv, LookupOK, HopFails
  <2>2. LookupOK(th, l)
    BY <2>1 DEF LookupOK, Lookups, Outcomes, Walking, Arrived, AimsAtStart
  <2> HIDE DEF l
  <2> QED
    BY <1>1, <2>1, <2>2, OneLookup
<1>3. CASE Return(th)
  BY <1>1, <1>3, IdleOK, OneLookup DEF Return
<1> QED
  BY <1>2, <1>3

LEMMA UpdateKeeps ==
  ASSUME Inv, NEW th \in Threads, UpdateFingers(th)
  PROVE  Inv'
<1> DEFINE l == lookup[th]
<1>1. l.hop \in Members
  BY DEF Inv, LookupOK, Arrived, UpdateFingers
<1>2. FingersAreMembers'
  BY <1>1 DEF Inv, FingersAreMembers, UpdateFingers
<1> QED
  BY <1>2, IdleOK, OneLookup DEF UpdateFingers

\* A joining node starts at any member.
LEMMA JoinerKeeps ==
  ASSUME Inv, NEW th \in Threads, NEW entry \in Members, JoinerBegins(th, entry)
  PROVE  Inv'
<1> DEFINE l == [phase |-> "asking", target |-> th[1], hop |-> entry,
                 visited |-> {}, index |-> 0]
<1>1. FingersAreMembers'
  BY DEF Inv, FingersAreMembers, JoinerBegins
<1>2. th[1] \in Ids /\ th[2] = "joiner" /\ entry \in Ids /\ 0 \in Index
  BY ThreadsAssumption, RingAssumption, BitsAssumption DEF Index, JoinerBegins
<1>3. LookupOK(th, l)
  BY <1>2 DEF LookupOK, Lookups, Outcomes, Walking, Arrived, AimsAtStart
<1>4. lookup' = [lookup EXCEPT ![th] = l]
  BY DEF JoinerBegins
<1> HIDE DEF l
<1> QED
  BY <1>1, <1>3, <1>4, OneLookup

LEMMA NextInv == Inv /\ [Next]_vars => Inv'
<1> SUFFICES ASSUME Inv, [Next]_vars
             PROVE  Inv'
  OBVIOUS
<1>1. CASE UNCHANGED vars
  BY <1>1 DEF vars, Inv, FingersAreMembers, LookupOK, Walking, Arrived,
              AimsAtStart, Owns, Start
<1>2. CASE Next
  <2>1. PICK th \in Threads :
          \/ \E t \in Ids : ClientBegins(th, t)
          \/ \E i \in RandomIndex : WorkerBegins(th, i)
          \/ \E entry \in Members : JoinerBegins(th, entry)
          \/ HopAnswers(th) \/ HopFails(th) \/ Return(th) \/ UpdateFingers(th)
    BY <1>2 DEF Next
  <2>2. th[2] \in {"client", "worker"} => th[1] \in Members /\ th[1] \in Ids
    BY ThreadsAssumption, RingAssumption
  <2>3. ASSUME NEW t \in Ids, ClientBegins(th, t)
        PROVE  Inv'
    <3>1. 0 \in Index
      BY BitsAssumption DEF Index
    <3> QED
      BY <2>2, <2>3, <3>1, BeginKeeps DEF ClientBegins
  <2>4. ASSUME NEW i \in RandomIndex, WorkerBegins(th, i)
        PROVE  Inv'
    BY <2>2, <2>4, StartType, BeginKeeps DEF WorkerBegins, RandomIndex
  <2> QED
    BY <2>1, <2>3, <2>4, JoinerKeeps, HopAnswersKeeps, EndKeeps, UpdateKeeps
<1> QED
  BY <1>1, <1>2

THEOREM Invariance == Spec => []Inv
  BY InitInv, NextInv, PTL DEF Spec

\* The tables point to members only and the lookups are what they should be.
THEOREM TypeCorrect == Spec => []TypeOK
<1>1. Inv => TypeOK
  BY DEF Inv, FingersAreMembers, TypeOK
<1> QED
  BY <1>1, Invariance, PTL

\* "Routing Loop" is unreachable on a stable ring, whatever the fingers.
THEOREM LoopFree == Spec => []NoRoutingLoop
<1>1. Inv => NoRoutingLoop
  BY DEF Inv, LookupOK, NoRoutingLoop
<1> QED
  BY <1>1, Invariance, PTL

-----------------------------------------------------------------------------
\* Only the answer of a hop adds to the hops asked, or ends a lookup for their
\* number.
LEMMA OnlyAnswersCount ==
  ASSUME lookup \in [Threads -> Lookups], NEW o \in Threads, Next, ~HopAnswers(o)
  PROVE  /\ lookup'[o].phase = "toofar" => lookup[o].phase = "toofar"
         /\ lookup[o].phase = "asking" => lookup'[o].visited = lookup[o].visited
<1>1. PICK th \in Threads :
        \/ \E t \in Ids : ClientBegins(th, t)
        \/ \E i \in RandomIndex : WorkerBegins(th, i)
        \/ \E entry \in Members : JoinerBegins(th, entry)
        \/ HopAnswers(th) \/ HopFails(th) \/ Return(th) \/ UpdateFingers(th)
  BY DEF Next
<1>2. CASE th # o
  BY <1>1, <1>2 DEF ClientBegins, WorkerBegins, Begin, JoinerBegins, HopAnswers,
                    HopFails, Return, UpdateFingers
<1>3. CASE th = o
  <2>1. ASSUME NEW t, NEW i, Begin(o, t, i)
        PROVE  lookup[o].phase = "idle" /\ lookup'[o].phase \in {"found", "asking"}
    BY <2>1 DEF Begin
  <2>2. ASSUME NEW entry, JoinerBegins(o, entry)
        PROVE  lookup[o].phase = "idle" /\ lookup'[o].phase = "asking"
    BY <2>2 DEF JoinerBegins
  <2>3. CASE HopFails(o)
    BY <2>3 DEF HopFails, Lookups
  <2>4. CASE Return(o) \/ UpdateFingers(o)
    <3>1. lookup'[o] = Idle(o) /\ lookup[o].phase \in Outcomes
      BY <2>4 DEF Return, UpdateFingers, Outcomes
    <3> QED
      BY <3>1 DEF Idle, Outcomes
  <2> QED
    BY <1>1, <1>3, <2>1, <2>2, <2>3, <2>4 DEF ClientBegins, WorkerBegins
<1> QED
  BY <1>2, <1>3

\* Every hop is nearer to the target than the last, or is its owner.
THEOREM EveryHopApproaches == Spec => HopsApproach
<1>1. Inv /\ [Next]_vars =>
        [\A th \in Threads :
           LET l == lookup[th]
           IN  (l.phase = "asking" /\ lookup'[th].visited # l.visited) =>
                 \/ Owns(lookup'[th].hop, l.target)
                 \/ Distance(lookup'[th].hop, l.target) < Distance(l.hop, l.target)]_vars
  <2> SUFFICES ASSUME Inv, Next, NEW o \in Threads, lookup[o].phase = "asking",
                      lookup'[o].visited # lookup[o].visited
               PROVE  \/ Owns(lookup'[o].hop, lookup[o].target)
                      \/ Distance(lookup'[o].hop, lookup[o].target)
                           < Distance(lookup[o].hop, lookup[o].target)
    BY DEF vars
  <2>1. lookup \in [Threads -> Lookups] /\ FingersAreMembers /\ Walking(lookup[o])
    BY DEF Inv, LookupOK
  <2>2. HopAnswers(o)
    BY <2>1, OnlyAnswersCount
  <2> DEFINE l == lookup[o]
  <2>3. l.hop \notin l.visited /\ l \in Lookups
    BY <2>1, FreshHop
  <2>4. CASE Owns(l.hop, l.target)
    <3>1. lookup'[o].hop = l.hop
      BY <2>1, <2>2, <2>3, <2>4 DEF HopAnswers, Lookups
    <3> QED
      BY <2>4, <3>1
  <2>5. CASE ~Owns(l.hop, l.target)
    <3>1. lookup'[o].hop = NextHop(l.hop, l.target)
      BY <2>1, <2>2, <2>3, <2>5 DEF HopAnswers
    <3>2. l.hop \in Members /\ l.target \in Ids
      BY <2>1, <2>3 DEF Walking, Lookups
    <3> QED
      BY <2>1, <2>5, <3>1, <3>2, HopProgress
  <2> QED
    BY <2>4, <2>5
<1> QED
  BY <1>1, Invariance, PTL DEF Spec, HopsApproach

-----------------------------------------------------------------------------
(* Repaired fingers halve the way                                          *)

\* One turn of the circle at most: the remainder is a subtraction.
LEMMA Wrap ==
  ASSUME NEW a \in Ids, NEW k \in Nat, k < Size
  PROVE  /\ (a + k) % Size \in Ids
         /\ Distance(a, (a + k) % Size) = k
<1>1. Size \in Nat \ {0} /\ a \in 0 .. Size - 1
  BY SizeAssumption DEF Ids
<1>2. CASE a + k < Size
  <2>1. (a + k) % Size = a + k
    BY <1>1, <1>2
  <2> QED
    BY <1>1, <1>2, <2>1 DEF Distance, Ids
<1>3. CASE a + k >= Size
  <2>1. (a + k) % Size = a + k - Size
    BY <1>1, <1>3
  <2> QED
    BY <1>1, <1>3, <2>1 DEF Distance, Ids
<1> QED
  BY <1>1, <1>2, <1>3

\* Between a node and its successor there is nobody.
LEMMA NobodyBetween ==
  ASSUME NEW f \in Members, NEW o \in Members, NEW x \in Ids,
         Between(x, Predecessor[f], f)
  PROVE  Distance(x, f) <= Distance(x, o)
<1>1. f \in Ids /\ o \in Ids /\ Predecessor[f] \in Ids
  BY RingAssumption
<1>2. Between(f, Predecessor[f], o)
  BY RingAssumption
<1> QED
  BY <1>1, <1>2, SizeAssumption DEF Between, Distance, Ids

\* Where two members differ, no member is its own successor.
LEMMA TwoMembers ==
  ASSUME NEW n \in Members, NEW o \in Members, n # o
  PROVE  Successor[o] # o
<1>1. n \in Ids /\ o \in Ids /\ Between(Successor[o], o, n)
  BY RingAssumption
<1> QED
  BY <1>1, SizeAssumption DEF Between, Ids

\* An identifier has one owner.
LEMMA OneOwner ==
  ASSUME NEW n \in Members, NEW o \in Members, NEW t \in Ids, Owns(n, t), Owns(o, t)
  PROVE  n = o
<1> SUFFICES ASSUME n # o
             PROVE  FALSE
  OBVIOUS
<1>1. n \in Ids /\ o \in Ids
  BY RingAssumption
<1>2. Between(t, Predecessor[n], n) /\ Between(t, Predecessor[o], o)
  BY TwoMembers DEF Owns
<1>3. Distance(t, n) <= Distance(t, o) /\ Distance(t, o) <= Distance(t, n)
  BY <1>2, NobodyBetween
<1> QED
  BY <1>1, <1>3, SizeAssumption DEF Distance, Ids

\* With nobody between p and o, and t in (p, o], what lies in (n, t] is o or
\* lies in (n, p].
LEMMA ShortOfOwner ==
  ASSUME NEW n \in Ids, NEW p \in Ids, NEW o \in Ids, NEW t \in Ids, NEW c \in Ids,
         n # o, n # t, p # o, Between(t, p, o), Between(o, p, n), Between(o, p, c),
         Between(c, n, t)
  PROVE  c = o \/ (n # p /\ Between(c, n, p))
  BY SizeAssumption DEF Between, Ids

LEMMA ShortOfTarget ==
  ASSUME NEW n \in Ids, NEW p \in Ids, NEW o \in Ids, NEW t \in Ids,
         n # o, n # t, n # p, p # o, Between(t, p, o), Between(o, p, n)
  PROVE  ~Between(t, n, p) /\ Between(p, n, t)
  BY SizeAssumption DEF Between, Ids

\* The longest of the jumps 2^i that stay within a distance covers more than
\* half of it.
LEMMA LongestPower ==
  ASSUME NEW d \in Nat, 1 <= d, d < Size
  PROVE  \E i \in Index : /\ 2 ^ i <= d
                          /\ d < 2 * 2 ^ i
                          /\ \A j \in Index : j > i => d < 2 ^ j
<1> DEFINE S == {i \in Index : 2 ^ i <= d}
<1>1. 0 \in S
  BY BitsAssumption DEF Index
<1>2. PICK i \in S : \A j \in S : j <= i
  <2>1. S \subseteq Index /\ S # {}
    BY <1>1
  <2> HIDE DEF S
  <2> QED
    BY <2>1, GreatestIndex
<1>3. i \in Index /\ 2 ^ i <= d /\ i \in Nat /\ i <= Bits - 1 /\ Bits \in Nat
  BY <1>2, BitsAssumption DEF Index
<1>4. \A j \in Index : j \in Nat /\ 2 ^ j \in Nat
  BY BitsAssumption DEF Index
<1>5. \A j \in Index : j > i => d < 2 ^ j
  <2> SUFFICES ASSUME NEW j \in Index, j > i, ~(d < 2 ^ j)
               PROVE  FALSE
    OBVIOUS
  <2>1. 2 ^ j <= d
    BY <1>4
  <2>2. j \in S
    BY <2>1
  <2> QED
    BY <1>2, <1>3, <1>4, <2>2
<1>6. d < 2 ^ (i + 1)
  <2>1. CASE i = Bits - 1
    <3>1. i + 1 = Bits
      BY <1>3, <2>1
    <3> QED
      BY <3>1, BitsAssumption
  <2>2. CASE i # Bits - 1
    <3>1. i + 1 \in Index /\ i + 1 > i
      BY <1>3, <2>2 DEF Index
    <3> QED
      BY <1>5, <3>1
  <2> QED
    BY <2>1, <2>2
<1>7. 2 ^ (i + 1) = 2 * 2 ^ i
  BY <1>3, BitsAssumption DEF Index
<1> QED
  BY <1>3, <1>5, <1>6, <1>7

\* A node whose fingers are right names the owner of the target, or a node in
\* the second half of the way to the owner's predecessor.
LEMMA HopHalves ==
  ASSUME FingersAreMembers, NEW n \in Members, NEW owner \in Members, NEW t \in Ids,
         FingersRight(n), ~Owns(n, t), Owns(owner, t)
  PROVE  \/ NextHop(n, t) = owner
         \/ 2 * Distance(NextHop(n, t), Predecessor[owner])
              < Distance(n, Predecessor[owner])
<1> DEFINE p == Predecessor[owner]
<1>1. n \in Ids /\ owner \in Ids /\ p \in Members /\ p \in Ids
      /\ Successor[p] = owner /\ Predecessor[n] \in Ids
  BY RingAssumption
<1>2. n # owner /\ n # t
  BY <1>1, EndOfRange DEF Owns
<1>3. Between(t, p, owner) /\ p # owner
  BY <1>1, <1>2, TwoMembers DEF Owns
<1>4. \A o \in Members : o \in Ids /\ Between(owner, p, o)
  BY <1>1, RingAssumption
\* A member in (n, t] is the owner or lies in (n, p].
<1> HIDE DEF p
<1>5. ASSUME NEW c \in Members, Between(c, n, t)
      PROVE  c = owner \/ (n # p /\ Between(c, n, p))
  BY <1>1, <1>2, <1>3, <1>4, <1>5, ShortOfOwner
<1>6. CASE n = p
  BY <1>1, <1>2, <1>5, <1>6, HopNamed DEF p
<1>7. CASE n # p
  <2> DEFINE d == Distance(n, p)
  <2>1. d \in Nat /\ 1 <= d /\ d < Size
    <3>1. Distance(n, p) \in Ids /\ Distance(n, p) # 0
      BY <1>1, <1>7, DistanceType
    <3> QED
      BY <3>1, SizeAssumption DEF Ids
  <2> HIDE DEF d
  <2>2. PICK i \in Index : /\ 2 ^ i <= d
                           /\ d < 2 * 2 ^ i
                           /\ \A j \in Index : j > i => d < 2 ^ j
    BY <2>1, LongestPower
  <2>3. \A j \in Index : 2 ^ j \in Nat /\ j \in Nat /\ 2 ^ j < Size
    BY BitsAssumption, SizeAssumption DEF Index
  <2>4. \A j \in Index : /\ Start(n, j) \in Ids
                         /\ Distance(n, Start(n, j)) = 2 ^ j
    BY <1>1, <2>3, Wrap DEF Start
  <2>5. \A j \in Index : /\ finger[n][j] \in Members
                         /\ \A o \in Members : Distance(Start(n, j), finger[n][j])
                                                 <= Distance(Start(n, j), o)
    <3> SUFFICES ASSUME NEW j \in Index
                 PROVE  /\ finger[n][j] \in Members
                        /\ \A o \in Members : Distance(Start(n, j), finger[n][j])
                                                <= Distance(Start(n, j), o)
      OBVIOUS
    <3>1. finger[n][j] \in Members /\ Owns(finger[n][j], Start(n, j))
      BY DEF FingersAreMembers, FingersRight
    <3>2. Successor[finger[n][j]] # finger[n][j]
      BY <1>2, <3>1, TwoMembers
    <3> QED
      BY <2>4, <3>1, <3>2, NobodyBetween DEF Owns
\* Finger i lies in the second half of (n, p]; a longer one jumps past p.
  <2>6. /\ finger[n][i] \in Ids
        /\ Between(finger[n][i], n, t)
        /\ 2 ^ i <= Distance(n, finger[n][i])
    <3>1. /\ finger[n][i] \in Ids /\ Start(n, i) \in Ids
          /\ Distance(n, Start(n, i)) = 2 ^ i
          /\ Distance(Start(n, i), finger[n][i]) <= Distance(Start(n, i), p)
      BY <1>1, <1>4, <2>4, <2>5
    <3>2. Distance(n, Start(n, i)) <= Distance(n, p) /\ 1 <= 2 ^ i
      BY <2>2, <3>1, BitsAssumption DEF d, Index
    <3>3. /\ Between(finger[n][i], n, p)
          /\ Distance(n, Start(n, i)) <= Distance(n, finger[n][i])
      BY <1>1, <1>7, <3>1, <3>2, SizeAssumption DEF Between, Distance, Ids
    <3>4. ~Between(t, n, p) /\ Between(p, n, t)
      BY <1>1, <1>2, <1>3, <1>4, <1>7, ShortOfTarget
    <3>5. Between(finger[n][i], n, t)
      BY <1>1, <1>2, <1>7, <3>1, <3>3, <3>4, SizeAssumption DEF Between, Ids
    <3> QED
      BY <3>1, <3>3, <3>5
  <2>7. ASSUME NEW k \in Index, k > i
        PROVE  ~Between(finger[n][k], n, p)
    <3>1. /\ finger[n][k] \in Ids /\ Start(n, k) \in Ids
          /\ Distance(Start(n, k), finger[n][k]) <= Distance(Start(n, k), n)
      BY <1>1, <1>4, <2>4, <2>5
    <3>2. Distance(n, p) < Distance(n, Start(n, k))
      BY <2>2, <2>4, <2>7 DEF d
    <3> QED
      BY <1>1, <1>7, <3>1, <3>2, SizeAssumption DEF Between, Distance, Ids
  <2> DEFINE short == {k \in Index : Between(finger[n][k], n, t)}
  <2> DEFINE best == CHOOSE k \in short : \A j \in short : j <= k
  <2>8. best \in short /\ i <= best /\ ClosestPreceding(n, t) = finger[n][best]
    <3>1. i \in short
      BY <2>6
    <3>2. best \in short /\ \A j \in short : j <= best
      BY <3>1, GreatestIndex
    <3> QED
      BY <3>1, <3>2 DEF ClosestPreceding
  <2> HIDE DEF best
  <2> DEFINE c == finger[n][best]
  <2>9. c \in Members /\ Between(c, n, t) /\ NextHop(n, t) = c
    <3>1. c \in Members /\ Between(c, n, t)
      BY <2>5, <2>8
    <3>2. c # n
      BY <1>1, <1>2, <3>1, SizeAssumption DEF Between, Ids
    <3> QED
      BY <2>8, <3>1, <3>2 DEF NextHop
  <2>10. CASE c = owner
    BY <2>9, <2>10
  <2>11. CASE c # owner
    <3>1. Between(c, n, p) /\ c \in Ids
      BY <1>4, <1>5, <2>9, <2>11
    <3>2. best = i
      BY <2>2, <2>3, <2>7, <2>8, <3>1
    <3>3. 2 ^ i <= Distance(n, c) /\ 2 ^ i \in Nat
      BY <2>3, <2>6, <3>2
    <3>4. Distance(c, p) = Distance(n, p) - Distance(n, c)
      BY <1>1, <1>7, <3>1, SizeAssumption DEF Between, Distance, Ids
    <3>5. Distance(n, p) < 2 * 2 ^ i /\ Distance(n, p) \in Nat
          /\ Distance(n, c) \in Nat
      <4>1. Distance(n, p) \in Ids /\ Distance(n, c) \in Ids
        BY <1>1, <3>1, DistanceType
      <4>2. Distance(n, p) \in Nat /\ Distance(n, c) \in Nat
        BY <4>1, SizeAssumption DEF Ids
      <4> QED
        BY <2>2, <4>2 DEF d
    <3>6. 2 * Distance(c, p) < Distance(n, p)
      <4> DEFINE power == 2 ^ i
      <4>1. power \in Nat /\ power <= Distance(n, c) /\ Distance(n, p) < 2 * power
        BY <3>3, <3>5
      <4> HIDE DEF power
      <4> QED
        BY <3>4, <3>5, <4>1
    <3> QED
      BY <2>9, <3>6 DEF p
  <2> QED
    BY <2>10, <2>11
<1> QED
  BY <1>6, <1>7

\* A hop with repaired fingers names the owner of the target, or more than
\* halves the way to the owner's predecessor, whatever the ring and the target.
THEOREM RepairedHopsHalve == Spec => HopsHalve
<1>1. Inv /\ [Next]_vars =>
        [\A th \in Threads, owner \in Members :
           LET l == lookup[th]
               left(hop) == Distance(hop, Predecessor[owner])
           IN  (/\ l.phase = "asking"
                /\ lookup'[th].visited # l.visited
                /\ FingersRight(l.hop)
                /\ Owns(owner, l.target)) =>
                 \/ lookup'[th].hop = owner
                 \/ 2 * left(lookup'[th].hop) < left(l.hop)]_vars
  <2> SUFFICES ASSUME Inv, Next, NEW th \in Threads, NEW owner \in Members,
                      lookup[th].phase = "asking",
                      lookup'[th].visited # lookup[th].visited,
                      FingersRight(lookup[th].hop),
                      Owns(owner, lookup[th].target)
               PROVE  \/ lookup'[th].hop = owner
                      \/ 2 * Distance(lookup'[th].hop, Predecessor[owner])
                           < Distance(lookup[th].hop, Predecessor[owner])
    BY DEF vars
  <2> DEFINE l == lookup[th]
  <2>1. lookup \in [Threads -> Lookups] /\ FingersAreMembers /\ Walking(l)
    BY DEF Inv, LookupOK
  <2>2. HopAnswers(th)
    BY <2>1, OnlyAnswersCount
  <2>3. l.hop \notin l.visited /\ l \in Lookups /\ l.hop \in Members /\ l.target \in Ids
    BY <2>1, FreshHop DEF Walking, Lookups
  <2>4. CASE Owns(l.hop, l.target)
    <3>1. lookup'[th].hop = l.hop
      BY <2>1, <2>2, <2>3, <2>4 DEF HopAnswers, Lookups
    <3>2. l.hop = owner
      BY <2>3, <2>4, OneOwner
    <3> QED
      BY <3>1, <3>2
  <2>5. CASE ~Owns(l.hop, l.target)
    <3>1. lookup'[th].hop = NextHop(l.hop, l.target)
      BY <2>1, <2>2, <2>3, <2>5 DEF HopAnswers
    <3> QED
      BY <2>1, <2>3, <2>5, <3>1, HopHalves
  <2> QED
    BY <2>4, <2>5
<1> QED
  BY <1>1, Invariance, PTL DEF Spec, HopsHalve

-----------------------------------------------------------------------------
\* No node sits exactly at a finger start.
GeneralPosition == \A n \in Members, i \in Index : Start(n, i) \notin Members

\* What the batch fills in are fingers the node is the owner of.
LEMMA BatchOwned ==
  ASSUME GeneralPosition, NEW n \in Members, NEW i \in Index, NEW j \in Index,
         NEW node \in Members, Owns(node, Start(n, i)), j \in Cascade(n, i, node)
  PROVE  Owns(node, Start(n, j))
<1> DEFINE o == (j - i) % Bits
<1>1. n \in Ids /\ node \in Ids /\ Predecessor[node] \in Ids
  BY RingAssumption
<1>2. Start(n, i) \in Ids /\ Start(n, j) \in Ids
  BY <1>1, StartType
<1>3. Start(n, i) # node
  BY DEF GeneralPosition
<1>4. CASE j = i
  BY <1>4
<1>5. CASE j # i
  <2>1. o \in 1 .. o /\ (i + o) % Bits = j
    BY <1>5, BitsAssumption DEF Index
  <2>2. Between(Start(n, j), Start(n, i), node) \/ Start(n, j) = node
    BY <2>1 DEF Cascade
  <2>3. CASE Successor[node] = node
    BY <2>3 DEF Owns
  <2>4. CASE Between(Start(n, i), Predecessor[node], node)
    BY <1>1, <1>2, <1>3, <2>2, <2>4, Beyond, EndOfRange DEF Owns
  <2> QED
    BY <2>3, <2>4 DEF Owns
<1> QED
  BY <1>4, <1>5

\* Without an exact hit, every finger that moves, by lookup or by batch,
\* moves to the true successor of its start.
THEOREM FingersAreSuccessors ==
  ASSUME GeneralPosition
  PROVE  Spec => FingersMoveToOwners
<1>1. Inv /\ [Next]_vars =>
        [\A n \in Members, i \in Index :
           finger'[n][i] # finger[n][i] => Owns(finger'[n][i], Start(n, i))]_vars
  <2> SUFFICES ASSUME Inv, Next, NEW n \in Members, NEW j \in Index,
                      finger'[n][j] # finger[n][j]
               PROVE  Owns(finger'[n][j], Start(n, j))
    BY DEF vars
  <2>1. PICK th \in Threads : UpdateFingers(th)
    BY DEF Next, ClientBegins, WorkerBegins, Begin, JoinerBegins, HopAnswers,
           HopFails, Return
  <2> DEFINE l == lookup[th]
  <2>2. FingersAreMembers /\ l \in Lookups /\ Arrived(l) /\ AimsAtStart(th, l)
    BY DEF Inv, LookupOK
  <2>3. n = th[1] /\ j \in Cascade(n, l.index, l.hop) /\ finger'[n][j] = l.hop
    BY <2>1, <2>2 DEF UpdateFingers, FingersAreMembers
  <2>4. l.hop \in Members /\ Owns(l.hop, Start(n, l.index)) /\ l.index \in Index
    BY <2>1, <2>2, <2>3 DEF UpdateFingers, Arrived, AimsAtStart, Lookups
  <2> QED
    BY <2>3, <2>4, BatchOwned
<1> QED
  BY <1>1, Invariance, PTL DEF Spec, FingersMoveToOwners
=============================================================================
