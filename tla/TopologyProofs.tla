--------------------------- MODULE TopologyProofs ---------------------------
(***************************************************************************)
(* Topology keeps its types, nobody learns of a node that has no data yet, *)
(* every identifier is claimed by a node that has its data, and joins      *)
(* between different neighbours never settle into a wrong ring.            *)
(***************************************************************************)
EXTENDS Topology, FiniteSetTheorems, WellFoundedInduction, SequenceTheorems, TLAPS

NotOut(x) == stage[x] # "out"

\* n may know of x.
Known(x, n) == x = n \/ NotOut(x)

\* A list that n may have come to.
Heard(n, l) == \A i \in DOMAIN l : Known(l[i], n)

\* The places at which a thread makes its node known to others.
Speaking == {"tell successor", "tell predecessor",
             "data handoff", "part predecessor", "part successor",
             "ping predecessor", "stabilize", "adopt", "notify",
             "ping survivor", "tell survivor"}

\* The places at which it rebuilds its list.
Listing == {"open list", "call list", "get list", "ping backup"}

\* What a thread of n has been told.
Told(n, t) == Known(t.to, n) /\ Known(t.got, n) /\ Heard(n, t.todo) /\ Heard(n, t.acc)

SystemOK == /\ alive \subseteq Nodes
            /\ stage \in [Nodes -> {"out", "fed", "joined"}]
            /\ asked \subseteq Nodes
            /\ crashes \in 0 .. MaxCrashes
            /\ losses \in 0 .. MaxLosses

SuccOK == /\ succ \in [Nodes -> Nodes]
          /\ \A n \in Nodes : Known(succ[n], n)

PredOK == /\ pred \in [Nodes -> Nodes]
          /\ \A n \in Nodes : Known(pred[n], n)

ListsOK == /\ list \in [Nodes -> Seq(Nodes)]
           /\ \A n \in Nodes : Len(list[n]) < K /\ Heard(n, list[n])

ThreadsOK ==
  /\ thread \in [Nodes -> [Roles -> Threads]]
  /\ \A n \in Nodes, r \in Roles :
       /\ Told(n, thread[n][r])
       /\ thread[n][r].at \in Speaking => NotOut(n)

Inv == SystemOK /\ SuccOK /\ PredOK /\ ListsOK /\ ThreadsOK

-----------------------------------------------------------------------------
(* The lists                                                               *)

LEMMA MinTwo ==
  ASSUME NEW a \in Nat, NEW b \in Nat
  PROVE  Min({a, b}) \in Nat /\ Min({a, b}) <= a /\ Min({a, b}) <= b
  BY DEF Min

LEMMA SomeMin ==
  ASSUME NEW S \in SUBSET Nat, S # {}
  PROVE  Min(S) \in S /\ \A x \in S : Min(S) <= x
<1>1. PICK m \in S : \A x \in S : <<x, m>> \notin OpToRel(<, Nat)
  BY WFMin, NatLessThanWellFounded, Zenon
<1>2. \A x \in S : ~(x < m)
  BY <1>1, Zenon DEF OpToRel
<1>3. \A x \in S : m <= x
  BY <1>2
<1> QED
  BY <1>3 DEF Min

\* What Kept returns: the first k - 1 of a list.
LEMMA KeptList ==
  ASSUME NEW acc \in Seq(Nodes)
  PROVE  /\ Kept(acc) \in Seq(Nodes)
         /\ Len(Kept(acc)) < K
         /\ DOMAIN Kept(acc) \subseteq DOMAIN acc
         /\ \A i \in DOMAIN Kept(acc) : Kept(acc)[i] = acc[i]
<1> DEFINE m == Min({K - 1, Len(acc)})
<1>1. K - 1 \in Nat /\ Len(acc) \in Nat
  BY BoundsAssumption
<1>2. m \in Nat /\ m <= K - 1 /\ m <= Len(acc)
  BY <1>1, MinTwo
<1>3. Kept(acc) = SubSeq(acc, 1, m)
  BY DEF Kept
<1> HIDE DEF m
<1>4. SubSeq(acc, 1, m) \in Seq(Nodes) /\ Len(SubSeq(acc, 1, m)) = m
      /\ \A i \in 1 .. m : SubSeq(acc, 1, m)[i] = acc[i]
  BY <1>2
<1> QED
  BY <1>2, <1>3, <1>4, BoundsAssumption

\* What Rest returns: an element that is not skipped, and those after it.
LEMMA RestList ==
  ASSUME NEW todo \in Seq(Nodes), NEW skip, Rest(todo, skip) # <<>>
  PROVE  \E d \in DOMAIN todo :
           /\ Head(Rest(todo, skip)) = todo[d]
           /\ todo[d] \notin skip
           /\ Tail(Rest(todo, skip)) \in Seq(Nodes)
           /\ \A i \in DOMAIN Tail(Rest(todo, skip)) :
                d + i \in DOMAIN todo /\ Tail(Rest(todo, skip))[i] = todo[d + i]
<1> DEFINE others == {i \in DOMAIN todo : todo[i] \notin skip}
           d == Min(others)
<1>1. others # {} /\ Rest(todo, skip) = SubSeq(todo, d, Len(todo))
  BY DEF Rest
<1>2. others \in SUBSET Nat
  OBVIOUS
<1>3. d \in others
  BY <1>1, <1>2, SomeMin
<1>4. d \in DOMAIN todo /\ todo[d] \notin skip
  BY <1>3
<1> HIDE DEF d, others
<1>5. d \in 1 .. Len(todo) /\ Len(todo) \in d .. Len(todo)
  BY <1>4
<1>6. /\ Head(SubSeq(todo, d, Len(todo))) = todo[d]
      /\ Tail(SubSeq(todo, d, Len(todo))) = SubSeq(todo, d + 1, Len(todo))
  BY <1>5, HeadTailOfSubSeq
<1>7. /\ SubSeq(todo, d + 1, Len(todo)) \in Seq(Nodes)
      /\ \A i \in DOMAIN SubSeq(todo, d + 1, Len(todo)) :
           /\ d + i \in DOMAIN todo
           /\ SubSeq(todo, d + 1, Len(todo))[i] = todo[d + i]
  BY <1>5
<1> QED
  BY <1>1, <1>4, <1>6, <1>7

-----------------------------------------------------------------------------
(* What every step may count on                                            *)

\* A node's stage never falls back to "out".
Growing == /\ stage' \in [Nodes -> {"out", "fed", "joined"}]
           /\ \A x \in Nodes : NotOut(x) => NotOut(x)'

LEMMA KnownStays ==
  ASSUME Growing
  PROVE  \A x, n \in Nodes : Known(x, n) => Known(x, n)'
  BY DEF Growing, Known

LEMMA SameStage ==
  ASSUME SystemOK, stage' = stage
  PROVE  Growing
  BY DEF Growing, SystemOK, NotOut

LEMMA SentOK ==
  ASSUME SystemOK, NEW dst \in Nodes, NEW o \in Outcomes, Sent(dst, o)
  PROVE  /\ crashes' \in 0 .. MaxCrashes
         /\ losses' \in 0 .. MaxLosses
         /\ o # "lost" => dst \in alive
  BY BoundsAssumption DEF SystemOK, Outcomes, Sent

LEMMA SuccSame ==
  ASSUME SuccOK, Growing, succ' = succ
  PROVE  SuccOK'
  BY KnownStays DEF SuccOK

LEMMA SuccSet ==
  ASSUME SuccOK, Growing, NEW h \in Nodes, NEW s \in Nodes, Known(s, h),
         succ' = [succ EXCEPT ![h] = s]
  PROVE  SuccOK'
  BY KnownStays DEF SuccOK

LEMMA PredSame ==
  ASSUME PredOK, Growing, pred' = pred
  PROVE  PredOK'
  BY KnownStays DEF PredOK

LEMMA PredSet ==
  ASSUME PredOK, Growing, NEW h \in Nodes, NEW p \in Nodes, Known(p, h),
         pred' = [pred EXCEPT ![h] = p]
  PROVE  PredOK'
  BY KnownStays DEF PredOK

LEMMA HeardStays ==
  ASSUME Growing, NEW n \in Nodes, NEW l \in Seq(Nodes), Heard(n, l)
  PROVE  Heard(n, l)'
  BY KnownStays DEF Heard

LEMMA HeardNothing ==
  ASSUME NEW n
  PROVE  <<>> \in Seq(Nodes) /\ Len(<<>>) < K /\ Heard(n, <<>>)
  BY EmptySeq, BoundsAssumption DEF Heard

LEMMA ListsSame ==
  ASSUME ListsOK, Growing, list' = list
  PROVE  ListsOK'
  BY HeardStays DEF ListsOK

LEMMA ListsSet ==
  ASSUME ListsOK, Growing,
         NEW n \in Nodes, NEW l \in Seq(Nodes), Len(l) < K, Heard(n, l),
         list' = [list EXCEPT ![n] = l]
  PROVE  ListsOK'
<1>1. list' \in [Nodes -> Seq(Nodes)]
  BY DEF ListsOK
<1>2. ASSUME NEW m \in Nodes
      PROVE  Len(list'[m]) < K /\ Heard(m, list[m])'
  <2>1. CASE m = n
    BY <2>1, HeardStays DEF ListsOK
  <2>2. CASE m # n
    BY <2>2, HeardStays DEF ListsOK
  <2> QED
    BY <2>1, <2>2
<1> QED
  BY <1>1, <1>2 DEF ListsOK

LEMMA ThreadType ==
  ASSUME NEW t \in Threads
  PROVE  /\ t.at \in Places /\ t.to \in Nodes /\ t.got \in Nodes
         /\ t.todo \in Seq(Nodes) /\ t.acc \in Seq(Nodes)
  BY DEF Threads

LEMMA ToldStays ==
  ASSUME Growing, NEW n \in Nodes, NEW t \in Threads, Told(n, t)
  PROVE  Told(n, t)'
<1>1. /\ t.to \in Nodes /\ t.got \in Nodes
      /\ t.todo \in Seq(Nodes) /\ t.acc \in Seq(Nodes)
  BY ThreadType
<1>2. Known(t.to, n)' /\ Known(t.got, n)'
  BY <1>1, KnownStays DEF Told
<1>3. Heard(n, t.todo)' /\ Heard(n, t.acc)'
  BY <1>1, HeardStays DEF Told
<1> QED
  BY <1>2, <1>3 DEF Told

LEMMA ThreadsSame ==
  ASSUME ThreadsOK, Growing, thread' = thread
  PROVE  ThreadsOK'
<1>1. ASSUME NEW n \in Nodes, NEW r \in Roles
      PROVE  Told(n, thread[n][r])' /\ (thread[n][r].at \in Speaking => NotOut(n))'
  <2>1. PICK t \in Threads : t = thread[n][r]
    BY DEF ThreadsOK
  <2>2. Told(n, t) /\ (t.at \in Speaking => NotOut(n))
    BY <2>1 DEF ThreadsOK
  <2>3. Told(n, t)'
    BY <2>2, ToldStays
  <2> QED
    BY <2>1, <2>2, <2>3 DEF Growing
<1> QED
  BY <1>1 DEF ThreadsOK

LEMMA ThreadsGo ==
  ASSUME ThreadsOK, Growing,
         NEW n \in Nodes, NEW r \in Roles, NEW t \in Threads,
         Told(n, t), t.at \in Speaking => NotOut(n)',
         Goes(n, r, t)
  PROVE  ThreadsOK'
<1>1. thread' \in [Nodes -> [Roles -> Threads]]
  BY DEF ThreadsOK, Goes
<1>2. ASSUME NEW m \in Nodes, NEW q \in Roles
      PROVE  Told(m, thread[m][q])' /\ (thread[m][q].at \in Speaking => NotOut(m))'
  <2>1. CASE m = n /\ q = r
    <3>1. thread'[m][q] = t
      BY <2>1 DEF ThreadsOK, Goes
    <3>2. Told(m, t)'
      BY <2>1, ToldStays
    <3> QED
      BY <2>1, <3>1, <3>2
  <2>2. CASE ~(m = n /\ q = r)
    <3>1. PICK u \in Threads : u = thread[m][q]
      BY DEF ThreadsOK
    <3>2. thread'[m][q] = u
      BY <2>2, <3>1 DEF ThreadsOK, Goes
    <3>3. Told(m, u) /\ (u.at \in Speaking => NotOut(m))
      BY <3>1 DEF ThreadsOK
    <3>4. Told(m, u)'
      BY <3>3, ToldStays
    <3> QED
      BY <3>2, <3>3, <3>4 DEF Growing
  <2> QED
    BY <2>1, <2>2
<1> QED
  BY <1>1, <1>2 DEF ThreadsOK

LEMMA IdleOK ==
  ASSUME NEW n \in Nodes
  PROVE  Idle(n) \in Threads /\ Told(n, Idle(n)) /\ Idle(n).at \notin Speaking
  BY DEF Idle, Threads, Places, Told, Heard, Known, Speaking

LEMMA ExitsOK ==
  ASSUME SystemOK, ThreadsOK, Growing, NEW n \in Nodes, Exits(n)
  PROVE  ThreadsOK' /\ alive' \subseteq Nodes /\ asked' \subseteq Nodes
<1>1. thread' \in [Nodes -> [Roles -> Threads]]
  BY IdleOK DEF ThreadsOK, Exits
<1>2. ASSUME NEW m \in Nodes, NEW q \in Roles
      PROVE  Told(m, thread[m][q])' /\ (thread[m][q].at \in Speaking => NotOut(m))'
  <2>1. CASE m = n
    <3>1. thread'[m][q] = Idle(n)
      BY <2>1 DEF ThreadsOK, Exits
    <3>2. Told(n, Idle(n))'
      BY IdleOK, ToldStays
    <3> QED
      BY <2>1, <3>1, <3>2, IdleOK
  <2>2. CASE m # n
    <3>1. PICK u \in Threads : u = thread[m][q]
      BY DEF ThreadsOK
    <3>2. thread'[m][q] = u
      BY <2>2, <3>1 DEF ThreadsOK, Exits
    <3>3. Told(m, u) /\ (u.at \in Speaking => NotOut(m))
      BY <3>1 DEF ThreadsOK
    <3>4. Told(m, u)'
      BY <3>3, ToldStays
    <3> QED
      BY <3>2, <3>3, <3>4 DEF Growing
  <2> QED
    BY <2>1, <2>2
<1> QED
  BY <1>1, <1>2 DEF ThreadsOK, SystemOK, Exits

\* A call that needs no list.
LEMMA CallingType ==
  ASSUME NEW p \in Places, NEW h \in Nodes, NEW g \in Nodes
  PROVE  LET c == Calling(p, h, g)
         IN  /\ c \in Threads
             /\ c.at = p /\ c.to = h /\ c.got = g
             /\ \A i \in DOMAIN c.todo : FALSE
             /\ c.acc = <<>>
<1>1. Calling(p, h, g) \in Threads
  BY DEF Calling, Threads
<1>2. \A i \in DOMAIN Calling(p, h, g).todo : FALSE
  BY DEF Calling
<1> QED
  BY <1>1, <1>2 DEF Calling

LEMMA CallingOK ==
  ASSUME NEW n \in Nodes, NEW p \in Places, NEW h \in Nodes, NEW g \in Nodes,
         Known(h, n), Known(g, n)
  PROVE  Told(n, Calling(p, h, g))
<1>1. PICK c \in Threads :
        /\ c = Calling(p, h, g)
        /\ c.at = p /\ c.to = h /\ c.got = g
        /\ \A i \in DOMAIN c.todo : FALSE
        /\ c.acc = <<>>
  BY CallingType
<1> QED
  BY <1>1 DEF Told, Heard

-----------------------------------------------------------------------------
(* Rebuilding a list                                                       *)

LEMMA OneNode ==
  ASSUME NEW s \in Nodes
  PROVE  <<s>> \in Seq(Nodes) /\ Len(<<s>>) = 1 /\ <<s>>[1] = s
  OBVIOUS

LEMMA OneHeard ==
  ASSUME NEW n \in Nodes, NEW s \in Nodes, Known(s, n)
  PROVE  Heard(n, <<s>>)
<1>1. ASSUME NEW e \in Seq(Nodes), Len(e) = 1, e[1] = s
      PROVE  Heard(n, e)
  BY <1>1 DEF Heard
<1> QED
  BY <1>1, OneNode

LEMMA AppendOne ==
  ASSUME NEW acc \in Seq(Nodes), NEW x \in Nodes
  PROVE  LET e == Append(acc, x)
         IN  /\ e \in Seq(Nodes) /\ DOMAIN e = 1 .. Len(acc) + 1
             /\ \A i \in DOMAIN acc : e[i] = acc[i]
             /\ e[Len(acc) + 1] = x
  OBVIOUS

LEMMA HeardAppend ==
  ASSUME NEW n \in Nodes, NEW acc \in Seq(Nodes), Heard(n, acc),
         NEW x \in Nodes, Known(x, n)
  PROVE  Append(acc, x) \in Seq(Nodes) /\ Heard(n, Append(acc, x))
<1>1. PICK e \in Seq(Nodes) :
        /\ e = Append(acc, x)
        /\ DOMAIN e = 1 .. Len(acc) + 1
        /\ \A i \in DOMAIN acc : e[i] = acc[i]
        /\ e[Len(acc) + 1] = x
  BY AppendOne
<1>2. \A i \in DOMAIN e : i \in DOMAIN acc \/ i = Len(acc) + 1
  BY <1>1
<1> QED
  BY <1>1, <1>2 DEF Heard

LEMMA GatheringType ==
  ASSUME NEW p \in Places, NEW h \in Nodes, NEW n \in Nodes, NEW acc \in Seq(Nodes)
  PROVE  LET t == Gathering(p, h, n, acc)
         IN  /\ t \in Threads
             /\ t.at = p /\ t.to = h /\ t.got = n /\ t.acc = acc
             /\ \A i \in DOMAIN t.todo : FALSE
<1>1. Gathering(p, h, n, acc) \in Threads
  BY DEF Gathering, Threads
<1>2. \A i \in DOMAIN Gathering(p, h, n, acc).todo : FALSE
  BY DEF Gathering
<1> QED
  BY <1>1, <1>2 DEF Gathering

LEMMA GatheringOK ==
  ASSUME NEW p \in Places, NEW n \in Nodes, NEW h \in Nodes, Known(h, n),
         NEW acc \in Seq(Nodes), Heard(n, acc)
  PROVE  LET t == Gathering(p, h, n, acc)
         IN  t \in Threads /\ Told(n, t) /\ t.at = p
<1> DEFINE t == Gathering(p, h, n, acc)
<1>1. /\ t \in Threads
      /\ t.at = p /\ t.to = h /\ t.got = n /\ t.acc = acc
      /\ \A i \in DOMAIN t.todo : FALSE
  BY GatheringType
<1> HIDE DEF t
<1>2. Told(n, t)
  BY <1>1 DEF Told, Known, Heard
<1> QED
  BY <1>1, <1>2 DEF t

LEMMA BeginListOK ==
  ASSUME ListsOK, ThreadsOK, Growing,
         NEW n \in Nodes, NEW r \in Roles, NEW s, BeginList(n, r, s)
  PROVE  ListsOK' /\ ThreadsOK'
<1>1. CASE s = n
  <2>1. list' = [list EXCEPT ![n] = <<>>] /\ Goes(n, r, Idle(n))
    BY <1>1 DEF BeginList
  <2> QED
    BY <2>1, HeardNothing, ListsSet, ThreadsGo, IdleOK
<1>2. CASE s # n
  <2> DEFINE t == Calling("open list", n, n)
  <2>1. list' = list /\ Goes(n, r, t)
    BY <1>2 DEF BeginList
  <2>2. "open list" \in Places /\ "open list" \notin Speaking /\ Known(n, n)
    BY DEF Places, Speaking, Known
  <2>3. t \in Threads /\ Told(n, t) /\ t.at \notin Speaking
    BY <2>2, CallingType, CallingOK
  <2> HIDE DEF t
  <2> QED
    BY <2>1, <2>3, ListsSame, ThreadsGo
<1> QED
  BY <1>1, <1>2

LEMMA KeptHeard ==
  ASSUME NEW n \in Nodes, NEW acc \in Seq(Nodes), Heard(n, acc)
  PROVE  Heard(n, Kept(acc))
  BY KeptList DEF Heard

LEMMA TryingOK ==
  ASSUME NEW n \in Nodes, NEW todo \in Seq(Nodes), NEW acc \in Seq(Nodes),
         Heard(n, todo), Heard(n, acc), NEW p \in Places,
         NEW skip, Rest(todo, skip) # <<>>
  PROVE  LET t == Trying(p, Rest(todo, skip), n, acc)
         IN  t \in Threads /\ Told(n, t) /\ t.at = p
<1> DEFINE rest == Rest(todo, skip)
           t == Trying(p, rest, n, acc)
<1>1. PICK d \in DOMAIN todo :
        /\ Head(rest) = todo[d]
        /\ Tail(rest) \in Seq(Nodes)
        /\ \A i \in DOMAIN Tail(rest) : d + i \in DOMAIN todo /\ Tail(rest)[i] = todo[d + i]
  BY RestList
<1>2. /\ t.at = p /\ t.to = Head(rest) /\ t.got = n
      /\ t.todo = Tail(rest) /\ t.acc = acc
  BY DEF Trying
<1>3. Head(rest) \in Nodes
  BY <1>1
<1>4. t \in Threads
  BY <1>1, <1>3 DEF Trying, Threads
<1> HIDE DEF t, rest
<1>5. Told(n, t)
  BY <1>1, <1>2 DEF Told, Heard, Known
<1> QED
  BY <1>2, <1>4, <1>5 DEF t, rest

LEMMA ContinueListOK ==
  ASSUME SystemOK, SuccOK, PredOK, ListsOK, ThreadsOK, Growing,
         NEW n \in Nodes, NEW r \in Roles,
         NEW todo \in Seq(Nodes), NEW acc \in Seq(Nodes),
         Heard(n, todo), Heard(n, acc), ContinueList(n, r, todo, acc)
  PROVE  ListsOK' /\ ThreadsOK' /\ asked' \subseteq Nodes
<1> DEFINE skip == {n, succ[n]}
           rest == Rest(todo, skip)
           t == Trying("ping backup", rest, n, acc)
<1>1. CASE rest # <<>>
  <2>1. Goes(n, r, t) /\ list' = list /\ asked' = asked
    BY <1>1 DEF ContinueList, Candidates
  <2> HIDE DEF skip
  <2>2. "ping backup" \in Places
    BY DEF Places
  <2>3. t \in Threads /\ Told(n, t) /\ t.at = "ping backup"
    BY <1>1, <2>2, TryingOK
  <2>4. t.at \notin Speaking
    BY <2>3 DEF Speaking
  <2> HIDE DEF t
  <2>5. ThreadsOK'
    BY <2>1, <2>3, <2>4, ThreadsGo
  <2> QED
    BY <2>1, <2>5, ListsSame DEF SystemOK
<1>2. CASE rest = <<>>
  <2>1. /\ Goes(n, r, Idle(n))
        /\ list' = [list EXCEPT ![n] = Kept(acc)]
        /\ asked' \subseteq asked \cup {pred[n]}
    BY <1>2 DEF ContinueList, Candidates
  <2>2. Kept(acc) \in Seq(Nodes) /\ Len(Kept(acc)) < K /\ Heard(n, Kept(acc))
    BY KeptList, KeptHeard
  <2> QED
    BY <2>1, <2>2, ListsSet, ThreadsGo, IdleOK DEF SystemOK, PredOK
<1> QED
  BY <1>1, <1>2

-----------------------------------------------------------------------------
(* Calls and updates                                                       *)

LEMMA ThreadFacts ==
  ASSUME ThreadsOK, NEW n \in Nodes, NEW r \in Roles
  PROVE  LET t == thread[n][r]
         IN  /\ t \in Threads
             /\ t.to \in Nodes /\ Known(t.to, n)
             /\ t.got \in Nodes /\ Known(t.got, n)
             /\ Told(n, t)
             /\ t.at \in Speaking => NotOut(n)
<1>1. thread[n][r] \in Threads /\ Told(n, thread[n][r])
      /\ (thread[n][r].at \in Speaking => NotOut(n))
  BY DEF ThreadsOK
<1> QED
  BY <1>1, ThreadType DEF Told

LEMMA CallGoes ==
  ASSUME ThreadsOK, Growing, NEW n \in Nodes, NEW r \in Roles,
         NEW p \in Places, p \in Speaking => NotOut(n)',
         NEW h \in Nodes, NEW g \in Nodes, Known(h, n), Known(g, n),
         Goes(n, r, Calling(p, h, g))
  PROVE  ThreadsOK'
  BY CallingType, CallingOK, ThreadsGo

LEMMA SuccType == SuccOK => succ \in [Nodes -> Nodes]
  BY DEF SuccOK

LEMMA PredType == PredOK => pred \in [Nodes -> Nodes]
  BY DEF PredOK

LEMMA UpdateSuccessorOK ==
  ASSUME SystemOK, SuccOK, Growing,
         NEW h \in Nodes, NEW s \in Nodes, Known(s, h),
         NEW o \in Outcomes, UpdateSuccessor(h, s, o)
  PROVE  /\ SuccOK' /\ asked' \subseteq Nodes
         /\ \A m \in Nodes : succ'[m] \in Nodes /\ (succ'[m] = succ[m] \/ succ'[m] = s)
<1>1. CASE succ' = succ /\ asked' = asked
  <2>1. SuccOK'
    BY <1>1, SuccSame
  <2> QED
    BY <1>1, <2>1, SuccType DEF SystemOK
<1>2. CASE succ' = [succ EXCEPT ![h] = s] /\ asked' = asked \cup {h}
  <2>1. SuccOK'
    BY <1>2, SuccSet
  <2> QED
    BY <1>2, <2>1, SuccType DEF SystemOK
<1> QED
  BY <1>1, <1>2 DEF UpdateSuccessor

LEMMA UpdatePredecessorOK ==
  ASSUME PredOK, Growing,
         NEW h \in Nodes, NEW p \in Nodes, Known(p, h),
         NEW o \in Outcomes, UpdatePredecessor(h, p, o)
  PROVE  /\ PredOK'
         /\ \A m \in Nodes : pred'[m] \in Nodes /\ (pred'[m] = pred[m] \/ pred'[m] = p)
<1>1. CASE pred' = pred
  <2>1. PredOK'
    BY <1>1, PredSame
  <2> QED
    BY <1>1, <2>1, PredType
<1>2. CASE pred' = [pred EXCEPT ![h] = p]
  <2>1. PredOK'
    BY <1>2, PredSet
  <2> QED
    BY <1>2, <2>1, PredType
<1> QED
  BY <1>1, <1>2 DEF UpdatePredecessor

-----------------------------------------------------------------------------
(* join                                                                    *)

LEMMA BeginJoinOK ==
  ASSUME Inv, NEW n \in Nodes, NEW entry \in Nodes, BeginJoin(n, entry)
  PROVE  Inv'
<1>1. Growing /\ SystemOK' /\ SuccOK' /\ PredOK' /\ ListsOK'
  BY SameStage, SuccSame, PredSame, ListsSame DEF Inv, SystemOK, BeginJoin, pointers, bounds
<1>2. Known(entry, n) /\ Known(n, n)
  BY DEF BeginJoin, Known, NotOut
<1>3. Goes(n, "main", Calling("lookup", entry, n))
  BY DEF BeginJoin
<1>4. ThreadsOK'
  BY <1>1, <1>2, <1>3, CallGoes DEF Inv, Roles, Places, Speaking
<1> QED
  BY <1>1, <1>4 DEF Inv

LEMMA AbortJoinOK ==
  ASSUME Inv, NEW n \in Nodes, AbortJoin(n),
         crashes' \in 0 .. MaxCrashes, losses' \in 0 .. MaxLosses
  PROVE  Inv'
<1>1. Growing /\ SuccOK' /\ PredOK' /\ ListsOK'
  BY SameStage, SuccSame, PredSame, ListsSame DEF Inv, AbortJoin, pointers
<1>2. ThreadsOK' /\ alive' \subseteq Nodes /\ asked' \subseteq Nodes
  BY <1>1, ExitsOK DEF Inv, AbortJoin
<1> QED
  BY <1>1, <1>2 DEF Inv, SystemOK, AbortJoin

LEMMA LookupOK ==
  ASSUME Inv, NEW n \in Nodes, NEW o \in Outcomes, Lookup(n, o)
  PROVE  Inv'
<1> DEFINE t == thread[n]["main"]
           h == t.to
<1>1. t \in Threads /\ h \in Nodes /\ Known(h, n)
  BY ThreadFacts DEF Inv, Roles
<1>2. crashes' \in 0 .. MaxCrashes /\ losses' \in 0 .. MaxLosses
  BY <1>1, SentOK DEF Inv, Lookup
<1>3. CASE AbortJoin(n)
  BY <1>2, <1>3, AbortJoinOK
<1>4. CASE /\ succ' = [succ EXCEPT ![n] = h]
           /\ Goes(n, "main", Calling("get predecessor", h, n))
           /\ UNCHANGED <<alive, stage, pred, list, asked>>
  <2>1. Growing /\ SystemOK' /\ PredOK' /\ ListsOK'
    BY <1>2, <1>4, SameStage, PredSame, ListsSame DEF Inv, SystemOK
  <2>2. SuccOK'
    BY <1>1, <1>4, <2>1, SuccSet DEF Inv
  <2>3. Known(n, n)
    BY DEF Known
  <2>4. ThreadsOK'
    BY <1>1, <1>4, <2>1, <2>3, CallGoes DEF Inv, Roles, Places, Speaking
  <2> QED
    BY <2>1, <2>2, <2>4 DEF Inv
<1>5. ASSUME NEW x \in Hops(h, n),
             Goes(n, "main", Gathering("lookup", x, n, Append(t.acc, h))),
             UNCHANGED <<alive, stage, pointers, asked>>
      PROVE  Inv'
  <2>1. Growing /\ SystemOK' /\ SuccOK' /\ PredOK' /\ ListsOK'
    BY <1>2, <1>5, SameStage, SuccSame, PredSame, ListsSame DEF Inv, SystemOK, pointers
  <2>2. x \in Nodes /\ Known(x, n)
    BY <1>1 DEF Inv, SuccOK, Hops, Known, NotOut
  <2>3. Append(t.acc, h) \in Seq(Nodes) /\ Heard(n, Append(t.acc, h))
    BY <1>1, ThreadFacts, ThreadType, HeardAppend DEF Inv, Roles, Told
  <2> DEFINE u == Gathering("lookup", x, n, Append(t.acc, h))
  <2>4. "lookup" \in Places /\ "lookup" \notin Speaking
    BY DEF Places, Speaking
  <2>5. u \in Threads /\ Told(n, u) /\ u.at = "lookup"
    BY <2>2, <2>3, <2>4, GatheringOK
  <2> HIDE DEF u
  <2>6. Goes(n, "main", u)
    BY <1>5 DEF u
  <2>7. ThreadsOK'
    BY <2>1, <2>4, <2>5, <2>6, ThreadsGo DEF Inv, Roles
  <2> QED
    BY <2>1, <2>7 DEF Inv
<1> QED
  BY <1>3, <1>4, <1>5 DEF Lookup

LEMMA GetPredecessorOK ==
  ASSUME Inv, NEW n \in Nodes, NEW o \in Outcomes, GetPredecessor(n, o)
  PROVE  Inv'
<1> DEFINE h == thread[n]["main"].to
<1>1. h \in Nodes /\ Known(h, n)
  BY ThreadFacts DEF Inv, Roles
<1>2. crashes' \in 0 .. MaxCrashes /\ losses' \in 0 .. MaxLosses
  BY <1>1, SentOK DEF Inv, GetPredecessor
<1>3. CASE AbortJoin(n)
  BY <1>2, <1>3, AbortJoinOK
<1>4. CASE /\ pred' = [pred EXCEPT ![n] = pred[h]]
           /\ Goes(n, "main", Calling("data transfer", succ[n], n))
           /\ UNCHANGED <<alive, stage, succ, list, asked>>
  <2>1. Growing /\ SystemOK' /\ SuccOK' /\ ListsOK'
    BY <1>2, <1>4, SameStage, SuccSame, ListsSame DEF Inv, SystemOK
  <2>2. pred[h] \in Nodes /\ Known(pred[h], n)
    BY <1>1 DEF Inv, PredOK, Known
  <2>3. PredOK'
    BY <1>4, <2>1, <2>2, PredSet DEF Inv
  <2>4. succ[n] \in Nodes /\ Known(succ[n], n) /\ Known(n, n)
    BY DEF Inv, SuccOK, Known
  <2>5. ThreadsOK'
    BY <1>4, <2>1, <2>4, CallGoes DEF Inv, Roles, Places, Speaking
  <2> QED
    BY <2>1, <2>3, <2>5 DEF Inv
<1> QED
  BY <1>3, <1>4 DEF GetPredecessor

LEMMA DataTransferOK ==
  ASSUME Inv, NEW n \in Nodes, NEW o \in Outcomes, DataTransfer(n, o)
  PROVE  Inv'
<1>1. thread[n]["main"].to \in Nodes
  BY ThreadFacts DEF Inv, Roles
<1>2. crashes' \in 0 .. MaxCrashes /\ losses' \in 0 .. MaxLosses
  BY <1>1, SentOK DEF Inv, DataTransfer
<1>3. CASE AbortJoin(n)
  BY <1>2, <1>3, AbortJoinOK
<1>4. CASE /\ stage' = [stage EXCEPT ![n] = "fed"]
           /\ Goes(n, "main", Calling("tell successor", succ[n], n))
           /\ UNCHANGED <<alive, pointers, asked>>
  <2>1. Growing /\ NotOut(n)'
    BY <1>4 DEF Inv, SystemOK, Growing, NotOut
  <2>2. SystemOK' /\ SuccOK' /\ PredOK' /\ ListsOK'
    BY <1>2, <1>4, <2>1, SuccSame, PredSame, ListsSame DEF Inv, SystemOK, pointers, Growing
  <2>3. succ[n] \in Nodes /\ Known(succ[n], n) /\ Known(n, n)
    BY DEF Inv, SuccOK, Known
  <2>4. ThreadsOK'
    BY <1>4, <2>1, <2>3, CallGoes DEF Inv, Roles, Places, Speaking
  <2> QED
    BY <2>2, <2>4 DEF Inv
<1> QED
  BY <1>3, <1>4 DEF DataTransfer

LEMMA TellSuccessorOK ==
  ASSUME Inv, NEW n \in Nodes, NEW o \in Outcomes, TellSuccessor(n, o)
  PROVE  Inv'
<1> DEFINE h == thread[n]["main"].to
<1>1. h \in Nodes /\ NotOut(n)
  BY ThreadFacts DEF Inv, Roles, TellSuccessor, Waits, Speaking
<1>2. crashes' \in 0 .. MaxCrashes /\ losses' \in 0 .. MaxLosses
  BY <1>1, SentOK DEF Inv, TellSuccessor
<1>3. Growing /\ SystemOK' /\ SuccOK' /\ ListsOK' /\ NotOut(n)'
  BY <1>1, <1>2, SameStage, SuccSame, ListsSame DEF Inv, SystemOK, TellSuccessor, NotOut
<1>4. Known(n, h)
  BY <1>1 DEF Known
<1>5. PredOK' /\ pred'[n] \in Nodes /\ (pred'[n] = pred[n] \/ pred'[n] = n)
  BY <1>1, <1>3, <1>4, UpdatePredecessorOK DEF Inv, TellSuccessor
<1>6. Known(pred'[n], n) /\ Known(n, n)
  BY <1>5 DEF Inv, PredOK, Known
<1>7. ThreadsOK'
  BY <1>3, <1>5, <1>6, CallGoes DEF Inv, TellSuccessor, Roles, Places, Speaking
<1> QED
  BY <1>3, <1>5, <1>7 DEF Inv

LEMMA TellPredecessorOK ==
  ASSUME Inv, NEW n \in Nodes, NEW o \in Outcomes, TellPredecessor(n, o)
  PROVE  Inv'
<1> DEFINE h == thread[n]["main"].to
<1>1. h \in Nodes /\ NotOut(n)
  BY ThreadFacts DEF Inv, Roles, TellPredecessor, Waits, Speaking
<1>2. crashes' \in 0 .. MaxCrashes /\ losses' \in 0 .. MaxLosses
  BY <1>1, SentOK DEF Inv, TellPredecessor
<1>3. Growing
  BY DEF Inv, SystemOK, TellPredecessor, Growing, NotOut
<1>4. PredOK'
  BY <1>3, PredSame DEF Inv, TellPredecessor
<1>5. Known(n, h)
  BY <1>1 DEF Known
<1>6. /\ SuccOK' /\ asked' \subseteq Nodes
      /\ succ'[n] \in Nodes /\ (succ'[n] = succ[n] \/ succ'[n] = n)
  BY <1>1, <1>3, <1>5, UpdateSuccessorOK DEF Inv, TellPredecessor
<1>7. Known(succ'[n], n)
  BY <1>6 DEF Inv, SuccOK, Known
<1>8. ListsOK' /\ ThreadsOK'
  BY <1>3, <1>6, <1>7, BeginListOK DEF Inv, TellPredecessor, Roles
<1>9. SystemOK'
  BY <1>2, <1>3, <1>6 DEF Inv, SystemOK, TellPredecessor, Growing
<1> QED
  BY <1>4, <1>6, <1>8, <1>9 DEF Inv

-----------------------------------------------------------------------------
(* depart                                                                  *)

\* A step that ends the process and touches no pointer.
LEMMA ExitStepOK ==
  ASSUME Inv, NEW n \in Nodes, Exits(n), UNCHANGED <<stage, pointers>>,
         crashes' \in 0 .. MaxCrashes, losses' \in 0 .. MaxLosses
  PROVE  Inv'
  BY AbortJoinOK DEF AbortJoin

LEMMA BeginDepartOK ==
  ASSUME Inv, NEW n \in Nodes, BeginDepart(n)
  PROVE  Inv'
<1>1. UNCHANGED <<stage, pointers, crashes, losses>>
  BY DEF BeginDepart, bounds
<1>2. CASE Exits(n)
  BY <1>1, <1>2, ExitStepOK DEF Inv, SystemOK
<1>3. CASE /\ Goes(n, "main", Calling("data handoff", succ[n], n))
           /\ UNCHANGED <<alive, asked>>
  <2>1. Growing /\ SystemOK' /\ SuccOK' /\ PredOK' /\ ListsOK'
    BY <1>1, <1>3, SameStage, SuccSame, PredSame, ListsSame DEF Inv, SystemOK, pointers
  <2>2. NotOut(n) /\ NotOut(n)'
    BY <1>1 DEF BeginDepart, NotOut
  <2>3. succ[n] \in Nodes /\ Known(succ[n], n) /\ Known(n, n)
    BY DEF Inv, SuccOK, Known
  <2>4. ThreadsOK'
    BY <1>3, <2>1, <2>2, <2>3, CallGoes DEF Inv, Roles, Places, Speaking
  <2> QED
    BY <2>1, <2>4 DEF Inv
<1> QED
  BY <1>2, <1>3 DEF BeginDepart

LEMMA DataHandoffOK ==
  ASSUME Inv, NEW n \in Nodes, NEW o \in Outcomes, DataHandoff(n, o)
  PROVE  Inv'
<1>1. thread[n]["main"].to \in Nodes /\ NotOut(n)
  BY ThreadFacts DEF Inv, Roles, DataHandoff, Waits, Speaking
<1>2. crashes' \in 0 .. MaxCrashes /\ losses' \in 0 .. MaxLosses
  BY <1>1, SentOK DEF Inv, DataHandoff
<1>3. CASE Exits(n)
  BY <1>2, <1>3, ExitStepOK DEF DataHandoff
<1>4. CASE /\ Goes(n, "main", Calling("part predecessor", pred[n], succ[n]))
           /\ UNCHANGED <<alive, asked>>
  <2>1. Growing /\ SystemOK' /\ SuccOK' /\ PredOK' /\ ListsOK' /\ NotOut(n)'
    BY <1>1, <1>2, <1>4, SameStage, SuccSame, PredSame, ListsSame
    DEF Inv, SystemOK, DataHandoff, pointers, NotOut
  <2>2. /\ succ[n] \in Nodes /\ Known(succ[n], n)
        /\ pred[n] \in Nodes /\ Known(pred[n], n)
    BY DEF Inv, SuccOK, PredOK
  <2>3. ThreadsOK'
    BY <1>4, <2>1, <2>2, CallGoes DEF Inv, Roles, Places, Speaking
  <2> QED
    BY <2>1, <2>3 DEF Inv
<1> QED
  BY <1>3, <1>4 DEF DataHandoff

LEMMA PartPredecessorOK ==
  ASSUME Inv, NEW n \in Nodes, NEW o \in Outcomes, PartPredecessor(n, o)
  PROVE  Inv'
<1> DEFINE h == thread[n]["main"].to
           s == thread[n]["main"].got
<1>1. h \in Nodes /\ s \in Nodes /\ Known(s, n) /\ NotOut(n)
  BY ThreadFacts DEF Inv, Roles, PartPredecessor, Waits, Speaking
<1>2. crashes' \in 0 .. MaxCrashes /\ losses' \in 0 .. MaxLosses
  BY <1>1, SentOK DEF Inv, PartPredecessor
<1>3. Growing /\ PredOK' /\ ListsOK' /\ NotOut(n)'
  BY <1>1, SameStage, PredSame, ListsSame DEF Inv, PartPredecessor, NotOut
<1>4. Known(s, h)
  BY <1>1 DEF Known
<1>5. /\ SuccOK' /\ asked' \subseteq Nodes
      /\ succ'[n] \in Nodes /\ (succ'[n] = succ[n] \/ succ'[n] = s)
  BY <1>1, <1>3, <1>4, UpdateSuccessorOK DEF Inv, PartPredecessor
<1>6. SystemOK'
  BY <1>2, <1>5 DEF Inv, SystemOK, PartPredecessor
<1>7. /\ Known(succ'[n], n)
      /\ pred[n] \in Nodes /\ Known(pred[n], n)
  BY <1>1, <1>5 DEF Inv, SuccOK, PredOK
<1>8. ThreadsOK'
  BY <1>3, <1>5, <1>7, CallGoes DEF Inv, PartPredecessor, Roles, Places, Speaking
<1> QED
  BY <1>3, <1>5, <1>6, <1>8 DEF Inv

LEMMA PartSuccessorOK ==
  ASSUME Inv, NEW n \in Nodes, NEW o \in Outcomes, PartSuccessor(n, o)
  PROVE  Inv'
<1> DEFINE h == thread[n]["main"].to
           p == thread[n]["main"].got
<1>1. h \in Nodes /\ p \in Nodes /\ Known(p, n) /\ NotOut(n)
  BY ThreadFacts DEF Inv, Roles, PartSuccessor, Waits, Speaking
<1>2. crashes' \in 0 .. MaxCrashes /\ losses' \in 0 .. MaxLosses
  BY <1>1, SentOK DEF Inv, PartSuccessor
<1>3. Growing /\ SuccOK' /\ ListsOK'
  BY SameStage, SuccSame, ListsSame DEF Inv, PartSuccessor
<1>4. Known(p, h)
  BY <1>1 DEF Known
<1>5. PredOK'
  BY <1>1, <1>3, <1>4, UpdatePredecessorOK DEF Inv, PartSuccessor
<1>6. ThreadsOK' /\ alive' \subseteq Nodes /\ asked' \subseteq Nodes
  BY <1>3, ExitsOK DEF Inv, PartSuccessor
<1> QED
  BY <1>2, <1>3, <1>5, <1>6 DEF Inv, SystemOK, PartSuccessor

-----------------------------------------------------------------------------
(* stabilize_worker                                                        *)

LEMMA WakeOK ==
  ASSUME Inv, NEW n \in Nodes, Wake(n)
  PROVE  Inv'
<1>1. Growing /\ SystemOK' /\ SuccOK' /\ PredOK' /\ ListsOK'
  BY SameStage, SuccSame, PredSame, ListsSame DEF Inv, SystemOK, Wake, pointers, bounds
<1>2. NotOut(n)'
  BY DEF Wake, NotOut
<1>3. /\ succ[n] \in Nodes /\ Known(succ[n], n)
      /\ pred[n] \in Nodes /\ Known(pred[n], n) /\ Known(n, n)
  BY DEF Inv, SuccOK, PredOK, Known
<1>4. CASE Goes(n, "worker", Calling("ping predecessor", pred[n], n))
  BY <1>1, <1>2, <1>3, <1>4, CallGoes DEF Inv, Roles, Places, Speaking
<1>5. CASE Goes(n, "worker", Calling("stabilize", succ[n], n))
  BY <1>1, <1>2, <1>3, <1>5, CallGoes DEF Inv, Roles, Places, Speaking
<1> QED
  BY <1>1, <1>4, <1>5 DEF Inv, Wake

LEMMA PingPredecessorOK ==
  ASSUME Inv, NEW n \in Nodes, NEW o \in Outcomes, PingPredecessor(n, o)
  PROVE  Inv'
<1>1. thread[n]["worker"].to \in Nodes /\ NotOut(n)
  BY ThreadFacts DEF Inv, Roles, PingPredecessor, Waits, Speaking
<1>2. crashes' \in 0 .. MaxCrashes /\ losses' \in 0 .. MaxLosses
  BY <1>1, SentOK DEF Inv, PingPredecessor
<1>3. Growing /\ SystemOK' /\ SuccOK' /\ ListsOK' /\ NotOut(n)'
  BY <1>1, <1>2, SameStage, SuccSame, ListsSame
  DEF Inv, SystemOK, PingPredecessor, NotOut
<1>4. Known(n, n) /\ succ[n] \in Nodes /\ Known(succ[n], n)
  BY DEF Inv, SuccOK, Known
<1>5. pred' = pred \/ pred' = [pred EXCEPT ![n] = n]
  BY DEF PingPredecessor
<1>6. PredOK'
  BY <1>3, <1>4, <1>5, PredSame, PredSet DEF Inv
<1>7. ThreadsOK'
  BY <1>3, <1>4, CallGoes DEF Inv, PingPredecessor, Roles, Places, Speaking
<1> QED
  BY <1>3, <1>6, <1>7 DEF Inv

LEMMA ContinueStitchOK ==
  ASSUME Inv, Growing, NEW n \in Nodes, NotOut(n)',
         NEW todo \in Seq(Nodes), Heard(n, todo),
         ContinueStitch(n, todo)
  PROVE  SuccOK' /\ PredOK' /\ ListsOK' /\ ThreadsOK'
<1> DEFINE rest == Rest(todo, {succ[n]})
           t == Trying("ping survivor", rest, n, <<>>)
<1>1. CASE rest # <<>>
  <2>1. Goes(n, "worker", t) /\ UNCHANGED <<succ, pred, list>>
    BY <1>1 DEF ContinueStitch, pointers
  <2>2. "ping survivor" \in Places
    BY DEF Places
  <2>3. t \in Threads /\ Told(n, t)
    BY <1>1, <2>2, TryingOK, HeardNothing
  <2> HIDE DEF t
  <2>4. ThreadsOK'
    BY <2>1, <2>3, ThreadsGo DEF Inv, Roles
  <2> QED
    BY <2>1, <2>4, SuccSame, PredSame, ListsSame DEF Inv
<1>2. CASE rest = <<>>
  <2>1. /\ Goes(n, "worker", Idle(n))
        /\ succ' = [succ EXCEPT ![n] = n]
        /\ pred' = [pred EXCEPT ![n] = n]
        /\ list' = [list EXCEPT ![n] = <<>>]
    BY <1>2 DEF ContinueStitch
  <2>2. Known(n, n)
    BY DEF Known
  <2>3. SuccOK' /\ PredOK'
    BY <2>1, <2>2, SuccSet, PredSet DEF Inv
  <2>4. ListsOK'
    BY <2>1, HeardNothing, ListsSet DEF Inv
  <2>5. ThreadsOK'
    BY <2>1, ThreadsGo, IdleOK DEF Inv, Roles
  <2> QED
    BY <2>3, <2>4, <2>5
<1> QED
  BY <1>1, <1>2

LEMMA StabilizeOK ==
  ASSUME Inv, NEW n \in Nodes, NEW o \in Outcomes, Stabilize(n, o)
  PROVE  Inv'
<1> DEFINE h == thread[n]["worker"].to
<1>1. h \in Nodes /\ Known(h, n) /\ NotOut(n)
  BY ThreadFacts DEF Inv, Roles, Stabilize, Waits, Speaking
<1>2. crashes' \in 0 .. MaxCrashes /\ losses' \in 0 .. MaxLosses
  BY <1>1, SentOK DEF Inv, Stabilize
<1>3. Growing /\ SystemOK' /\ NotOut(n)'
  BY <1>1, <1>2, SameStage DEF Inv, SystemOK, Stabilize, NotOut
<1>4. CASE ContinueStitch(n, list[n])
  <2>1. list[n] \in Seq(Nodes) /\ Heard(n, list[n])
    BY DEF Inv, ListsOK
  <2>2. SuccOK' /\ PredOK' /\ ListsOK' /\ ThreadsOK'
    BY <1>3, <1>4, <2>1, ContinueStitchOK
  <2> QED
    BY <1>3, <2>2 DEF Inv
<1>5. CASE /\ Goes(n, "worker", Calling("adopt", h, pred[h]))
           /\ UNCHANGED pointers
  <2>1. SuccOK' /\ PredOK' /\ ListsOK'
    BY <1>3, <1>5, SuccSame, PredSame, ListsSame DEF Inv, pointers
  <2>2. pred[h] \in Nodes /\ Known(pred[h], n)
    BY <1>1 DEF Inv, PredOK, Known
  <2>3. ThreadsOK'
    BY <1>1, <1>3, <1>5, <2>2, CallGoes DEF Inv, Roles, Places, Speaking
  <2> QED
    BY <1>3, <2>1, <2>3 DEF Inv
<1> QED
  BY <1>4, <1>5 DEF Stabilize

LEMMA AdoptOK ==
  ASSUME Inv, NEW n \in Nodes, Adopt(n)
  PROVE  Inv'
<1> DEFINE got == thread[n]["worker"].got
<1>1. got \in Nodes /\ Known(got, n) /\ NotOut(n)
  BY ThreadFacts DEF Inv, Roles, Adopt, Waits, Speaking
<1>2. Growing /\ SystemOK' /\ PredOK' /\ ListsOK' /\ NotOut(n)'
  BY <1>1, SameStage, PredSame, ListsSame DEF Inv, SystemOK, Adopt, bounds, NotOut
<1>3. succ' = succ \/ succ' = [succ EXCEPT ![n] = got]
  BY DEF Adopt
<1>4. SuccOK'
  BY <1>1, <1>2, <1>3, SuccSame, SuccSet DEF Inv
<1>5. succ'[n] \in Nodes /\ Known(succ'[n], n) /\ Known(n, n)
  <2>1. succ \in [Nodes -> Nodes] /\ Known(succ[n], n)
    BY DEF Inv, SuccOK
  <2> QED
    BY <1>1, <1>3, <2>1 DEF Known
<1>6. ThreadsOK'
  BY <1>2, <1>5, CallGoes DEF Inv, Adopt, Roles, Places, Speaking
<1> QED
  BY <1>2, <1>4, <1>6 DEF Inv

LEMMA NotifyOK ==
  ASSUME Inv, NEW n \in Nodes, NEW o \in Outcomes,
         Notify(n, "notify", o) \/ Notify(n, "tell survivor", o)
  PROVE  Inv'
<1> DEFINE h == thread[n]["worker"].to
<1>1. h \in Nodes /\ NotOut(n)
  BY ThreadFacts DEF Inv, Roles, Notify, Waits, Speaking
<1>2. /\ Sent(h, o)
      /\ UpdatePredecessor(h, n, o)
      /\ BeginList(n, "worker", succ[n])
      /\ UNCHANGED <<alive, stage, succ, asked>>
  BY DEF Notify
<1>3. crashes' \in 0 .. MaxCrashes /\ losses' \in 0 .. MaxLosses
  BY <1>1, <1>2, SentOK DEF Inv
<1>4. Growing /\ SystemOK' /\ SuccOK'
  BY <1>2, <1>3, SameStage, SuccSame DEF Inv, SystemOK
<1>5. Known(n, h) /\ succ[n] \in Nodes /\ Known(succ[n], n)
  BY <1>1 DEF Inv, SuccOK, Known
<1>6. PredOK'
  BY <1>1, <1>2, <1>4, <1>5, UpdatePredecessorOK DEF Inv
<1>7. ListsOK' /\ ThreadsOK'
  BY <1>2, <1>4, <1>5, BeginListOK DEF Inv, Roles
<1> QED
  BY <1>4, <1>6, <1>7 DEF Inv

LEMMA PingSurvivorOK ==
  ASSUME Inv, NEW n \in Nodes, NEW o \in Outcomes, PingSurvivor(n, o)
  PROVE  Inv'
<1> DEFINE t == thread[n]["worker"]
<1>1. t.to \in Nodes /\ Known(t.to, n) /\ NotOut(n)
  BY ThreadFacts DEF Inv, Roles, PingSurvivor, Waits, Speaking
<1>2. crashes' \in 0 .. MaxCrashes /\ losses' \in 0 .. MaxLosses
  BY <1>1, SentOK DEF Inv, PingSurvivor
<1>3. Growing /\ SystemOK' /\ NotOut(n)'
  BY <1>1, <1>2, SameStage DEF Inv, SystemOK, PingSurvivor, NotOut
<1>4. CASE ContinueStitch(n, t.todo)
  <2>1. t.todo \in Seq(Nodes) /\ Heard(n, t.todo)
    BY ThreadFacts, ThreadType DEF Inv, Roles, Told
  <2>2. SuccOK' /\ PredOK' /\ ListsOK' /\ ThreadsOK'
    BY <1>3, <1>4, <2>1, ContinueStitchOK
  <2> QED
    BY <1>3, <2>2 DEF Inv
<1>5. CASE /\ succ' = [succ EXCEPT ![n] = t.to]
           /\ Goes(n, "worker", Calling("tell survivor", t.to, n))
           /\ UNCHANGED <<pred, list>>
  <2>1. SuccOK' /\ PredOK' /\ ListsOK'
    BY <1>1, <1>3, <1>5, SuccSet, PredSame, ListsSame DEF Inv
  <2>2. Known(n, n)
    BY DEF Known
  <2>3. ThreadsOK'
    BY <1>1, <1>3, <1>5, <2>2, CallGoes DEF Inv, Roles, Places, Speaking
  <2> QED
    BY <1>3, <2>1, <2>3 DEF Inv
<1> QED
  BY <1>4, <1>5 DEF PingSurvivor

-----------------------------------------------------------------------------
(* update_successor_list                                                   *)

LEMMA OpenListOK ==
  ASSUME Inv, NEW n \in Nodes, NEW r \in Roles, OpenList(n, r)
  PROVE  Inv'
<1> DEFINE t == Gathering("call list", n, n, <<succ[n]>>)
<1>1. Growing /\ SystemOK' /\ SuccOK' /\ PredOK' /\ ListsOK'
  BY SameStage, SuccSame, PredSame, ListsSame DEF Inv, SystemOK, OpenList, pointers, bounds
<1>2. <<succ[n]>> \in Seq(Nodes) /\ Heard(n, <<succ[n]>>)
  BY OneNode, OneHeard DEF Inv, SuccOK
<1>3. "call list" \in Places /\ "call list" \notin Speaking /\ Known(n, n)
  BY DEF Places, Speaking, Known
<1>4. t \in Threads /\ Told(n, t) /\ t.at = "call list"
  BY <1>2, <1>3, GatheringOK
<1>5. Goes(n, r, t)
  BY DEF OpenList
<1> HIDE DEF t
<1>6. ThreadsOK'
  BY <1>1, <1>3, <1>4, <1>5, ThreadsGo DEF Inv
<1> QED
  BY <1>1, <1>6 DEF Inv

LEMMA CallListOK ==
  ASSUME Inv, NEW n \in Nodes, NEW r \in Roles, CallList(n, r)
  PROVE  Inv'
<1> DEFINE acc == thread[n][r].acc
           t == Gathering("get list", succ[n], n, acc)
<1>1. Growing /\ SystemOK' /\ SuccOK' /\ PredOK' /\ ListsOK'
  BY SameStage, SuccSame, PredSame, ListsSame DEF Inv, SystemOK, CallList, pointers, bounds
<1>2. acc \in Seq(Nodes) /\ Heard(n, acc)
  BY ThreadFacts, ThreadType DEF Inv, Told
<1>3. succ[n] \in Nodes /\ Known(succ[n], n)
  BY DEF Inv, SuccOK
<1>4. "get list" \in Places /\ "get list" \notin Speaking
  BY DEF Places, Speaking
<1>5. Goes(n, r, t)
  BY DEF CallList
<1> HIDE DEF acc
<1>6. t \in Threads /\ Told(n, t) /\ t.at = "get list"
  BY <1>2, <1>3, <1>4, GatheringOK
<1> HIDE DEF t
<1>7. ThreadsOK'
  BY <1>1, <1>4, <1>5, <1>6, ThreadsGo DEF Inv
<1> QED
  BY <1>1, <1>7 DEF Inv

LEMMA GetListOK ==
  ASSUME Inv, NEW n \in Nodes, NEW r \in Roles, NEW o \in Outcomes, GetList(n, r, o)
  PROVE  Inv'
<1> DEFINE t == thread[n][r]
           todo == IF o = "answered" THEN list[t.to] ELSE <<>>
<1>1. t \in Threads /\ t.to \in Nodes /\ Known(t.to, n) /\ Told(n, t)
  BY ThreadFacts DEF Inv
<1>2. crashes' \in 0 .. MaxCrashes /\ losses' \in 0 .. MaxLosses
  BY <1>1, SentOK DEF Inv, GetList
<1>3. Growing /\ SuccOK' /\ PredOK'
  BY SameStage, SuccSame, PredSame DEF Inv, GetList
<1>4. t.acc \in Seq(Nodes) /\ Heard(n, t.acc)
  BY <1>1, ThreadType DEF Told
<1>5. list[t.to] \in Seq(Nodes) /\ Heard(n, list[t.to])
  BY <1>1 DEF Inv, ListsOK, Heard, Known
<1>6. todo \in Seq(Nodes) /\ Heard(n, todo)
  BY <1>5, HeardNothing
<1>7. ContinueList(n, r, todo, t.acc)
  BY DEF GetList
<1> HIDE DEF todo
<1>8. ListsOK' /\ ThreadsOK' /\ asked' \subseteq Nodes
  BY <1>3, <1>4, <1>6, <1>7, ContinueListOK DEF Inv
<1>9. SystemOK'
  BY <1>2, <1>8 DEF Inv, SystemOK, GetList
<1> QED
  BY <1>3, <1>8, <1>9 DEF Inv

LEMMA PingBackupOK ==
  ASSUME Inv, NEW n \in Nodes, NEW r \in Roles, NEW o \in Outcomes, PingBackup(n, r, o)
  PROVE  Inv'
<1> DEFINE t == thread[n][r]
           acc == IF o = "answered" THEN Append(t.acc, t.to) ELSE t.acc
<1>1. t \in Threads /\ t.to \in Nodes /\ Known(t.to, n) /\ Told(n, t)
  BY ThreadFacts DEF Inv
<1>2. crashes' \in 0 .. MaxCrashes /\ losses' \in 0 .. MaxLosses
  BY <1>1, SentOK DEF Inv, PingBackup
<1>3. Growing /\ SuccOK' /\ PredOK'
  BY SameStage, SuccSame, PredSame DEF Inv, PingBackup
<1>4. /\ t.todo \in Seq(Nodes) /\ Heard(n, t.todo)
      /\ t.acc \in Seq(Nodes) /\ Heard(n, t.acc)
  BY <1>1, ThreadType DEF Told
<1>5. acc \in Seq(Nodes) /\ Heard(n, acc)
  BY <1>1, <1>4, HeardAppend
<1>6. ContinueList(n, r, t.todo, acc)
  BY DEF PingBackup
<1> HIDE DEF acc
<1>7. ListsOK' /\ ThreadsOK' /\ asked' \subseteq Nodes
  BY <1>3, <1>4, <1>5, <1>6, ContinueListOK DEF Inv
<1>8. SystemOK'
  BY <1>2, <1>7 DEF Inv, SystemOK, PingBackup
<1> QED
  BY <1>3, <1>7, <1>8 DEF Inv

LEMMA StartRebuildOK ==
  ASSUME Inv, NEW n \in Nodes, StartRebuild(n)
  PROVE  Inv'
<1>1. Growing /\ SystemOK' /\ SuccOK' /\ PredOK'
  BY SameStage, SuccSame, PredSame DEF Inv, SystemOK, StartRebuild, bounds
<1>2. succ[n] \in Nodes /\ Known(succ[n], n)
  BY DEF Inv, SuccOK
<1>3. ListsOK' /\ ThreadsOK'
  BY <1>1, <1>2, BeginListOK DEF Inv, StartRebuild, Roles
<1> QED
  BY <1>1, <1>3 DEF Inv

LEMMA CrashOK ==
  ASSUME Inv, NEW n \in Nodes, Crash(n)
  PROVE  Inv'
<1>1. crashes' \in 0 .. MaxCrashes /\ losses' \in 0 .. MaxLosses
  BY BoundsAssumption DEF Inv, SystemOK, Crash
<1> QED
  BY <1>1, ExitStepOK DEF Crash

-----------------------------------------------------------------------------
(* The invariant and what follows from it                                  *)

LEMMA InitOK == Init => Inv
<1> SUFFICES ASSUME Init PROVE Inv
  OBVIOUS
<1>1. SystemOK
  BY BoundsAssumption DEF Init, SystemOK
<1>2. ASSUME NEW n \in Nodes
      PROVE  /\ succ[n] \in Nodes /\ Known(succ[n], n)
             /\ pred[n] \in Nodes /\ Known(pred[n], n)
  BY NodesAssumption, RingAssumption DEF Init, Known, NotOut
<1>3. SuccOK
  BY <1>2 DEF Init, SuccOK
<1>4. PredOK
  BY <1>2 DEF Init, PredOK
<1>5. ASSUME NEW n \in Nodes
      PROVE  list[n] \in Seq(Nodes) /\ Len(list[n]) < K /\ Heard(n, list[n])
  <2>1. CASE n \in Settled
    <3>1. list[n] = Backups[n] /\ Backups[n] \in Seq(Settled)
      BY <2>1, RingAssumption DEF Init
    <3>2. Len(Backups[n]) < K /\ \A i \in DOMAIN Backups[n] : Backups[n][i] \in Settled
      BY <2>1, <3>1, RingAssumption
    <3>3. \A x \in Settled : x \in Nodes /\ NotOut(x)
      BY NodesAssumption DEF Init, NotOut
    <3>4. Heard(n, Backups[n])
      BY <3>2, <3>3 DEF Heard, Known
    <3>5. Backups[n] \in Seq(Nodes)
      BY <3>1, NodesAssumption, SeqMonotonic
    <3> QED
      BY <3>1, <3>2, <3>4, <3>5
  <2>2. CASE n \notin Settled
    <3>1. list[n] = <<>>
      BY <2>2 DEF Init
    <3> QED
      BY <3>1, HeardNothing
  <2> QED
    BY <2>1, <2>2
<1>6. ListsOK
  BY <1>5 DEF Init, ListsOK
<1>7. ThreadsOK
  BY IdleOK DEF Init, ThreadsOK
<1> QED
  BY <1>1, <1>3, <1>4, <1>6, <1>7 DEF Inv

LEMMA StepOK == Inv /\ [Next]_vars => Inv'
<1> SUFFICES ASSUME Inv, [Next]_vars PROVE Inv'
  OBVIOUS
<1>1. CASE UNCHANGED vars
  BY <1>1, SameStage, SuccSame, PredSame, ListsSame, ThreadsSame
  DEF vars, Inv, SystemOK
<1>2. ASSUME NEW n \in Nodes, MainStep(n)
      PROVE  Inv'
  BY <1>2, LookupOK, GetPredecessorOK, DataTransferOK, TellSuccessorOK,
     TellPredecessorOK, DataHandoffOK, PartPredecessorOK, PartSuccessorOK
  DEF MainStep
<1>3. ASSUME NEW n \in Nodes, WorkerStep(n)
      PROVE  Inv'
  BY <1>3, WakeOK, AdoptOK, PingPredecessorOK, StabilizeOK, PingSurvivorOK, NotifyOK
  DEF WorkerStep
<1>4. ASSUME NEW n \in Nodes, NEW r \in Roles, ListStep(n, r)
      PROVE  Inv'
  BY <1>4, OpenListOK, CallListOK, GetListOK, PingBackupOK DEF ListStep
<1> QED
  BY <1>1, <1>2, <1>3, <1>4, BeginJoinOK, BeginDepartOK, StartRebuildOK, CrashOK
  DEF Next

LEMMA Invariance == Spec => []Inv
  BY InitOK, StepOK, PTL DEF Spec

\* Whatever joins, departs, is lost or dies: pointers, lists and calls name nodes
\* only, and a list keeps to k - 1 entries, however many rebuilds of it are under
\* way (update_successor_list).
THEOREM TypeCorrect == Spec => []TypeOK
<1>1. Inv => TypeOK
  BY DEF Inv, SystemOK, SuccOK, PredOK, ListsOK, ThreadsOK, TypeOK
<1> QED
  BY <1>1, Invariance, PTL

\* A node that has no data yet is nobody's successor, predecessor or backup:
\* only a thread of a node that has its data makes that node known (join).
THEOREM StrangersStayUnknown == Spec => []NoStrangers
<1>1. Inv => NoStrangers
  BY DEF Inv, SuccOK, PredOK, ListsOK, Heard, Known, NotOut, NoStrangers, Listed
<1> QED
  BY <1>1, Invariance, PTL
-----------------------------------------------------------------------------
(* Who claims an identifier                                                *)

LEMMA DistanceType == \A a, x \in Ids : Distance(a, x) \in Nat
  BY SizeAssumption DEF Distance, Ids

\* The nearest of some nodes, from an identifier on clockwise.
LEMMA NearestFrom ==
  ASSUME NEW id \in Ids, NEW S \in SUBSET Ids, S # {}
  PROVE  \E n \in S : \A x \in S : Distance(id, n) <= Distance(id, x)
<1> DEFINE T == {Distance(id, x) : x \in S}
<1>1. T \subseteq Nat /\ T # {}
  BY DistanceType
<1>2. Min(T) \in T /\ \A d \in T : Min(T) <= d
  BY <1>1, SomeMin
<1> QED
  BY <1>2

\* What is not nearer to id than n lies outside of id .. n - 1: id is beyond it.
LEMMA NearestClaims ==
  ASSUME NEW id \in Ids, NEW n \in Ids, NEW p \in Ids, Distance(id, n) <= Distance(id, p)
  PROVE  Between(id, p, n)
  BY SizeAssumption DEF Distance, Between, Ids

Peopled == \E n \in Nodes : NotOut(n)

LEMMA NobodyForgets ==
  ASSUME Inv, [Next]_vars, NEW x \in Nodes, NotOut(x)
  PROVE  NotOut(x)'
<1>1. stage \in [Nodes -> {"out", "fed", "joined"}]
  BY DEF Inv, SystemOK
<1>2. CASE stage' = stage
  BY <1>2 DEF NotOut
<1>3. ASSUME NEW n \in Nodes, NEW o \in Outcomes, DataTransfer(n, o) \/ TellPredecessor(n, o)
      PROVE  NotOut(x)'
  BY <1>1, <1>3 DEF DataTransfer, TellPredecessor, AbortJoin, pointers, NotOut
<1>4. ASSUME NEW n \in Nodes, WorkerStep(n)
      PROVE  stage' = stage
  BY <1>4 DEF WorkerStep, Wake, Adopt, PingPredecessor, Stabilize, PingSurvivor, Notify
<1>5. ASSUME NEW n \in Nodes, NEW r \in Roles, ListStep(n, r)
      PROVE  stage' = stage
  BY <1>5 DEF ListStep, OpenList, CallList, GetList, PingBackup
<1>6. ASSUME NEW n \in Nodes, NEW o \in Outcomes,
             \/ Lookup(n, o) \/ GetPredecessor(n, o) \/ TellSuccessor(n, o)
             \/ DataHandoff(n, o) \/ PartPredecessor(n, o) \/ PartSuccessor(n, o)
      PROVE  stage' = stage
  BY <1>6 DEF Lookup, GetPredecessor, TellSuccessor, DataHandoff, PartPredecessor,
     PartSuccessor, AbortJoin
<1>7. ASSUME NEW n \in Nodes,
             (\E entry \in Nodes : BeginJoin(n, entry)) \/ BeginDepart(n) \/ StartRebuild(n)
               \/ Crash(n)
      PROVE  stage' = stage
  BY <1>7 DEF BeginJoin, BeginDepart, StartRebuild, Crash
<1>8. CASE UNCHANGED vars
  BY <1>2, <1>8 DEF vars
<1>9. CASE Next
  BY <1>2, <1>3, <1>4, <1>5, <1>6, <1>7, <1>9 DEF Next, MainStep
<1> QED
  BY <1>8, <1>9

\* Every identifier is claimed by a node that has its data: its predecessor has
\* its data too, so the nearest such node from the identifier on claims it.
LEMMA Claimed ==
  ASSUME Inv, Peopled, NEW id \in Ids
  PROVE  \E n \in Nodes : NotOut(n) /\ Owns(n, id)
<1> DEFINE S == {x \in Nodes : NotOut(x)}
<1>1. S \in SUBSET Ids /\ S # {}
  BY NodesAssumption DEF Peopled
<1>2. PICK n \in S : \A x \in S : Distance(id, n) <= Distance(id, x)
  BY <1>1, NearestFrom
<1>3. pred[n] \in S
  BY <1>2 DEF Inv, PredOK, Known
<1>4. Between(id, pred[n], n)
  BY <1>1, <1>2, <1>3, NearestClaims
<1> QED
  BY <1>2, <1>4 DEF Owns

\* No identifier is without a node that claims it and has its data, as long as
\* no process ends: join moves the data before it moves a pointer, and every
\* handler and stabilization itself take only such nodes for a predecessor.
THEOREM EveryIdIsClaimed == Spec => []NoGap
<1>1. Init => Peopled
  BY NodesAssumption DEF Init, Peopled, NotOut
<1>2. Inv /\ Peopled /\ [Next]_vars => Peopled'
  BY NobodyForgets DEF Peopled
<1>3. Inv /\ Peopled => NoGap
  BY Claimed DEF NoGap, NotOut
<1> QED
  BY <1>1, <1>2, <1>3, Invariance, PTL DEF Spec

-----------------------------------------------------------------------------
(* Joins into different gaps                                               *)
(*                                                                         *)
(* While nothing is lost, every node that ever had its data lives and      *)
(* nobody is about to leave, newcomers that belong between different       *)
(* neighbours do not disturb one another: each finds its neighbours, and   *)
(* these get to know nobody else.  One that dies before it has its data    *)
(* was never known.                                                        *)

\* The newcomers that belong between n and its settled successor.
Gap(n) == {j \in Nodes \ Settled : Between(j, n, Successor[n])}

\* No two newcomers belong between the same two settled nodes.
Apart == \A n \in Settled : \A i, j \in Gap(n) : i = j

\* Where a settled node's successor, and its successor's predecessor, may point.
Right(n) == {Successor[n]} \cup Gap(n)
Left(n) == {n} \cup Gap(n)

SettledOK(n) ==
  /\ stage[n] = "joined" /\ n \in alive
  /\ succ[n] \in Right(n)
  /\ pred[Successor[n]] \in Left(n)
  /\ thread[n]["main"].at = "idle"

Joining == {"idle", "lookup", "get predecessor", "data transfer", "tell successor",
            "tell predecessor"} \cup Listing

\* How far the join of j, between n and its successor, has come.
NewcomerOK(n, j) ==
  LET t == thread[j]["main"]
  IN  /\ t.at \in Joining
      /\ NotOut(j) => j \in alive /\ succ[j] = Successor[n] /\ pred[j] = n
      /\ stage[j] = "fed" <=> t.at \in {"tell successor", "tell predecessor"}
      /\ t.at \in {"lookup", "get predecessor", "data transfer"} => stage[j] = "out"
      /\ t.at = "lookup" => NotOut(t.to)
      /\ t.at \in {"get predecessor", "data transfer", "tell successor"} => t.to = Successor[n]
      /\ t.at \in {"get predecessor", "data transfer"} => succ[j] = Successor[n]
      /\ t.at = "data transfer" => pred[j] = n
      /\ t.at = "tell predecessor" => t.to = n

\* Whom a worker asks and tells, and what it may be told.
Expected(t, to, got) ==
  /\ t.at \notin {"ping survivor", "tell survivor"}
  /\ t.at \in {"stabilize", "adopt", "notify"} => t.to \in to
  /\ t.at = "adopt" => t.got \in got

WorkerOK(m, to, got) == Expected(thread[m]["worker"], to, got)

Calm ==
  \A n \in Settled :
    /\ SettledOK(n)
    /\ WorkerOK(n, Right(n), Left(n))
    /\ \A j \in Gap(n) : NewcomerOK(n, j) /\ WorkerOK(j, {Successor[n]}, {n, j})

Leaving == {"data handoff", "part predecessor", "part successor"}

NobodyLeaves == \A n \in Nodes : thread[n]["main"].at \notin Leaving

\* Nothing was lost, and every node that ever had its data is still there.
Undisturbed == /\ losses = 0
               /\ \A n \in Nodes : stage[n] # "out" => n \in alive

\* Neither has anything gone wrong nor is anybody about to leave.
Quiet == Undisturbed /\ NobodyLeaves

LEMMA SettledFacts ==
  /\ Nodes \subseteq Ids /\ Settled \subseteq Nodes
  /\ \A n \in Settled : /\ Successor[n] \in Settled /\ Predecessor[n] \in Settled
                        /\ Predecessor[Successor[n]] = n
                        /\ Successor[Predecessor[n]] = n
                        /\ \A o \in Settled : Between(Successor[n], n, o)
<1>1. IsFiniteSet(Settled)
  <2>1. IsFiniteSet(Ids)
    BY SizeAssumption, FS_Interval DEF Ids
  <2> QED
    BY <2>1, NodesAssumption, FS_Subset
<1>2. Successor \in [Settled -> Settled] /\ Predecessor \in [Settled -> Settled]
      /\ \A n \in Settled : Predecessor[Successor[n]] = n
  BY RingAssumption
<1>3. Successor \in Injection(Settled, Settled)
  BY <1>2 DEF Injection, IsInjective
<1>4. Successor \in Surjection(Settled, Settled)
  BY <1>1, <1>3, FS_Injection
<1>5. \A n \in Settled : \E o \in Settled : Successor[o] = n
  BY <1>4 DEF Surjection
<1>6. \A n \in Settled : Successor[Predecessor[n]] = n
  BY <1>2, <1>5
<1> QED
  BY <1>2, <1>6, NodesAssumption, RingAssumption

\* Arithmetic of the circle.
LEMMA BetweenIsCloser ==
  ASSUME NEW a \in Ids, NEW b \in Ids, NEW x \in Ids, a # b
  PROVE  Between(x, a, b) <=> x # a /\ Distance(a, x) <= Distance(a, b)
  BY SizeAssumption DEF Between, Distance, Ids

LEMMA TwoRanges ==
  ASSUME NEW n \in Ids, NEW m \in Ids, NEW s \in Ids, NEW t \in Ids, NEW j \in Ids, n # m,
         Between(s, n, m), Between(t, m, n), Between(j, n, s), Between(j, m, t)
  PROVE  FALSE
  BY SizeAssumption DEF Between, Ids

LEMMA Within ==
  ASSUME NEW n \in Ids, NEW h \in Ids, NEW g \in Ids, NEW j \in Ids, g # h,
         Between(g, n, h), Between(j, g, h)
  PROVE  Between(j, n, h) /\ j # g
  BY SizeAssumption DEF Between, Ids

LEMMA Short ==
  ASSUME NEW n \in Ids, NEW h \in Ids, NEW g \in Ids, NEW j \in Ids, g # h, g # n,
         Between(g, n, h), Between(j, n, g)
  PROVE  Between(j, n, h)
  BY SizeAssumption DEF Between, Ids

LEMMA NotBack ==
  ASSUME NEW n \in Ids, NEW s \in Ids, NEW j \in Ids, j # s, n # s, Between(j, n, s)
  PROVE  ~Between(n, j, s)
  BY SizeAssumption DEF Between, Ids

LEMMA NearestBehind ==
  ASSUME NEW n \in Ids, NEW s \in Ids, NEW j \in Ids, j # s, n # s, j # n, ~Between(j, n, s)
  PROVE  Distance(s, j) < Distance(n, j)
  BY SizeAssumption DEF Between, Distance, Ids

LEMMA NearestAhead ==
  ASSUME NEW n \in Ids, NEW s \in Ids, NEW j \in Ids, NEW x \in Ids, j # s, x # j,
         Between(j, n, s), x = s \/ ~Between(x, n, s)
  PROVE  Distance(j, s) <= Distance(j, x)
  BY SizeAssumption DEF Between, Distance, Ids

\* Every newcomer belongs into one gap.
LEMMA SomeGap ==
  ASSUME NEW j \in Nodes \ Settled
  PROVE  \E n \in Settled : j \in Gap(n)
<1> DEFINE T == {Distance(n, j) : n \in Settled}
<1>1. T \subseteq Nat /\ T # {}
  BY SettledFacts, NodesAssumption, DistanceType
<1>2. Min(T) \in T /\ \A d \in T : Min(T) <= d
  BY <1>1, SomeMin
<1>3. PICK n \in Settled : \A m \in Settled : Distance(n, j) <= Distance(m, j)
  BY <1>2
<1> DEFINE s == Successor[n]
<1>4. n \in Ids /\ s \in Ids /\ j \in Ids /\ s \in Settled /\ j # s /\ j # n
  BY SettledFacts
<1>5. CASE n = s
  BY <1>4, <1>5 DEF Gap, Between, Ids
<1>6. CASE n # s
  <2>1. Distance(n, j) <= Distance(s, j) /\ Distance(n, j) \in Nat /\ Distance(s, j) \in Nat
    BY <1>3, <1>4, DistanceType
  <2>2. Between(j, n, s)
    BY <1>4, <1>6, <2>1, NearestBehind
  <2> QED
    BY <2>2 DEF Gap
<1> QED
  BY <1>5, <1>6

LEMMA OneGap ==
  ASSUME NEW n \in Settled, NEW m \in Settled, NEW j \in Gap(n), j \in Gap(m)
  PROVE  n = m
<1> SUFFICES ASSUME n # m PROVE FALSE
  OBVIOUS
<1>1. /\ n \in Ids /\ m \in Ids /\ j \in Ids /\ Successor[n] \in Ids /\ Successor[m] \in Ids
      /\ Between(Successor[n], n, m) /\ Between(Successor[m], m, n)
      /\ Between(j, n, Successor[n]) /\ Between(j, m, Successor[m])
  BY SettledFacts DEF Gap
<1> QED
  BY <1>1, TwoRanges

LEMMA GapFacts ==
  ASSUME NEW n \in Settled, NEW j \in Gap(n)
  PROVE  /\ j \in Nodes /\ j \notin Settled /\ j \in Ids /\ n \in Ids /\ Successor[n] \in Ids
         /\ Successor[n] \in Settled /\ n \in Nodes /\ Successor[n] \in Nodes
         /\ j # n /\ j # Successor[n] /\ Between(j, n, Successor[n])
  BY SettledFacts DEF Gap

\* What a step leaves alone.
LEMMA SettledStays ==
  ASSUME NEW n \in Settled, SettledOK(n), n \in alive', stage'[n] = stage[n],
         succ'[n] \in Right(n), pred'[Successor[n]] \in Left(n),
         thread'[n]["main"] = thread[n]["main"]
  PROVE  SettledOK(n)'
  BY DEF SettledOK, Right, Left, Gap

LEMMA WorkerStays ==
  ASSUME NEW m, NEW to, NEW got, WorkerOK(m, to, got),
         thread'[m]["worker"] = thread[m]["worker"]
  PROVE  Expected(thread'[m]["worker"], to, got)
  BY DEF WorkerOK

LEMMA NewcomerStays ==
  ASSUME Inv, Growing, NEW n \in Settled, NEW j \in Gap(n), NewcomerOK(n, j),
         j \in alive => j \in alive', stage'[j] = stage[j], succ'[j] = succ[j],
         pred'[j] = pred[j] \/ (NotOut(j) /\ pred'[j] = n),
         thread'[j]["main"] = thread[j]["main"]
  PROVE  NewcomerOK(n, j)'
<1> DEFINE t == thread[j]["main"]
<1>1. t.to \in Nodes
  BY GapFacts, ThreadFacts DEF Inv, Roles
<1>2. t.at = "lookup" => NotOut(t.to)'
  BY <1>1 DEF NewcomerOK, Growing
<1>3. NotOut(j)' <=> NotOut(j)
  BY DEF NotOut
<1>4. t.at \in {"get predecessor", "data transfer"} => ~NotOut(j)
  BY DEF NewcomerOK, NotOut
<1> QED
  BY <1>2, <1>3, <1>4 DEF NewcomerOK

LEMMA Stayers ==
  ASSUME Calm, NEW n \in Settled
  PROVE  SettledOK(n) /\ WorkerOK(n, Right(n), Left(n))
  BY DEF Calm

LEMMA Newcomers ==
  ASSUME Calm, NEW n \in Settled, NEW j \in Gap(n)
  PROVE  NewcomerOK(n, j) /\ WorkerOK(j, {Successor[n]}, {n, j})
  BY DEF Calm

\* Who is not out is alive, and so are all that a call may go to; it is answered.
LEMMA Alive ==
  ASSUME Calm, NEW x \in Nodes, NotOut(x)
  PROVE  x \in alive
<1>1. CASE x \in Settled
  BY <1>1 DEF Calm, SettledOK
<1>2. CASE x \notin Settled
  BY <1>2, SomeGap DEF Calm, NewcomerOK
<1> QED
  BY <1>1, <1>2

LEMMA Answered ==
  ASSUME losses' = 0, Inv, Calm, NEW h \in Nodes, NotOut(h) \/ h \in alive,
         NEW o \in Outcomes, Sent(h, o)
  PROVE  o = "answered"
<1>1. h \in alive
  BY Alive
<1>2. losses \in Nat
  BY BoundsAssumption DEF Inv, SystemOK
<1> QED
  BY <1>1, <1>2 DEF Sent, Outcomes

\* Whom a speaking thread has been told of has its data.
LEMMA ToldNotOut ==
  ASSUME Inv, NEW n \in Nodes, NEW r \in Roles, thread[n][r].at \in Speaking
  PROVE  /\ thread[n][r].to \in Nodes /\ NotOut(thread[n][r].to)
         /\ thread[n][r].got \in Nodes /\ NotOut(thread[n][r].got) /\ NotOut(n)
<1>1. LET t == thread[n][r]
      IN  /\ t.to \in Nodes /\ Known(t.to, n) /\ t.got \in Nodes /\ Known(t.got, n)
          /\ t.at \in Speaking => NotOut(n)
  BY ThreadFacts DEF Inv
<1> QED
  BY <1>1 DEF Known

\* Thread r of node n goes on; every other thread stays where it is.
LEMMA OneGoes ==
  ASSUME Inv, NEW n \in Nodes, NEW r \in Roles, NEW t, Goes(n, r, t)
  PROVE  /\ thread'[n][r] = t
         /\ \A m \in Nodes, q \in Roles : m # n \/ q # r => thread'[m][q] = thread[m][q]
  BY DEF Inv, ThreadsOK, Goes

LEMMA CalmAgain ==
  ASSUME \A n \in Settled :
           /\ SettledOK(n)'
           /\ Expected(thread'[n]["worker"], Right(n), Left(n))
           /\ \A j \in Gap(n) : /\ NewcomerOK(n, j)'
                               /\ Expected(thread'[j]["worker"], {Successor[n]}, {n, j})
  PROVE  Calm'
  BY DEF Calm, WorkerOK, Expected, Right, Left, Gap

\* A step of a list that is rebuilt.
LEMMA ListGoes ==
  ASSUME Inv, Calm, NEW n \in Nodes, NEW r \in Roles, NEW t, Goes(n, r, t),
         t.at \in {"idle"} \cup Listing,
         \/ r = "rebuild"
         \/ thread[n][r].at \in Listing
         \/ r = "worker",
         UNCHANGED <<alive, stage, succ, pred>>
  PROVE  Calm'
<1>1. /\ thread'[n][r] = t
      /\ \A m \in Nodes, q \in Roles : m # n \/ q # r => thread'[m][q] = thread[m][q]
  BY OneGoes
<1>2. Growing /\ "main" \in Roles /\ "worker" \in Roles
  BY SameStage DEF Inv, Roles
<1>3. ASSUME NEW m \in Nodes, NEW to, NEW got, WorkerOK(m, to, got)
      PROVE  Expected(thread'[m]["worker"], to, got)
  <2>1. CASE m = n /\ r = "worker"
    <3>1. thread'[m]["worker"].at \in {"idle", "open list", "call list", "get list", "ping backup"}
      BY <1>1, <2>1 DEF Listing
    <3> QED
      BY <3>1 DEF Expected
  <2>2. CASE ~(m = n /\ r = "worker")
    BY <1>1, <1>2, <1>3, <2>2, WorkerStays
  <2> QED
    BY <2>1, <2>2
<1>4. ASSUME NEW m \in Settled PROVE SettledOK(m)'
  <2>1. SettledOK(m) /\ m \in Nodes
    BY SettledFacts, Stayers
  <2>2. ~(m = n /\ r = "main")
    BY <2>1 DEF SettledOK, Listing
  <2>3. thread'[m]["main"] = thread[m]["main"]
    BY <1>1, <1>2, <2>1, <2>2
  <2> QED
    BY <2>1, <2>3, SettledStays DEF SettledOK
<1>5. ASSUME NEW m \in Settled, NEW j \in Gap(m) PROVE NewcomerOK(m, j)'
  <2>1. NewcomerOK(m, j) /\ j \in Nodes
    BY GapFacts, Newcomers
  <2>2. CASE j = n /\ r = "main"
    <3>1. thread[j]["main"].at \in Listing
      BY <2>2
    <3>2. stage[j] # "fed"
      BY <2>1, <3>1 DEF NewcomerOK, Listing
    <3>3. thread'[j]["main"] = t
      BY <1>1, <2>2
    <3>4. thread'[j]["main"].at \in {"idle", "open list", "call list", "get list", "ping backup"}
      BY <3>3 DEF Listing
    <3> QED
      BY <2>1, <3>2, <3>4 DEF NewcomerOK, Joining, Listing, NotOut
  <2>3. CASE ~(j = n /\ r = "main")
    <3>1. thread'[j]["main"] = thread[j]["main"]
      BY <1>1, <1>2, <2>1, <2>3
    <3> QED
      BY <1>2, <2>1, <3>1, NewcomerStays
  <2> QED
    BY <2>2, <2>3
<1>6. ASSUME NEW m \in Settled
      PROVE  /\ Expected(thread'[m]["worker"], Right(m), Left(m))
             /\ \A j \in Gap(m) : Expected(thread'[j]["worker"], {Successor[m]}, {m, j})
  BY <1>3, SettledFacts, GapFacts, Stayers, Newcomers
<1> QED
  BY <1>4, <1>5, <1>6, CalmAgain

\* A step of a worker.
LEMMA WorkerGoes ==
  ASSUME Inv, Calm, NEW n \in Nodes, NEW t, Goes(n, "worker", t), UNCHANGED <<alive, stage>>,
         n \in Settled => Expected(t, Right(n), Left(n)),
         \A m \in Settled : n \in Gap(m) => Expected(t, {Successor[m]}, {m, n}),
         \A m \in Settled : succ'[m] \in Right(m) /\ pred'[Successor[m]] \in Left(m),
         \A m \in Settled : \A j \in Gap(m) :
           succ'[j] = succ[j] /\ (pred'[j] = pred[j] \/ (NotOut(j) /\ pred'[j] = m))
  PROVE  Calm'
<1>1. "main" \in Roles /\ "worker" \in Roles /\ Growing
  BY SameStage DEF Inv, Roles
<1>2. /\ thread'[n]["worker"] = t
      /\ \A m \in Nodes : /\ thread'[m]["main"] = thread[m]["main"]
                          /\ m # n => thread'[m]["worker"] = thread[m]["worker"]
  BY <1>1, OneGoes
<1>3. ASSUME NEW m \in Settled PROVE SettledOK(m)'
  <2>1. SettledOK(m) /\ m \in Nodes
    BY SettledFacts, Stayers
  <2> QED
    BY <1>2, <2>1, SettledStays DEF SettledOK
<1>4. ASSUME NEW m \in Settled, NEW j \in Gap(m) PROVE NewcomerOK(m, j)'
  <2>1. NewcomerOK(m, j) /\ j \in Nodes
    BY GapFacts, Newcomers
  <2> QED
    BY <1>1, <1>2, <2>1, NewcomerStays
<1>5. ASSUME NEW m \in Settled PROVE Expected(thread'[m]["worker"], Right(m), Left(m))
  BY <1>2, SettledFacts, Stayers, WorkerStays
<1>6. ASSUME NEW m \in Settled, NEW j \in Gap(m)
      PROVE  Expected(thread'[j]["worker"], {Successor[m]}, {m, j})
  BY <1>2, GapFacts, Newcomers, WorkerStays
<1> QED
  BY <1>3, <1>4, <1>5, <1>6, CalmAgain

\* The pointers stay.
LEMMA WorkerGoesOn ==
  ASSUME Inv, Calm, NEW n \in Nodes, NEW t, Goes(n, "worker", t),
         UNCHANGED <<alive, stage, succ, pred>>,
         n \in Settled => Expected(t, Right(n), Left(n)),
         \A m \in Settled : n \in Gap(m) => Expected(t, {Successor[m]}, {m, n})
  PROVE  Calm'
<1>1. \A m \in Settled : succ'[m] \in Right(m) /\ pred'[Successor[m]] \in Left(m)
  BY Stayers DEF SettledOK
<1> QED
  BY <1>1, WorkerGoes

\* Where the successor of a node that has its data points.
LEMMA SuccessorIs ==
  ASSUME Calm, NEW n \in Nodes, NotOut(n)
  PROVE  /\ n \in Settled => succ[n] \in Right(n)
         /\ \A m \in Settled : n \in Gap(m) => succ[n] = Successor[m] /\ pred[n] = m
  BY Stayers, Newcomers DEF SettledOK, NewcomerOK

LEMMA AskSuccessor ==
  ASSUME Inv, Calm, NEW n \in Nodes, NotOut(n), UNCHANGED <<alive, stage, succ, pred>>,
         Goes(n, "worker", Calling("stabilize", succ[n], n))
  PROVE  Calm'
<1> DEFINE t == Calling("stabilize", succ[n], n)
<1>1. t.at = "stabilize" /\ t.to = succ[n]
  BY DEF Calling
<1> HIDE DEF t
<1>2. t.at \notin {"ping survivor", "tell survivor"} /\ t.at # "adopt"
  BY <1>1
<1>3. \A to, got : succ[n] \in to => Expected(t, to, got)
  BY <1>1, <1>2 DEF Expected
<1> QED
  BY <1>3, SuccessorIs, WorkerGoesOn DEF t

LEMMA WakeCalm ==
  ASSUME Inv, Calm, NEW n \in Nodes, Wake(n)
  PROVE  Calm'
<1>1. NotOut(n) /\ UNCHANGED <<alive, stage, succ, pred>>
  BY DEF Wake, NotOut, pointers
<1>2. CASE Goes(n, "worker", Calling("stabilize", succ[n], n))
  BY <1>1, <1>2, AskSuccessor
<1>3. CASE Goes(n, "worker", Calling("ping predecessor", pred[n], n))
  <2> DEFINE t == Calling("ping predecessor", pred[n], n)
  <2>1. t.at = "ping predecessor"
    BY DEF Calling
  <2> HIDE DEF t
  <2>2. \A to, got : Expected(t, to, got)
    BY <2>1 DEF Expected
  <2> QED
    BY <1>1, <1>3, <2>2, WorkerGoesOn DEF t
<1> QED
  BY <1>2, <1>3 DEF Wake

LEMMA PingPredecessorCalm ==
  ASSUME Apart, losses' = 0, Inv, Calm, NEW n \in Nodes, NEW o \in Outcomes, PingPredecessor(n, o)
  PROVE  Calm'
<1> DEFINE h == thread[n]["worker"].to
<1>1. h \in Nodes /\ NotOut(h) /\ NotOut(n)
  BY ToldNotOut DEF PingPredecessor, Waits, Roles, Speaking
<1>2. o = "answered"
  BY <1>1, Answered DEF PingPredecessor
<1> QED
  BY <1>1, <1>2, AskSuccessor DEF PingPredecessor

LEMMA StabilizeCalm ==
  ASSUME Apart, losses' = 0, Inv, Calm, NEW n \in Nodes, NEW o \in Outcomes, Stabilize(n, o)
  PROVE  Calm'
<1> DEFINE h == thread[n]["worker"].to
           t == Calling("adopt", h, pred[h])
<1>1. thread[n]["worker"].at = "stabilize"
  BY DEF Stabilize, Waits
<1>2. h \in Nodes /\ NotOut(h) /\ NotOut(n)
  BY <1>1, ToldNotOut DEF Roles, Speaking
<1>3. o = "answered"
  BY <1>2, Answered DEF Stabilize
<1>4. Goes(n, "worker", t) /\ UNCHANGED <<alive, stage, succ, pred>>
  BY <1>3 DEF Stabilize, pointers
<1>5. t.at = "adopt" /\ t.to = h /\ t.got = pred[h]
  BY DEF Calling
<1> HIDE DEF t
<1>6. \A to, got : h \in to /\ pred[h] \in got => Expected(t, to, got)
  BY <1>5 DEF Expected
<1>7. n \in Settled => h \in Right(n) /\ pred[h] \in Left(n)
  <2>1. SUFFICES ASSUME n \in Settled PROVE h \in Right(n) /\ pred[h] \in Left(n)
    OBVIOUS
  <2>2. h \in Right(n)
    BY <1>1, <2>1, Stayers DEF WorkerOK, Expected
  <2>3. CASE h = Successor[n]
    BY <2>1, <2>2, <2>3, Stayers DEF SettledOK
  <2>4. CASE h \in Gap(n)
    BY <1>2, <2>1, <2>2, <2>4, SuccessorIs DEF Left
  <2> QED
    BY <2>2, <2>3, <2>4 DEF Right
<1>8. \A m \in Settled : n \in Gap(m) => h \in {Successor[m]} /\ pred[h] \in {m, n}
  <2>1. SUFFICES ASSUME NEW m \in Settled, n \in Gap(m)
                 PROVE  h = Successor[m] /\ pred[h] \in {m, n}
    OBVIOUS
  <2>2. h = Successor[m]
    BY <1>1, <2>1, Newcomers DEF WorkerOK, Expected
  <2>3. pred[h] \in Left(m)
    BY <2>2, Stayers DEF SettledOK
  <2> QED
    BY <2>1, <2>2, <2>3 DEF Left, Apart
<1> QED
  BY <1>4, <1>6, <1>7, <1>8, WorkerGoesOn

\* One settled node, or its neighbour, gets to know a newcomer or the other.
LEMMA RightStays ==
  ASSUME Inv, Calm, NEW n \in Settled, NEW s \in Right(n),
         succ' = succ \/ succ' = [succ EXCEPT ![n] = s]
  PROVE  \A m \in Settled : /\ succ'[m] \in Right(m)
                            /\ \A j \in Gap(m) : succ'[j] = succ[j]
<1>1. succ \in [Nodes -> Nodes] /\ n \in Nodes
  BY SettledFacts DEF Inv, SuccOK
<1>2. ASSUME NEW m \in Settled
      PROVE  m \in Nodes /\ succ[m] \in Right(m) /\ \A j \in Gap(m) : j \in Nodes /\ j # n
  BY SettledFacts, GapFacts, Stayers DEF SettledOK
<1> QED
  BY <1>1, <1>2

LEMMA LeftStays ==
  ASSUME Inv, Calm, NEW n \in Settled, NEW p \in Left(n),
         pred' = [pred EXCEPT ![Successor[n]] = p]
  PROVE  \A m \in Settled : /\ pred'[Successor[m]] \in Left(m)
                            /\ \A j \in Gap(m) : pred'[j] = pred[j]
<1>1. pred \in [Nodes -> Nodes] /\ Successor[n] \in Settled /\ Successor[n] \in Nodes
  BY SettledFacts DEF Inv, PredOK
<1>2. ASSUME NEW m \in Settled
      PROVE  /\ Successor[m] \in Nodes /\ pred[Successor[m]] \in Left(m)
             /\ Successor[m] = Successor[n] => m = n
             /\ \A j \in Gap(m) : j \in Nodes /\ j # Successor[n]
  BY <1>1, SettledFacts, GapFacts, Stayers DEF SettledOK
<1> QED
  BY <1>1, <1>2

LEMMA PointersStay ==
  ASSUME Calm
  PROVE  \A m \in Settled : succ[m] \in Right(m) /\ pred[Successor[m]] \in Left(m)
  BY Stayers DEF SettledOK

\* A newcomer's neighbour behind is never ahead of it, unless it is also the
\* neighbour ahead.
LEMMA NothingToAdopt ==
  ASSUME NEW m \in Settled, NEW n \in Gap(m), NEW got \in {m, n},
         got # n, Between(got, n, Successor[m])
  PROVE  got = Successor[m]
  BY GapFacts, NotBack

LEMMA AdoptCalm ==
  ASSUME Apart, losses' = 0, Inv, Calm, NEW n \in Nodes, Adopt(n)
  PROVE  Calm'
<1> DEFINE got == thread[n]["worker"].got
<1>1. thread[n]["worker"].at = "adopt"
  BY DEF Adopt, Waits
<1>2. NotOut(n) /\ got \in Nodes /\ succ \in [Nodes -> Nodes]
  BY <1>1, ToldNotOut DEF Roles, Speaking, Inv, SuccOK
<1>3. UNCHANGED <<alive, stage, pred>>
  BY DEF Adopt
<1>4. PICK s \in Nodes : s = succ'[n]
  BY <1>2 DEF Adopt
<1> DEFINE t == Calling("notify", s, n)
<1>5. Goes(n, "worker", t)
  BY <1>4 DEF Adopt
<1>6. t.at = "notify" /\ t.to = s
  BY DEF Calling
<1> HIDE DEF t
<1>7. t.at \notin {"ping survivor", "tell survivor"} /\ t.at # "adopt"
  BY <1>6
<1>8. \A to, any : s \in to => Expected(t, to, any)
  BY <1>6, <1>7 DEF Expected
<1>9. CASE n \in Settled
  <2>1. got \in Left(n) /\ succ[n] \in Right(n)
    BY <1>1, <1>9, Stayers DEF WorkerOK, Expected, SettledOK
  <2>2. s \in Right(n) /\ (succ' = succ \/ succ' = [succ EXCEPT ![n] = s])
    <3>1. CASE got # n /\ Between(got, n, succ[n])
      BY <1>2, <1>4, <2>1, <3>1 DEF Adopt, Left, Right
    <3>2. CASE ~(got # n /\ Between(got, n, succ[n]))
      BY <1>4, <2>1, <3>2 DEF Adopt
    <3> QED
      BY <3>1, <3>2
  <2>3. \A m \in Settled : /\ succ'[m] \in Right(m)
                           /\ \A j \in Gap(m) : succ'[j] = succ[j]
    BY <1>9, <2>2, RightStays
  <2>4. \A m \in Settled : n \notin Gap(m)
    BY <1>9, GapFacts
  <2> QED
    BY <1>3, <1>5, <1>8, <2>2, <2>3, <2>4, PointersStay, WorkerGoes
<1>10. CASE n \notin Settled
  <2>1. PICK m \in Settled : n \in Gap(m)
    BY <1>10, SomeGap
  <2>2. got \in {m, n} /\ succ[n] = Successor[m]
    BY <1>1, <1>2, <2>1, Newcomers, SuccessorIs DEF WorkerOK, Expected
  <2>3. succ' = succ /\ s = Successor[m]
    <3>1. CASE got # n /\ Between(got, n, succ[n])
      <4>1. got = succ[n]
        BY <2>1, <2>2, <3>1, NothingToAdopt
      <4> QED
        BY <1>2, <1>4, <2>2, <3>1, <4>1 DEF Adopt
    <3>2. CASE ~(got # n /\ Between(got, n, succ[n]))
      BY <1>4, <2>2, <3>2 DEF Adopt
    <3> QED
      BY <3>1, <3>2
  <2>4. \A k \in Settled : n \in Gap(k) => k = m
    BY <2>1, OneGap
  <2> QED
    BY <1>3, <1>5, <1>8, <1>10, <2>3, <2>4, WorkerGoesOn
<1> QED
  BY <1>9, <1>10

\* How a rebuild begins.
LEMMA BeginListGoes ==
  ASSUME NEW n, NEW r, NEW s, BeginList(n, r, s)
  PROVE  \E t : Goes(n, r, t) /\ t.at \in {"idle"} \cup Listing
<1>1. Idle(n).at = "idle"
  BY DEF Idle
<1>2. Calling("open list", n, n).at = "open list"
  BY DEF Calling
<1>3. CASE Goes(n, r, Idle(n))
  BY <1>1, <1>3 DEF Listing
<1>4. CASE Goes(n, r, Calling("open list", n, n))
  BY <1>2, <1>4 DEF Listing
<1> QED
  BY <1>3, <1>4 DEF BeginList

LEMMA ListExpected ==
  ASSUME NEW t, t.at \in {"idle"} \cup Listing
  PROVE  \A to, got : Expected(t, to, got)
<1>1. t.at \in {"idle", "open list", "call list", "get list", "ping backup"}
  BY DEF Listing
<1> QED
  BY <1>1 DEF Expected

LEMMA NotifyCalm ==
  ASSUME Apart, losses' = 0, Inv, Calm, NEW n \in Nodes, NEW o \in Outcomes, Notify(n, "notify", o)
  PROVE  Calm'
<1> DEFINE h == thread[n]["worker"].to
<1>1. thread[n]["worker"].at = "notify"
  BY DEF Notify, Waits
<1>2. h \in Nodes /\ NotOut(h) /\ NotOut(n) /\ pred \in [Nodes -> Nodes]
  BY <1>1, ToldNotOut DEF Roles, Speaking, Inv, PredOK
<1>3. o = "answered"
  BY <1>2, Answered DEF Notify
<1>4. UNCHANGED <<alive, stage, succ>> /\ pred' = [pred EXCEPT ![h] = n]
  BY <1>3 DEF Notify, UpdatePredecessor
<1>5. PICK t : Goes(n, "worker", t) /\ t.at \in {"idle"} \cup Listing
  BY BeginListGoes DEF Notify
<1>6. \A to, got : Expected(t, to, got)
  BY <1>5, ListExpected
<1>7. \A m \in Settled : /\ pred'[Successor[m]] \in Left(m)
                         /\ \A j \in Gap(m) : \/ pred'[j] = pred[j]
                                              \/ NotOut(j) /\ pred'[j] = m
  <2>1. CASE n \in Settled /\ h = Successor[n]
    BY <1>4, <2>1, LeftStays DEF Left
  <2>2. CASE n \in Settled /\ h \in Gap(n)
    <3>1. pred[h] = n /\ h \notin Settled
      BY <1>2, <2>2, SuccessorIs, GapFacts
    <3>2. pred' = pred
      BY <1>2, <1>4, <3>1
    <3> QED
      BY <3>2, PointersStay
  <2>3. ASSUME NEW m \in Settled, n \in Gap(m)
        PROVE  h = Successor[m]
    BY <1>1, <2>3, Newcomers DEF WorkerOK, Expected
  <2>4. CASE n \notin Settled
    <3>1. PICK m \in Settled : n \in Gap(m)
      BY <2>4, SomeGap
    <3>2. h = Successor[m] /\ n \in Left(m)
      BY <2>3, <3>1 DEF Left
    <3> QED
      BY <1>4, <3>2, LeftStays
  <2>5. n \in Settled => h \in Right(n)
    BY <1>1, Stayers DEF WorkerOK, Expected
  <2> QED
    BY <2>1, <2>2, <2>4, <2>5 DEF Right
<1> QED
  BY <1>4, <1>5, <1>6, <1>7, PointersStay, WorkerGoes

\* Nobody stitches: no successor ever fails to answer.
LEMMA NoSurvivors ==
  ASSUME Calm, NEW n \in Nodes
  PROVE  thread[n]["worker"].at \notin {"ping survivor", "tell survivor"}
<1>1. CASE n \in Settled
  BY <1>1, Stayers DEF WorkerOK, Expected
<1>2. CASE n \notin Settled
  BY <1>2, SomeGap, Newcomers DEF WorkerOK, Expected
<1> QED
  BY <1>1, <1>2

LEMMA WorkerCalm ==
  ASSUME Apart, losses' = 0, Inv, Calm, NEW n \in Nodes, WorkerStep(n)
  PROVE  Calm'
<1>1. ASSUME NEW o \in Outcomes PROVE ~PingSurvivor(n, o) /\ ~Notify(n, "tell survivor", o)
  BY NoSurvivors DEF PingSurvivor, Notify, Waits
<1> QED
  BY <1>1, WakeCalm, AdoptCalm, PingPredecessorCalm, StabilizeCalm, NotifyCalm DEF WorkerStep

\* The rebuilding of lists disturbs nothing.
LEMMA ContinueListGoes ==
  ASSUME NEW n, NEW r, NEW todo, NEW acc, ContinueList(n, r, todo, acc)
  PROVE  \E t : Goes(n, r, t) /\ t.at \in {"idle"} \cup Listing
<1> DEFINE t == Trying("ping backup", Candidates(n, todo), n, acc)
<1>1. t.at = "ping backup"
  BY DEF Trying
<1>2. Idle(n).at = "idle"
  BY DEF Idle
<1>3. Goes(n, r, Idle(n)) \/ Goes(n, r, t)
  BY DEF ContinueList
<1> HIDE DEF t
<1> QED
  BY <1>1, <1>2, <1>3 DEF Listing

\* Whatever step a rebuild takes, it goes on or ends.
LEMMA ListStepGoes ==
  ASSUME NEW n, NEW r, ListStep(n, r)
  PROVE  /\ thread[n][r].at \in Listing
         /\ UNCHANGED <<alive, stage, succ, pred>>
         /\ \E t : Goes(n, r, t) /\ t.at \in {"idle"} \cup Listing
<1>1. CASE OpenList(n, r)
  <2> DEFINE t == Gathering("call list", n, n, <<succ[n]>>)
  <2>1. Goes(n, r, t) /\ t.at = "call list"
    BY <1>1 DEF OpenList, Gathering
  <2> HIDE DEF t
  <2> QED
    BY <1>1, <2>1 DEF OpenList, Waits, pointers, Listing
<1>2. CASE CallList(n, r)
  <2> DEFINE t == Gathering("get list", succ[n], n, thread[n][r].acc)
  <2>1. Goes(n, r, t) /\ t.at = "get list"
    BY <1>2 DEF CallList, Gathering
  <2> HIDE DEF t
  <2> QED
    BY <1>2, <2>1 DEF CallList, Waits, pointers, Listing
<1>3. ASSUME NEW o, GetList(n, r, o) \/ PingBackup(n, r, o)
      PROVE  /\ thread[n][r].at \in Listing
             /\ UNCHANGED <<alive, stage, succ, pred>>
             /\ \E t : Goes(n, r, t) /\ t.at \in {"idle"} \cup Listing
  <2>1. thread[n][r].at \in Listing /\ UNCHANGED <<alive, stage, succ, pred>>
    BY <1>3 DEF GetList, PingBackup, Waits, Listing
  <2>2. PICK todo, acc : ContinueList(n, r, todo, acc)
    BY <1>3 DEF GetList, PingBackup
  <2> QED
    BY <2>1, <2>2, ContinueListGoes
<1> QED
  BY <1>1, <1>2, <1>3 DEF ListStep

LEMMA ListCalm ==
  ASSUME Inv, Calm, NEW n \in Nodes, NEW r \in Roles, ListStep(n, r)
  PROVE  Calm'
<1>1. thread[n][r].at \in Listing /\ UNCHANGED <<alive, stage, succ, pred>>
  BY ListStepGoes
<1>2. PICK t : Goes(n, r, t) /\ t.at \in {"idle"} \cup Listing
  BY ListStepGoes
<1> QED
  BY <1>1, <1>2, ListGoes

LEMMA StartRebuildCalm ==
  ASSUME Inv, Calm, NEW n \in Nodes, StartRebuild(n)
  PROVE  Calm'
<1>1. PICK t : Goes(n, "rebuild", t) /\ t.at \in {"idle"} \cup Listing
  BY BeginListGoes DEF StartRebuild
<1>2. UNCHANGED <<alive, stage, succ, pred>> /\ "rebuild" \in Roles
  BY DEF StartRebuild, Roles
<1> QED
  BY <1>1, <1>2, ListGoes

\* A step of a join.
LEMMA JoinGoes ==
  ASSUME Inv, Calm, Growing, NEW n \in Settled, NEW j \in Gap(n), NEW t, Goes(j, "main", t),
         alive' = alive,
         \A x \in Nodes : x # j => stage'[x] = stage[x],
         NewcomerOK(n, j)',
         \A m \in Settled : succ'[m] \in Right(m) /\ pred'[Successor[m]] \in Left(m),
         \A m \in Settled : \A i \in Gap(m) :
           i # j => succ'[i] = succ[i] /\ pred'[i] = pred[i]
  PROVE  Calm'
<1>1. "main" \in Roles /\ "worker" \in Roles /\ j \in Nodes /\ j \notin Settled
  BY GapFacts DEF Roles
<1>2. \A m \in Nodes : /\ m # j => thread'[m]["main"] = thread[m]["main"]
                       /\ thread'[m]["worker"] = thread[m]["worker"]
  BY <1>1, OneGoes
<1>3. ASSUME NEW m \in Settled PROVE SettledOK(m)'
  <2>1. SettledOK(m) /\ m \in Nodes /\ m # j
    BY <1>1, SettledFacts, Stayers
  <2>2. m \in alive' /\ stage'[m] = stage[m] /\ thread'[m]["main"] = thread[m]["main"]
    BY <1>2, <2>1 DEF SettledOK
  <2> QED
    BY <2>1, <2>2, SettledStays
<1>4. ASSUME NEW m \in Settled, NEW i \in Gap(m) PROVE NewcomerOK(m, i)'
  <2>1. NewcomerOK(m, i) /\ i \in Nodes
    BY GapFacts, Newcomers
  <2>2. CASE i = j
    BY <2>2, OneGap
  <2>3. CASE i # j
    BY <1>2, <2>1, <2>3, NewcomerStays
  <2> QED
    BY <2>2, <2>3
<1>5. ASSUME NEW m \in Settled PROVE Expected(thread'[m]["worker"], Right(m), Left(m))
  BY <1>2, SettledFacts, Stayers, WorkerStays
<1>6. ASSUME NEW m \in Settled, NEW i \in Gap(m)
      PROVE  Expected(thread'[i]["worker"], {Successor[m]}, {m, i})
  BY <1>2, GapFacts, Newcomers, WorkerStays
<1> QED
  BY <1>3, <1>4, <1>5, <1>6, CalmAgain

LEMMA BeginJoinCalm ==
  ASSUME Inv, Calm, NEW j \in Nodes, NEW entry \in Nodes, BeginJoin(j, entry)
  PROVE  Calm'
<1>1. stage[j] = "out" /\ NotOut(entry) /\ UNCHANGED <<alive, stage, succ, pred>>
  BY DEF BeginJoin, NotOut, pointers
<1>2. j \notin Settled
  BY <1>1, Stayers DEF SettledOK
<1>3. PICK n \in Settled : j \in Gap(n)
  BY <1>2, SomeGap
<1> DEFINE t == Calling("lookup", entry, j)
<1>4. Goes(j, "main", t)
  BY DEF BeginJoin
<1>5. t.at = "lookup" /\ t.to = entry
  BY DEF Calling
<1> HIDE DEF t
<1>6. thread'[j]["main"] = t
  BY <1>4, OneGoes DEF Roles
<1>7. NewcomerOK(n, j)'
  BY <1>1, <1>5, <1>6 DEF NewcomerOK, Joining, NotOut
<1> QED
  BY <1>1, <1>3, <1>4, <1>7, JoinGoes, SameStage, PointersStay DEF Inv

\* The end of a process that does not have its data yet.
LEMMA DeathCalm ==
  ASSUME Inv, Calm, NEW j \in Nodes, stage[j] = "out", Exits(j), UNCHANGED <<stage, succ, pred>>
  PROVE  Calm'
<1>1. /\ alive' = alive \ {j}
      /\ \A m \in Nodes : m # j => thread'[m] = thread[m]
      /\ \A r \in Roles : thread'[j][r].at = "idle"
  BY DEF Exits, Inv, ThreadsOK, Idle
<1>2. j \notin Settled /\ Growing /\ "main" \in Roles /\ "worker" \in Roles
  <2>1. j \notin Settled
    BY Stayers DEF SettledOK
  <2> QED
    BY <1>1, <2>1, SameStage DEF Inv, Roles
<1>3. ASSUME NEW m \in Settled PROVE SettledOK(m)'
  <2>1. SettledOK(m) /\ m \in Nodes /\ m # j
    BY <1>2, SettledFacts, Stayers
  <2>2. m \in alive' /\ stage'[m] = stage[m] /\ thread'[m]["main"] = thread[m]["main"]
    BY <1>1, <2>1 DEF SettledOK
  <2> QED
    BY <1>1, <2>1, <2>2, SettledStays DEF SettledOK
<1>4. ASSUME NEW m \in Settled, NEW i \in Gap(m) PROVE NewcomerOK(m, i)'
  <2>1. NewcomerOK(m, i) /\ i \in Nodes
    BY GapFacts, Newcomers
  <2>2. CASE i = j
    <3>1. stage'[i] = "out" /\ thread'[i]["main"].at = "idle"
      BY <1>1, <1>2, <2>2
    <3> QED
      BY <3>1 DEF NewcomerOK, Joining, NotOut
  <2>3. CASE i # j
    <3>1. i \in alive => i \in alive'
      BY <1>1, <2>3
    <3> QED
      BY <1>1, <1>2, <2>1, <2>3, <3>1, NewcomerStays
  <2> QED
    BY <2>2, <2>3
<1>5. ASSUME NEW m \in Nodes, NEW to, NEW got, WorkerOK(m, to, got)
      PROVE  Expected(thread'[m]["worker"], to, got)
  <2>1. CASE m = j
    BY <1>1, <1>2, <2>1, ListExpected
  <2>2. CASE m # j
    BY <1>1, <1>5, <2>2, WorkerStays
  <2> QED
    BY <2>1, <2>2
<1>6. ASSUME NEW m \in Settled
      PROVE  /\ Expected(thread'[m]["worker"], Right(m), Left(m))
             /\ \A i \in Gap(m) : Expected(thread'[i]["worker"], {Successor[m]}, {m, i})
  BY <1>5, SettledFacts, GapFacts, Stayers, Newcomers
<1> QED
  BY <1>3, <1>4, <1>6, CalmAgain

\* A newcomer that looks up its place is told the next settled node and no other.
LEMMA OwnerIsNext ==
  ASSUME Inv, Calm, Apart, NEW n \in Settled, NEW j \in Gap(n), ~NotOut(j),
         NEW h \in Nodes, NotOut(h), Owns(h, j)
  PROVE  h = Successor[n]
<1>1. j \in Ids /\ j \in Nodes /\ h \in Ids /\ h # j
  BY GapFacts, SettledFacts
<1>2. CASE h \in Settled
  <2> DEFINE q == Predecessor[h]
  <2>1. q \in Settled /\ Successor[q] = h /\ q \in Ids
    BY <1>2, SettledFacts
  <2>2. CASE succ[h] = h
    <3>1. Successor[h] = h
      BY <1>2, <2>2, SuccessorIs, GapFacts DEF Right
    <3>2. n \in Ids /\ Between(h, h, n)
      BY <1>2, <3>1, SettledFacts
    <3>3. n = h
      BY <1>1, <3>2, SizeAssumption DEF Between, Ids
    <3> QED
      BY <3>1, <3>3
  <2>3. CASE Between(j, pred[h], h)
    <3>1. pred[h] \in Left(q)
      BY <2>1, PointersStay
    <3>2. CASE pred[h] = q
      <4>1. j \in Gap(q)
        BY <2>1, <2>3, <3>2 DEF Gap
      <4> QED
        BY <2>1, <4>1, OneGap
    <3>3. CASE pred[h] \in Gap(q)
      <4>1. Between(j, q, h) /\ j # pred[h]
        BY <1>1, <2>1, <2>3, <3>3, GapFacts, Within
      <4>2. j \in Gap(q)
        BY <2>1, <4>1 DEF Gap
      <4> QED
        BY <2>1, <3>3, <4>1, <4>2 DEF Apart
    <3> QED
      BY <3>1, <3>2, <3>3 DEF Left
  <2> QED
    BY <2>2, <2>3 DEF Owns
<1>3. CASE h \notin Settled
  <2>1. PICK q \in Settled : h \in Gap(q)
    BY <1>3, SomeGap
  <2>2. succ[h] = Successor[q] /\ pred[h] = q
    BY <2>1, SuccessorIs
  <2>3. Between(j, q, h)
    BY <2>1, <2>2, GapFacts DEF Owns
  <2>4. Between(j, q, Successor[q])
    BY <1>1, <2>1, <2>3, GapFacts, Short
  <2>5. j \in Gap(q)
    BY <2>4 DEF Gap
  <2> QED
    BY <1>1, <2>1, <2>5 DEF Apart
<1> QED
  BY <1>2, <1>3

\* A thread that is at work in a join.
LEMMA Joiner ==
  ASSUME Calm, NEW j \in Nodes,
         thread[j]["main"].at \in {"lookup", "get predecessor", "data transfer",
                                   "tell successor", "tell predecessor"}
  PROVE  \E n \in Settled : j \in Gap(n) /\ NewcomerOK(n, j)
<1>1. thread[j]["main"].at # "idle"
  OBVIOUS
<1>2. j \notin Settled
  BY <1>1, Stayers DEF SettledOK
<1> QED
  BY <1>2, SomeGap, Newcomers

\* The pointers of others, when a newcomer sets its own.
LEMMA OwnPointers ==
  ASSUME Inv, Calm, NEW j \in Nodes, j \notin Settled,
         \A x \in Nodes : x # j => succ'[x] = succ[x] /\ pred'[x] = pred[x]
  PROVE  /\ \A m \in Settled : succ'[m] \in Right(m) /\ pred'[Successor[m]] \in Left(m)
         /\ \A m \in Settled : \A i \in Gap(m) :
              i # j => succ'[i] = succ[i] /\ pred'[i] = pred[i]
<1>1. ASSUME NEW m \in Settled
      PROVE  m \in Nodes /\ m # j /\ Successor[m] \in Nodes /\ Successor[m] # j
             /\ \A i \in Gap(m) : i \in Nodes
  BY SettledFacts, GapFacts
<1> QED
  BY <1>1, PointersStay

LEMMA LookupCalm ==
  ASSUME Apart, losses' = 0, Inv, Calm, NEW j \in Nodes, NEW o \in Outcomes, Lookup(j, o)
  PROVE  Calm'
<1> DEFINE h == thread[j]["main"].to
<1>1. thread[j]["main"].at = "lookup" /\ j \in alive /\ Sent(h, o)
  BY DEF Lookup, Waits
<1>2. PICK n \in Settled : j \in Gap(n) /\ NewcomerOK(n, j)
  BY <1>1, Joiner
<1>3. stage[j] = "out" /\ NotOut(h) /\ h \in Nodes /\ "main" \in Roles
  BY <1>1, <1>2, ThreadFacts DEF Inv, Roles, NewcomerOK
<1>4. CASE AbortJoin(j)
  BY <1>3, <1>4, DeathCalm DEF AbortJoin, pointers
<1>5. CASE /\ Owns(h, j)
           /\ succ' = [succ EXCEPT ![j] = h]
           /\ Goes(j, "main", Calling("get predecessor", h, j))
           /\ UNCHANGED <<alive, stage, pred>>
  <2> DEFINE t == Calling("get predecessor", h, j)
  <2>1. h = Successor[n]
    BY <1>2, <1>3, <1>5, OwnerIsNext DEF NotOut
  <2>2. t.at = "get predecessor" /\ t.to = h
    BY DEF Calling
  <2>3. Goes(j, "main", t)
    BY <1>5
  <2> HIDE DEF t
  <2>4. thread'[j]["main"] = t
    BY <2>3, <1>3, OneGoes
  <2>5. succ'[j] = h /\ \A x \in Nodes : x # j => succ'[x] = succ[x]
    BY <1>5 DEF Inv, SuccOK
  <2>6. NewcomerOK(n, j)'
    BY <1>3, <1>5, <2>1, <2>2, <2>4, <2>5 DEF NewcomerOK, Joining, NotOut
  <2>7. j \notin Settled
    BY <1>2, GapFacts
  <2> QED
    BY <1>2, <1>5, <2>3, <2>5, <2>6, <2>7, JoinGoes, OwnPointers, SameStage DEF Inv
<1>6. CASE \E x \in Hops(h, j) :
             /\ Goes(j, "main", Gathering("lookup", x, j,
                                          Append(thread[j]["main"].acc, h)))
             /\ UNCHANGED <<alive, stage, succ, pred>>
  <2>1. PICK x \in Hops(h, j) :
             /\ Goes(j, "main", Gathering("lookup", x, j,
                                          Append(thread[j]["main"].acc, h)))
             /\ UNCHANGED <<alive, stage, succ, pred>>
    BY <1>6
  <2> DEFINE t == Gathering("lookup", x, j, Append(thread[j]["main"].acc, h))
  <2>2. NotOut(x)
    BY <1>3 DEF Hops, Inv, SuccOK, Known, NotOut
  <2>3. t.at = "lookup" /\ t.to = x
    BY DEF Gathering
  <2>4. Goes(j, "main", t)
    BY <2>1
  <2> HIDE DEF t
  <2>5. thread'[j]["main"] = t
    BY <2>4, <1>3, OneGoes
  <2>6. NewcomerOK(n, j)'
    BY <1>3, <2>1, <2>2, <2>3, <2>5 DEF NewcomerOK, Joining, NotOut
  <2> QED
    BY <1>2, <2>1, <2>4, <2>6, JoinGoes, SameStage, PointersStay DEF Inv
<1> QED
  BY <1>4, <1>5, <1>6 DEF Lookup, pointers

LEMMA GetPredecessorCalm ==
  ASSUME Apart, losses' = 0, Inv, Calm, NEW j \in Nodes, NEW o \in Outcomes, GetPredecessor(j, o)
  PROVE  Calm'
<1> DEFINE h == thread[j]["main"].to
           t == Calling("data transfer", succ[j], j)
<1>1. thread[j]["main"].at = "get predecessor" /\ j \in alive /\ Sent(h, o)
  BY DEF GetPredecessor, Waits
<1>2. PICK n \in Settled : j \in Gap(n) /\ NewcomerOK(n, j)
  BY <1>1, Joiner
<1>3. stage[j] = "out" /\ h = Successor[n] /\ succ[j] = Successor[n]
  BY <1>1, <1>2 DEF NewcomerOK
<1>4. h \in Nodes /\ h \in Settled /\ NotOut(h) /\ h # j
  BY <1>2, <1>3, GapFacts, Stayers DEF SettledOK, NotOut
<1>5. o = "answered"
  BY <1>1, <1>4, Answered
<1>6. pred[h] = n
  <2>1. pred[h] \in Left(n)
    BY <1>3, PointersStay
  <2>2. pred[h] # j
    BY <1>3, <1>4 DEF Inv, PredOK, Known, NotOut
  <2> QED
    BY <1>2, <2>1, <2>2 DEF Left, Apart
<1>7. UNCHANGED <<alive, stage, succ>> /\ pred' = [pred EXCEPT ![j] = n] /\ Goes(j, "main", t)
  BY <1>5, <1>6 DEF GetPredecessor
<1>8. t.at = "data transfer" /\ t.to = Successor[n]
  BY <1>3 DEF Calling
<1> HIDE DEF t
<1>9. thread'[j]["main"] = t
  BY <1>7, OneGoes DEF Roles
<1>10. pred'[j] = n /\ \A x \in Nodes : x # j => pred'[x] = pred[x]
  BY <1>7 DEF Inv, PredOK
<1>11. NewcomerOK(n, j)'
  BY <1>3, <1>7, <1>8, <1>9, <1>10 DEF NewcomerOK, Joining, NotOut
<1>12. j \notin Settled
  BY <1>2, GapFacts
<1> QED
  BY <1>2, <1>7, <1>10, <1>11, <1>12, JoinGoes, OwnPointers, SameStage DEF Inv

LEMMA DataTransferCalm ==
  ASSUME Apart, losses' = 0, Inv, Calm, NEW j \in Nodes, NEW o \in Outcomes, DataTransfer(j, o)
  PROVE  Calm'
<1> DEFINE h == thread[j]["main"].to
           t == Calling("tell successor", succ[j], j)
<1>1. thread[j]["main"].at = "data transfer" /\ j \in alive /\ Sent(h, o)
  BY DEF DataTransfer, Waits
<1>2. PICK n \in Settled : j \in Gap(n) /\ NewcomerOK(n, j)
  BY <1>1, Joiner
<1>3. h = Successor[n] /\ succ[j] = Successor[n] /\ pred[j] = n
  BY <1>1, <1>2 DEF NewcomerOK
<1>4. h \in Nodes /\ NotOut(h)
  BY <1>2, <1>3, GapFacts, Stayers DEF SettledOK, NotOut
<1>5. o = "answered"
  BY <1>1, <1>4, Answered
<1>6. /\ stage' = [stage EXCEPT ![j] = "fed"] /\ UNCHANGED <<alive, succ, pred>>
      /\ Goes(j, "main", t)
  BY <1>5 DEF DataTransfer, pointers
<1>7. t.at = "tell successor" /\ t.to = Successor[n]
  BY <1>3 DEF Calling
<1> HIDE DEF t
<1>8. thread'[j]["main"] = t
  BY <1>6, OneGoes DEF Roles
<1>9. stage'[j] = "fed" /\ (\A x \in Nodes : x # j => stage'[x] = stage[x]) /\ Growing
  BY <1>6 DEF Inv, SystemOK, Growing, NotOut
<1>10. NewcomerOK(n, j)'
  BY <1>1, <1>3, <1>6, <1>7, <1>8, <1>9 DEF NewcomerOK, Joining, NotOut
<1> QED
  BY <1>2, <1>6, <1>9, <1>10, JoinGoes, PointersStay

LEMMA TellSuccessorCalm ==
  ASSUME Apart, losses' = 0, Inv, Calm, NEW j \in Nodes, NEW o \in Outcomes, TellSuccessor(j, o)
  PROVE  Calm'
<1> DEFINE h == thread[j]["main"].to
<1>1. thread[j]["main"].at = "tell successor" /\ j \in alive /\ Sent(h, o)
  BY DEF TellSuccessor, Waits
<1>2. PICK n \in Settled : j \in Gap(n) /\ NewcomerOK(n, j)
  BY <1>1, Joiner
<1>3. h = Successor[n] /\ stage[j] = "fed"
  BY <1>1, <1>2 DEF NewcomerOK
<1>4. NotOut(j) /\ succ[j] = Successor[n] /\ pred[j] = n
  BY <1>2, <1>3 DEF NewcomerOK, NotOut
<1>5. h \in Nodes /\ NotOut(h) /\ h # j
  BY <1>2, <1>3, GapFacts, Stayers DEF SettledOK, NotOut
<1>6. o = "answered"
  BY <1>1, <1>5, Answered
<1>7. UNCHANGED <<alive, stage, succ>> /\ pred' = [pred EXCEPT ![h] = j]
  BY <1>6 DEF TellSuccessor, UpdatePredecessor
<1>8. pred'[j] = n
  BY <1>4, <1>5, <1>7 DEF Inv, PredOK
<1>9. Goes(j, "main", Calling("tell predecessor", n, j))
  BY <1>8 DEF TellSuccessor
<1> DEFINE u == Calling("tell predecessor", n, j)
<1>10. u.at = "tell predecessor" /\ u.to = n
  BY DEF Calling
<1>11. Goes(j, "main", u)
  BY <1>9
<1> HIDE DEF u
<1>12. thread'[j]["main"] = u
  BY <1>11, OneGoes DEF Roles
<1>13. NewcomerOK(n, j)'
  BY <1>1, <1>3, <1>4, <1>7, <1>8, <1>10, <1>12 DEF NewcomerOK, Joining, NotOut
<1>14. \A m \in Settled : /\ pred'[Successor[m]] \in Left(m)
                          /\ \A i \in Gap(m) : pred'[i] = pred[i]
  BY <1>2, <1>3, <1>7, LeftStays DEF Left
<1> QED
  BY <1>2, <1>7, <1>11, <1>13, <1>14, JoinGoes, PointersStay, SameStage DEF Inv

LEMMA TellPredecessorCalm ==
  ASSUME Apart, losses' = 0, Inv, Calm, NEW j \in Nodes, NEW o \in Outcomes, TellPredecessor(j, o)
  PROVE  Calm'
<1> DEFINE h == thread[j]["main"].to
<1>1. thread[j]["main"].at = "tell predecessor" /\ j \in alive /\ Sent(h, o)
  BY DEF TellPredecessor, Waits
<1>2. PICK n \in Settled : j \in Gap(n) /\ NewcomerOK(n, j)
  BY <1>1, Joiner
<1>3. h = n /\ stage[j] = "fed"
  BY <1>1, <1>2 DEF NewcomerOK
<1>4. NotOut(j) /\ succ[j] = Successor[n] /\ pred[j] = n
  BY <1>2, <1>3 DEF NewcomerOK, NotOut
<1>5. h \in Nodes /\ NotOut(h) /\ h # j
  BY <1>2, <1>3, GapFacts, Stayers DEF SettledOK, NotOut
<1>6. o = "answered"
  BY <1>1, <1>5, Answered
<1>7. /\ UNCHANGED <<alive, pred>> /\ stage' = [stage EXCEPT ![j] = "joined"]
      /\ (succ' = succ \/ succ' = [succ EXCEPT ![n] = j])
  BY <1>3, <1>6 DEF TellPredecessor, UpdateSuccessor
<1>8. j \in Right(n)
  BY <1>2 DEF Right
<1>9. \A m \in Settled : /\ succ'[m] \in Right(m)
                         /\ \A i \in Gap(m) : succ'[i] = succ[i]
  BY <1>7, <1>8, RightStays
<1>10. PICK t : Goes(j, "main", t) /\ t.at \in {"idle"} \cup Listing
  BY BeginListGoes DEF TellPredecessor
<1>11. thread'[j]["main"] = t
  BY <1>10, OneGoes DEF Roles
<1>12. thread'[j]["main"].at \in {"idle", "open list", "call list", "get list", "ping backup"}
  BY <1>10, <1>11 DEF Listing
<1>13. stage'[j] = "joined" /\ (\A x \in Nodes : x # j => stage'[x] = stage[x]) /\ Growing
  BY <1>7 DEF Inv, SystemOK, Growing, NotOut
<1>14. succ'[j] = Successor[n] /\ pred'[j] = n /\ j \in alive'
  BY <1>1, <1>2, <1>4, <1>7, <1>9
<1>15. NewcomerOK(n, j)'
  BY <1>12, <1>13, <1>14 DEF NewcomerOK, Joining, Listing, NotOut
<1> QED
  BY <1>2, <1>7, <1>9, <1>10, <1>13, <1>15, JoinGoes, PointersStay

\* Nobody is about to leave.
LEMMA NoDeparture ==
  ASSUME Calm, NEW n \in Nodes
  PROVE  thread[n]["main"].at \notin {"data handoff", "part predecessor", "part successor"}
<1>1. CASE n \in Settled
  <2>1. thread[n]["main"].at = "idle"
    BY <1>1, Stayers DEF SettledOK
  <2> QED
    BY <2>1
<1>2. CASE n \notin Settled
  <2>1. thread[n]["main"].at \in Joining
    BY <1>2, SomeGap, Newcomers DEF NewcomerOK
  <2> QED
    BY <2>1 DEF Joining, Listing
<1> QED
  BY <1>1, <1>2

LEMMA MainCalm ==
  ASSUME Apart, losses' = 0, Inv, Calm, NEW n \in Nodes, MainStep(n)
  PROVE  Calm'
<1>1. ASSUME NEW o \in Outcomes
      PROVE  ~DataHandoff(n, o) /\ ~PartPredecessor(n, o) /\ ~PartSuccessor(n, o)
  BY NoDeparture DEF DataHandoff, PartPredecessor, PartSuccessor, Waits
<1> QED
  BY <1>1, LookupCalm, GetPredecessorCalm, DataTransferCalm, TellSuccessorCalm,
     TellPredecessorCalm DEF MainStep

LEMMA StepCalm ==
  ASSUME Apart, Inv, Calm, [Next]_vars, Undisturbed', NobodyLeaves'
  PROVE  Calm'
<1>1. CASE UNCHANGED vars
  <2>1. UNCHANGED <<alive, stage, succ, pred, thread>> /\ Growing
    BY <1>1, SameStage DEF vars, Inv
  <2>2. \A n \in Settled : SettledOK(n)'
    BY <2>1, Stayers, SettledStays DEF SettledOK
  <2>3. \A n \in Settled : \A j \in Gap(n) : NewcomerOK(n, j)'
    BY <2>1, Newcomers, NewcomerStays
  <2>4. \A m, to, got : WorkerOK(m, to, got) => Expected(thread'[m]["worker"], to, got)
    BY <2>1, WorkerStays
  <2> QED
    BY <2>2, <2>3, <2>4, Stayers, Newcomers, CalmAgain
<1>2. losses' = 0 /\ \A x \in Nodes : NotOut(x) => x \in alive'
  BY NobodyForgets DEF Undisturbed, NotOut
<1>3. ASSUME NEW n \in Nodes PROVE ~BeginDepart(n)
  <2> SUFFICES ASSUME BeginDepart(n) PROVE FALSE
    OBVIOUS
  <2>1. NotOut(n) /\ n \in alive'
    BY <1>2 DEF BeginDepart, NotOut
  <2>2. ~Exits(n)
    BY <2>1 DEF Exits
  <2> DEFINE t == Calling("data handoff", succ[n], n)
  <2>3. Goes(n, "main", t)
    BY <2>2 DEF BeginDepart
  <2>4. t.at = "data handoff"
    BY DEF Calling
  <2> HIDE DEF t
  <2>5. thread'[n]["main"].at = "data handoff"
    BY <2>3, <2>4, OneGoes DEF Roles
  <2> QED
    BY <2>5 DEF NobodyLeaves, Leaving
<1>4. ASSUME NEW n \in Nodes, Crash(n) PROVE Calm'
  <2>1. Exits(n) /\ UNCHANGED <<stage, succ, pred>>
    BY <1>4 DEF Crash, pointers
  <2>2. ~NotOut(n)
    BY <1>2, <2>1 DEF Exits
  <2> QED
    BY <2>1, <2>2, DeathCalm DEF NotOut
<1> QED
  BY <1>1, <1>2, <1>3, <1>4, BeginJoinCalm, MainCalm, WorkerCalm, StartRebuildCalm, ListCalm
  DEF Next

\* A departure that is under way goes on, or ends with the process.
LEMMA DepartureGoesOn ==
  ASSUME Inv, [Next]_vars, NEW n \in Nodes, thread[n]["main"].at \in Leaving
  PROVE  n \notin alive' \/ thread'[n]["main"].at \in Leaving
<1> DEFINE Goal == n \notin alive' \/ thread'[n]["main"].at \in Leaving
<1>1. ASSUME NEW m \in Nodes, NEW r \in Roles, NEW t, Goes(m, r, t),
             m # n \/ r # "main" \/ t.at \in Leaving
      PROVE  Goal
  BY <1>1, OneGoes DEF Roles
<1>2. ASSUME NEW m \in Nodes, Exits(m)
      PROVE  Goal
  BY <1>2 DEF Exits, Inv, ThreadsOK
<1>3. thread[n]["main"].at \notin {"idle", "lookup", "get predecessor", "data transfer",
                                  "tell successor", "tell predecessor", "open list",
                                  "call list", "get list", "ping backup"}
  BY DEF Leaving
<1>4. ASSUME NEW m \in Nodes, NEW entry \in Nodes, BeginJoin(m, entry) \/ BeginDepart(m)
      PROVE  Goal
  <2>1. m # n
    BY <1>3, <1>4 DEF BeginJoin, BeginDepart, MayBegin, Waits
  <2> QED
    BY <1>1, <1>2, <1>4, <2>1 DEF BeginJoin, BeginDepart, Roles
<1>5. ASSUME NEW m \in Nodes, NEW o \in Outcomes, DataHandoff(m, o)
      PROVE  Goal
  <2>1. Calling("part predecessor", pred[m], succ[m]).at \in Leaving
    BY DEF Calling, Leaving
  <2> QED
    BY <1>1, <1>2, <1>5, <2>1 DEF DataHandoff, Roles
<1>6. ASSUME NEW m \in Nodes, NEW o \in Outcomes, PartPredecessor(m, o)
      PROVE  Goal
  <2>1. Calling("part successor", succ'[m], pred[m]).at \in Leaving
    BY DEF Calling, Leaving
  <2> QED
    BY <1>1, <1>6, <2>1 DEF PartPredecessor, Roles
<1>7. ASSUME NEW m \in Nodes, NEW o \in Outcomes, PartSuccessor(m, o)
      PROVE  Goal
  BY <1>2, <1>7 DEF PartSuccessor
<1>8. ASSUME NEW m \in Nodes, NEW o \in Outcomes,
             \/ Lookup(m, o) \/ GetPredecessor(m, o) \/ DataTransfer(m, o)
             \/ TellSuccessor(m, o) \/ TellPredecessor(m, o)
      PROVE  Goal
  <2>1. m # n
    BY <1>3, <1>8 DEF Lookup, GetPredecessor, DataTransfer, TellSuccessor, TellPredecessor,
       Waits
  <2>2. CASE AbortJoin(m)
    BY <1>2, <2>2 DEF AbortJoin
  <2>3. CASE \E t : Goes(m, "main", t)
    BY <1>1, <2>1, <2>3 DEF Roles
  <2> QED
    BY <1>8, <2>2, <2>3, BeginListGoes DEF Lookup, GetPredecessor, DataTransfer,
       TellSuccessor, TellPredecessor
<1>9. ASSUME NEW m \in Nodes, WorkerStep(m)
      PROVE  Goal
  <2>1. \E t : Goes(m, "worker", t)
    BY <1>9, BeginListGoes DEF WorkerStep, Wake, Adopt, PingPredecessor, Stabilize,
       PingSurvivor, Notify, ContinueStitch
  <2> QED
    BY <1>1, <2>1 DEF Roles
<1>10. ASSUME NEW m \in Nodes, StartRebuild(m)
       PROVE  Goal
  BY <1>1, <1>10, BeginListGoes DEF StartRebuild, Roles
<1>11. ASSUME NEW m \in Nodes, NEW r \in Roles, ListStep(m, r)
       PROVE  Goal
  <2>1. thread[m][r].at \in {"open list", "call list", "get list", "ping backup"}
    BY <1>11, ListStepGoes DEF Listing
  <2>2. m # n \/ r # "main"
    BY <1>3, <2>1
  <2>3. \E t : Goes(m, r, t)
    BY <1>11, ListStepGoes
  <2> QED
    BY <1>1, <2>2, <2>3
<1>12. ASSUME NEW m \in Nodes, Crash(m)
       PROVE  Goal
  BY <1>2, <1>12 DEF Crash
<1>13. CASE UNCHANGED vars
  BY <1>13 DEF vars
<1>14. ASSUME NEW m \in Nodes, MainStep(m)
       PROVE  Goal
  BY <1>5, <1>6, <1>7, <1>8, <1>14 DEF MainStep
<1> QED
  BY <1>4, <1>9, <1>10, <1>11, <1>12, <1>13, <1>14 DEF Next

\* What is lost stays lost, and the dead do not come back.
LEMMA NothingHeals ==
  ASSUME Inv, [Next]_vars
  PROVE  losses <= losses' /\ alive' \subseteq alive
<1> DEFINE Goal == losses <= losses' /\ alive' \subseteq alive
<1>1. losses \in Nat
  BY BoundsAssumption DEF Inv, SystemOK
<1>2. \A h, o : Sent(h, o) => losses <= losses'
  BY <1>1 DEF Sent
<1>3. UNCHANGED bounds => losses <= losses'
  BY <1>1 DEF bounds
<1>4. ASSUME NEW m \in Nodes, NEW entry \in Nodes,
             BeginJoin(m, entry) \/ BeginDepart(m) \/ StartRebuild(m) \/ Crash(m)
      PROVE  Goal
  <2>1. losses <= losses'
    <3>1. UNCHANGED bounds \/ UNCHANGED losses
      BY <1>4 DEF BeginJoin, BeginDepart, StartRebuild, Crash
    <3> QED
      BY <1>1, <1>3, <3>1
  <2>2. alive' \subseteq alive
    BY <1>4 DEF BeginJoin, BeginDepart, StartRebuild, Crash, Exits
  <2> QED
    BY <2>1, <2>2
<1>5. ASSUME NEW m \in Nodes, MainStep(m)
      PROVE  Goal
  BY <1>2, <1>5 DEF MainStep, Lookup, GetPredecessor, DataTransfer, TellSuccessor,
     TellPredecessor, DataHandoff, PartPredecessor, PartSuccessor, AbortJoin, Exits
<1>6. ASSUME NEW m \in Nodes, WorkerStep(m)
      PROVE  Goal
  <2>1. losses <= losses'
    BY <1>2, <1>3, <1>6 DEF WorkerStep, Wake, Adopt, PingPredecessor, Stabilize,
       PingSurvivor, Notify
  <2>2. alive' \subseteq alive
    BY <1>6 DEF WorkerStep, Wake, Adopt, PingPredecessor, Stabilize, PingSurvivor, Notify
  <2> QED
    BY <2>1, <2>2
<1>7. ASSUME NEW m \in Nodes, NEW r \in Roles, ListStep(m, r)
      PROVE  Goal
  BY <1>2, <1>3, <1>7 DEF ListStep, OpenList, CallList, GetList, PingBackup
<1>8. CASE UNCHANGED vars
  BY <1>1, <1>8 DEF vars
<1> QED
  BY <1>4, <1>5, <1>6, <1>7, <1>8 DEF Next

\* If it is quiet now, it was so before.
LEMMA QuietBefore ==
  ASSUME Inv, [Next]_vars, Undisturbed', NobodyLeaves'
  PROVE  Quiet
<1>1. losses = 0
  BY NothingHeals, BoundsAssumption DEF Undisturbed, Inv, SystemOK
<1>2. \A n \in Nodes : NotOut(n) => n \in alive' /\ n \in alive
  BY NothingHeals, NobodyForgets DEF Undisturbed, NotOut
<1>3. ASSUME NEW n \in Nodes, thread[n]["main"].at \in Leaving
      PROVE  FALSE
  <2>1. thread[n]["main"].at \in Speaking
    BY <1>3 DEF Leaving, Speaking
  <2>2. NotOut(n)
    BY <2>1, ToldNotOut DEF Roles
  <2> QED
    BY <1>2, <1>3, <2>2, DepartureGoesOn DEF NobodyLeaves
<1> QED
  BY <1>1, <1>2, <1>3 DEF Quiet, Undisturbed, NobodyLeaves, NotOut

LEMMA InitCalm == Init => Calm
<1> SUFFICES ASSUME Init PROVE Calm
  OBVIOUS
<1>1. ASSUME NEW n \in Nodes, NEW r \in Roles PROVE thread[n][r].at = "idle"
  BY DEF Init, Idle
<1>2. ASSUME NEW n \in Settled PROVE SettledOK(n) /\ WorkerOK(n, Right(n), Left(n))
  BY <1>1, SettledFacts, ListExpected
  DEF Init, SettledOK, Right, Left, WorkerOK, Roles
<1>3. ASSUME NEW n \in Settled, NEW j \in Gap(n)
      PROVE  NewcomerOK(n, j) /\ WorkerOK(j, {Successor[n]}, {n, j})
  <2>1. j \in Nodes /\ j \notin Settled
    BY GapFacts
  <2>2. stage[j] = "out" /\ thread[j]["main"].at = "idle" /\ thread[j]["worker"].at = "idle"
    BY <1>1, <2>1 DEF Init, Roles
  <2>3. NewcomerOK(n, j)
    BY <2>2 DEF NewcomerOK, Joining, NotOut
  <2> QED
    BY <2>2, <2>3, ListExpected DEF WorkerOK
<1> QED
  BY <1>2, <1>3 DEF Calm

LEMMA CalmInvariance ==
  ASSUME Apart
  PROVE  Spec => [](Quiet => Calm)
<1>1. Init => (Quiet => Calm)
  BY InitCalm
<1>2. Inv /\ (Quiet => Calm) /\ [Next]_vars => (Quiet => Calm)'
  <2> SUFFICES ASSUME Inv, Quiet => Calm, [Next]_vars, Undisturbed', NobodyLeaves'
               PROVE  Calm'
    BY DEF Quiet
  <2> QED
    BY QuietBefore, StepCalm
<1> QED
  BY <1>1, <1>2, Invariance, PTL DEF Spec

\* No settled node lies between another and its settled successor.
LEMMA NobodyBetween ==
  ASSUME NEW n \in Settled, NEW x \in Settled, Between(x, n, Successor[n])
  PROVE  x = Successor[n]
<1> DEFINE s == Successor[n]
<1>1. n \in Ids /\ x \in Ids /\ s \in Ids /\ Between(s, n, x) /\ Between(s, n, n)
  BY SettledFacts
<1> QED
  BY <1>1, SizeAssumption DEF Between, Ids

LEMMA SameDistance ==
  ASSUME NEW n \in Ids, NEW a \in Ids, NEW b \in Ids, Distance(n, a) = Distance(n, b)
  PROVE  a = b
  BY SizeAssumption DEF Distance, Ids

\* Between n and s lies g, and x does not: g is nearer.
LEMMA NearerThanBeyond ==
  ASSUME NEW n \in Ids, NEW s \in Ids, NEW g \in Ids, NEW x \in Ids,
         g = s \/ Between(g, n, s), g # n, x # n, x = s \/ ~Between(x, n, s)
  PROVE  Distance(n, g) <= Distance(n, x)
  BY SizeAssumption DEF Distance, Between, Ids

Agreed == \A n \in Members : /\ {succ[n], pred[n]} \subseteq Members
                             /\ pred[succ[n]] = n
                             /\ succ[pred[n]] = n
                             /\ succ[n] # n

\* Members that agree have the nearest other one for a successor.
LEMMA NearestIsSuccessor ==
  ASSUME Apart, Inv, Calm, Agreed,
         NEW n \in Members, NEW x \in Members, x # n
  PROVE  Distance(n, succ[n]) <= Distance(n, x)
<1>1. Members \subseteq Nodes /\ \A m \in Members : NotOut(m)
  BY DEF Members, NotOut, Inv, SystemOK
<1>2. n \in Ids /\ x \in Ids /\ succ[n] \in Ids /\ succ[n] # n
  BY <1>1, SettledFacts DEF Agreed
<1>3. ASSUME NEW m \in Settled, x # Successor[m], Between(x, m, Successor[m])
      PROVE  x \in Gap(m) /\ succ[m] = x
  <2>1. x \in Gap(m)
    BY <1>1, <1>3, NobodyBetween DEF Gap
  <2>2. pred[x] = m
    BY <1>1, <2>1, SuccessorIs
  <2> QED
    BY <2>1, <2>2 DEF Agreed
<1>4. CASE n \in Settled
  <2> DEFINE s == Successor[n]
  <2>1. s \in Ids /\ s \in Settled /\ succ[n] \in Right(n)
    BY <1>1, <1>4, SettledFacts, SuccessorIs
  <2>2. succ[n] = s \/ Between(succ[n], n, s)
    BY <2>1 DEF Right, Gap
  <2>3. CASE x = s \/ ~Between(x, n, s)
    BY <1>2, <2>1, <2>2, <2>3, NearerThanBeyond
  <2>4. CASE x # s /\ Between(x, n, s)
    <3>1. Distance(n, succ[n]) = Distance(n, x) /\ Distance(n, x) \in Nat
      BY <1>2, <1>3, <1>4, <2>4, DistanceType
    <3> QED
      BY <3>1
  <2> QED
    BY <2>3, <2>4
<1>5. CASE n \notin Settled
  <2>1. PICK m \in Settled : n \in Gap(m)
    BY <1>1, <1>5, SomeGap
  <2>2. succ[n] = Successor[m]
    BY <1>1, <2>1, SuccessorIs
  <2>3. x = Successor[m] \/ ~Between(x, m, Successor[m])
    BY <1>3, <2>1 DEF Apart
  <2> QED
    BY <1>2, <2>1, <2>2, <2>3, GapFacts, NearestAhead
<1> QED
  BY <1>4, <1>5

LEMMA SuccessorIsNext ==
  ASSUME Apart, Inv, Calm, Agreed, NEW n \in Members
  PROVE  succ[n] = NextOf(n, Members)
<1>1. succ[n] \in Members \ {n}
  BY DEF Agreed
<1>2. \A x \in Members : x \in Ids
  BY SettledFacts DEF Members, Inv, SystemOK
<1>3. \A x \in Members \ {n} : Distance(n, succ[n]) <= Distance(n, x)
  BY NearestIsSuccessor
<1> DEFINE Nearest(o) == \A x \in Members \ {n} : Distance(n, o) <= Distance(n, x)
<1>4. ASSUME NEW o \in Members \ {n}, Nearest(o)
      PROVE  o = succ[n]
  <2>1. Distance(n, o) = Distance(n, succ[n])
    BY <1>1, <1>2, <1>3, <1>4, DistanceType
  <2> QED
    BY <1>1, <1>2, <2>1, SameDistance
<1>5. NextOf(n, Members) = CHOOSE o \in Members \ {n} : Nearest(o)
  BY <1>1 DEF NextOf
<1>6. Nearest(succ[n])
  BY <1>3
<1> HIDE DEF Nearest
<1> QED
  BY <1>1, <1>4, <1>5, <1>6

LEMMA PredecessorIsPrevious ==
  ASSUME Apart, Inv, Calm, Agreed, NEW n \in Members
  PROVE  pred[n] = PreviousOf(Members, n)
<1>1. \A p \in Members : NextOf(p, Members) = succ[p]
  BY SuccessorIsNext
<1>2. pred[n] \in Members /\ NextOf(pred[n], Members) = n
  BY <1>1 DEF Agreed
<1>3. \A p \in Members : NextOf(p, Members) = n => p = pred[n]
  BY <1>1 DEF Agreed
<1> QED
  BY <1>2, <1>3 DEF PreviousOf

\* Where nobody moves, nobody is about to leave.
LEMMA QuietWhenStill ==
  ASSUME Inv, Undisturbed, Moving = {}
  PROVE  Quiet
<1>1. ASSUME NEW n \in Nodes, thread[n]["main"].at \in Leaving
      PROVE  FALSE
  <2>1. thread[n]["main"].at \in Speaking /\ thread[n]["main"].at # "idle"
    BY <1>1 DEF Leaving, Speaking
  <2>2. NotOut(n)
    BY <2>1, ToldNotOut DEF Roles
  <2> QED
    BY <2>1, <2>2 DEF Undisturbed, NotOut, Moving
<1> QED
  BY <1>1 DEF Quiet, NobodyLeaves

UndisturbedRingIsRight == Undisturbed => AgreedRingIsRight

\* As long as nothing was lost and every node that ever had its data is there,
\* newcomers between different neighbours cannot settle into a wrong ring: where
\* all members agree with their neighbours, the pointers are those of the ring of
\* all members (join, the handlers and stabilize_worker, however they interleave).
THEOREM JoinsApart ==
  ASSUME Apart
  PROVE  Spec => []UndisturbedRingIsRight
<1>1. Inv /\ (Quiet => Calm) => UndisturbedRingIsRight
  <2> SUFFICES ASSUME Inv, Quiet => Calm, Undisturbed, Moving = {}, Agreed
               PROVE  RingIsRight
    BY DEF UndisturbedRingIsRight, AgreedRingIsRight, Agreed
  <2>1. Calm
    BY QuietWhenStill
  <2> QED
    BY <2>1, SuccessorIsNext, PredecessorIsPrevious DEF RingIsRight
<1> QED
  BY <1>1, Invariance, CalmInvariance, PTL
=============================================================================
