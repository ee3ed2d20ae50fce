-------------------------- MODULE Traversals_proofs --------------------------
(***************************************************************************)
(* The loops over the dependency graph compute what DependencyGraph says   *)
(* they do, on every finite graph that the other modules' invariants       *)
(* allow.                                                                  *)
(*                                                                         *)
(* Each loop has an invariant of its own that says what has been done to   *)
(* the nodes it has dealt with, that everything it holds is in the least   *)
(* set which DependencyGraph names, and that what it holds is closed up to *)
(* the nodes still waiting in its queue; when none is left, the two sets   *)
(* are the same.                                                           *)
(***************************************************************************)
EXTENDS Traversals, TLAPS, FiniteSetTheorems, SequenceTheorems

Waiting == Range(walk.queue)

\* The staleness bookkeeping, of any states and pending edges.
StaleIn(states, pending) ==
    /\ \A e \in Edges : states[e[1]] # "Clean" => e \in pending
    /\ \A e \in pending : states[e[2]] # "Clean"

\* What a walk has found is a graph that exists.
FoundInv ==
    /\ dependents \in AcyclicGraphs
    /\ before.pending \subseteq Edges
    /\ StaleIn(before.state, before.pending)
    /\ Idle \/ In("has_path") \/ In("topological_order") =>
          state = before.state /\ pending_edges = before.pending

MarkChangedInv ==
    In("mark_changed") =>
        LET done == walk.seen \ Waiting IN
        /\ walk.from \in NodeId
        /\ dependents[walk.from] \subseteq walk.seen
        /\ walk.seen \subseteq Downstream(dependents, dependents[walk.from])
        /\ Waiting \subseteq walk.seen /\ IsInjective(walk.queue)
        /\ \A n \in done : dependents[n] \subseteq walk.seen
        /\ state = [n \in NodeId |->
                       IF n \in dependents[walk.from] THEN "Dirty"
                       ELSE IF n \in walk.seen /\ before.state[n] = "Clean" THEN "MaybeDirty"
                       ELSE before.state[n]]
        /\ pending_edges = before.pending \cup {e \in Edges : e[1] \in {walk.from} \cup done}
        /\ walk.result # None => walk.queue = <<>>

\* A node is Unblocked by those that have been dealt with before it is queued, so that it
\* cannot be queued by one that comes later.
MarkUnchangedInv ==
    In("mark_unchanged") =>
        LET d == walk.from
            known == walk.seen \cup Waiting
            UnblockedBy(K, c) == Unblocked(dependents, before.state, before.pending, K, c)
        IN
        /\ d \in NodeId /\ d \in known /\ before.state[d] = "Clean"
        /\ known \subseteq Settled(dependents, before.state, before.pending, d)
        /\ IsInjective(walk.queue) /\ Waiting \cap walk.seen = {}
        /\ \A c \in NodeId : UnblockedBy(walk.seen, c) => c \in known
        /\ \A c \in known \ {d} : UnblockedBy(walk.seen, c)
        /\ state = [n \in NodeId |-> IF n # d /\ n \in known THEN "Clean" ELSE before.state[n]]
        /\ pending_edges = {e \in before.pending :
                               ~(e[1] \in walk.seen /\ e[2] \in dependents[e[1]])}
        /\ walk.result # None => walk.queue = <<>>

HasPathInv ==
    In("has_path") =>
        LET known == walk.seen \cup Waiting IN
        /\ walk.from \in known /\ walk.to \in NodeId
        /\ known \subseteq Downstream(dependents, {walk.from})
        /\ \A n \in walk.seen : dependents[n] \subseteq known
        /\ walk.to \notin walk.seen
        /\ walk.result # None =>
              /\ walk.queue # <<>> => walk.to \in Waiting
              /\ walk.result = (walk.queue # <<>>)

\* The queue holds exactly the nodes that may come next, the smallest first.
Rising(s) == \A i, j \in DOMAIN s : i < j => s[i] < s[j]

\* The node at place i of an order may stand there, and no smaller one may.
RightlyAt(order, i) ==
    LET earlier == Range(SubSeq(order, 1, i - 1)) IN
    /\ Dependencies(order[i]) \subseteq earlier
    /\ \A n \in NodeId \ earlier : Dependencies(n) \subseteq earlier => order[i] <= n

OrderInv ==
    In("topological_order") =>
        LET taken == Range(walk.order) IN
        /\ IsInjective(walk.order) /\ Rising(walk.queue)
        /\ Waiting = {n \in NodeId \ taken : Dependencies(n) \subseteq taken}
        /\ \A n \in NodeId : walk.in_degree[n] = Cardinality(Dependencies(n) \ taken)
        /\ \A i \in DOMAIN walk.order : RightlyAt(walk.order, i)
        /\ walk.result # None =>
              walk.queue = <<>> /\ walk.result = (Len(walk.order) = Cardinality(NodeId))

LoopInv == MarkChangedInv /\ MarkUnchangedInv /\ HasPathInv /\ OrderInv
-----------------------------------------------------------------------------
(***************************************************************************)
(* Queues.                                                                 *)
(***************************************************************************)
\* What is left of a queue when its head is taken.
LEMMA TakeHead ==
    ASSUME NEW S, NEW q \in Seq(S), q # <<>>
    PROVE  /\ Head(q) \in S /\ Tail(q) \in Seq(S)
           /\ Range(q) = {Head(q)} \cup Range(Tail(q))
           /\ IsInjective(q) => IsInjective(Tail(q)) /\ Head(q) \notin Range(Tail(q))
<1>1. /\ Head(q) \in S /\ Tail(q) \in Seq(S) /\ Len(q) \in Nat \ {0}
      /\ Head(q) = q[1] /\ Len(Tail(q)) = Len(q) - 1 /\ DOMAIN q = 1..Len(q)
      /\ DOMAIN Tail(q) = 1..(Len(q) - 1)
      /\ \A i \in 1..(Len(q) - 1) : Tail(q)[i] = q[i + 1]
  BY HeadTailProperties, LenProperties
<1>2. ASSUME NEW x \in Range(q)
      PROVE  x \in {Head(q)} \cup Range(Tail(q))
  <2>1. PICK i \in 1..Len(q) : x = q[i]
    BY <1>1, <1>2 DEF Range
  <2>2. i # 1 => i - 1 \in 1..(Len(q) - 1) /\ Tail(q)[i - 1] = x
    BY <1>1, <2>1
  <2> QED BY <1>1, <2>1, <2>2 DEF Range
<1>3. ASSUME NEW x \in {Head(q)} \cup Range(Tail(q))
      PROVE  x \in Range(q)
  <2>1. x # Head(q) => \E i \in 1..(Len(q) - 1) : x = q[i + 1]
    BY <1>1, <1>3 DEF Range
  <2>2. \A i \in 1..(Len(q) - 1) : i + 1 \in 1..Len(q)
    BY <1>1
  <2> QED BY <1>1, <2>1, <2>2 DEF Range
<1>4. ASSUME IsInjective(q)
      PROVE  IsInjective(Tail(q)) /\ Head(q) \notin Range(Tail(q))
  <2>1. \A i, j \in 1..(Len(q) - 1) : q[i + 1] = q[j + 1] => i = j
    BY <1>1, <1>4 DEF IsInjective
  <2>2. \A i \in 1..(Len(q) - 1) : q[i + 1] # q[1]
    BY <1>1, <1>4 DEF IsInjective
  <2> QED BY <1>1, <2>1, <2>2 DEF IsInjective, Range
<1> QED BY <1>1, <1>2, <1>3, <1>4

\* What a stack holds below its top.
LEMMA TakeLast ==
    ASSUME NEW S, NEW q \in Seq(S), q # <<>>
    PROVE  /\ Last(q) \in S /\ Front(q) \in Seq(S)
           /\ Range(q) = {Last(q)} \cup Range(Front(q))
<1>1. /\ Len(q) \in Nat \ {0} /\ DOMAIN q = 1..Len(q) /\ \A i \in 1..Len(q) : q[i] \in S
      /\ Last(q) = q[Len(q)]
  BY LenProperties, ElementOfSeq, EmptySeq DEF Last
<1>2. /\ Front(q) \in Seq(S) /\ Len(Front(q)) = Len(q) - 1
      /\ \A i \in 1..(Len(q) - 1) : Front(q)[i] = q[i]
  BY <1>1, SubSeqProperties DEF Front
<1>3. DOMAIN Front(q) = 1..(Len(q) - 1)
  BY <1>2, LenProperties
<1>4. 1..Len(q) = (1..(Len(q) - 1)) \cup {Len(q)}
  BY <1>1
<1> QED BY <1>1, <1>2, <1>3, <1>4 DEF Range

\* A queue with others at its end.
LEMMA PushBack ==
    ASSUME NEW S, NEW q \in Seq(S), NEW r \in Seq(S)
    PROVE  /\ q \o r \in Seq(S) /\ Range(q \o r) = Range(q) \cup Range(r)
           /\ IsInjective(q) /\ IsInjective(r) /\ Range(q) \cap Range(r) = {} =>
                 IsInjective(q \o r)
<1>1. /\ q \o r \in Seq(S) /\ Len(q \o r) = Len(q) + Len(r)
      /\ Len(q) \in Nat /\ Len(r) \in Nat
      /\ DOMAIN q = 1..Len(q) /\ DOMAIN r = 1..Len(r) /\ DOMAIN (q \o r) = 1..(Len(q) + Len(r))
      /\ \A i \in 1..(Len(q) + Len(r)) :
            (q \o r)[i] = IF i <= Len(q) THEN q[i] ELSE r[i - Len(q)]
  BY ConcatProperties, LenProperties
<1>2. Range(q \o r) = Range(q) \cup Range(r)
  BY RangeConcatenation
<1>3. ASSUME IsInjective(q), IsInjective(r), Range(q) \cap Range(r) = {},
             NEW i \in 1..(Len(q) + Len(r)), NEW j \in 1..(Len(q) + Len(r)),
             (q \o r)[i] = (q \o r)[j]
      PROVE  i = j
  <2>1. CASE i <= Len(q) /\ j <= Len(q)
    BY <1>1, <1>3, <2>1 DEF IsInjective
  <2>2. CASE i > Len(q) /\ j > Len(q)
    <3>1. i - Len(q) \in 1..Len(r) /\ j - Len(q) \in 1..Len(r)
      BY <1>1, <2>2
    <3>2. r[i - Len(q)] = r[j - Len(q)]
      BY <1>1, <1>3, <2>2
    <3>3. i - Len(q) = j - Len(q)
      BY <1>1, <1>3, <3>1, <3>2 DEF IsInjective
    <3> QED BY <1>1, <3>3
  <2>3. ASSUME NEW k \in 1..(Len(q) + Len(r)), NEW l \in 1..(Len(q) + Len(r)),
               k <= Len(q), l > Len(q)
        PROVE  (q \o r)[k] # (q \o r)[l]
    <3>1. k \in 1..Len(q) /\ l - Len(q) \in 1..Len(r)
      BY <1>1, <2>3
    <3>2. (q \o r)[k] = q[k] /\ (q \o r)[l] = r[l - Len(q)]
      BY <1>1, <2>3
    <3> QED BY <1>1, <1>3, <3>1, <3>2 DEF Range
  <2> QED BY <1>1, <1>3, <2>1, <2>2, <2>3
<1> QED BY <1>1, <1>2, <1>3 DEF IsInjective

\* An order with one more node.
LEMMA AppendOne ==
    ASSUME NEW S, NEW s \in Seq(S), NEW x \in S
    PROVE  /\ Append(s, x) \in Seq(S)
           /\ Range(Append(s, x)) = Range(s) \cup {x}
           /\ IsInjective(s) /\ x \notin Range(s) => IsInjective(Append(s, x))
<1>1. Append(s, x) = s \o <<x>> /\ <<x>> \in Seq(S)
  BY AppendIsConcat
<1>2. Range(<<x>>) = {x} /\ IsInjective(<<x>>)
  BY DEF Range, IsInjective
<1>3. x \notin Range(s) => Range(s) \cap Range(<<x>>) = {}
  BY <1>2
<1>4. /\ s \o <<x>> \in Seq(S) /\ Range(s \o <<x>>) = Range(s) \cup Range(<<x>>)
      /\ IsInjective(s) /\ IsInjective(<<x>>) /\ Range(s) \cap Range(<<x>>) = {} =>
            IsInjective(s \o <<x>>)
  BY <1>1, PushBack
<1> QED BY <1>1, <1>2, <1>3, <1>4

LEMMA NoneLeft == Range(<<>>) = {} /\ IsInjective(<<>>)
BY DEF Range, IsInjective
-----------------------------------------------------------------------------
(***************************************************************************)
(* Sorting.                                                                *)
(***************************************************************************)
\* A finite set of ids can be put in order: an id goes to the place that counts the ids
\* up to it.
LEMMA CanBeSorted ==
    ASSUME NEW S \in SUBSET NodeId
    PROVE  \E ids \in SetToSeqs(S) : \A i, j \in DOMAIN ids : i < j => ids[i] < ids[j]
<1> DEFINE n == Cardinality(S)
           Below(x) == {y \in S : y <= x}
           place == [x \in S |-> Cardinality(Below(x))]
           ids == [i \in 1..n |-> CHOOSE x \in S : place[x] = i]
<1>1. IsFiniteSet(S) /\ n \in Nat /\ S \subseteq Nat
  BY TraversalAssumption, NodeIdAssumption, FS_Subset, FS_CardinalityType
<1>2. ASSUME NEW x \in S
      PROVE  IsFiniteSet(Below(x)) /\ place[x] = Cardinality(Below(x)) /\ place[x] \in 1..n
  <2>1. Below(x) \in SUBSET S /\ x \in Below(x)
    BY <1>1
  <2>2. /\ IsFiniteSet(Below(x)) /\ Cardinality(Below(x)) <= n
        /\ Cardinality(Below(x)) \in Nat /\ Cardinality(Below(x)) # 0
    BY <1>1, <2>1, FS_Subset, FS_CardinalityType, FS_EmptySet
  <2> HIDE DEF Below, n
  <2> QED BY <1>1, <2>2
<1>3. ASSUME NEW x \in S, NEW y \in S, x < y
      PROVE  place[x] < place[y]
  <2>1. Below(x) \in SUBSET Below(y) /\ y \in Below(y) /\ y \notin Below(x)
    <3>1. \A z \in S : z <= x => z <= y
      BY <1>1, <1>3
    <3>2. y <= y /\ ~(y <= x)
      BY <1>1, <1>3
    <3> QED BY <3>1, <3>2
  <2>2. Cardinality(Below(x)) <= Cardinality(Below(y)) /\ Cardinality(Below(x)) # Cardinality(Below(y))
    BY <1>2, <2>1, FS_Subset
  <2> HIDE DEF place, Below
  <2> QED BY <1>1, <1>2, <2>2
<1>4. place \in Injection(S, 1..n)
  <2>1. \A x, y \in S : x = y \/ x < y \/ y < x
    BY <1>1
  <2>2. place \in [S -> 1..n]
    BY <1>2
  <2>3. ASSUME NEW x \in S, NEW y \in S, place[x] = place[y]
        PROVE  x = y
    <3>1. place[x] \in Nat
      BY <1>1, <1>2
    <3>2. ~(place[x] < place[y]) /\ ~(place[y] < place[x])
      <4> HIDE DEF place
      <4> QED BY <2>3, <3>1
    <3> HIDE DEF place
    <3> QED BY <1>3, <2>1, <3>2
  <2> QED BY <2>2, <2>3 DEF Injection, IsInjective
<1>5. place \in Surjection(S, 1..n)
  <2>1. IsFiniteSet(1..n) /\ Cardinality(1..n) = n
    BY <1>1, FS_Interval
  <2> HIDE DEF place
  <2> QED BY <1>4, <2>1, FS_Injection
<1>6. ASSUME NEW i \in 1..n
      PROVE  ids[i] \in S /\ place[ids[i]] = i
  <2>1. \E x \in S : place[x] = i
    BY <1>5 DEF Surjection
  <2> HIDE DEF place
  <2> QED BY <2>1
<1>7. DOMAIN ids = 1..n
  OBVIOUS
<1>8. ASSUME NEW i \in 1..n, NEW j \in 1..n, i < j
      PROVE  ids[i] < ids[j]
  <2>1. ids[i] \in Nat /\ ids[j] \in Nat /\ ids[i] \in S /\ ids[j] \in S
    BY <1>1, <1>6
  <2>2. place[ids[i]] = i /\ place[ids[j]] = j
    BY <1>6
  <2>3. ids[i] # ids[j] /\ ~(ids[j] < ids[i])
    <3> HIDE DEF ids, place
    <3> QED BY <1>1, <1>3, <1>8, <2>1, <2>2
  <2> HIDE DEF ids, place
  <2> QED BY <2>1, <2>3
<1>9. ids \in SetToSeqs(S)
  <2>1. ids \in [1..n -> S]
    BY <1>6
  <2>2. \A i, j \in 1..n : i # j => ids[i] # ids[j]
    <3> HIDE DEF ids, place
    <3> QED BY <1>1, <1>6
  <2> HIDE DEF ids
  <2> QED BY <2>1, <2>2 DEF SetToSeqs
<1> HIDE DEF ids
<1> QED BY <1>7, <1>8, <1>9

\* The elements of a set in some order are a sequence of each of them once.
LEMMA ListedOnce ==
    ASSUME NEW S \in SUBSET NodeId, NEW s \in SetToSeqs(S)
    PROVE  s \in Seq(NodeId) /\ Range(s) = S /\ IsInjective(s)
<1>1. IsFiniteSet(S) /\ Cardinality(S) \in Nat
  BY TraversalAssumption, FS_Subset, FS_CardinalityType
<1>2. s \in [1..Cardinality(S) -> S] /\ IsInjective(s)
  BY DEF SetToSeqs, IsInjective
<1>3. s \in Surjection(1..Cardinality(S), S)
  <2>1. Cardinality(1..Cardinality(S)) = Cardinality(S)
    BY <1>1, FS_Interval
  <2>2. s \in Injection(1..Cardinality(S), S)
    BY <1>2 DEF Injection
  <2> QED BY <1>1, <2>1, <2>2, FS_Injection
<1>4. Range(s) = S
  BY <1>2, <1>3 DEF Surjection, Range
<1>5. s \in Seq(NodeId)
  BY <1>1, <1>2, IsASeq
<1> QED BY <1>2, <1>4, <1>5

LEMMA Sorted ==
    ASSUME NEW S \in SUBSET NodeId
    PROVE  /\ SortedIds(S) \in Seq(NodeId) /\ Range(SortedIds(S)) = S
           /\ IsInjective(SortedIds(S)) /\ Rising(SortedIds(S))
<1>1. SortedIds(S) \in SetToSeqs(S) /\ Rising(SortedIds(S))
  BY CanBeSorted DEF SortedIds, Rising
<1> QED BY <1>1, ListedOnce
-----------------------------------------------------------------------------
(***************************************************************************)
(* Walks: what the steps of all of them have in common.                    *)
(***************************************************************************)
IInv == TypeOK /\ FoundInv /\ LoopInv

\* Downstream is the least closed set.
LEMMA DownstreamLeast ==
    ASSUME dependents \in [NodeId -> SUBSET NodeId], NEW S \in SUBSET NodeId
    PROVE  /\ Downstream(dependents, S) \subseteq NodeId /\ S \subseteq Downstream(dependents, S)
           /\ ClosedUnder(dependents, Downstream(dependents, S))
           /\ \A K \in SUBSET NodeId :
                 S \subseteq K /\ ClosedUnder(dependents, K) => Downstream(dependents, S) \subseteq K
BY DEF Downstream, ClosedUnder

\* An iteration changes the queue and the seen set and nothing else of the locals.
With(w, q, s) == [w EXCEPT !.queue = q, !.seen = s]

LEMMA QueueChanges ==
    ASSUME NEW w \in Walk, NEW q \in Seq(NodeId), NEW s \in SUBSET NodeId
    PROVE  LET v == With(w, q, s) IN
           /\ v \in Walk /\ v # None /\ v.queue = q /\ v.seen = s
           /\ v.fn = w.fn /\ v.from = w.from /\ v.to = w.to /\ v.result = w.result
BY TraversalAssumption DEF Walk, With

LEMMA ResultGiven ==
    ASSUME NEW w \in Walk, NEW r \in BOOLEAN
    PROVE  LET v == [w EXCEPT !.result = r] IN
           /\ v \in Walk /\ v # None /\ v.result = r /\ v.result # None
           /\ v.fn = w.fn /\ v.from = w.from /\ v.to = w.to /\ v.queue = w.queue
           /\ v.seen = w.seen /\ v.in_degree = w.in_degree /\ v.order = w.order
BY TraversalAssumption DEF Walk

\* The in-degree of a node is a number, as the graph is finite.
LEMMA InDegreeType ==
    ASSUME NEW n \in NodeId
    PROVE  /\ Dependencies(n) \in SUBSET NodeId /\ IsFiniteSet(Dependencies(n))
           /\ InDegree(n) \in Nat
<1>1. Dependencies(n) \in SUBSET NodeId
  BY DEF Dependencies
<1> QED BY <1>1, TraversalAssumption, FS_Subset, FS_CardinalityType DEF InDegree

Endpoint == NodeId \cup {None}

LEMMA LocalsType ==
    ASSUME NEW fn \in Fn, NEW from \in Endpoint, NEW to \in Endpoint,
           NEW q \in Seq(NodeId), NEW s \in SUBSET NodeId
    PROVE  \A v : v = Locals(fn, from, to, q, s) =>
               /\ v \in Walk /\ v # None /\ v.result = None
               /\ v.fn = fn /\ v.from = from /\ v.to = to /\ v.queue = q /\ v.seen = s
               /\ \A n \in NodeId : v.in_degree[n] = InDegree(n)
               /\ v.order = <<>>
<1>1. [n \in NodeId |-> InDegree(n)] \in [NodeId -> Nat]
  BY InDegreeType
<1>2. <<>> \in Seq(NodeId)
  OBVIOUS
<1> HIDE DEF InDegree
<1>3. Locals(fn, from, to, q, s) \in Walk
  BY <1>1, <1>2 DEF Locals, Walk, Endpoint
<1> QED BY <1>3, TraversalAssumption DEF Locals

\* When no walk is in progress the graph is as the last one left it.
LEMMA WalkCalled ==
    ASSUME IInv, NEW v, Begin(v)
    PROVE  /\ dependents' = dependents /\ before' = [state |-> state, pending |-> pending_edges]
           /\ before'.state = state /\ before'.pending = pending_edges
           /\ before' \in [state : [NodeId -> NodeState], pending : SUBSET (NodeId \X NodeId)]
           /\ dependents' \in AcyclicGraphs
           /\ before'.pending \subseteq Edges' /\ StaleIn(before.state, before.pending)'
           /\ StaleIn(state, pending_edges) /\ walk' = v
<1>1. /\ dependents' = dependents /\ before' = [state |-> state, pending |-> pending_edges]
      /\ walk = None /\ walk' = v
  BY DEF Begin, Idle
<1>2. state = before.state /\ pending_edges = before.pending
  BY <1>1 DEF IInv, FoundInv, Idle
<1>3. Edges' = Edges /\ Edges \subseteq NodeId \X NodeId
  BY <1>1 DEF Edges
<1>4. before' \in [state : [NodeId -> NodeState], pending : SUBSET (NodeId \X NodeId)]
  BY <1>1, <1>3 DEF IInv, TypeOK
<1>5. before'.state = state /\ before'.pending = pending_edges
  BY <1>1
<1>6. StaleIn(before.state, before.pending)'
  BY <1>2, <1>3, <1>5 DEF IInv, FoundInv, StaleIn
<1> QED BY <1>1, <1>2, <1>3, <1>4, <1>5, <1>6 DEF IInv, FoundInv, TypeOK

\* A step that leaves the graph's shape and the history alone keeps what they say.
LEMMA ShapeKept ==
    ASSUME IInv, dependents' = dependents, before' = before
    PROVE  /\ Edges' = Edges /\ dependents' \in AcyclicGraphs
           /\ before'.pending \subseteq Edges' /\ StaleIn(before.state, before.pending)'
           /\ before' \in [state : [NodeId -> NodeState], pending : SUBSET (NodeId \X NodeId)]
BY DEF IInv, TypeOK, FoundInv, StaleIn, Edges

\* The loops' invariants are about one walk at a time.
LEMMA OneWalk ==
    /\ walk' = None => LoopInv'
    /\ walk'.fn = "mark_changed" /\ MarkChangedInv' => LoopInv'
    /\ walk'.fn = "mark_unchanged" /\ MarkUnchangedInv' => LoopInv'
    /\ walk'.fn = "has_path" /\ HasPathInv' => LoopInv'
    /\ walk'.fn = "topological_order" /\ OrderInv' => LoopInv'
BY DEF LoopInv, MarkChangedInv, MarkUnchangedInv, HasPathInv, OrderInv, In
-----------------------------------------------------------------------------
(***************************************************************************)
(* mark_changed.                                                           *)
(***************************************************************************)
LEMMA BeginMarkChangedKeeps ==
    ASSUME IInv, NEW d \in NodeId, BeginMarkChanged(d)
    PROVE  IInv'
<1> DEFINE v == Locals("mark_changed", d, d, SortedIds(dependents[d]), dependents[d])
<1>1. dependents \in [NodeId -> SUBSET NodeId] /\ dependents[d] \in SUBSET NodeId
  BY DEF IInv, TypeOK
<1>2. /\ SortedIds(dependents[d]) \in Seq(NodeId)
      /\ Range(SortedIds(dependents[d])) = dependents[d] /\ IsInjective(SortedIds(dependents[d]))
  BY <1>1, Sorted
<1>3. Begin(v)
  BY DEF BeginMarkChanged
<1>4. /\ v \in Walk /\ v # None /\ v.result = None /\ v.fn = "mark_changed" /\ v.from = d
      /\ v.queue = SortedIds(dependents[d]) /\ v.seen = dependents[d]
  <2>1. "mark_changed" \in Fn /\ d \in Endpoint
    BY DEF Fn, Endpoint
  <2>2. v = Locals("mark_changed", d, d, SortedIds(dependents[d]), dependents[d])
    OBVIOUS
  <2> HIDE DEF v
  <2> QED BY <1>1, <1>2, <2>1, <2>2, LocalsType
<1> HIDE DEF v
<1>5. /\ dependents' = dependents /\ before'.state = state /\ before'.pending = pending_edges
      /\ before' \in [state : [NodeId -> NodeState], pending : SUBSET (NodeId \X NodeId)]
      /\ dependents' \in AcyclicGraphs /\ before'.pending \subseteq Edges'
      /\ StaleIn(before.state, before.pending)' /\ walk' = v
  BY <1>3, WalkCalled
<1>6. /\ state' = [n \in NodeId |-> IF n \in dependents[d] THEN "Dirty" ELSE state[n]]
      /\ pending_edges' = pending_edges \cup {<<d, n>> : n \in dependents[d]}
  BY DEF BeginMarkChanged
<1>7. {e \in Edges : e[1] \in {d}} = {<<d, n>> : n \in dependents[d]} /\ Edges' = Edges
  BY <1>1, <1>5 DEF Edges
<1>8. TypeOK'
  BY <1>1, <1>4, <1>5, <1>6, <1>7 DEF IInv, TypeOK, NodeState
<1>9. FoundInv'
  BY <1>4, <1>5 DEF FoundInv, Idle, In
<1>10. MarkChangedInv'
  <2>1. dependents[d] \subseteq Downstream(dependents, dependents[d])
    BY <1>1, DownstreamLeast
  <2>2. Waiting' = dependents[d] /\ walk'.seen \ Waiting' = {}
    BY <1>2, <1>4, <1>5 DEF Waiting
  <2>3. state' = [n \in NodeId |->
                     IF n \in dependents[d] THEN "Dirty"
                     ELSE IF n \in dependents[d] /\ state[n] = "Clean" THEN "MaybeDirty"
                     ELSE state[n]]
    BY <1>6
  <2>4. pending_edges' = pending_edges \cup {e \in Edges : e[1] \in {d} \cup {}}
    BY <1>6, <1>7
  <2> QED BY <1>2, <1>4, <1>5, <1>7, <2>1, <2>2, <2>3, <2>4 DEF MarkChangedInv, In
<1> QED BY <1>4, <1>5, <1>8, <1>9, <1>10, OneWalk DEF IInv

LEMMA MarkDescendantsKeeps ==
    ASSUME IInv, MarkDescendants
    PROVE  IInv'
<1> DEFINE q == walk.queue
           n0 == Head(q)
           new == dependents[n0] \ walk.seen
           d == walk.from
           Reach == Downstream(dependents, dependents[d])
<1>1. /\ walk # None /\ walk \in Walk /\ walk.fn = "mark_changed" /\ walk.result = None
      /\ q \in Seq(NodeId) /\ q # <<>> /\ walk.seen \in SUBSET NodeId
      /\ dependents \in [NodeId -> SUBSET NodeId] /\ dependents' = dependents
      /\ before' = before
  BY DEF MarkDescendants, Looping, In, IInv, TypeOK, Walk
<1>2. /\ d \in NodeId /\ dependents[d] \subseteq walk.seen /\ walk.seen \subseteq Reach
      /\ Range(q) \subseteq walk.seen /\ IsInjective(q)
      /\ \A n \in walk.seen \ Range(q) : dependents[n] \subseteq walk.seen
      /\ state = [n \in NodeId |->
                     IF n \in dependents[d] THEN "Dirty"
                     ELSE IF n \in walk.seen /\ before.state[n] = "Clean" THEN "MaybeDirty"
                     ELSE before.state[n]]
      /\ pending_edges = before.pending \cup
                            {e \in Edges : e[1] \in {d} \cup (walk.seen \ Range(q))}
  BY <1>1 DEF IInv, LoopInv, MarkChangedInv, In, Waiting
<1>3. /\ n0 \in NodeId /\ Tail(q) \in Seq(NodeId) /\ Range(q) = {n0} \cup Range(Tail(q))
      /\ IsInjective(Tail(q)) /\ n0 \notin Range(Tail(q))
  BY <1>1, <1>2, TakeHead
<1>4. /\ SortedIds(new) \in Seq(NodeId) /\ Range(SortedIds(new)) = new
      /\ IsInjective(SortedIds(new))
  <2>1. new \in SUBSET NodeId
    BY <1>1, <1>3
  <2> HIDE DEF new
  <2> QED BY <2>1, Sorted
<1> DEFINE q2 == Tail(q) \o SortedIds(new)
           s2 == walk.seen \cup new
<1>5. q2 \in Seq(NodeId) /\ Range(q2) = Range(Tail(q)) \cup new /\ IsInjective(q2)
  <2>1. Range(Tail(q)) \cap new = {}
    BY <1>2, <1>3
  <2>2. Tail(q) \in Seq(NodeId) /\ SortedIds(new) \in Seq(NodeId)
    BY <1>3, <1>4
  <2> HIDE DEF q, new
  <2>3. q2 \in Seq(NodeId) /\ Range(q2) = Range(Tail(q)) \cup Range(SortedIds(new))
    BY <2>2, PushBack
  <2>4. IsInjective(q2)
    BY <1>3, <1>4, <2>1, <2>2, PushBack
  <2> QED BY <1>4, <2>3, <2>4
<1>6. s2 \in SUBSET NodeId
  BY <1>1, <1>3
<1>7. walk' = With(walk, q2, s2)
  BY <1>1 DEF MarkDescendants, Current, Walk, With
<1>8. state' = [n \in NodeId |-> IF n \in new THEN StateOfDescendant(n) ELSE state[n]]
  BY DEF MarkDescendants, Current
<1>9. pending_edges' = pending_edges \cup {<<n0, n>> : n \in dependents[n0]}
  BY DEF MarkDescendants, Current
<1> HIDE DEF q2, s2
<1>10. /\ walk' \in Walk /\ walk' # None /\ walk'.queue = q2 /\ walk'.seen = s2
       /\ walk'.fn = "mark_changed" /\ walk'.from = d /\ walk'.result = None
  <2>1. walk \in Walk /\ q2 \in Seq(NodeId) /\ s2 \in SUBSET NodeId
    BY <1>1, <1>5, <1>6
  <2>2. /\ walk' \in Walk /\ walk' # None /\ walk'.queue = q2 /\ walk'.seen = s2
        /\ walk'.fn = walk.fn /\ walk'.from = walk.from /\ walk'.result = walk.result
    BY <1>7, <2>1, QueueChanges
  <2> QED BY <1>1, <2>2
<1>11. /\ Edges' = Edges /\ dependents' \in AcyclicGraphs /\ before'.pending \subseteq Edges'
       /\ StaleIn(before.state, before.pending)'
       /\ before' \in [state : [NodeId -> NodeState], pending : SUBSET (NodeId \X NodeId)]
  BY <1>1, ShapeKept
<1>12. {<<n0, n>> : n \in dependents[n0]} = {e \in Edges : e[1] = n0}
  BY <1>1, <1>3 DEF Edges
<1>13. TypeOK'
  <2>1. state' \in [NodeId -> NodeState]
    BY <1>8 DEF IInv, TypeOK, NodeState, StateOfDescendant
  <2>2. pending_edges' \subseteq Edges'
    BY <1>9, <1>11, <1>12 DEF IInv, TypeOK
  <2> QED BY <1>1, <1>10, <1>11, <2>1, <2>2 DEF TypeOK
<1>14. FoundInv'
  BY <1>10, <1>11 DEF FoundInv, Idle, In
<1>15. MarkChangedInv'
  <2>1. s2 \ Range(q2) = (walk.seen \ Range(q)) \cup {n0}
    BY <1>2, <1>3, <1>5 DEF s2
  <2>2. s2 \subseteq Reach
    <3>1. dependents[d] \in SUBSET NodeId
      BY <1>1, <1>2
    <3>2. dependents[n0] \subseteq Reach
      BY <1>1, <1>2, <1>3, <3>1, DownstreamLeast DEF ClosedUnder
    <3> QED BY <1>2, <3>2 DEF s2
  <2>3. \A n \in s2 \ Range(q2) : dependents[n] \subseteq s2
    BY <1>2, <2>1 DEF s2
  <2>4. dependents[d] \subseteq s2 /\ Range(q2) \subseteq s2
    BY <1>2, <1>3, <1>5 DEF s2
  <2>5. state' = [n \in NodeId |->
                     IF n \in dependents[d] THEN "Dirty"
                     ELSE IF n \in s2 /\ before.state[n] = "Clean" THEN "MaybeDirty"
                     ELSE before.state[n]]
    <3>1. ASSUME NEW n \in NodeId
          PROVE  state'[n] = IF n \in dependents[d] THEN "Dirty"
                             ELSE IF n \in s2 /\ before.state[n] = "Clean" THEN "MaybeDirty"
                             ELSE before.state[n]
      BY <1>2, <1>8 DEF s2, StateOfDescendant
    <3> HIDE DEF new, d
    <3> QED BY <1>8, <3>1
  <2>6. pending_edges' = before.pending \cup {e \in Edges : e[1] \in {d} \cup (s2 \ Range(q2))}
    BY <1>2, <1>9, <1>12, <2>1
  <2> HIDE DEF d
  <2> QED BY <1>1, <1>2, <1>5, <1>10, <1>11, <2>2, <2>3, <2>4, <2>5, <2>6 DEF MarkChangedInv, In, Waiting
<1> QED BY <1>10, <1>13, <1>14, <1>15, OneWalk DEF IInv

\* A step that leaves the graph alone and ends a loop.
LEMMA EndKeepsMarks ==
    ASSUME IInv, MarkingEnds
    PROVE  IInv'
<1>1. /\ walk # None /\ walk \in Walk /\ walk.queue = <<>>
      /\ walk.fn \in {"mark_changed", "mark_unchanged"}
      /\ walk' = [walk EXCEPT !.result = TRUE]
      /\ dependents' = dependents /\ state' = state /\ pending_edges' = pending_edges
      /\ before' = before
  BY DEF MarkingEnds, Looping, In, Ends, graph, IInv, TypeOK
<1>2. /\ walk' \in Walk /\ walk' # None /\ walk'.fn = walk.fn /\ walk'.from = walk.from
      /\ walk'.queue = <<>> /\ walk'.seen = walk.seen
  BY <1>1, ResultGiven
<1>3. /\ Edges' = Edges /\ dependents' \in AcyclicGraphs /\ before'.pending \subseteq Edges'
      /\ StaleIn(before.state, before.pending)'
      /\ before' \in [state : [NodeId -> NodeState], pending : SUBSET (NodeId \X NodeId)]
  BY <1>1, ShapeKept
<1>4. TypeOK'
  BY <1>1, <1>2, <1>3 DEF IInv, TypeOK
<1>5. FoundInv'
  BY <1>1, <1>2, <1>3 DEF FoundInv, Idle, In
<1>6. CASE walk.fn = "mark_changed"
  <2>1. MarkChangedInv'
    BY <1>1, <1>2, <1>3, <1>6 DEF IInv, LoopInv, MarkChangedInv, In, Waiting
  <2> QED BY <1>2, <1>4, <1>5, <1>6, <2>1, OneWalk DEF IInv
<1>7. CASE walk.fn = "mark_unchanged"
  <2>1. MarkUnchangedInv'
    BY <1>1, <1>2, <1>3, <1>7 DEF IInv, LoopInv, MarkUnchangedInv, In, Waiting
  <2> QED BY <1>2, <1>4, <1>5, <1>7, <2>1, OneWalk DEF IInv
<1> QED BY <1>1, <1>6, <1>7
-----------------------------------------------------------------------------
(***************************************************************************)
(* mark_unchanged.                                                         *)
(***************************************************************************)
LEMMA UnblockedByMore ==
    ASSUME NEW D, NEW st, NEW pend, NEW K, NEW L, K \subseteq L, NEW c,
           Unblocked(D, st, pend, K, c)
    PROVE  Unblocked(D, st, pend, L, c)
BY DEF Unblocked

\* Settled is the least set with d and all that it unblocks.
LEMMA SettledLeast ==
    ASSUME NEW D, NEW st, NEW pend, NEW d \in NodeId
    PROVE  /\ Settled(D, st, pend, d) \subseteq NodeId /\ d \in Settled(D, st, pend, d)
           /\ \A c \in NodeId : Unblocked(D, st, pend, Settled(D, st, pend, d), c) =>
                 c \in Settled(D, st, pend, d)
           /\ \A K \in SUBSET NodeId :
                 d \in K /\ (\A c \in NodeId : Unblocked(D, st, pend, K, c) => c \in K) =>
                     Settled(D, st, pend, d) \subseteq K
<1> DEFINE S == Settled(D, st, pend, d)
<1>1. S \subseteq NodeId /\ d \in S
  BY DEF Settled
<1>2. ASSUME NEW K \in SUBSET NodeId, d \in K,
             \A c \in NodeId : Unblocked(D, st, pend, K, c) => c \in K
      PROVE  S \subseteq K
  BY <1>2 DEF Settled
<1>3. ASSUME NEW c \in NodeId, Unblocked(D, st, pend, S, c)
      PROVE  c \in S
  <2>1. ASSUME NEW K \in SUBSET NodeId, d \in K,
               \A x \in NodeId : Unblocked(D, st, pend, K, x) => x \in K
        PROVE  c \in K
    <3>1. S \subseteq K
      BY <1>2, <2>1
    <3>2. Unblocked(D, st, pend, K, c)
      <4> HIDE DEF S
      <4> QED BY <1>3, <3>1, UnblockedByMore
    <3> QED BY <2>1, <3>2
  <2> QED BY <2>1 DEF Settled
<1> QED BY <1>1, <1>2, <1>3

LEMMA BeginMarkUnchangedKeeps ==
    ASSUME IInv, NEW d \in NodeId, BeginMarkUnchanged(d)
    PROVE  IInv'
<1> DEFINE v == Locals("mark_unchanged", d, d, <<d>>, {})
           Unblocks(K, c) == Unblocked(dependents, state, pending_edges, K, c)
           S == Settled(dependents, state, pending_edges, d)
<1>1. Begin(v) /\ state[d] = "Clean" /\ state' = state /\ pending_edges' = pending_edges
  BY DEF BeginMarkUnchanged
<1>2. /\ v \in Walk /\ v # None /\ v.result = None /\ v.fn = "mark_unchanged" /\ v.from = d
      /\ v.queue = <<d>> /\ v.seen = {}
  <2> DEFINE q == <<d>>
             none == {}
  <2>1. "mark_unchanged" \in Fn /\ d \in Endpoint /\ q \in Seq(NodeId)
    BY DEF Fn, Endpoint
  <2>2. v = Locals("mark_unchanged", d, d, q, none) /\ none \in SUBSET NodeId
    OBVIOUS
  <2> HIDE DEF v, q, none
  <2>3. /\ v \in Walk /\ v # None /\ v.result = None /\ v.fn = "mark_unchanged" /\ v.from = d
        /\ v.queue = q /\ v.seen = none
    BY <2>1, <2>2, LocalsType
  <2> QED BY <2>3 DEF q, none
<1> HIDE DEF v
<1>3. /\ dependents' = dependents /\ before'.state = state /\ before'.pending = pending_edges
      /\ before' \in [state : [NodeId -> NodeState], pending : SUBSET (NodeId \X NodeId)]
      /\ dependents' \in AcyclicGraphs /\ before'.pending \subseteq Edges'
      /\ StaleIn(before.state, before.pending)' /\ walk' = v
  BY <1>1, WalkCalled
<1>4. TypeOK'
  BY <1>1, <1>2, <1>3 DEF IInv, TypeOK
<1>5. FoundInv'
  BY <1>1, <1>2, <1>3 DEF FoundInv, Idle, In
<1>6. MarkUnchangedInv'
  <2>1. Waiting' = {d} /\ IsInjective(walk'.queue) /\ walk'.seen \cup Waiting' = {d}
    BY <1>2, <1>3 DEF Waiting, Range, IsInjective
  <2>2. {d} \subseteq S
    BY SettledLeast
  <2>3. \A c \in NodeId : ~Unblocks({}, c)
    BY DEF Unblocked
  <2>4. /\ state = [n \in NodeId |-> IF n # d /\ n \in {d} THEN "Clean" ELSE state[n]]
        /\ pending_edges = {e \in pending_edges : ~(e[1] \in {} /\ e[2] \in dependents[e[1]])}
    BY DEF IInv, TypeOK
  <2>5. /\ walk'.from = d /\ walk'.seen = {} /\ walk'.result = None
        /\ walk'.queue = <<d>> /\ Waiting' = {d} /\ dependents' = dependents
        /\ before'.state = state /\ before'.pending = pending_edges
    BY <1>2, <1>3, <2>1
  <2>6. state' = [n \in NodeId |->
                     IF n # walk'.from /\ n \in walk'.seen \cup Waiting' THEN "Clean"
                     ELSE before'.state[n]]
    BY <1>1, <2>4, <2>5
  <2>7. pending_edges' = {e \in before'.pending :
                             ~(e[1] \in walk'.seen /\ e[2] \in dependents'[e[1]])}
    BY <1>1, <2>4, <2>5
  <2> HIDE DEF S
  <2> QED BY <1>1, <2>1, <2>2, <2>3, <2>5, <2>6, <2>7 DEF MarkUnchangedInv, S
<1> QED BY <1>2, <1>3, <1>4, <1>5, <1>6, OneWalk DEF IInv

LEMMA SettleDependentsKeeps ==
    ASSUME IInv, SettleDependents
    PROVE  IInv'
<1> DEFINE q == walk.queue
           n0 == Head(q)
           d == walk.from
           seen == walk.seen
           known == seen \cup Range(q)
           free == {n \in dependents[n0] : ~HasOtherPending(n)}
           settled == {n \in free : state[n] = "MaybeDirty"}
           onwards == settled \cup {n \in free : state[n] = "Clean" /\ <<n0, n>> \in pending_edges}
           UnblockedBy(K, c) == Unblocked(dependents, before.state, before.pending, K, c)
           S == Settled(dependents, before.state, before.pending, d)
<1>1. /\ walk # None /\ walk \in Walk /\ walk.fn = "mark_unchanged" /\ walk.result = None
      /\ q \in Seq(NodeId) /\ q # <<>> /\ seen \in SUBSET NodeId
      /\ dependents \in [NodeId -> SUBSET NodeId] /\ dependents' = dependents
      /\ before' = before /\ before.state \in [NodeId -> NodeState]
      /\ before.pending \subseteq Edges /\ StaleIn(before.state, before.pending)
  BY DEF SettleDependents, Looping, In, IInv, TypeOK, FoundInv, Walk
<1>2. /\ d \in NodeId /\ d \in known /\ before.state[d] = "Clean" /\ known \subseteq S
      /\ IsInjective(q) /\ Range(q) \cap seen = {}
      /\ \A c \in NodeId : UnblockedBy(seen, c) => c \in known
      /\ \A c \in known \ {d} : UnblockedBy(seen, c)
      /\ state = [n \in NodeId |-> IF n # d /\ n \in known THEN "Clean" ELSE before.state[n]]
      /\ pending_edges = {e \in before.pending : ~(e[1] \in seen /\ e[2] \in dependents[e[1]])}
  BY <1>1 DEF IInv, LoopInv, MarkUnchangedInv, In, Waiting
<1>3. /\ n0 \in NodeId /\ Tail(q) \in Seq(NodeId) /\ Range(q) = {n0} \cup Range(Tail(q))
      /\ IsInjective(Tail(q)) /\ n0 \notin Range(Tail(q)) /\ Range(Tail(q)) \subseteq NodeId
  <2>1. /\ n0 \in NodeId /\ Tail(q) \in Seq(NodeId) /\ Range(q) = {n0} \cup Range(Tail(q))
        /\ IsInjective(Tail(q)) /\ n0 \notin Range(Tail(q))
    BY <1>1, <1>2, TakeHead
  <2> QED BY <2>1, RangeOfSeq
<1> DEFINE s2 == seen \cup {n0}
<1>4. /\ onwards \in SUBSET NodeId
      /\ SortedIds(onwards) \in Seq(NodeId) /\ Range(SortedIds(onwards)) = onwards
      /\ IsInjective(SortedIds(onwards))
  <2>1. onwards \in SUBSET NodeId
    BY <1>1, <1>3
  <2> HIDE DEF onwards
  <2> QED BY <2>1, Sorted
\* No edge into a Clean node was pending, so none of the nodes in the queue is met again.
<1>5. \A e \in before.pending : before.state[e[2]] # "Clean"
  BY <1>1 DEF StaleIn
<1>6. \A c \in free, x \in NodeId : <<x, c>> \in before.pending => x \in s2 /\ c \in dependents[x]
  BY <1>1, <1>2, <1>3 DEF HasOtherPending, Current
<1>7. onwards = settled
  <2>1. ASSUME NEW c \in dependents[n0], state[c] = "Clean", <<n0, c>> \in pending_edges
        PROVE  FALSE
    <3>1. <<n0, c>> \in before.pending /\ c \in NodeId
      BY <1>1, <1>2, <1>3, <2>1
    <3>2. before.state[c] # "Clean"
      BY <1>5, <3>1
    <3>3. c # d /\ c \in known
      BY <1>2, <2>1, <3>1, <3>2
    <3>4. n0 \in seen
      BY <1>2, <1>3, <3>1, <3>3 DEF Unblocked
    <3> QED BY <1>2, <1>3, <3>4
  <2> QED BY <2>1
<1>8. onwards \cap known = {}
  BY <1>1, <1>2, <1>3, <1>7
<1>9. \A c \in onwards : UnblockedBy(s2, c)
  <2>1. ASSUME NEW c \in settled
        PROVE  UnblockedBy(s2, c)
    <3>1. c \in dependents[n0] /\ c \in free /\ n0 \in s2 /\ c \in NodeId
      BY <1>1, <1>3
    <3>2. before.state[c] = "MaybeDirty"
      BY <1>2, <3>1, <2>1
    <3> QED BY <1>6, <3>1, <3>2 DEF Unblocked
  <2> QED BY <1>7, <2>1
<1>10. \A c \in NodeId : UnblockedBy(s2, c) => c \in known \cup onwards
  <2>1. ASSUME NEW c \in NodeId, UnblockedBy(s2, c), ~UnblockedBy(seen, c)
        PROVE  c \in known \cup onwards
    <3>1. \A x \in NodeId : <<x, c>> \in before.pending => x \in s2 /\ c \in dependents[x]
      BY <2>1 DEF Unblocked
    <3>2. \E u \in s2 : c \in dependents[u]
      BY <2>1 DEF Unblocked
    <3>3. before.state[c] = "MaybeDirty"
      BY <1>5, <2>1 DEF Unblocked
    <3>4. c \in dependents[n0]
      BY <2>1, <3>1, <3>2, <3>3 DEF Unblocked
    <3>5. \A x \in NodeId \ {n0} : <<x, c>> \notin pending_edges
      BY <1>2, <3>1
    <3>6. c \in free
      BY <3>4, <3>5 DEF HasOtherPending, Current
    <3>7. state[c] = "MaybeDirty" \/ c \in known
      BY <1>2, <3>3
    <3> QED BY <3>6, <3>7
  <2> QED BY <1>2, <2>1
<1> DEFINE q2 == Tail(q) \o SortedIds(onwards)
<1>11. q2 \in Seq(NodeId) /\ Range(q2) = Range(Tail(q)) \cup onwards /\ IsInjective(q2)
  <2>1. Range(Tail(q)) \cap onwards = {}
    BY <1>3, <1>8
  <2>2. Tail(q) \in Seq(NodeId) /\ SortedIds(onwards) \in Seq(NodeId)
    BY <1>3, <1>4
  <2> HIDE DEF q, onwards
  <2>3. q2 \in Seq(NodeId) /\ Range(q2) = Range(Tail(q)) \cup Range(SortedIds(onwards))
    BY <2>2, PushBack
  <2>4. IsInjective(q2)
    BY <1>3, <1>4, <2>1, <2>2, PushBack
  <2> QED BY <1>4, <2>3, <2>4
<1>12. /\ walk' = With(walk, q2, s2)
       /\ state' = [n \in NodeId |-> IF n \in settled THEN "Clean" ELSE state[n]]
       /\ pending_edges' = pending_edges \ {<<n0, n>> : n \in dependents[n0]}
  <2>1. Current = n0 /\ Met = dependents[n0]
    BY <1>2, <1>3 DEF Current, Met
  <2> QED BY <1>1, <2>1 DEF SettleDependents, Walk, With
<1> HIDE DEF q2, s2
<1>13. /\ walk' \in Walk /\ walk' # None /\ walk'.queue = q2 /\ walk'.seen = s2
       /\ walk'.fn = "mark_unchanged" /\ walk'.from = d /\ walk'.result = None
  <2>1. walk \in Walk /\ q2 \in Seq(NodeId) /\ s2 \in SUBSET NodeId
    BY <1>1, <1>3, <1>11 DEF s2
  <2>2. /\ walk' \in Walk /\ walk' # None /\ walk'.queue = q2 /\ walk'.seen = s2
        /\ walk'.fn = walk.fn /\ walk'.from = walk.from /\ walk'.result = walk.result
    BY <1>12, <2>1, QueueChanges
  <2> QED BY <1>1, <2>2
<1>14. /\ Edges' = Edges /\ dependents' \in AcyclicGraphs /\ before'.pending \subseteq Edges'
       /\ StaleIn(before.state, before.pending)'
       /\ before' \in [state : [NodeId -> NodeState], pending : SUBSET (NodeId \X NodeId)]
  BY <1>1, ShapeKept
<1>15. TypeOK'
  <2>1. state' \in [NodeId -> NodeState]
    BY <1>12 DEF IInv, TypeOK, NodeState
  <2>2. pending_edges' \subseteq Edges'
    BY <1>12, <1>14 DEF IInv, TypeOK
  <2> QED BY <1>1, <1>13, <1>14, <2>1, <2>2 DEF TypeOK
<1>16. FoundInv'
  BY <1>13, <1>14 DEF FoundInv, Idle, In
<1>17. MarkUnchangedInv'
  <2> DEFINE known2 == s2 \cup Range(q2)
  <2>1. known2 = known \cup onwards
    BY <1>3, <1>11 DEF s2
  <2>2. d \in known2 /\ Range(q2) \cap s2 = {}
    <3>1. d \in known2
      BY <1>2, <2>1
    <3>2. Range(Tail(q)) \cap s2 = {} /\ s2 \subseteq known
      BY <1>2, <1>3 DEF s2
    <3> HIDE DEF known, onwards
    <3> QED BY <1>8, <1>11, <3>1, <3>2
  <2>3. known2 \subseteq S
    <3>1. s2 \subseteq S
      BY <1>2, <1>3 DEF s2
    <3>2. \A c \in onwards : UnblockedBy(S, c)
      BY <1>9, <3>1, UnblockedByMore
    <3>3. onwards \subseteq S
      BY <1>2, <1>4, <3>2, SettledLeast
    <3> QED BY <1>2, <2>1, <3>3
  <2>4. \A c \in NodeId : UnblockedBy(s2, c) => c \in known2
    BY <1>10, <2>1
  <2>5. \A c \in known2 \ {d} : UnblockedBy(s2, c)
    <3>1. \A c \in known \ {d} : UnblockedBy(s2, c)
      BY <1>2, UnblockedByMore DEF s2
    <3> QED BY <1>9, <2>1, <3>1
  <2>6. state' = [n \in NodeId |-> IF n # d /\ n \in known2 THEN "Clean" ELSE before.state[n]]
    <3>1. ASSUME NEW n \in NodeId
          PROVE  state'[n] = IF n # d /\ n \in known2 THEN "Clean" ELSE before.state[n]
      BY <1>2, <1>7, <1>8, <1>12, <2>1
    <3> HIDE DEF settled, known2, d
    <3> QED BY <1>12, <3>1
  <2>7. pending_edges' = {e \in before.pending : ~(e[1] \in s2 /\ e[2] \in dependents[e[1]])}
    <3>1. \A e \in Edges : e \in {<<n0, n>> : n \in dependents[n0]} <=>
                              e[1] = n0 /\ e[2] \in dependents[e[1]]
      BY <1>1 DEF Edges
    <3> QED BY <1>1, <1>2, <1>12, <3>1 DEF s2
  <2> HIDE DEF d
  <2> QED BY <1>1, <1>2, <1>11, <1>13, <1>14, <2>2, <2>3, <2>4, <2>5, <2>6, <2>7
          DEF MarkUnchangedInv, In, Waiting
<1> QED BY <1>13, <1>15, <1>16, <1>17, OneWalk DEF IInv
-----------------------------------------------------------------------------
(***************************************************************************)
(* has_path.                                                               *)
(***************************************************************************)
LEMMA BeginHasPathKeeps ==
    ASSUME IInv, NEW from \in NodeId, NEW to \in NodeId, BeginHasPath(from, to)
    PROVE  IInv'
<1> DEFINE v == Locals("has_path", from, to, <<from>>, {})
<1>1. Begin(v) /\ state' = state /\ pending_edges' = pending_edges
  BY DEF BeginHasPath
<1>2. /\ v \in Walk /\ v # None /\ v.result = None /\ v.fn = "has_path" /\ v.from = from
      /\ v.to = to /\ v.queue = <<from>> /\ v.seen = {}
  <2> DEFINE q == <<from>>
             none == {}
  <2>1. /\ "has_path" \in Fn /\ from \in Endpoint /\ to \in Endpoint
        /\ q \in Seq(NodeId)
    BY DEF Fn, Endpoint
  <2>2. v = Locals("has_path", from, to, q, none) /\ none \in SUBSET NodeId
    OBVIOUS
  <2> HIDE DEF v, q, none
  <2>3. /\ v \in Walk /\ v # None /\ v.result = None /\ v.fn = "has_path" /\ v.from = from
        /\ v.to = to /\ v.queue = q /\ v.seen = none
    BY <2>1, <2>2, LocalsType
  <2> QED BY <2>3 DEF q, none
<1> HIDE DEF v
<1>3. /\ dependents' = dependents /\ before'.state = state /\ before'.pending = pending_edges
      /\ before' \in [state : [NodeId -> NodeState], pending : SUBSET (NodeId \X NodeId)]
      /\ dependents' \in AcyclicGraphs /\ before'.pending \subseteq Edges'
      /\ StaleIn(before.state, before.pending)' /\ walk' = v
  BY <1>1, WalkCalled
<1>4. TypeOK'
  BY <1>1, <1>2, <1>3 DEF IInv, TypeOK
<1>5. FoundInv'
  BY <1>1, <1>2, <1>3 DEF FoundInv, Idle, In
<1>6. HasPathInv'
  <2>1. Waiting' = {from} /\ walk'.seen \cup Waiting' = {from}
    BY <1>2, <1>3 DEF Waiting, Range
  <2>2. {from} \subseteq Downstream(dependents, {from})
    BY DownstreamLeast DEF IInv, TypeOK
  <2> QED BY <1>2, <1>3, <2>1, <2>2 DEF HasPathInv, In
<1> QED BY <1>2, <1>3, <1>4, <1>5, <1>6, OneWalk DEF IInv

LEMMA FollowPathKeeps ==
    ASSUME IInv, FollowPath
    PROVE  IInv'
<1> DEFINE q == walk.queue
           n0 == Last(q)
           seen == walk.seen
           known == seen \cup Range(q)
           Reach == Downstream(dependents, {walk.from})
<1>1. /\ walk # None /\ walk \in Walk /\ walk.fn = "has_path" /\ walk.result = None
      /\ q \in Seq(NodeId) /\ q # <<>> /\ n0 # walk.to /\ seen \in SUBSET NodeId
      /\ dependents \in [NodeId -> SUBSET NodeId] /\ dependents' = dependents
      /\ state' = state /\ pending_edges' = pending_edges /\ before' = before
  BY DEF FollowPath, Looping, In, IInv, TypeOK, Walk, graph
<1>2. /\ walk.from \in known /\ walk.to \in NodeId /\ known \subseteq Reach
      /\ \A n \in seen : dependents[n] \subseteq known
      /\ walk.to \notin seen
  BY <1>1 DEF IInv, LoopInv, HasPathInv, In, Waiting
<1>3. /\ n0 \in NodeId /\ Front(q) \in Seq(NodeId) /\ Range(q) = {n0} \cup Range(Front(q))
      /\ Range(q) \subseteq NodeId
  BY <1>1, TakeLast, RangeOfSeq
<1> DEFINE more == Pushed(n0)
<1>4. PICK pushed \in SetToSeqs(more) : walk' = [Pop EXCEPT !.queue = @ \o pushed]
  BY DEF FollowPath
<1>5. more \in SUBSET NodeId /\ pushed \in Seq(NodeId) /\ Range(pushed) = more
  <2>1. more \in SUBSET NodeId
    BY <1>1, <1>3 DEF Pushed
  <2> HIDE DEF more
  <2> QED BY <2>1, ListedOnce
<1> DEFINE q2 == Front(q) \o pushed
           s2 == seen \cup {n0}
<1>6. q2 \in Seq(NodeId) /\ Range(q2) = Range(Front(q)) \cup more
  <2>1. Front(q) \in Seq(NodeId) /\ pushed \in Seq(NodeId)
    BY <1>3, <1>5
  <2> HIDE DEF q, more
  <2>2. q2 \in Seq(NodeId) /\ Range(q2) = Range(Front(q)) \cup Range(pushed)
    BY <2>1, PushBack
  <2> QED BY <1>5, <2>2
<1>7. walk' = With(walk, q2, s2)
  BY <1>1, <1>4 DEF Pop, With, Walk
<1> HIDE DEF q2, s2
<1>8. /\ walk' \in Walk /\ walk' # None /\ walk'.queue = q2 /\ walk'.seen = s2
      /\ walk'.fn = "has_path" /\ walk'.from = walk.from /\ walk'.to = walk.to
      /\ walk'.result = None
  <2>1. walk \in Walk /\ q2 \in Seq(NodeId) /\ s2 \in SUBSET NodeId
    BY <1>1, <1>3, <1>6 DEF s2
  <2>2. /\ walk' \in Walk /\ walk' # None /\ walk'.queue = q2 /\ walk'.seen = s2
        /\ walk'.fn = walk.fn /\ walk'.from = walk.from /\ walk'.to = walk.to
        /\ walk'.result = walk.result
    BY <1>7, <2>1, QueueChanges
  <2> QED BY <1>1, <2>2
<1>9. /\ Edges' = Edges /\ dependents' \in AcyclicGraphs /\ before'.pending \subseteq Edges'
      /\ StaleIn(before.state, before.pending)'
      /\ before' \in [state : [NodeId -> NodeState], pending : SUBSET (NodeId \X NodeId)]
  BY <1>1, ShapeKept
<1>10. TypeOK'
  BY <1>1, <1>8, <1>9 DEF IInv, TypeOK
<1>11. FoundInv'
  BY <1>1, <1>8, <1>9 DEF IInv, FoundInv, Idle, In
<1>12. HasPathInv'
  <2>1. s2 \cup Range(q2) = known \cup more
    BY <1>3, <1>6 DEF s2
  <2>2. more \subseteq Reach
    <3>1. walk.from \in NodeId
      BY <1>1, <1>2, <1>3
    <3>2. ClosedUnder(dependents, Reach)
      BY <1>1, <3>1, DownstreamLeast
    <3> QED BY <1>2, <1>3, <3>2 DEF ClosedUnder, Pushed
  <2>3. \A n \in s2 : dependents[n] \subseteq known \cup more
    <3>1. dependents[n0] \subseteq known \cup more
      BY <1>2 DEF Pushed
    <3> QED BY <1>2, <3>1 DEF s2
  <2> HIDE DEF more, known, n0
  <2>4. walk.to \notin s2
    BY <1>1, <1>2 DEF s2
  <2> QED BY <1>1, <1>2, <1>8, <2>1, <2>2, <2>3, <2>4 DEF HasPathInv, In, Waiting
<1> QED BY <1>8, <1>10, <1>11, <1>12, OneWalk DEF IInv

LEMMA PathEndsKeeps ==
    ASSUME IInv, PathEnds
    PROVE  IInv'
<1> DEFINE r == walk.queue # <<>>
<1>1. /\ walk # None /\ walk \in Walk /\ walk.fn = "has_path" /\ walk.queue \in Seq(NodeId)
      /\ walk.queue # <<>> => Last(walk.queue) = walk.to
      /\ walk' = [walk EXCEPT !.result = r] /\ r \in BOOLEAN
      /\ dependents' = dependents /\ state' = state /\ pending_edges' = pending_edges
      /\ before' = before
  BY DEF PathEnds, Looping, In, Ends, graph, IInv, TypeOK, Walk
<1> HIDE DEF r
<1>2. /\ walk' \in Walk /\ walk' # None /\ walk'.fn = "has_path" /\ walk'.from = walk.from
      /\ walk'.to = walk.to /\ walk'.queue = walk.queue /\ walk'.seen = walk.seen
      /\ walk'.result = r
  BY <1>1, ResultGiven
<1>3. /\ Edges' = Edges /\ dependents' \in AcyclicGraphs /\ before'.pending \subseteq Edges'
      /\ StaleIn(before.state, before.pending)'
      /\ before' \in [state : [NodeId -> NodeState], pending : SUBSET (NodeId \X NodeId)]
  BY <1>1, ShapeKept
<1>4. TypeOK'
  BY <1>1, <1>2, <1>3 DEF IInv, TypeOK
<1>5. FoundInv'
  BY <1>1, <1>2, <1>3 DEF IInv, FoundInv, Idle, In
<1>6. HasPathInv'
  <2>1. walk.queue # <<>> => walk.to \in Range(walk.queue)
    BY <1>1, TakeLast
  <2>2. walk'.result = (walk'.queue # <<>>)
    BY <1>2 DEF r
  <2>3. walk'.queue # <<>> => walk'.to \in Waiting'
    BY <1>2, <2>1 DEF Waiting
  <2>4. /\ dependents' = dependents /\ walk'.seen = walk.seen /\ Waiting' = Waiting
        /\ walk'.from = walk.from /\ walk'.to = walk.to
    BY <1>1, <1>2 DEF Waiting
  <2>5. HasPathInv /\ In("has_path")
    BY <1>1 DEF IInv, LoopInv, In
  <2> QED BY <2>2, <2>3, <2>4, <2>5 DEF HasPathInv
<1> QED BY <1>2, <1>4, <1>5, <1>6, OneWalk DEF IInv
-----------------------------------------------------------------------------
(***************************************************************************)
(* topological_order.                                                      *)
(***************************************************************************)
\* A rising queue has its smallest id at its head.
LEMMA HeadIsSmallest ==
    ASSUME NEW q \in Seq(NodeId), q # <<>>, Rising(q)
    PROVE  IsInjective(q) /\ \A n \in Range(q) : Head(q) <= n
<1>1. /\ Len(q) \in Nat \ {0} /\ DOMAIN q = 1..Len(q) /\ Head(q) = q[1]
      /\ \A i \in 1..Len(q) : q[i] \in Nat
  <2>1. Len(q) \in Nat /\ DOMAIN q = 1..Len(q) /\ \A i \in 1..Len(q) : q[i] \in NodeId
    BY LenProperties, ElementOfSeq
  <2>2. Len(q) # 0 /\ Head(q) = q[1]
    BY EmptySeq
  <2> QED BY <2>1, <2>2, NodeIdAssumption
<1>2. \A i, j \in 1..Len(q) : i < j => q[i] < q[j]
  BY <1>1 DEF Rising
<1>3. ASSUME NEW i \in 1..Len(q), NEW j \in 1..Len(q), q[i] = q[j]
      PROVE  i = j
  <2>1. ~(i < j) /\ ~(j < i)
    BY <1>1, <1>2, <1>3
  <2> QED BY <1>1, <2>1
<1>4. ASSUME NEW i \in 1..Len(q)
      PROVE  q[1] <= q[i]
  <2>1. 1 \in 1..Len(q) /\ (i = 1 \/ 1 < i)
    BY <1>1
  <2>2. i # 1 => q[1] < q[i]
    BY <1>2, <2>1
  <2> QED BY <1>1, <2>1, <2>2
<1> QED BY <1>1, <1>3, <1>4 DEF IsInjective, Range

\* What comes first in an order does not change when a node is appended.
LEMMA EarlierKept ==
    ASSUME NEW s \in Seq(NodeId), NEW x \in NodeId
    PROVE  /\ \A i \in DOMAIN s : /\ Append(s, x)[i] = s[i]
                                  /\ SubSeq(Append(s, x), 1, i - 1) = SubSeq(s, 1, i - 1)
           /\ Append(s, x)[Len(s) + 1] = x
           /\ SubSeq(Append(s, x), 1, Len(s)) = s
           /\ DOMAIN Append(s, x) = DOMAIN s \cup {Len(s) + 1}
           /\ \A i \in DOMAIN s : Range(SubSeq(s, 1, i - 1)) \subseteq Range(s)
<1>1. /\ Len(s) \in Nat /\ DOMAIN s = 1..Len(s) /\ \A i \in 1..Len(s) : s[i] \in NodeId
      /\ Append(s, x) \in Seq(NodeId) /\ Len(Append(s, x)) = Len(s) + 1
      /\ \A i \in 1..Len(s) : Append(s, x)[i] = s[i]
      /\ Append(s, x)[Len(s) + 1] = x
      /\ DOMAIN Append(s, x) = 1..(Len(s) + 1)
  BY LenProperties, ElementOfSeq, AppendProperties
<1>2. ASSUME NEW k \in 0..Len(s)
      PROVE  SubSeq(Append(s, x), 1, k) = SubSeq(s, 1, k) /\ Range(SubSeq(s, 1, k)) \subseteq Range(s)
  <2>1. k \in Int /\ \A i \in 1..k : s[i] \in NodeId /\ Append(s, x)[i] = s[i] /\ i \in DOMAIN s
    BY <1>1
  <2>2. /\ SubSeq(s, 1, k) \in Seq(NodeId) /\ Len(SubSeq(s, 1, k)) = k
        /\ \A i \in 1..k : SubSeq(s, 1, k)[i] = s[i]
    BY <2>1, SubSeqProperties
  <2>3. /\ SubSeq(Append(s, x), 1, k) \in Seq(NodeId) /\ Len(SubSeq(Append(s, x), 1, k)) = k
        /\ \A i \in 1..k : SubSeq(Append(s, x), 1, k)[i] = s[i]
    BY <2>1, SubSeqProperties
  <2>4. SubSeq(Append(s, x), 1, k) = SubSeq(s, 1, k)
    BY <2>2, <2>3, SeqEqual
  <2>5. DOMAIN SubSeq(s, 1, k) = 1..k
    BY <2>2, LenProperties
  <2> QED BY <2>1, <2>2, <2>4, <2>5 DEF Range
<1>3. \A i \in DOMAIN s : i - 1 \in 0..Len(s)
  BY <1>1
<1>4. Len(s) \in 0..Len(s) /\ SubSeq(s, 1, Len(s)) = s
  BY <1>1, SubSeqFull
<1>5. 1..(Len(s) + 1) = 1..Len(s) \cup {Len(s) + 1}
  BY <1>1
<1> QED BY <1>1, <1>2, <1>3, <1>4, <1>5

\* The edges of a node are what they were when dependents is.
LEMMA OrderPrimed ==
    ASSUME dependents' = dependents
    PROVE  /\ \A n : Dependencies(n)' = Dependencies(n)
           /\ \A order, i : RightlyAt(order, i)' <=> RightlyAt(order, i)
BY DEF Dependencies, RightlyAt

LEMMA BeginTopologicalOrderKeeps ==
    ASSUME IInv, BeginTopologicalOrder
    PROVE  IInv'
<1> DEFINE roots == {n \in NodeId : Dependencies(n) = {}}
           v == Locals("topological_order", None, None, SortedIds(roots), {})
<1>1. Begin(v) /\ state' = state /\ pending_edges' = pending_edges
  BY DEF BeginTopologicalOrder
<1>2. /\ SortedIds(roots) \in Seq(NodeId) /\ Range(SortedIds(roots)) = roots
      /\ Rising(SortedIds(roots))
  BY Sorted
<1>3. /\ v \in Walk /\ v # None /\ v.result = None /\ v.fn = "topological_order"
      /\ v.queue = SortedIds(roots) /\ v.order = <<>>
      /\ \A n \in NodeId : v.in_degree[n] = InDegree(n)
  <2> DEFINE none == {}
             q == SortedIds(roots)
  <2>1. "topological_order" \in Fn /\ None \in Endpoint
    BY DEF Fn, Endpoint
  <2>2. v = Locals("topological_order", None, None, q, none) /\ none \in SUBSET NodeId
    OBVIOUS
  <2>3. q \in Seq(NodeId)
    BY <1>2
  <2> HIDE DEF v, none, q
  <2>4. /\ v \in Walk /\ v # None /\ v.result = None /\ v.fn = "topological_order"
        /\ v.queue = q /\ v.order = <<>>
    BY <2>1, <2>2, <2>3, LocalsType
  <2>5. \A n \in NodeId : v.in_degree[n] = InDegree(n)
    BY <2>1, <2>2, <2>3, LocalsType
  <2> QED BY <2>4, <2>5 DEF q
<1> HIDE DEF v
<1>4. /\ dependents' = dependents /\ before'.state = state /\ before'.pending = pending_edges
      /\ before' \in [state : [NodeId -> NodeState], pending : SUBSET (NodeId \X NodeId)]
      /\ dependents' \in AcyclicGraphs /\ before'.pending \subseteq Edges'
      /\ StaleIn(before.state, before.pending)' /\ walk' = v
  BY <1>1, WalkCalled
<1>5. TypeOK'
  BY <1>1, <1>3, <1>4 DEF IInv, TypeOK
<1>6. FoundInv'
  BY <1>1, <1>3, <1>4 DEF FoundInv, Idle, In
<1>7. OrderInv'
  <2>1. Range(walk'.order) = {} /\ IsInjective(walk'.order) /\ DOMAIN walk'.order = {}
    BY <1>3, <1>4, NoneLeft
  <2>2. Waiting' = roots
    BY <1>2, <1>3, <1>4 DEF Waiting
  <2>3. \A n : Dependencies(n)' = Dependencies(n)
    BY <1>4, OrderPrimed
  <2>4. \A n \in NodeId : walk'.in_degree[n] = Cardinality(Dependencies(n) \ {})
    BY <1>3, <1>4 DEF InDegree
  <2> QED BY <1>2, <1>3, <1>4, <2>1, <2>2, <2>3, <2>4 DEF OrderInv, In
<1> QED BY <1>3, <1>4, <1>5, <1>6, <1>7, OneWalk DEF IInv

Taking(w, q, degrees, order) ==
    [w EXCEPT !.queue = q, !.in_degree = degrees, !.order = order]

LEMMA OrderGrows ==
    ASSUME NEW w \in Walk, NEW q \in Seq(NodeId), NEW degrees \in [NodeId -> Nat],
           NEW order \in Seq(NodeId)
    PROVE  LET v == Taking(w, q, degrees, order) IN
           /\ v \in Walk /\ v # None /\ v.queue = q /\ v.in_degree = degrees
           /\ v.order = order /\ v.fn = w.fn /\ v.result = w.result
BY TraversalAssumption DEF Walk, Taking

LEMMA TakeReadyKeeps ==
    ASSUME IInv, TakeReady
    PROVE  IInv'
<1> DEFINE q == walk.queue
           c == Head(q)
           order == walk.order
           taken == Range(order)
           Open(n) == Dependencies(n) \ taken
           degrees == [n \in NodeId |-> IF n \in dependents[c]
                                        THEN walk.in_degree[n] - 1 ELSE walk.in_degree[n]]
           ready == {n \in dependents[c] : degrees[n] = 0}
<1>1. /\ walk # None /\ walk \in Walk /\ walk.fn = "topological_order" /\ walk.result = None
      /\ q \in Seq(NodeId) /\ q # <<>> /\ order \in Seq(NodeId)
      /\ walk.in_degree \in [NodeId -> Nat]
      /\ dependents \in [NodeId -> SUBSET NodeId] /\ dependents' = dependents
      /\ state' = state /\ pending_edges' = pending_edges /\ before' = before
  BY DEF TakeReady, Looping, In, IInv, TypeOK, Walk, graph
<1>2. /\ IsInjective(order) /\ Rising(q)
      /\ Range(q) = {n \in NodeId \ taken : Dependencies(n) \subseteq taken}
      /\ \A n \in NodeId : walk.in_degree[n] = Cardinality(Open(n))
      /\ \A i \in DOMAIN order : RightlyAt(order, i)
  BY <1>1 DEF IInv, LoopInv, OrderInv, In, Waiting
<1>3. /\ c \in NodeId /\ Tail(q) \in Seq(NodeId) /\ Range(Tail(q)) = Range(q) \ {c}
      /\ \A n \in Range(q) : c <= n
  <2>1. IsInjective(q) /\ \A n \in Range(q) : c <= n
    BY <1>1, <1>2, HeadIsSmallest
  <2>2. /\ c \in NodeId /\ Tail(q) \in Seq(NodeId) /\ Range(q) = {c} \cup Range(Tail(q))
        /\ c \notin Range(Tail(q))
    BY <1>1, <2>1, TakeHead
  <2> HIDE DEF q, c
  <2> QED BY <2>1, <2>2
<1>4. c \notin taken /\ Dependencies(c) \subseteq taken
  <2>1. c \in Range(q)
    BY <1>1, TakeHead
  <2> QED BY <1>2, <2>1
\* Whatever has been listed has its dependencies before it, so no dependent of c has been.
<1>5. \A n \in taken : Dependencies(n) \subseteq taken
  <2>1. ASSUME NEW i \in DOMAIN order
        PROVE  Dependencies(order[i]) \subseteq taken
    BY <1>1, <1>2, <1>3, <2>1, EarlierKept DEF RightlyAt
  <2> QED BY <2>1 DEF Range
<1>6. \A n \in NodeId : c \in Dependencies(n) <=> n \in dependents[c]
  BY <1>3 DEF Dependencies
<1>7. \A n \in dependents[c] : n \in NodeId /\ n \notin taken /\ n # c
  BY <1>1, <1>3, <1>4, <1>5, <1>6
<1> DEFINE taken2 == taken \cup {c}
<1>8. ASSUME NEW n \in NodeId
      PROVE  /\ degrees[n] = Cardinality(Dependencies(n) \ taken2) /\ degrees[n] \in Nat
             /\ degrees[n] = 0 <=> Dependencies(n) \subseteq taken2
  <2>1. /\ IsFiniteSet(Open(n)) /\ Cardinality(Open(n)) \in Nat
        /\ IsFiniteSet(Dependencies(n) \ taken2)
    <3>1. Open(n) \in SUBSET Dependencies(n) /\ Dependencies(n) \ taken2 \in SUBSET Dependencies(n)
      OBVIOUS
    <3> QED BY <3>1, InDegreeType, FS_Subset, FS_CardinalityType
  <2>2. Dependencies(n) \ taken2 = Open(n) \ {c}
    OBVIOUS
  <2>3. Cardinality(Open(n) \ {c}) = IF c \in Open(n) THEN Cardinality(Open(n)) - 1
                                     ELSE Cardinality(Open(n))
    BY <2>1, FS_RemoveElement
  <2>4. c \in Open(n) <=> n \in dependents[c]
    BY <1>4, <1>6
  <2>5. degrees[n] = Cardinality(Dependencies(n) \ taken2)
    BY <1>2, <2>2, <2>3, <2>4
  <2>6. /\ Cardinality(Dependencies(n) \ taken2) \in Nat
        /\ Cardinality(Dependencies(n) \ taken2) = 0 <=> Dependencies(n) \ taken2 = {}
    BY <2>1, FS_CardinalityType, FS_EmptySet
  <2>7. Dependencies(n) \ taken2 = {} <=> Dependencies(n) \subseteq taken2
    OBVIOUS
  <2> QED BY <2>5, <2>6, <2>7
<1>9. ready = {n \in dependents[c] : Dependencies(n) \subseteq taken2}
  BY <1>7, <1>8
<1>10. degrees \in [NodeId -> Nat]
  BY <1>8
<1> DEFINE S2 == Range(Tail(q)) \cup ready
           q2 == SortedIds(S2)
           order2 == Append(order, c)
<1>11. S2 = {n \in NodeId \ taken2 : Dependencies(n) \subseteq taken2}
  <2>1. ASSUME NEW n \in S2
        PROVE  n \in NodeId \ taken2 /\ Dependencies(n) \subseteq taken2
    BY <1>2, <1>3, <1>7, <1>9
  <2>2. ASSUME NEW n \in NodeId \ taken2, Dependencies(n) \subseteq taken2
        PROVE  n \in S2
    <3>1. CASE n \in dependents[c]
      BY <1>9, <2>2, <3>1
    <3>2. CASE n \notin dependents[c]
      BY <1>2, <1>3, <1>6, <2>2, <3>2
    <3> QED BY <3>1, <3>2
  <2> QED BY <2>1, <2>2
<1>12. q2 \in Seq(NodeId) /\ Range(q2) = S2 /\ Rising(q2)
  <2>1. S2 \in SUBSET NodeId
    BY <1>11
  <2> HIDE DEF S2
  <2> QED BY <2>1, Sorted
<1>13. order2 \in Seq(NodeId) /\ Range(order2) = taken2 /\ IsInjective(order2)
  BY <1>1, <1>2, <1>3, <1>4, AppendOne
<1>14. walk' = Taking(walk, q2, degrees, order2)
  BY DEF TakeReady, Current, InsertedSorted, Taking
<1>15. \A i \in DOMAIN order2 : RightlyAt(order2, i)
  <2> order \in Seq(NodeId) /\ c \in NodeId
    BY <1>1, <1>3
  <2> HIDE DEF order, c
  <2>1. \A i \in DOMAIN order : /\ order2[i] = order[i]
                                /\ SubSeq(order2, 1, i - 1) = SubSeq(order, 1, i - 1)
    BY EarlierKept
  <2>2. \A i \in DOMAIN order : RightlyAt(order2, i)
    <3> HIDE DEF order2
    <3> QED BY <1>2, <2>1 DEF RightlyAt
  <2>3. RightlyAt(order2, Len(order) + 1)
    <3> DEFINE k == Len(order) + 1
    <3>1. order2[k] = c /\ SubSeq(order2, 1, k - 1) = order
      <4>1. k - 1 = Len(order)
        BY LenProperties
      <4> HIDE DEF order2
      <4> QED BY <4>1, EarlierKept DEF order2
    <3>2. \A n \in NodeId \ taken : Dependencies(n) \subseteq taken => c <= n
      BY <1>2, <1>3
    <3> HIDE DEF order2, k
    <3> RightlyAt(order2, k)
      BY <1>4, <3>1, <3>2 DEF RightlyAt
    <3> QED BY DEF k
  <2>4. DOMAIN order2 = DOMAIN order \cup {Len(order) + 1}
    BY EarlierKept
  <2> HIDE DEF order2
  <2> QED BY <2>2, <2>3, <2>4
<1> HIDE DEF q2, degrees, order2
<1>16. /\ walk' \in Walk /\ walk' # None /\ walk'.queue = q2 /\ walk'.in_degree = degrees
       /\ walk'.order = order2 /\ walk'.fn = "topological_order" /\ walk'.result = None
  <2>1. /\ walk' \in Walk /\ walk' # None /\ walk'.queue = q2 /\ walk'.in_degree = degrees
        /\ walk'.order = order2 /\ walk'.fn = walk.fn /\ walk'.result = walk.result
    <3>1. /\ walk \in Walk /\ q2 \in Seq(NodeId) /\ degrees \in [NodeId -> Nat]
          /\ order2 \in Seq(NodeId)
      BY <1>1, <1>10, <1>12, <1>13
    <3> QED BY <1>14, <3>1, OrderGrows
  <2> QED BY <1>1, <2>1
<1>17. /\ Edges' = Edges /\ dependents' \in AcyclicGraphs /\ before'.pending \subseteq Edges'
       /\ StaleIn(before.state, before.pending)'
       /\ before' \in [state : [NodeId -> NodeState], pending : SUBSET (NodeId \X NodeId)]
  BY <1>1, ShapeKept
<1>18. TypeOK'
  BY <1>1, <1>16, <1>17 DEF IInv, TypeOK
<1>19. FoundInv'
  BY <1>1, <1>16, <1>17 DEF IInv, FoundInv, Idle, In
<1>20. OrderInv'
  <2>1. /\ \A n : Dependencies(n)' = Dependencies(n)
        /\ \A o, i : RightlyAt(o, i)' <=> RightlyAt(o, i)
    BY <1>1, OrderPrimed
  <2>2. Waiting' = {n \in NodeId \ taken2 : Dependencies(n) \subseteq taken2}
    BY <1>11, <1>12, <1>16 DEF Waiting
  <2>3. \A n \in NodeId : walk'.in_degree[n] = Cardinality(Dependencies(n) \ taken2)
    BY <1>8, <1>16
  <2>4. /\ IsInjective(walk'.order) /\ Rising(walk'.queue) /\ Range(walk'.order) = taken2
        /\ \A i \in DOMAIN walk'.order : RightlyAt(walk'.order, i)
        /\ walk'.result = None
    BY <1>12, <1>13, <1>15, <1>16
  <2> HIDE DEF taken2
  <2> QED BY <2>1, <2>2, <2>3, <2>4 DEF OrderInv
<1> QED BY <1>16, <1>18, <1>19, <1>20, OneWalk DEF IInv

LEMMA OrderEndsKeeps ==
    ASSUME IInv, OrderEnds
    PROVE  IInv'
<1> DEFINE r == Len(walk.order) = Cardinality(NodeId)
<1>1. /\ walk # None /\ walk \in Walk /\ walk.fn = "topological_order" /\ walk.queue = <<>>
      /\ walk' = [walk EXCEPT !.result = r] /\ r \in BOOLEAN
      /\ dependents' = dependents /\ state' = state /\ pending_edges' = pending_edges
      /\ before' = before
  BY DEF OrderEnds, Looping, In, Ends, graph, IInv, TypeOK
<1> HIDE DEF r
<1>2. /\ walk' \in Walk /\ walk' # None /\ walk'.fn = "topological_order"
      /\ walk'.queue = walk.queue /\ walk'.in_degree = walk.in_degree
      /\ walk'.order = walk.order /\ walk'.result = r
  BY <1>1, ResultGiven
<1>3. /\ Edges' = Edges /\ dependents' \in AcyclicGraphs /\ before'.pending \subseteq Edges'
      /\ StaleIn(before.state, before.pending)'
      /\ before' \in [state : [NodeId -> NodeState], pending : SUBSET (NodeId \X NodeId)]
  BY <1>1, ShapeKept
<1>4. TypeOK'
  BY <1>1, <1>2, <1>3 DEF IInv, TypeOK
<1>5. FoundInv'
  BY <1>1, <1>2, <1>3 DEF IInv, FoundInv, Idle, In
<1>6. OrderInv'
  <2>1. walk'.queue = <<>> /\ walk'.result = (Len(walk'.order) = Cardinality(NodeId))
    BY <1>1, <1>2 DEF r
  <2>2. /\ \A n : Dependencies(n)' = Dependencies(n)
        /\ \A o, i : RightlyAt(o, i)' <=> RightlyAt(o, i)
    BY <1>1, OrderPrimed
  <2>3. OrderInv /\ In("topological_order") /\ Waiting' = Waiting
    BY <1>1, <1>2 DEF IInv, LoopInv, In, Waiting
  <2> QED BY <1>2, <2>1, <2>2, <2>3 DEF OrderInv
<1> QED BY <1>2, <1>4, <1>5, <1>6, OneWalk DEF IInv
-----------------------------------------------------------------------------
(***************************************************************************)
(* Every step.                                                             *)
(***************************************************************************)
\* A marking that has ended leaves the bookkeeping of staleness complete again.
LEMMA EndsStale ==
    ASSUME IInv, walk # None, walk.result # None
    PROVE  StaleIn(state, pending_edges)
<1>1. /\ walk.fn \in Fn /\ before.state \in [NodeId -> NodeState]
      /\ before.pending \subseteq Edges /\ StaleIn(before.state, before.pending)
      /\ dependents \in [NodeId -> SUBSET NodeId] /\ walk.seen \in SUBSET NodeId
  BY DEF IInv, TypeOK, FoundInv, Walk
<1>2. \A e \in Edges : e[1] \in NodeId /\ e[2] \in NodeId /\ e[2] \in dependents[e[1]]
  BY DEF Edges
<1>3. CASE walk.fn \in {"has_path", "topological_order"}
  BY <1>1, <1>3 DEF IInv, FoundInv, In
<1>4. CASE walk.fn = "mark_changed"
  <2> DEFINE d == walk.from
  <2>1. /\ d \in NodeId /\ dependents[d] \subseteq walk.seen
        /\ \A n \in walk.seen : dependents[n] \subseteq walk.seen
        /\ \A n \in NodeId : state[n] =
              IF n \in dependents[d] THEN "Dirty"
              ELSE IF n \in walk.seen /\ before.state[n] = "Clean" THEN "MaybeDirty"
              ELSE before.state[n]
        /\ pending_edges = before.pending \cup {e \in Edges : e[1] \in {d} \cup walk.seen}
    BY <1>4, NoneLeft DEF IInv, LoopInv, MarkChangedInv, In, Waiting
  <2>2. \A e \in Edges : state[e[1]] # "Clean" => e \in pending_edges
    BY <1>1, <1>2, <2>1 DEF StaleIn
  <2>3. \A e \in pending_edges : state[e[2]] # "Clean"
    BY <1>1, <1>2, <2>1 DEF StaleIn
  <2> QED BY <2>2, <2>3 DEF StaleIn
<1>5. CASE walk.fn = "mark_unchanged"
  <2> DEFINE d == walk.from
  <2>1. /\ d \in NodeId /\ d \in walk.seen /\ before.state[d] = "Clean"
        /\ \A c \in walk.seen \ {d} :
              Unblocked(dependents, before.state, before.pending, walk.seen, c)
        /\ \A n \in NodeId :
              state[n] = IF n # d /\ n \in walk.seen THEN "Clean" ELSE before.state[n]
        /\ pending_edges = {e \in before.pending :
                               ~(e[1] \in walk.seen /\ e[2] \in dependents[e[1]])}
    BY <1>5, NoneLeft DEF IInv, LoopInv, MarkUnchangedInv, In, Waiting
  <2>2. \A e \in Edges : state[e[1]] # "Clean" => e \in pending_edges
    BY <1>1, <1>2, <2>1 DEF StaleIn
  <2>3. ASSUME NEW e \in pending_edges
        PROVE  state[e[2]] # "Clean"
    <3>1. e \in Edges /\ e \in before.pending /\ e[1] \notin walk.seen
      BY <1>1, <1>2, <2>1, <2>3
    <3>2. e = <<e[1], e[2]>>
      BY <3>1 DEF Edges
    <3>3. ~Unblocked(dependents, before.state, before.pending, walk.seen, e[2])
      BY <1>2, <3>1, <3>2 DEF Unblocked
    <3>4. e[2] = d \/ e[2] \notin walk.seen
      BY <2>1, <3>3
    <3> QED BY <1>1, <1>2, <2>1, <3>1, <3>4 DEF StaleIn
  <2> QED BY <2>2, <2>3 DEF StaleIn
<1> QED BY <1>1, <1>3, <1>4, <1>5 DEF Fn

LEMMA ReturnKeeps ==
    ASSUME IInv, Return
    PROVE  IInv'
<1>1. /\ walk' = None /\ before' = [state |-> state, pending |-> pending_edges]
      /\ dependents' = dependents /\ state' = state /\ pending_edges' = pending_edges
      /\ walk # None /\ walk.result # None
  BY DEF Return, graph
<1>2. /\ Edges' = Edges /\ Edges \subseteq NodeId \X NodeId
      /\ before'.state = state /\ before'.pending = pending_edges
  BY <1>1 DEF Edges
<1>3. TypeOK'
  BY <1>1, <1>2 DEF IInv, TypeOK
<1>4. StaleIn(before.state, before.pending)'
  BY <1>1, <1>2, EndsStale DEF StaleIn
<1>5. FoundInv'
  BY <1>1, <1>2, <1>4 DEF IInv, TypeOK, FoundInv
<1> QED BY <1>1, <1>3, <1>5, OneWalk DEF IInv

LEMMA InitKeeps == Init => IInv
<1> SUFFICES ASSUME Init PROVE IInv
  OBVIOUS
<1>1. /\ dependents \in [NodeId -> SUBSET NodeId] /\ dependents \in AcyclicGraphs
      /\ state \in [NodeId -> NodeState] /\ walk = None
      /\ before.state = state /\ before.pending = pending_edges
      /\ before = [state |-> state, pending |-> pending_edges]
  BY DEF Init, AcyclicGraphs
<1>2. MustPend \subseteq pending_edges /\ pending_edges \subseteq MayPend /\ MayPend \subseteq Edges
  BY DEF Init, MayPend
<1>3. Edges \subseteq NodeId \X NodeId
  BY DEF Edges
<1>4. TypeOK
  BY <1>1, <1>2, <1>3 DEF TypeOK
<1>5. FoundInv
  BY <1>1, <1>2 DEF FoundInv, StaleIn, MustPend, MayPend, Stale
<1>6. LoopInv
  BY <1>1 DEF LoopInv, MarkChangedInv, MarkUnchangedInv, HasPathInv, OrderInv, In
<1> QED BY <1>4, <1>5, <1>6 DEF IInv

LEMMA StepKeeps == IInv /\ [Next]_vars => IInv'
<1> SUFFICES ASSUME IInv, [Next]_vars
             PROVE  IInv'
  OBVIOUS
<1>1. CASE UNCHANGED vars
  <2>1. /\ dependents' = dependents /\ state' = state /\ pending_edges' = pending_edges
        /\ walk' = walk /\ before' = before
    BY <1>1 DEF vars, graph
  <2>2. \A o, i : RightlyAt(o, i)' <=> RightlyAt(o, i)
    BY <2>1, OrderPrimed
  <2>3. TypeOK' /\ FoundInv'
    BY <2>1 DEF IInv, TypeOK, FoundInv, StaleIn, Edges, Idle, In
  <2>4. MarkChangedInv' /\ MarkUnchangedInv' /\ HasPathInv'
    BY <2>1 DEF IInv, LoopInv, MarkChangedInv, MarkUnchangedInv, HasPathInv, In, Waiting, Edges
  <2>5. OrderInv'
    BY <2>1, <2>2 DEF IInv, LoopInv, OrderInv, In, Waiting, Dependencies
  <2> QED BY <2>3, <2>4, <2>5 DEF IInv, LoopInv
<1>2. CASE \E d \in NodeId : BeginMarkChanged(d)
  BY <1>2, BeginMarkChangedKeeps
<1>3. CASE MarkDescendants
  BY <1>3, MarkDescendantsKeeps
<1>4. CASE \E d \in NodeId : BeginMarkUnchanged(d)
  BY <1>4, BeginMarkUnchangedKeeps
<1>5. CASE SettleDependents
  BY <1>5, SettleDependentsKeeps
<1>6. CASE MarkingEnds
  BY <1>6, EndKeepsMarks
<1>7. CASE \E from, to \in NodeId : BeginHasPath(from, to)
  BY <1>7, BeginHasPathKeeps
<1>8. CASE FollowPath
  BY <1>8, FollowPathKeeps
<1>9. CASE PathEnds
  BY <1>9, PathEndsKeeps
<1>10. CASE BeginTopologicalOrder
  BY <1>10, BeginTopologicalOrderKeeps
<1>11. CASE TakeReady
  BY <1>11, TakeReadyKeeps
<1>12. CASE OrderEnds
  BY <1>12, OrderEndsKeeps
<1>13. CASE Return
  BY <1>13, ReturnKeeps
<1> QED BY <1>1, <1>2, <1>3, <1>4, <1>5, <1>6, <1>7, <1>8, <1>9, <1>10, <1>11, <1>12, <1>13 DEF Next

\* The invariant of the loops holds of any finite graph.
THEOREM LoopsKeepInvariant == Spec => []IInv
BY InitKeeps, StepKeeps, PTL DEF Spec
-----------------------------------------------------------------------------
(***************************************************************************)
(* What the loops have computed when they end.                             *)
(***************************************************************************)
\* The locals of a walk are of their types, and its graph is one over NodeId.
THEOREM WalksTyped == Spec => []TypeOK
BY LoopsKeepInvariant, PTL DEF IInv

LEMMA MarksSpecified == IInv => MarksAsSpecified
<1> SUFFICES ASSUME IInv PROVE MarksAsSpecified
  OBVIOUS
<1>1. dependents \in [NodeId -> SUBSET NodeId] /\ before.pending \subseteq Edges
  BY DEF IInv, TypeOK, FoundInv
<1>2. ASSUME Ended("mark_changed")
      PROVE  /\ state = StatesAfterMarkChanged(dependents, before.state, walk.from)
             /\ pending_edges = PendingAfterMarkChanged(dependents, before.pending, walk.from)
  <2> DEFINE d == walk.from
             Reach == Downstream(dependents, dependents[d])
  <2>1. walk # None /\ walk.fn = "mark_changed" /\ walk.result # None /\ walk.seen \in SUBSET NodeId
    BY <1>2 DEF Ended, In, IInv, TypeOK, Walk
  <2>2. /\ d \in NodeId /\ dependents[d] \subseteq walk.seen /\ walk.seen \subseteq Reach
        /\ \A n \in walk.seen : dependents[n] \subseteq walk.seen
        /\ state = [n \in NodeId |->
                       IF n \in dependents[d] THEN "Dirty"
                       ELSE IF n \in walk.seen /\ before.state[n] = "Clean" THEN "MaybeDirty"
                       ELSE before.state[n]]
        /\ pending_edges = before.pending \cup {e \in Edges : e[1] \in {d} \cup walk.seen}
    BY <2>1, NoneLeft DEF IInv, LoopInv, MarkChangedInv, In, Waiting
  <2>3. walk.seen = Reach
    <3>1. Reach \subseteq walk.seen
      <4>1. dependents[d] \in SUBSET NodeId /\ ClosedUnder(dependents, walk.seen)
        BY <1>1, <2>2 DEF ClosedUnder
      <4> QED BY <1>1, <2>1, <2>2, <4>1, DownstreamLeast
    <3> QED BY <2>2, <3>1
  <2>4. {e \in Edges : e[1] \in {d} \cup Reach} =
            {e \in NodeId \X NodeId : /\ e[1] = d \/ e[1] \in Reach
                                      /\ e[2] \in dependents[e[1]]}
    BY DEF Edges
  <2>5. state = [n \in NodeId |->
                   IF n \in dependents[d] THEN "Dirty"
                   ELSE IF n \in Reach /\ before.state[n] = "Clean" THEN "MaybeDirty"
                   ELSE before.state[n]]
    BY <2>2, <2>3
  <2>6. pending_edges = before.pending \cup {e \in Edges : e[1] \in {d} \cup Reach}
    BY <2>2, <2>3
  <2> QED BY <2>4, <2>5, <2>6 DEF StatesAfterMarkChanged, PendingAfterMarkChanged
<1>3. ASSUME Ended("mark_unchanged")
      PROVE  /\ state = StatesAfterMarkUnchanged(dependents, before.state, before.pending, walk.from)
             /\ pending_edges = PendingAfterMarkUnchanged(dependents, before.state, before.pending,
                                                          walk.from)
  <2> DEFINE d == walk.from
             S == Settled(dependents, before.state, before.pending, d)
  <2>1. walk # None /\ walk.fn = "mark_unchanged" /\ walk.result # None /\ walk.seen \in SUBSET NodeId
    BY <1>3 DEF Ended, In, IInv, TypeOK, Walk
  <2>2. /\ d \in NodeId /\ d \in walk.seen /\ walk.seen \subseteq S
        /\ \A c \in NodeId :
              Unblocked(dependents, before.state, before.pending, walk.seen, c) => c \in walk.seen
        /\ state = [n \in NodeId |->
                       IF n # d /\ n \in walk.seen THEN "Clean" ELSE before.state[n]]
        /\ pending_edges = {e \in before.pending :
                               ~(e[1] \in walk.seen /\ e[2] \in dependents[e[1]])}
    BY <2>1, NoneLeft DEF IInv, LoopInv, MarkUnchangedInv, In, Waiting
  <2>3. walk.seen = S
    <3>1. S \subseteq walk.seen
      BY <2>1, <2>2, SettledLeast
    <3> QED BY <2>2, <3>1
  <2>4. state = [n \in NodeId |-> IF n # d /\ n \in S THEN "Clean" ELSE before.state[n]]
    BY <2>2, <2>3
  <2>5. pending_edges = {e \in before.pending : ~(e[1] \in S /\ e[2] \in dependents[e[1]])}
    BY <2>2, <2>3
  <2> QED BY <2>4, <2>5 DEF StatesAfterMarkUnchanged, PendingAfterMarkUnchanged
<1> QED BY <1>2, <1>3 DEF MarksAsSpecified

\* mark_changed and mark_unchanged leave the states and the pending edges that
\* DependencyGraph gives, in whatever order their queues meet the nodes of the graph.
THEOREM MarkingIsAsSpecified == Spec => []MarksAsSpecified
BY LoopsKeepInvariant, MarksSpecified, PTL

\* mark_unchanged meets no node twice: the last pending edge into a node goes only once.
THEOREM SettlesOnce == Spec => []VisitedOnce
<1>1. IInv => VisitedOnce
  BY DEF IInv, LoopInv, MarkUnchangedInv, VisitedOnce, Looping, Waiting
<1> QED BY <1>1, LoopsKeepInvariant, PTL

LEMMA PathSpecified == IInv => PathAsSpecified
<1> SUFFICES ASSUME IInv, Ended("has_path")
             PROVE  walk.result = HasPath(dependents, walk.from, walk.to)
  BY DEF PathAsSpecified
<1> DEFINE Reach == Downstream(dependents, {walk.from})
<1>1. /\ walk # None /\ walk.fn = "has_path" /\ walk.result # None
      /\ walk.seen \in SUBSET NodeId /\ walk.queue \in Seq(NodeId)
      /\ dependents \in [NodeId -> SUBSET NodeId]
  BY DEF Ended, In, IInv, TypeOK, Walk
<1>2. /\ walk.from \in walk.seen \cup Range(walk.queue) /\ walk.to \in NodeId
      /\ walk.seen \cup Range(walk.queue) \subseteq Reach
      /\ \A n \in walk.seen : dependents[n] \subseteq walk.seen \cup Range(walk.queue)
      /\ walk.to \notin walk.seen
      /\ walk.queue # <<>> => walk.to \in Range(walk.queue)
      /\ walk.result = (walk.queue # <<>>)
  BY <1>1 DEF IInv, LoopInv, HasPathInv, In, Waiting
<1>3. walk.from \in NodeId
  BY <1>1, <1>2, RangeOfSeq
<1>4. CASE walk.queue # <<>>
  <2>1. HasPath(dependents, walk.from, walk.to) = TRUE
    BY <1>2, <1>4 DEF HasPath
  <2>2. walk.result = TRUE
    BY <1>2, <1>4
  <2> QED BY <2>1, <2>2
<1>5. CASE walk.queue = <<>>
  <2>1. walk.from \in walk.seen /\ ClosedUnder(dependents, walk.seen)
    BY <1>2, <1>5, NoneLeft DEF ClosedUnder
  <2>2. Reach \subseteq walk.seen
    <3>1. {walk.from} \in SUBSET NodeId /\ {walk.from} \subseteq walk.seen
      BY <1>3, <2>1
    <3> QED BY <1>1, <2>1, <3>1, DownstreamLeast
  <2>3. HasPath(dependents, walk.from, walk.to) = FALSE
    <3>1. walk.to \notin Reach
      BY <1>2, <2>2
    <3> QED BY <3>1 DEF HasPath
  <2>4. walk.result = FALSE
    BY <1>2, <1>5
  <2> QED BY <2>3, <2>4
<1> QED BY <1>4, <1>5

\* has_path answers whether the second node is the first one or depends on it.
THEOREM PathIsAsSpecified == Spec => []PathAsSpecified
BY LoopsKeepInvariant, PathSpecified, PTL

\* In a graph without cycles, no nodes wait for each other: of the smallest set in which
\* every node has a dependency, take one that nothing in the set depends on, and the others
\* are a smaller set of the kind.
LEMMA NoneWaitForEachOther ==
    ASSUME dependents \in AcyclicGraphs, NEW U \in SUBSET NodeId,
           \A n \in U : \E m \in U : n \in dependents[m]
    PROVE  U = {}
<1> DEFINE Stuck == {W \in SUBSET NodeId : W # {} /\ \A n \in W : \E m \in W : n \in dependents[m]}
           R == StrictSubsetOrdering(NodeId)
<1> SUFFICES ASSUME U # {} PROVE FALSE
  OBVIOUS
<1>1. FiniteSubsetsOf(NodeId) = SUBSET NodeId
  BY TraversalAssumption, FS_Subset DEF FiniteSubsetsOf
<1>2. PICK W \in Stuck : \A V \in Stuck : <<V, W>> \notin R
  <2>1. U \in Stuck /\ Stuck \subseteq FiniteSubsetsOf(NodeId)
    BY <1>1
  <2>2. IsWellFoundedOn(R, FiniteSubsetsOf(NodeId))
    BY FS_StrictSubsetOrderingWellFounded
  <2>3. Stuck # {}
    BY <2>1
  <2> HIDE DEF Stuck, R
  <2> QED BY <2>1, <2>2, <2>3, WFMin
<1>3. PICK n \in W : dependents[n] \cap W = {}
  BY DEF AcyclicGraphs
<1>4. PICK m \in W : n \in dependents[m]
  OBVIOUS
<1>5. W \ {n} \in Stuck
  BY <1>3, <1>4
<1>6. <<W \ {n}, W>> \in R
  BY <1>3 DEF StrictSubsetOrdering
<1> QED BY <1>2, <1>5, <1>6

LEMMA OrderTopological == IInv => OrderIsTopological
<1> SUFFICES ASSUME IInv, Ended("topological_order")
             PROVE  /\ walk.result
                    /\ Range(walk.order) = NodeId
                    /\ \A i \in DOMAIN walk.order : RightlyAt(walk.order, i)
  BY DEF OrderIsTopological, RightlyAt
<1> DEFINE taken == Range(walk.order)
<1>1. /\ walk # None /\ walk.fn = "topological_order" /\ walk.result # None
      /\ walk.order \in Seq(NodeId) /\ dependents \in AcyclicGraphs
  BY DEF Ended, In, IInv, TypeOK, FoundInv, Walk
<1>2. /\ IsInjective(walk.order)
      /\ {} = {n \in NodeId \ taken : Dependencies(n) \subseteq taken}
      /\ \A i \in DOMAIN walk.order : RightlyAt(walk.order, i)
      /\ walk.result = (Len(walk.order) = Cardinality(NodeId))
  BY <1>1, NoneLeft DEF IInv, LoopInv, OrderInv, In, Waiting
<1>3. taken = NodeId
  <2> DEFINE U == NodeId \ taken
  <2>1. \A n \in U : \E m \in U : n \in dependents[m]
    BY <1>2 DEF Dependencies
  <2>2. U = {}
    <3> HIDE DEF U
    <3>1. U \in SUBSET NodeId
      BY DEF U
    <3> QED BY <1>1, <2>1, <3>1, NoneWaitForEachOther
  <2>3. taken \subseteq NodeId
    BY <1>1, RangeOfSeq
  <2> QED BY <2>2, <2>3
<1>4. Len(walk.order) = Cardinality(NodeId)
  <2>1. /\ Len(walk.order) \in Nat /\ DOMAIN walk.order = 1..Len(walk.order)
        /\ \A i \in 1..Len(walk.order) : walk.order[i] \in NodeId
    BY <1>1, LenProperties, ElementOfSeq
  <2>2. walk.order \in Bijection(1..Len(walk.order), NodeId)
    <3>1. walk.order \in [1..Len(walk.order) -> NodeId]
      BY <1>1, <2>1
    <3> QED BY <1>2, <1>3, <2>1, <3>1 DEF Bijection, Injection, Surjection, Range
  <2>3. ExistsBijection(1..Len(walk.order), NodeId)
    BY <2>2 DEF ExistsBijection
  <2> QED BY <2>1, <2>3, FS_CountingElements
<1>5. walk.result = TRUE
  BY <1>2, <1>4
<1> QED BY <1>2, <1>3, <1>5

\* topological_order lists every node of a graph without cycles, each after what it depends
\* on, and of those that could come next the one with the smallest id.
THEOREM OrderIsRight == Spec => []OrderIsTopological
BY LoopsKeepInvariant, OrderTopological, PTL

\* After any marking, staleness is again known downstream: every edge out of a stale node is
\* pending, and no edge into a Clean one.
THEOREM StalenessIsKept == Spec => []StalenessKept
<1>1. IInv => StalenessKept
  BY DEF IInv, TypeOK, FoundInv, StalenessKept, StaleDownstream, StaleIn, MustPend, MayPend, Stale
<1> QED BY <1>1, LoopsKeepInvariant, PTL
=============================================================================
