----------------------------- MODULE Traversals -----------------------------
(***************************************************************************)
(* The loops of src/src/graph.rs that walk the dependency graph, one       *)
(* iteration a step, as DependencyGraph says what they compute: the queues *)
(* of mark_changed and mark_unchanged, the stack of has_path, and the      *)
(* ready queue of topological_order.                                       *)
(*                                                                         *)
(* The graph is any one that the invariants of GraphProperties allow; a    *)
(* walk is called on it, runs, and returns, and the next one is called on  *)
(* the states and pending edges it has left.                               *)
(***************************************************************************)
EXTENDS DependencyGraph, Sequences, FiniteSets, SequencesExt

CONSTANT None

VARIABLES
    dependents, state, pending_edges,
    walk,       \* the locals of the walk in progress, or None
    before      \* history: the states and pending edges it found

graph == <<dependents, state, pending_edges>>
vars == <<graph, walk, before>>

Edges == {e \in NodeId \X NodeId : e[2] \in dependents[e[1]]}
Dependencies(n) == {d \in NodeId : n \in dependents[d]}
SortedIds(S) == CHOOSE ids \in SetToSeqs(S) : \A i, j \in DOMAIN ids : i < j => ids[i] < ids[j]

Idle == walk = None
In(fn) == walk # None /\ walk.fn = fn
Fn == {"mark_changed", "mark_unchanged", "has_path", "topological_order"}

\* `result` is None until the loop ends.
Walk == [fn : Fn, from : NodeId \cup {None}, to : NodeId \cup {None}, queue : Seq(NodeId),
         seen : SUBSET NodeId, in_degree : [NodeId -> Nat], order : Seq(NodeId),
         result : {None, TRUE, FALSE}]

\* The node map is a hash map: a graph is finite.
ASSUME TraversalAssumption ==
    /\ IsFiniteSet(NodeId)
    /\ None \notin BOOLEAN /\ None \notin NodeId /\ None \notin Walk

\* Mutant: the edges are counted at their other end.
OutDegree(n) == Cardinality(dependents[n])

InDegree(n) == Cardinality(Dependencies(n))

Locals(fn, from, to, queue, seen) ==
    [fn |-> fn, from |-> from, to |-> to, queue |-> queue, seen |-> seen,
     in_degree |-> [n \in NodeId |-> InDegree(n)], order |-> <<>>,
     result |-> None]

TypeOK ==
    /\ dependents \in [NodeId -> SUBSET NodeId]
    /\ state \in [NodeId -> NodeState]
    /\ pending_edges \subseteq Edges
    /\ walk # None => walk \in Walk
    /\ before \in [state : [NodeId -> NodeState], pending : SUBSET (NodeId \X NodeId)]
-----------------------------------------------------------------------------
(***************************************************************************)
(* The graphs that exist: without cycles, and staleness goes downstream.   *)
(***************************************************************************)
AcyclicGraphs ==
    {D \in [NodeId -> SUBSET NodeId] :
        \A S \in (SUBSET NodeId) \ {{}} : \E n \in S : D[n] \cap S = {}}

Stale(n) == state[n] # "Clean"
MustPend == {e \in Edges : Stale(e[1])}
MayPend == {e \in Edges : Stale(e[2])}
StaleDownstream == MustPend \subseteq pending_edges /\ pending_edges \subseteq MayPend

Init ==
    /\ dependents \in AcyclicGraphs
    /\ state \in [NodeId -> NodeState]
    /\ MustPend \subseteq MayPend
    /\ pending_edges \in {MustPend \cup P : P \in SUBSET (MayPend \ MustPend)}
    /\ walk = None
    /\ before = [state |-> state, pending |-> pending_edges]

Begin(locals) ==
    /\ Idle
    /\ walk' = locals
    /\ before' = [state |-> state, pending |-> pending_edges]
    /\ UNCHANGED dependents

Ends(result) == walk' = [walk EXCEPT !.result = result]

Looping(fn) == In(fn) /\ walk.result = None
Current == Head(walk.queue)
-----------------------------------------------------------------------------
(***************************************************************************)
(* mark_changed.                                                           *)
(***************************************************************************)
BeginMarkChanged(d) ==
    /\ Begin(Locals("mark_changed", d, d, SortedIds(dependents[d]), dependents[d]))
    /\ state' = [n \in NodeId |-> IF n \in dependents[d] THEN "Dirty" ELSE state[n]]
    /\ pending_edges' = pending_edges \cup {<<d, n>> : n \in dependents[d]}

\* Mutant: a Dirty descendant becomes MaybeDirty as well.
StateOfAny(n) == "MaybeDirty"

StateOfDescendant(n) == IF state[n] = "Clean" THEN "MaybeDirty" ELSE state[n]

MarkDescendants ==
    /\ Looping("mark_changed")
    /\ walk.queue # <<>>
    /\ LET new == dependents[Current] \ walk.seen IN
       /\ walk' = [walk EXCEPT !.queue = Tail(@) \o SortedIds(new), !.seen = @ \cup new]
       /\ state' = [n \in NodeId |-> IF n \in new THEN StateOfDescendant(n) ELSE state[n]]
    /\ pending_edges' = pending_edges \cup {<<Current, n>> : n \in dependents[Current]}
    /\ UNCHANGED <<dependents, before>>
-----------------------------------------------------------------------------
(***************************************************************************)
(* mark_unchanged, which is only called on a node that has just become     *)
(* Clean.                                                                  *)
(***************************************************************************)
BeginMarkUnchanged(d) ==
    /\ state[d] = "Clean"
    /\ Begin(Locals("mark_unchanged", d, d, <<d>>, {}))
    /\ UNCHANGED <<state, pending_edges>>

\* Mutant: the other edges into the node are not looked at.
PendingIgnored(n) == FALSE

\* has_inbound_pending, once the edge from the current node is gone.
HasOtherPending(n) == \E x \in NodeId \ {Current} : <<x, n>> \in pending_edges

\* What the current node has to settle; nothing when it has been met before.
Met == IF Current \in walk.seen THEN {} ELSE dependents[Current]

SettleDependents ==
    /\ Looping("mark_unchanged")
    /\ walk.queue # <<>>
    /\ LET free == {n \in Met : ~HasOtherPending(n)}
           settled == {n \in free : state[n] = "MaybeDirty"}
           onwards == settled \cup
                      {n \in free : state[n] = "Clean" /\ <<Current, n>> \in pending_edges}
       IN /\ walk' = [walk EXCEPT !.queue = Tail(@) \o SortedIds(onwards),
                                  !.seen = @ \cup {Current}]
          /\ state' = [n \in NodeId |-> IF n \in settled THEN "Clean" ELSE state[n]]
    /\ pending_edges' = pending_edges \ {<<Current, n>> : n \in Met}
    /\ UNCHANGED <<dependents, before>>

MarkingEnds ==
    /\ Looping("mark_changed") \/ Looping("mark_unchanged")
    /\ walk.queue = <<>>
    /\ Ends(TRUE)
    /\ UNCHANGED <<graph, before>>
-----------------------------------------------------------------------------
(***************************************************************************)
(* has_path: the queue is a stack, and the hash set of the dependents is   *)
(* pushed in any order.  Neither this walk nor the next one looks at the   *)
(* states, so both are called on graphs where all of them are Clean.       *)
(***************************************************************************)
AllClean == \A n \in NodeId : state[n] = "Clean"

BeginHasPath(from, to) ==
    /\ AllClean
    /\ Begin(Locals("has_path", from, to, <<from>>, {}))
    /\ UNCHANGED <<state, pending_edges>>

Pop == [walk EXCEPT !.queue = Front(@), !.seen = @ \cup {Last(walk.queue)}]

\* Mutant: the edges are followed the wrong way.
PushedUpwards(current) ==
    IF current \in walk.seen THEN {} ELSE Dependencies(current)

Pushed(current) == IF current \in walk.seen THEN {} ELSE dependents[current]

FollowPath ==
    /\ Looping("has_path")
    /\ walk.queue # <<>> /\ Last(walk.queue) # walk.to
    /\ \E pushed \in SetToSeqs(Pushed(Last(walk.queue))) :
          walk' = [Pop EXCEPT !.queue = @ \o pushed]
    /\ UNCHANGED <<graph, before>>

PathEnds ==
    /\ Looping("has_path")
    /\ walk.queue # <<>> => Last(walk.queue) = walk.to
    /\ Ends(walk.queue # <<>>)
    /\ UNCHANGED <<graph, before>>
-----------------------------------------------------------------------------
(***************************************************************************)
(* topological_order.                                                      *)
(***************************************************************************)
BeginTopologicalOrder ==
    /\ AllClean
    /\ LET roots == {n \in NodeId : Dependencies(n) = {}}
       IN Begin(Locals("topological_order", None, None, SortedIds(roots), {}))
    /\ UNCHANGED <<state, pending_edges>>

\* Mutant: a node that becomes ready goes to the end of the queue.
PushedBack(queue, S) == queue \o SortedIds(S)

\* insert_sorted
InsertedSorted(queue, S) == SortedIds(Range(queue) \cup S)

TakeReady ==
    /\ Looping("topological_order")
    /\ walk.queue # <<>>
    /\ LET in_degree == [n \in NodeId |-> IF n \in dependents[Current]
                                          THEN walk.in_degree[n] - 1 ELSE walk.in_degree[n]]
           ready == {n \in dependents[Current] : in_degree[n] = 0}
       IN walk' = [walk EXCEPT !.queue = InsertedSorted(Tail(@), ready),
                               !.in_degree = in_degree, !.order = Append(@, Current)]
    /\ UNCHANGED <<graph, before>>

\* Ok(order), or CycleDetected.
OrderEnds ==
    /\ Looping("topological_order")
    /\ walk.queue = <<>>
    /\ Ends(Len(walk.order) = Cardinality(NodeId))
    /\ UNCHANGED <<graph, before>>
-----------------------------------------------------------------------------
Return ==
    /\ walk # None /\ walk.result # None
    /\ walk' = None
    /\ before' = [state |-> state, pending |-> pending_edges]
    /\ UNCHANGED graph

Next ==
    \/ \E d \in NodeId : BeginMarkChanged(d)
    \/ MarkDescendants
    \/ \E d \in NodeId : BeginMarkUnchanged(d)
    \/ SettleDependents
    \/ MarkingEnds
    \/ \E from, to \in NodeId : BeginHasPath(from, to)
    \/ FollowPath
    \/ PathEnds
    \/ BeginTopologicalOrder
    \/ TakeReady
    \/ OrderEnds
    \/ Return

Spec == Init /\ [][Next]_vars
-----------------------------------------------------------------------------
(***************************************************************************)
(* Properties.                                                             *)
(***************************************************************************)
Ended(fn) == In(fn) /\ walk.result # None

\* When a marking loop ends it has left the states and the pending edges that
\* DependencyGraph gives, whatever the order in which its queue met the nodes: in
\* particular no dependent that mark_unchanged passed over, because another edge
\* into it was still pending, is forgotten when that edge goes.
MarksAsSpecified ==
    /\ Ended("mark_changed") =>
          /\ state = StatesAfterMarkChanged(dependents, before.state, walk.from)
          /\ pending_edges = PendingAfterMarkChanged(dependents, before.pending, walk.from)
    /\ Ended("mark_unchanged") =>
          /\ state = StatesAfterMarkUnchanged(dependents, before.state, before.pending, walk.from)
          /\ pending_edges = PendingAfterMarkUnchanged(dependents, before.state, before.pending,
                                                       walk.from)

\* mark_unchanged queues a node only when the last pending edge into it goes, so it meets
\* none twice and its `seen` set never stops it.
VisitedOnce ==
    Looping("mark_unchanged") =>
        /\ IsInjective(walk.queue)
        /\ Range(walk.queue) \cap walk.seen = {}

\* has_path finds a path exactly when there is one.
PathAsSpecified ==
    Ended("has_path") => walk.result = HasPath(dependents, walk.from, walk.to)

\* topological_order never reports a cycle, lists every node after all it depends on,
\* and, for a graph with these edges, always the same way: at each place stands the
\* smallest id that could stand there.
OrderIsTopological ==
    Ended("topological_order") =>
        /\ walk.result
        /\ Range(walk.order) = NodeId
        /\ \A i \in DOMAIN walk.order :
              LET earlier == Range(SubSeq(walk.order, 1, i - 1)) IN
              /\ Dependencies(walk.order[i]) \subseteq earlier
              /\ \A n \in NodeId \ earlier :
                    Dependencies(n) \subseteq earlier => walk.order[i] <= n

\* The marks keep what later walks rely on.
StalenessKept == Idle => StaleDownstream
=============================================================================
