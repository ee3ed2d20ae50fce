-------------------------- MODULE GraphProperties --------------------------
(***************************************************************************)
(* What AttributeGraph keeps true, at rest and in the middle of a call.    *)
(* The properties up to the line hold whatever handles a rule holds; the   *)
(* ones below it need every rule to hold handles of older nodes only.      *)
(***************************************************************************)
EXTENDS AttributeGraph

\* Edges are stored twice, by dependent (Node::active_dependencies) and by
\* dependency (dependents); commit_dependencies and remove_node update the two
\* apart, and every traversal uses one where the other was written.  The two agree,
\* no edge touches a node that is not in the graph, and a source depends on nothing.
EdgesMirror ==
    /\ \A d, n \in NodeId : n \in dependents[d] <=> d \in active_dependencies[n]
    /\ \A n \in NodeId : active_dependencies[n] # {} =>
          kind[n] = "Derived" /\ active_dependencies[n] \subseteq Live

\* The committed dependencies never close a cycle, even though the set a rule reads
\* is replaced at every evaluation: among any nodes, one depends on none of them.
Acyclic ==
    \A S \in (SUBSET NodeId) \ {{}} : \E n \in S : active_dependencies[n] \cap S = {}

\* The frames among the first i of fs in which a callback runs.
Evaluations(fs, i) == {j \in 1..i : fs[j].op = "evaluate"}

\* evaluation_stack, on which cycle detection relies, is exactly the nodes whose
\* callbacks are running, outermost first, through errors and unwinding panics, and
\* no callback is entered again while it runs.
EvaluationStackMirrorsFrames ==
    /\ Len(evaluation_stack) = Cardinality(Evaluations(frames, Len(frames)))
    /\ \A i \in Evaluations(frames, Len(frames)) :
          evaluation_stack[Cardinality(Evaluations(frames, i))] = frames[i].node
    /\ \A i, j \in DOMAIN evaluation_stack :
          evaluation_stack[i] = evaluation_stack[j] => i = j

\* A node that is being recomputed keeps the cache it had when its callback was
\* called: old_value, cloned before the callback, is what the output is compared
\* with after it.
OldValueStillCached ==
    \A i \in DOMAIN frames :
        frames[i].op = "evaluate" => frames[i].old_value = value[frames[i].node]

\* Every call of the graph returns, if the callbacks do.
CallsReturn == call # None ~> call = None
-----------------------------------------------------------------------------
OlderHandles ==
    \A n \in NodeId : \A r \in DerivedRules(n) : \A h \in Handles(r) :
        h \in NodeId => h < n

\* Staleness reaches every descendant: a dependency that is not Clean leaves its
\* dependent not Clean and the edge between them pending.  Pending edges are edges,
\* and no edge into a Clean node is pending (its caller may use the cache as it is).
StaleEdgesPending ==
    /\ \A n \in NodeId : \A d \in active_dependencies[n] :
          state[d] # "Clean" => state[n] # "Clean" /\ <<d, n>> \in pending_edges
    /\ \A e \in pending_edges : e[2] \in dependents[e[1]] /\ state[e[2]] # "Clean"

\* What read_value and update_node hand out: after a successful call the node is
\* Clean, has a cached value, and so has everything it depends on.
SuccessLeavesNodeClean ==
    frames = <<>> /\ returning # None /\ returning.status = "ok" =>
        /\ state[call.node] = "Clean" /\ value[call.node] # None
        /\ \A d \in active_dependencies[call.node] : state[d] = "Clean"

\* A cache that is not Dirty was computed from exactly the values its dependencies
\* have now: nothing was read, forgotten, removed or overwritten since.
CleanIsCurrent ==
    \A n \in NodeId : state[n] \in {"Clean", "MaybeDirty"} =>
        consumed[n] = [d \in NodeId |-> IF d \in active_dependencies[n]
                                        THEN value[d] ELSE None]

\* What a running callback has read does not change under it: a dependency it has
\* recorded stays Clean, with the value that was handed out.
EvaluationReadsStayCurrent ==
    \A i \in DOMAIN frames : frames[i].op = "evaluate" =>
        \A d \in frames[i].dependencies_read :
            state[d] = "Clean" /\ frames[i].seen[d].value = value[d]

\* A node that is being recomputed is Dirty until it commits, whatever happens in the
\* calls nested in its callback, so a failure at any point leaves it to be retried.
EvaluatingNodeIsDirty ==
    \A i \in DOMAIN frames :
        frames[i].op = "evaluate" => state[frames[i].node] = "Dirty"

\* A Dirty node becomes Clean only by running its rule to the end: no validation or
\* propagation of "unchanged" ever makes it usable again.
DirtyNeedsEvaluation ==
    [][\A n \in NodeId : state[n] = "Dirty" /\ state'[n] \notin {"Dirty", "Absent"} =>
          Running("evaluate") /\ Top.node = n]_vars
=============================================================================
