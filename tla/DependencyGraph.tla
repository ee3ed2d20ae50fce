-------------------------- MODULE DependencyGraph --------------------------
(***************************************************************************)
(* The dependency graph of src/src/graph.rs as data, and what its three    *)
(* traversals compute.                                                     *)
(*                                                                         *)
(* The graph is kept from the dependency's side: dependents[d] is the set  *)
(* of nodes whose last committed evaluation read d.  `state` is the        *)
(* NodeState of every node ("Absent" for an id that is not in the node     *)
(* map), and `pending` the set of edges <<dependency, dependent>> on which *)
(* a change has still to be looked at.                                     *)
(*                                                                         *)
(* The code walks the graph with queues and stacks.  A worklist that only  *)
(* ever adds what is reachable from what it holds computes a least closed  *)
(* set, whatever the order in which it takes its elements, and that set is *)
(* written here directly: it is an expression without recursion that TLC   *)
(* evaluates and that the provers reason about from its leastness alone.   *)
(***************************************************************************)
EXTENDS Naturals

CONSTANT NodeId     \* the ids a graph can hand out, in the order it does

ASSUME NodeIdAssumption == NodeId \subseteq Nat

NodeState == {"Clean", "Dirty", "MaybeDirty"}

(***************************************************************************)
(* Reachability along dependents.                                          *)
(***************************************************************************)
ClosedUnder(dependents, K) == \A u \in K : dependents[u] \subseteq K

Downstream(dependents, S) ==
    LET closed == {K \in SUBSET NodeId : S \subseteq K /\ ClosedUnder(dependents, K)}
    IN {n \in NodeId : \A K \in closed : n \in K}

\* has_path: `to` is `from` itself or one of its direct or indirect dependents.
HasPath(dependents, from, to) == to \in Downstream(dependents, {from})

(***************************************************************************)
(* mark_changed(d): direct dependents become Dirty, whatever they were;    *)
(* further descendants become MaybeDirty if they were Clean; every edge    *)
(* out of d and out of a descendant of d becomes pending.                  *)
(***************************************************************************)
\* Mutant: a node that is already MaybeDirty is not raised to Dirty.
DirtyOnlyIfClean(dependents, state, d) ==
    [n \in NodeId |->
        IF n \in dependents[d] /\ state[n] = "Clean" THEN "Dirty"
        ELSE IF n \in Downstream(dependents, dependents[d]) /\ state[n] = "Clean"
        THEN "MaybeDirty"
        ELSE state[n]]

StatesAfterMarkChanged(dependents, state, d) ==
    LET below == Downstream(dependents, dependents[d])
    IN [n \in NodeId |->
          IF n \in dependents[d] THEN "Dirty"
          ELSE IF n \in below /\ state[n] = "Clean" THEN "MaybeDirty"
          ELSE state[n]]

PendingAfterMarkChanged(dependents, pending, d) ==
    LET below == Downstream(dependents, dependents[d])
    IN pending \cup {e \in NodeId \X NodeId : /\ e[1] = d \/ e[1] \in below
                                              /\ e[2] \in dependents[e[1]]}

(***************************************************************************)
(* mark_unchanged(d): starting from d, whose value is known to be          *)
(* unchanged, the edges out of an unchanged node stop being pending, and a *)
(* MaybeDirty dependent left without any pending edge is itself unchanged. *)
(* Unblocked(K, c): once the nodes of K are known to be unchanged, the     *)
(* loop reaches c and finds no pending edge into it.  The case of a Clean  *)
(* dependent is the match arm `Clean if removed_pending`.                  *)
(***************************************************************************)
\* Mutant: the other inputs of c are not looked at.
UnblockedByAnyInput(dependents, state, pending, K, c) ==
    /\ \E u \in K : c \in dependents[u]
    /\ state[c] = "MaybeDirty"

\* Mutant: the match on the state of c has no arm for Dirty.
UnblockedThoughDirty(dependents, state, pending, K, c) ==
    /\ \E u \in K : c \in dependents[u]
    /\ \A x \in NodeId : <<x, c>> \in pending => x \in K /\ c \in dependents[x]
    /\ state[c] \in {"MaybeDirty", "Dirty"}

Unblocked(dependents, state, pending, K, c) ==
    /\ \E u \in K : c \in dependents[u]
    /\ \A x \in NodeId : <<x, c>> \in pending => x \in K /\ c \in dependents[x]
    /\ \/ state[c] = "MaybeDirty"
       \/ state[c] = "Clean" /\ \E x \in NodeId : <<x, c>> \in pending

Settled(dependents, state, pending, d) ==
    LET closed == {K \in SUBSET NodeId :
            /\ d \in K
            /\ \A c \in NodeId : Unblocked(dependents, state, pending, K, c) => c \in K}
    IN {n \in NodeId : \A K \in closed : n \in K}

StatesAfterMarkUnchanged(dependents, state, pending, d) ==
    LET settled == Settled(dependents, state, pending, d)
    IN [n \in NodeId |-> IF n # d /\ n \in settled THEN "Clean" ELSE state[n]]

PendingAfterMarkUnchanged(dependents, state, pending, d) ==
    LET settled == Settled(dependents, state, pending, d)
    IN {e \in pending : ~(e[1] \in settled /\ e[2] \in dependents[e[1]])}
=============================================================================
