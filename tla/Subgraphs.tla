----------------------------- MODULE Subgraphs -----------------------------
(***************************************************************************)
(* Subgraphs (src/src/graph/subgraphs.rs): regions of ownership inside one *)
(* AttributeGraph.  A region has a parent, children and nodes; a node      *)
(* belongs to the innermost construction scope that is open when it is     *)
(* created; removing a region removes everything below it.                 *)
(*                                                                         *)
(* with_subgraph and build_subgraph call a closure of the application,     *)
(* which gets the graph and may call anything on it, these functions       *)
(* included, and ends with a value, an error or a panic.  `closures` is    *)
(* the stack of those calls; construction_subgraphs is the graph's own.    *)
(* remove_subgraph removes its nodes one by one with remove_node: the      *)
(* variable `removal` holds its locals, and nothing else happens between   *)
(* its steps.                                                              *)
(***************************************************************************)
EXTENDS GraphProperties

CONSTANTS
    SubgraphId,     \* the region ids a graph can hand out, in the order it does
    MaxDepth        \* bound: construction closures that are open at once

ASSUME SubgraphAssumption ==
    SubgraphId \subseteq Nat /\ None \notin SubgraphId /\ MaxDepth \in Nat

VARIABLES
    subgraphs,      \* the ids in the map of regions
    parent, children, nodes,
    subgraph,       \* Node::subgraph, the region that owns a node
    construction_subgraphs, next_subgraph_id,
    closures, removal

regionVars == <<subgraphs, parent, children, next_subgraph_id>>
memberVars == <<nodes, subgraph>>
scopeVars == <<construction_subgraphs, closures>>
subgraphVars == <<regionVars, memberVars, scopeVars, removal>>
allVars == <<vars, subgraphVars>>

Closure == [fn : {"with", "build"}, id : SubgraphId]

\* remove_subgraph after its checks: the subtree, the nodes still to be removed, and the
\* survivors that depended on one of them.
Removal == [subtree : SUBSET SubgraphId, todo : SUBSET NodeId, dirtied : SUBSET NodeId]

\* Regions own nodes and regions, scopes are regions, and the graph has its types.
SubgraphTypeOK ==
    /\ TypeOK
    /\ subgraphs \subseteq SubgraphId
    /\ parent \in [SubgraphId -> SubgraphId \cup {None}]
    /\ children \in [SubgraphId -> SUBSET SubgraphId]
    /\ nodes \in [SubgraphId -> SUBSET NodeId]
    /\ subgraph \in [NodeId -> SubgraphId \cup {None}]
    /\ construction_subgraphs \in Seq(SubgraphId)
    /\ next_subgraph_id \in Nat
    /\ closures \in Seq(Closure)
    /\ removal \in Removal \cup {None}

SubgraphInit ==
    /\ Init
    /\ subgraphs = {}
    /\ parent = [s \in SubgraphId |-> None]
    /\ children = [s \in SubgraphId |-> {}]
    /\ nodes = [s \in SubgraphId |-> {}]
    /\ subgraph = [n \in NodeId |-> None]
    /\ construction_subgraphs = <<>>
    /\ next_subgraph_id = 0
    /\ closures = <<>>
    /\ removal = None

\* Between two calls of the consumer or of a construction closure.
Quiet == Idle /\ removal = None
-----------------------------------------------------------------------------
(***************************************************************************)
(* Nodes.                                                                  *)
(***************************************************************************)
\* current_subgraph
CurrentSubgraph == IF construction_subgraphs = <<>> THEN None ELSE Last(construction_subgraphs)

\* Mutant: the id is read from the counter after it has been advanced.
RegisterNextNode(n) ==
    /\ subgraph' = [subgraph EXCEPT ![n] = CurrentSubgraph]
    /\ nodes' = [s \in SubgraphId |->
                    IF s = CurrentSubgraph THEN nodes[s] \cup {n + 1} ELSE nodes[s]]

\* register_node_with_current_subgraph
RegisterNode(n) ==
    /\ subgraph' = [subgraph EXCEPT ![n] = CurrentSubgraph]
    /\ nodes' = [s \in SubgraphId |-> IF s = CurrentSubgraph THEN nodes[s] \cup {n} ELSE nodes[s]]

\* remove_node, as far as the owner is concerned.
ForgetNode(n) ==
    /\ subgraph' = [subgraph EXCEPT ![n] = None]
    /\ nodes' = [s \in SubgraphId |-> IF s = subgraph[n] THEN nodes[s] \ {n} ELSE nodes[s]]

CreateNode ==
    /\ Quiet
    /\ \E v \in Storage : AddSource(v)
       \/ \E r \in Rules : AddDerived(r)
    /\ RegisterNode(next_node_id)
    /\ UNCHANGED <<regionVars, scopeVars, removal>>

RemoveOneNode ==
    /\ Quiet
    /\ \E n \in NodeId : RemoveNode(n) /\ ForgetNode(n)
    /\ UNCHANGED <<regionVars, scopeVars, removal>>

\* Everything else the graph does leaves the regions alone.
UseGraph ==
    /\ removal = None
    /\ \/ \E n \in NodeId, v \in Storage : SetSourceValue(n, v)
       \/ \E n \in NodeId : MarkChanged(n)
       \/ \E h \in Handle : ReadValue(h)
       \/ \E h \in Handle : UpdateNode(h)
       \/ Continue
    /\ UNCHANGED subgraphVars
-----------------------------------------------------------------------------
(***************************************************************************)
(* Regions and construction scopes.                                        *)
(***************************************************************************)
NewSubgraph(p) ==
    /\ next_subgraph_id \in SubgraphId
    /\ subgraphs' = subgraphs \cup {next_subgraph_id}
    /\ parent' = [parent EXCEPT ![next_subgraph_id] = p]
    /\ children' = [s \in SubgraphId |-> IF s = p THEN children[s] \cup {next_subgraph_id}
                                                  ELSE children[s]]
    /\ next_subgraph_id' = next_subgraph_id + 1

OpenScope(fn, id) ==
    /\ Len(closures) < MaxDepth
    /\ construction_subgraphs' = Append(construction_subgraphs, id)
    /\ closures' = Append(closures, [fn |-> fn, id |-> id])

CreateSubgraph(p) ==
    /\ Quiet
    /\ NewSubgraph(p)
    /\ UNCHANGED <<vars, memberVars, scopeVars, removal>>

WithSubgraph(id) ==
    /\ Quiet
    /\ OpenScope("with", id)
    /\ UNCHANGED <<vars, regionVars, memberVars, removal>>

BuildSubgraph(p) ==
    /\ Quiet
    /\ NewSubgraph(p)
    /\ OpenScope("build", next_subgraph_id)
    /\ UNCHANGED <<vars, memberVars, removal>>
-----------------------------------------------------------------------------
(***************************************************************************)
(* remove_subgraph.                                                        *)
(***************************************************************************)
\* The region and all regions below it (subgraph_postorder).
Subtree(id) ==
    {s \in SubgraphId : \A K \in SUBSET SubgraphId :
        id \in K /\ (\A t \in K : children[t] \subseteq K) => s \in K}

\* Mutant: only the region itself may not be in use.
InUseItself(id, scopes) == id \in Range(scopes)

InUse(id, scopes) == Subtree(id) \cap Range(scopes) # {}

RemovalOf(id) ==
    LET subtree == Subtree(id)
        members == UNION {nodes[s] : s \in subtree}
    IN [subtree |-> subtree, todo |-> members,
        dirtied |-> (UNION {dependents[n] : n \in members}) \ members]

RemoveSubgraph(id) ==
    /\ Quiet
    /\ ~InUse(id, construction_subgraphs)
    /\ removal' = RemovalOf(id)
    /\ UNCHANGED <<vars, regionVars, memberVars, scopeVars>>

\* The nodes go in the reverse of a topological order: dependents first.
RemovalRemovesNode ==
    /\ removal # None
    /\ \E n \in removal.todo :
          /\ \A m \in removal.todo \ {n} : ~HasPath(dependents, n, m)
          /\ RemoveNode(n)
          /\ ForgetNode(n)
          /\ removal' = [removal EXCEPT !.todo = @ \ {n}]
    /\ UNCHANGED <<regionVars, scopeVars>>

\* Mutant: the parent is not told.
ChildKept == children' = [s \in SubgraphId |-> IF s \in removal.subtree THEN {} ELSE children[s]]

ForgetChildren ==
    children' = [s \in SubgraphId |->
                    IF s \in removal.subtree THEN {}
                    ELSE children[s] \ {c \in removal.subtree : parent[c] = s}]

RemovalEnds ==
    /\ removal # None /\ removal.todo = {}
    /\ removal' = None
    /\ subgraphs' = subgraphs \ removal.subtree
    /\ parent' = [s \in SubgraphId |-> IF s \in removal.subtree THEN None ELSE parent[s]]
    /\ ForgetChildren
    /\ UNCHANGED <<vars, next_subgraph_id, memberVars, scopeVars>>

\* Mutant: the scope is left open.
ScopeKept == construction_subgraphs

RestoredScopes == Front(construction_subgraphs)

\* The closure on top ends.  A build that ends with an error or a panic removes its
\* region; if remove_subgraph refused that, the region would stay.
CloseScope(outcome) ==
    /\ Quiet
    /\ closures # <<>>
    /\ LET closure == Last(closures)
           scopes == RestoredScopes
       IN /\ construction_subgraphs' = scopes
          /\ removal' = IF closure.fn = "build" /\ outcome # "ok" /\ ~InUse(closure.id, scopes)
                        THEN RemovalOf(closure.id) ELSE None
    /\ closures' = Front(closures)
    /\ UNCHANGED <<vars, regionVars, memberVars>>
-----------------------------------------------------------------------------
SubgraphNext ==
    \/ CreateNode
    \/ RemoveOneNode
    \/ UseGraph
    \/ \E p \in subgraphs \cup {None} : CreateSubgraph(p)
    \/ \E id \in subgraphs : WithSubgraph(id)
    \/ \E p \in subgraphs \cup {None} : BuildSubgraph(p)
    \/ \E id \in subgraphs : RemoveSubgraph(id)
    \/ RemovalRemovesNode
    \/ RemovalEnds
    \/ \E outcome \in {"ok", "error", "panic"} : CloseScope(outcome)

SubgraphSpec == SubgraphInit /\ [][SubgraphNext]_allVars
-----------------------------------------------------------------------------
(***************************************************************************)
(* Properties.                                                             *)
(***************************************************************************)
\* Ownership is written down twice, in the regions and in what they own, and changed
\* apart by creation, removal and teardown.  The two agree, the regions are a forest
\* in which no child outlives its parent, and no node outlives its region.
OwnershipMirror ==
    /\ \A s, c \in SubgraphId : c \in children[s] <=> parent[c] = s
    /\ \A c \in SubgraphId : parent[c] # None => {c, parent[c]} \subseteq subgraphs
    /\ \A s \in SubgraphId, n \in NodeId : n \in nodes[s] <=> subgraph[n] = s
    /\ \A n \in NodeId : subgraph[n] # None => n \in Live /\ subgraph[n] \in subgraphs

\* The stack of construction scopes follows the closures through errors and panics,
\* and removal never takes a region away under a closure that is building in it: a
\* node that is created always finds its owner, up to the root.
OpenScopesExist ==
    /\ construction_subgraphs = [i \in DOMAIN closures |-> closures[i].id]
    /\ \A i \in DOMAIN construction_subgraphs : construction_subgraphs[i] \in subgraphs

\* However a build ends, when it does its region is there and nothing else is being
\* built in it, so that the rollback it may need is not refused.
RollbackNeverRefused ==
    \A i \in DOMAIN closures : closures[i].fn = "build" =>
        /\ closures[i].id \in subgraphs
        /\ ~InUse(closures[i].id, SubSeq(construction_subgraphs, 1, i - 1))

\* When the nodes of a region are gone, the survivors reported as invalidated are
\* there, Dirty, and no edge leads from them into the region any more.
SurvivorsInvalidated ==
    removal # None /\ removal.todo = {} =>
        \A n \in removal.dirtied :
            /\ n \in Live /\ state[n] = "Dirty"
            /\ active_dependencies[n] \subseteq Live
            /\ \A d \in active_dependencies[n] : subgraph[d] \notin removal.subtree
=============================================================================
