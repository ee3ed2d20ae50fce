-------------------------- MODULE Subgraphs_proofs --------------------------
(***************************************************************************)
(* Regions, for any number of nodes, regions and nested closures.          *)
(*                                                                         *)
(* OwnershipMirror, OpenScopesExist, RollbackNeverRefused and              *)
(* SurvivorsInvalidated rest on each other and are proved together.  A     *)
(* removal keeps them because the subtree it takes is closed under         *)
(* children, holds no open scope, and still owns exactly the nodes that    *)
(* are to go (RemovalOK); a rollback is never refused because ids only     *)
(* grow: whatever is below a region is newer than the region, and the      *)
(* scopes around a build are older than the region it builds               *)
(* (RegionIdsOrdered).                                                     *)
(***************************************************************************)
EXTENDS RuleLifetimes, AttributeGraph_proofs

RegionIdsOrdered ==
    /\ \A s \in subgraphs : s < next_subgraph_id
    /\ \A c \in SubgraphId : parent[c] # None => parent[c] < c
    /\ \A i \in DOMAIN closures : closures[i].fn = "build" =>
          \A j \in 1..(i - 1) : closures[j].id < closures[i].id

\* What a removal in progress may rely on.  A survivor is Dirty as soon as one of the
\* nodes it depended on has gone.
RemovalOK ==
    removal # None =>
        /\ removal.subtree \cap Range(construction_subgraphs) = {}
        /\ \A t \in removal.subtree : children[t] \subseteq removal.subtree
        /\ removal.todo = UNION {nodes[s] : s \in removal.subtree}
        /\ \A n \in removal.dirtied :
              /\ n \in Live /\ n \notin removal.todo
              /\ state[n] = "Dirty" \/ active_dependencies[n] \cap removal.todo # {}

RegionInv ==
    SubgraphTypeOK /\ OwnershipMirror /\ OpenScopesExist /\ RegionIdsOrdered /\ RemovalOK

\* Every step of the regions is one of the graph, or none.
LEMMA SubgraphNextIsNext ==
    ASSUME [SubgraphNext]_allVars
    PROVE  [Next]_vars
<1>1. CASE UNCHANGED allVars
  BY <1>1 DEF allVars
<1>2. CASE CreateNode
  BY <1>2 DEF CreateNode, Next, Request
<1>3. CASE RemoveOneNode
  BY <1>3 DEF RemoveOneNode, Next, Request
<1>4. CASE UseGraph
  BY <1>4 DEF UseGraph, Next, Request
<1>5. CASE RemovalRemovesNode
  <2>1. PICK n \in removal.todo : RemoveNode(n)
    BY <1>5 DEF RemovalRemovesNode
  <2>2. n \in NodeId
    BY <2>1 DEF RemoveNode, Live
  <2> QED BY <2>1, <2>2 DEF Next, Request
<1>6. ASSUME UNCHANGED vars PROVE [Next]_vars
  BY <1>6
<1> QED
  BY <1>1, <1>2, <1>3, <1>4, <1>5, <1>6
     DEF SubgraphNext, CreateSubgraph, WithSubgraph, BuildSubgraph, RemoveSubgraph,
         RemovalEnds, CloseScope

-----------------------------------------------------------------------------
(***************************************************************************)
(* Nodes.                                                                  *)
(***************************************************************************)
LEMMA CreateNodeKeepsRegions ==
    ASSUME EdgeInv, RegionInv, TypeOK', CreateNode
    PROVE  RegionInv'
<1> DEFINE n == next_node_id
<1>1. n \in NodeId /\ removal = None
  BY DEF CreateNode, Quiet, AddSource, AddDerived
<1>2. UNCHANGED <<subgraphs, parent, children, next_subgraph_id, construction_subgraphs,
                  closures, removal>>
  BY DEF CreateNode, regionVars, scopeVars
<1>3. n \notin Live /\ n \in Live' /\ Live \subseteq Live'
  <2>1. kind \in [NodeId -> {"Absent", "Source", "Derived"}]
    BY DEF RegionInv, SubgraphTypeOK, TypeOK, GraphTypeOK
  <2>2. kind[n] = "Absent"
    BY <1>1, NodeIdAssumption DEF EdgeInv, NextIdUnused
  <2>3. kind' = [kind EXCEPT ![n] = "Source"] \/ kind' = [kind EXCEPT ![n] = "Derived"]
    BY DEF CreateNode, AddSource, AddDerived
  <2> QED BY <1>1, <2>1, <2>2, <2>3 DEF Live
<1>4. subgraph[n] = None
  BY <1>1, <1>3 DEF RegionInv, OwnershipMirror
<1>5. CurrentSubgraph = None \/ (CurrentSubgraph \in subgraphs /\ CurrentSubgraph \in SubgraphId)
  <2>1. construction_subgraphs \in Seq(SubgraphId)
    BY DEF RegionInv, SubgraphTypeOK
  <2>2. CASE construction_subgraphs # <<>>
    <3>1. Len(construction_subgraphs) \in DOMAIN construction_subgraphs
      BY <2>1, <2>2
    <3> QED BY <2>1, <2>2, <3>1 DEF CurrentSubgraph, Last, RegionInv, OpenScopesExist,
                                     SubgraphTypeOK
  <2> QED BY <2>2 DEF CurrentSubgraph
<1>6. /\ subgraph' = [subgraph EXCEPT ![n] = CurrentSubgraph]
      /\ \A s \in SubgraphId : nodes'[s] = IF s = CurrentSubgraph THEN nodes[s] \cup {n}
                                                                  ELSE nodes[s]
      /\ nodes' \in [SubgraphId -> SUBSET NodeId]
  BY <1>1 DEF CreateNode, RegisterNode, RegionInv, SubgraphTypeOK
<1>7. \A m \in NodeId : subgraph'[m] = IF m = n THEN CurrentSubgraph ELSE subgraph[m]
  BY <1>6 DEF RegionInv, SubgraphTypeOK
<1> HIDE DEF n
<1>8. SubgraphTypeOK'
  BY <1>2, <1>5, <1>6 DEF RegionInv, SubgraphTypeOK
<1>9. OwnershipMirror'
  <2>1. \A s \in SubgraphId, m \in NodeId : m \in nodes'[s] <=> subgraph'[m] = s
    <3> SUFFICES ASSUME NEW s \in SubgraphId, NEW m \in NodeId
                 PROVE  m \in nodes'[s] <=> subgraph'[m] = s
      OBVIOUS
    <3>1. m \in nodes[s] <=> subgraph[m] = s
      BY DEF RegionInv, OwnershipMirror
    <3>2. m \in nodes'[s] <=> (m \in nodes[s] \/ (m = n /\ s = CurrentSubgraph))
      BY <1>6
    <3>3. s # None
      BY SubgraphAssumption
    <3>4. CASE m = n
      BY <1>4, <1>7, <3>1, <3>2, <3>3, <3>4
    <3>5. CASE m # n
      BY <1>7, <3>1, <3>2, <3>5
    <3> QED BY <3>4, <3>5
  <2>2. \A m \in NodeId : subgraph'[m] # None => m \in Live' /\ subgraph'[m] \in subgraphs'
    BY <1>2, <1>3, <1>5, <1>7 DEF RegionInv, OwnershipMirror
  <2> QED BY <1>2, <2>1, <2>2 DEF RegionInv, OwnershipMirror
<1> QED
  BY <1>1, <1>2, <1>8, <1>9
     DEF RegionInv, OpenScopesExist, RegionIdsOrdered, RemovalOK

\* A node is taken out of the map and out of its region.
LEMMA ForgetNodeKeepsOwnership ==
    ASSUME RegionInv, NEW n \in NodeId, RemoveNode(n), ForgetNode(n), UNCHANGED regionVars
    PROVE  /\ OwnershipMirror'
           /\ nodes' \in [SubgraphId -> SUBSET NodeId]
           /\ subgraph' \in [NodeId -> SubgraphId \cup {None}]
           /\ \A s \in SubgraphId : nodes'[s] = nodes[s] \ {n}
<1>1. Live' = Live \ {n}
  BY DEF RemoveNode, Live, RegionInv, SubgraphTypeOK, TypeOK, GraphTypeOK
<1>2. \A m \in NodeId : subgraph'[m] = IF m = n THEN None ELSE subgraph[m]
  BY DEF ForgetNode, RegionInv, SubgraphTypeOK
<1>3. \A s \in SubgraphId : nodes'[s] = nodes[s] \ {n}
  BY DEF ForgetNode, RegionInv, OwnershipMirror
<1>4. /\ nodes' \in [SubgraphId -> SUBSET NodeId]
      /\ subgraph' \in [NodeId -> SubgraphId \cup {None}]
  BY DEF ForgetNode, RegionInv, SubgraphTypeOK
<1>5. \A s \in SubgraphId, m \in NodeId : m \in nodes'[s] <=> subgraph'[m] = s
  BY <1>2, <1>3, SubgraphAssumption DEF RegionInv, OwnershipMirror
<1>6. \A m \in NodeId : subgraph'[m] # None => m \in Live' /\ subgraph'[m] \in subgraphs'
  BY <1>1, <1>2 DEF RegionInv, OwnershipMirror, regionVars
<1> QED BY <1>3, <1>4, <1>5, <1>6 DEF RegionInv, OwnershipMirror, regionVars

LEMMA RemoveOneNodeKeepsRegions ==
    ASSUME RegionInv, TypeOK', RemoveOneNode
    PROVE  RegionInv'
<1>1. PICK n \in NodeId : RemoveNode(n) /\ ForgetNode(n)
  BY DEF RemoveOneNode
<1>2. removal = None /\ UNCHANGED <<regionVars, construction_subgraphs, closures, removal>>
  BY DEF RemoveOneNode, Quiet, scopeVars
<1>3. /\ OwnershipMirror'
      /\ nodes' \in [SubgraphId -> SUBSET NodeId]
      /\ subgraph' \in [NodeId -> SubgraphId \cup {None}]
  BY <1>1, <1>2, ForgetNodeKeepsOwnership
<1> QED
  BY <1>2, <1>3
     DEF RegionInv, SubgraphTypeOK, OpenScopesExist, RegionIdsOrdered, RemovalOK, regionVars

LEMMA RemovalRemovesNodeKeepsRegions ==
    ASSUME EdgeInv, RegionInv, TypeOK', RemovalRemovesNode
    PROVE  RegionInv'
<1>1. PICK n \in removal.todo : /\ RemoveNode(n) /\ ForgetNode(n)
                                /\ removal' = [removal EXCEPT !.todo = @ \ {n}]
  BY DEF RemovalRemovesNode
<1>2. /\ removal # None /\ removal \in Removal
      /\ UNCHANGED <<regionVars, construction_subgraphs, closures>>
  BY DEF RemovalRemovesNode, RegionInv, SubgraphTypeOK, scopeVars
<1>3. n \in NodeId
  BY <1>1 DEF RemoveNode, Live
<1>4. /\ removal' \in Removal /\ removal'.subtree = removal.subtree
      /\ removal'.dirtied = removal.dirtied /\ removal'.todo = removal.todo \ {n}
  BY <1>1, <1>2 DEF Removal
<1>5. /\ OwnershipMirror'
      /\ nodes' \in [SubgraphId -> SUBSET NodeId]
      /\ subgraph' \in [NodeId -> SubgraphId \cup {None}]
      /\ \A s \in SubgraphId : nodes'[s] = nodes[s] \ {n}
  BY <1>1, <1>2, <1>3, ForgetNodeKeepsOwnership
<1>6. removal'.todo = UNION {nodes'[s] : s \in removal'.subtree}
  <2>1. removal.todo = UNION {nodes[s] : s \in removal.subtree}
    BY <1>2 DEF RegionInv, RemovalOK
  <2>2. removal.subtree \subseteq SubgraphId
    BY <1>2 DEF Removal
  <2> QED BY <1>4, <1>5, <2>1, <2>2
<1>7. ASSUME NEW m \in removal.dirtied
      PROVE  /\ m \in Live' /\ m \notin removal'.todo
             /\ state'[m] = "Dirty" \/ active_dependencies'[m] \cap removal'.todo # {}
  <2>1. /\ m \in Live /\ m \notin removal.todo /\ m # n /\ m \in NodeId
        /\ state[m] = "Dirty" \/ active_dependencies[m] \cap removal.todo # {}
    BY <1>1, <1>2, <1>7 DEF RegionInv, RemovalOK, Live
  <2>2. m \in Live' /\ active_dependencies'[m] = active_dependencies[m] \ {n}
    BY <1>1, <1>3, <2>1
       DEF RemoveNode, Live, RegionInv, SubgraphTypeOK, TypeOK, GraphTypeOK, EdgeInv, EdgesMirror
  <2>3. state'[m] = StatesAfterMarkChanged(dependents, state, n)[m]
    BY <1>1, <1>3, <2>1 DEF RemoveNode, StatesAfterMarkChanged
  <2>4. state[m] = "Dirty" \/ m \in dependents[n] => state'[m] = "Dirty"
    BY <2>1, <2>3 DEF StatesAfterMarkChanged
  <2>5. n \in active_dependencies[m] => m \in dependents[n]
    BY <1>3, <2>1 DEF EdgeInv, EdgesMirror
  <2>6. m \notin removal'.todo
    BY <1>4, <2>1
  <2>7. n \notin active_dependencies[m] =>
          active_dependencies'[m] \cap removal'.todo = active_dependencies[m] \cap removal.todo
    BY <1>4, <2>2
  <2> QED BY <2>1, <2>2, <2>4, <2>5, <2>6, <2>7
<1>8. RemovalOK'
  BY <1>2, <1>4, <1>6, <1>7 DEF RegionInv, RemovalOK, regionVars
<1> QED
  BY <1>2, <1>4, <1>5, <1>8
     DEF RegionInv, SubgraphTypeOK, OpenScopesExist, RegionIdsOrdered, regionVars

\* Nothing else makes a node or takes one away.
LEMMA UseGraphKeepsRegions ==
    ASSUME RegionInv, TypeOK', UseGraph
    PROVE  RegionInv'
<1>1. kind' = kind
  BY DEF UseGraph, SetSourceValue, MarkChanged, ReadValue, UpdateNode, Continue,
         ValidateDependency, DependencyValidated, ValidationRecomputes, ValidationSettles,
         ValidationFails, RuleReads, RuleObserves, RuleFails, RulePanics, RuleUnwinds,
         RuleRefused, RuleCommits, Abandon, ReturnToCaller, nodeVars, graphVars
<1>2. removal = None /\ UNCHANGED subgraphVars
  BY DEF UseGraph
<1> QED
  BY <1>1, <1>2
     DEF RegionInv, SubgraphTypeOK, OwnershipMirror, OpenScopesExist, RegionIdsOrdered, RemovalOK,
         Live, subgraphVars, regionVars, memberVars, scopeVars

-----------------------------------------------------------------------------
(***************************************************************************)
(* New regions and construction scopes.                                    *)
(***************************************************************************)
LEMMA NewSubgraphKeepsForest ==
    ASSUME RegionInv, NEW p \in subgraphs \cup {None}, NewSubgraph(p), UNCHANGED <<kind, memberVars>>
    PROVE  /\ next_subgraph_id \in SubgraphId
           /\ next_subgraph_id \in subgraphs'
           /\ subgraphs' \subseteq SubgraphId
           /\ subgraphs \subseteq subgraphs'
           /\ parent' \in [SubgraphId -> SubgraphId \cup {None}]
           /\ children' \in [SubgraphId -> SUBSET SubgraphId]
           /\ next_subgraph_id' \in Nat
           /\ OwnershipMirror'
           /\ \A s \in subgraphs' : s < next_subgraph_id'
           /\ \A c \in SubgraphId : parent'[c] # None => parent'[c] < c
<1> DEFINE x == next_subgraph_id
<1>1. /\ x \in SubgraphId /\ x \in Nat /\ None \notin SubgraphId /\ SubgraphId \subseteq Nat
      /\ subgraphs' = subgraphs \cup {x} /\ subgraphs \subseteq SubgraphId
      /\ next_subgraph_id' = x + 1
  BY SubgraphAssumption DEF NewSubgraph, RegionInv, SubgraphTypeOK
<1>2. x \notin subgraphs /\ \A s \in subgraphs : s < x
  BY <1>1 DEF RegionInv, RegionIdsOrdered
<1>3. parent[x] = None /\ children[x] = {}
  <2>1. parent[x] = None
    BY <1>1, <1>2 DEF RegionInv, OwnershipMirror
  <2>2. ASSUME NEW c \in children[x] PROVE FALSE
    BY <1>1, <1>2 DEF RegionInv, SubgraphTypeOK, OwnershipMirror
  <2> QED BY <2>1, <2>2
<1>4. /\ parent' = [parent EXCEPT ![x] = p]
      /\ parent \in [SubgraphId -> SubgraphId \cup {None}]
      /\ children \in [SubgraphId -> SUBSET SubgraphId]
      /\ p \in SubgraphId \cup {None}
  BY <1>1 DEF NewSubgraph, RegionInv, SubgraphTypeOK
<1>5. /\ \A s \in SubgraphId : children'[s] = IF s = p THEN children[s] \cup {x} ELSE children[s]
      /\ children' \in [SubgraphId -> SUBSET SubgraphId]
  BY <1>1, <1>4 DEF NewSubgraph
<1>6. /\ \A c \in SubgraphId : parent'[c] = IF c = x THEN p ELSE parent[c]
      /\ parent' \in [SubgraphId -> SubgraphId \cup {None}]
  BY <1>4
<1> HIDE DEF x
<1>7. ASSUME NEW s \in SubgraphId, NEW c \in SubgraphId
      PROVE  c \in children'[s] <=> parent'[c] = s
  <2>1. c \in children[s] <=> parent[c] = s
    BY DEF RegionInv, OwnershipMirror
  <2>2. CASE c = x
    BY <1>1, <1>3, <1>5, <1>6, <2>1, <2>2
  <2>3. CASE c # x
    BY <1>5, <1>6, <2>1, <2>3
  <2> QED BY <2>2, <2>3
<1>8. ASSUME NEW c \in SubgraphId, parent'[c] # None
      PROVE  {c, parent'[c]} \subseteq subgraphs' /\ parent'[c] < c
  <2>1. CASE c = x
    BY <1>1, <1>2, <1>6, <1>8, <2>1
  <2>2. CASE c # x
    BY <1>1, <1>6, <1>8, <2>2 DEF RegionInv, OwnershipMirror, RegionIdsOrdered
  <2> QED BY <2>1, <2>2
<1>9. OwnershipMirror'
  BY <1>1, <1>7, <1>8 DEF OwnershipMirror, RegionInv, memberVars, Live
<1>10. \A s \in subgraphs' : s < next_subgraph_id'
  BY <1>1, <1>2
<1> QED
  BY <1>1, <1>5, <1>6, <1>8, <1>9, <1>10 DEF x

LEMMA CreateSubgraphKeepsRegions ==
    ASSUME RegionInv, TypeOK', NEW p \in subgraphs \cup {None}, CreateSubgraph(p)
    PROVE  RegionInv'
<1>1. /\ NewSubgraph(p) /\ UNCHANGED <<kind, memberVars>>
      /\ removal = None /\ UNCHANGED <<memberVars, scopeVars, removal>>
  BY DEF CreateSubgraph, Quiet, vars, graphVars, nodeVars
<1> QED
  BY <1>1, NewSubgraphKeepsForest
     DEF RegionInv, SubgraphTypeOK, OpenScopesExist, RegionIdsOrdered, RemovalOK,
         memberVars, scopeVars

\* The scopes and the closures agree: the same ids at the same places.
LEMMA ScopesOfClosures ==
    ASSUME construction_subgraphs \in Seq(SubgraphId), closures \in Seq(Closure)
    PROVE  construction_subgraphs = [i \in DOMAIN closures |-> closures[i].id]
             <=> /\ Len(construction_subgraphs) = Len(closures)
                 /\ \A i \in 1..Len(closures) : construction_subgraphs[i] = closures[i].id
<1>1. /\ construction_subgraphs \in [1..Len(construction_subgraphs) -> SubgraphId]
      /\ Len(construction_subgraphs) \in Nat
      /\ DOMAIN closures = 1..Len(closures) /\ Len(closures) \in Nat
  OBVIOUS
<1>2. ASSUME construction_subgraphs = [i \in DOMAIN closures |-> closures[i].id]
      PROVE  /\ Len(construction_subgraphs) = Len(closures)
             /\ \A i \in 1..Len(closures) : construction_subgraphs[i] = closures[i].id
  <2>1. 1..Len(construction_subgraphs) = 1..Len(closures)
    BY <1>1, <1>2
  <2> QED BY <1>1, <1>2, <2>1
<1>3. ASSUME Len(construction_subgraphs) = Len(closures),
             \A i \in 1..Len(closures) : construction_subgraphs[i] = closures[i].id
      PROVE  construction_subgraphs = [i \in DOMAIN closures |-> closures[i].id]
  BY <1>1, <1>3
<1> QED BY <1>2, <1>3

\* A scope is opened for a region that is there; for a build it is newer than those
\* that are open.
LEMMA OpenScopeKeepsScopes ==
    ASSUME RegionInv, NEW fn \in {"with", "build"}, NEW id \in SubgraphId, OpenScope(fn, id),
           id \in subgraphs', subgraphs \subseteq subgraphs',
           fn = "build" => \A s \in subgraphs : s < id
    PROVE  /\ construction_subgraphs' \in Seq(SubgraphId)
           /\ closures' \in Seq(Closure)
           /\ OpenScopesExist'
           /\ \A i \in DOMAIN closures' : closures'[i].fn = "build" =>
                 \A j \in 1..(i - 1) : closures'[j].id < closures'[i].id
<1> DEFINE c == [fn |-> fn, id |-> id]
           k == Len(closures)
<1>1. /\ construction_subgraphs \in Seq(SubgraphId) /\ closures \in Seq(Closure)
      /\ c \in Closure /\ c.fn = fn /\ c.id = id
  BY DEF RegionInv, SubgraphTypeOK, Closure
<1>2. /\ Len(construction_subgraphs) = k
      /\ \A i \in 1..k : construction_subgraphs[i] = closures[i].id
  BY <1>1, ScopesOfClosures DEF RegionInv, OpenScopesExist
<1>3. \A i \in 1..k : closures[i].id \in subgraphs
  BY <1>1, <1>2 DEF RegionInv, OpenScopesExist
<1>4. /\ closures' \in Seq(Closure) /\ Len(closures') = k + 1 /\ k \in Nat
      /\ \A i \in 1..k : closures'[i] = closures[i]
      /\ closures'[k + 1] = c
  BY <1>1, AppendElements DEF OpenScope
<1>5. /\ construction_subgraphs' \in Seq(SubgraphId) /\ Len(construction_subgraphs') = k + 1
      /\ \A i \in 1..k : construction_subgraphs'[i] = construction_subgraphs[i]
      /\ construction_subgraphs'[k + 1] = id
  BY <1>1, <1>2, AppendElements DEF OpenScope
<1> HIDE DEF c, k
<1>6. DOMAIN closures' = 1..(k + 1) /\ DOMAIN construction_subgraphs' = 1..(k + 1)
  BY <1>4, <1>5
<1>7. \A i \in 1..(k + 1) : i \in 1..k \/ i = k + 1
  BY <1>4
<1>8. \A i \in 1..(k + 1) : construction_subgraphs'[i] = closures'[i].id
  BY <1>1, <1>2, <1>4, <1>5, <1>7
<1>9. (construction_subgraphs = [i \in DOMAIN closures |-> closures[i].id])'
  <2>1. construction_subgraphs' \in [1..(k + 1) -> SubgraphId]
    BY <1>5
  <2> QED BY <1>6, <1>8, <2>1
<1>10. \A i \in 1..(k + 1) : construction_subgraphs'[i] \in subgraphs'
  BY <1>2, <1>3, <1>5, <1>7
<1>11. ASSUME NEW i \in 1..(k + 1), closures'[i].fn = "build", NEW j \in 1..(i - 1)
       PROVE  closures'[j].id < closures'[i].id
  <2>1. j \in 1..k
    BY <1>4
  <2>2. CASE i \in 1..k
    <3>1. DOMAIN closures = 1..k
      BY <1>1 DEF k
    <3>2. closures[i].fn = "build"
      BY <1>4, <1>11, <2>2
    <3>3. closures[j].id < closures[i].id
      BY <2>2, <3>1, <3>2 DEF RegionInv, RegionIdsOrdered
    <3> QED BY <1>4, <2>1, <2>2, <3>3
  <2>3. CASE i = k + 1
    <3>1. fn = "build"
      BY <1>1, <1>4, <1>11, <2>3
    <3>2. closures[j].id \in subgraphs
      BY <1>3, <2>1
    <3> QED BY <1>1, <1>4, <2>1, <2>3, <3>1, <3>2
  <2> QED BY <1>7, <2>2, <2>3
<1> QED BY <1>4, <1>5, <1>6, <1>9, <1>10, <1>11 DEF OpenScopesExist

LEMMA WithSubgraphKeepsRegions ==
    ASSUME RegionInv, TypeOK', NEW id \in subgraphs, WithSubgraph(id)
    PROVE  RegionInv'
<1>1. /\ OpenScope("with", id) /\ removal = None /\ id \in SubgraphId
      /\ UNCHANGED <<kind, regionVars, memberVars, removal>>
  BY DEF WithSubgraph, Quiet, vars, graphVars, nodeVars, RegionInv, SubgraphTypeOK
<1>2. /\ construction_subgraphs' \in Seq(SubgraphId)
      /\ closures' \in Seq(Closure)
      /\ OpenScopesExist'
      /\ \A i \in DOMAIN closures' : closures'[i].fn = "build" =>
            \A j \in 1..(i - 1) : closures'[j].id < closures'[i].id
  BY <1>1, OpenScopeKeepsScopes DEF regionVars
<1> QED
  BY <1>1, <1>2
     DEF RegionInv, SubgraphTypeOK, OwnershipMirror, RegionIdsOrdered, RemovalOK, Live,
         regionVars, memberVars

LEMMA BuildSubgraphKeepsRegions ==
    ASSUME RegionInv, TypeOK', NEW p \in subgraphs \cup {None}, BuildSubgraph(p)
    PROVE  RegionInv'
<1>1. /\ NewSubgraph(p) /\ OpenScope("build", next_subgraph_id) /\ removal = None
      /\ UNCHANGED <<kind, memberVars>> /\ UNCHANGED removal
  BY DEF BuildSubgraph, Quiet, vars, graphVars, nodeVars
<1>2. /\ next_subgraph_id \in SubgraphId
      /\ next_subgraph_id \in subgraphs'
      /\ subgraphs' \subseteq SubgraphId
      /\ subgraphs \subseteq subgraphs'
      /\ parent' \in [SubgraphId -> SubgraphId \cup {None}]
      /\ children' \in [SubgraphId -> SUBSET SubgraphId]
      /\ next_subgraph_id' \in Nat
      /\ OwnershipMirror'
      /\ \A s \in subgraphs' : s < next_subgraph_id'
      /\ \A c \in SubgraphId : parent'[c] # None => parent'[c] < c
  BY <1>1, NewSubgraphKeepsForest
<1>3. \A s \in subgraphs : s < next_subgraph_id
  BY DEF RegionInv, RegionIdsOrdered
<1>4. /\ construction_subgraphs' \in Seq(SubgraphId)
      /\ closures' \in Seq(Closure)
      /\ OpenScopesExist'
      /\ \A i \in DOMAIN closures' : closures'[i].fn = "build" =>
            \A j \in 1..(i - 1) : closures'[j].id < closures'[i].id
  BY <1>1, <1>2, <1>3, OpenScopeKeepsScopes
<1> QED
  BY <1>1, <1>2, <1>4
     DEF RegionInv, SubgraphTypeOK, RegionIdsOrdered, RemovalOK, memberVars

-----------------------------------------------------------------------------
(***************************************************************************)
(* remove_subgraph and the end of a closure.                               *)
(***************************************************************************)
LEMMA SubtreeClosed ==
    ASSUME NEW id \in SubgraphId, children \in [SubgraphId -> SUBSET SubgraphId]
    PROVE  /\ id \in Subtree(id) /\ Subtree(id) \subseteq SubgraphId
           /\ \A t \in Subtree(id) : children[t] \subseteq Subtree(id)
<1>1. id \in Subtree(id) /\ Subtree(id) \subseteq SubgraphId
  BY DEF Subtree
<1>2. ASSUME NEW t \in Subtree(id), NEW c \in children[t] PROVE c \in Subtree(id)
  <2>1. t \in SubgraphId /\ c \in SubgraphId
    BY <1>1, <1>2
  <2>2. ASSUME NEW K \in SUBSET SubgraphId, id \in K, \A u \in K : children[u] \subseteq K
        PROVE  c \in K
    <3>1. t \in K
      BY <2>2 DEF Subtree
    <3> QED BY <1>2, <2>2, <3>1
  <2> QED BY <2>1, <2>2 DEF Subtree
<1> QED BY <1>1, <1>2

\* Below a region there are only newer ones.
LEMMA SubtreeIsNewer ==
    ASSUME RegionInv, NEW id \in SubgraphId
    PROVE  \A s \in Subtree(id) : id <= s
<1> DEFINE K == {s \in SubgraphId : id <= s}
<1>1. SubgraphId \subseteq Nat /\ None \notin SubgraphId
  BY SubgraphAssumption
<1>2. id \in K
  BY <1>1
<1>3. ASSUME NEW t \in K, NEW c \in children[t] PROVE c \in K
  <2>1. c \in SubgraphId /\ parent[c] = t
    BY <1>3 DEF RegionInv, SubgraphTypeOK, OwnershipMirror
  <2>2. t < c
    BY <1>1, <2>1 DEF RegionInv, RegionIdsOrdered
  <2> QED BY <1>1, <2>1, <2>2
<1>4. K \in SUBSET SubgraphId
  OBVIOUS
<1> HIDE DEF K
<1>5. Subtree(id) \subseteq K
  BY <1>2, <1>3, <1>4 DEF Subtree
<1> QED BY <1>5 DEF K

\* What remove_subgraph begins with.
LEMMA RemovalBegins ==
    ASSUME EdgeInv, RegionInv, NEW id \in SubgraphId, NEW scopes, ~InUse(id, scopes)
    PROVE  /\ RemovalOf(id) \in Removal
           /\ RemovalOf(id).subtree \cap Range(scopes) = {}
           /\ \A t \in RemovalOf(id).subtree : children[t] \subseteq RemovalOf(id).subtree
           /\ RemovalOf(id).todo = UNION {nodes[s] : s \in RemovalOf(id).subtree}
           /\ \A n \in RemovalOf(id).dirtied :
                 /\ n \in Live /\ n \notin RemovalOf(id).todo
                 /\ active_dependencies[n] \cap RemovalOf(id).todo # {}
<1> DEFINE T == Subtree(id)
           M == UNION {nodes[s] : s \in T}
           D == (UNION {dependents[n] : n \in M}) \ M
<1>1. RemovalOf(id) = [subtree |-> T, todo |-> M, dirtied |-> D]
  BY DEF RemovalOf
<1>2. /\ children \in [SubgraphId -> SUBSET SubgraphId] /\ nodes \in [SubgraphId -> SUBSET NodeId]
      /\ dependents \in [NodeId -> SUBSET NodeId]
  BY DEF RegionInv, SubgraphTypeOK, TypeOK, GraphTypeOK
<1>3. T \subseteq SubgraphId /\ \A t \in T : children[t] \subseteq T
  BY <1>2, SubtreeClosed
<1>4. T \cap Range(scopes) = {}
  BY DEF InUse
<1> HIDE DEF T
<1>5. M \subseteq NodeId
  BY <1>2, <1>3
<1>6. ASSUME NEW n \in D
      PROVE  n \in NodeId /\ n \in Live /\ n \notin M /\ active_dependencies[n] \cap M # {}
  <2>1. PICK m \in M : n \in dependents[m]
    BY <1>6
  <2>2. m \in NodeId /\ n \in NodeId
    BY <1>2, <1>5, <2>1
  <2>3. m \in active_dependencies[n]
    BY <2>1, <2>2 DEF EdgeInv, EdgesMirror
  <2>4. n \in Live
    BY <2>2, <2>3 DEF EdgeInv, EdgesMirror, Live
  <2> QED BY <1>6, <2>1, <2>2, <2>3, <2>4
<1> HIDE DEF D
<1>7. D \subseteq NodeId
  BY <1>6
<1>8. [subtree |-> T, todo |-> M, dirtied |-> D] \in Removal
  BY <1>3, <1>5, <1>7 DEF Removal
<1> QED BY <1>1, <1>3, <1>4, <1>6, <1>8

LEMMA RemoveSubgraphKeepsRegions ==
    ASSUME EdgeInv, RegionInv, TypeOK', NEW id \in subgraphs, RemoveSubgraph(id)
    PROVE  RegionInv'
<1>1. id \in SubgraphId
  BY DEF RegionInv, SubgraphTypeOK
<1>2. /\ removal' = RemovalOf(id) /\ ~InUse(id, construction_subgraphs)
      /\ UNCHANGED <<kind, state, active_dependencies>>
      /\ UNCHANGED <<regionVars, memberVars, scopeVars>>
  BY DEF RemoveSubgraph, vars, graphVars, nodeVars
<1>3. /\ removal' \in Removal
      /\ removal'.subtree \cap Range(construction_subgraphs) = {}
      /\ \A t \in removal'.subtree : children[t] \subseteq removal'.subtree
      /\ removal'.todo = UNION {nodes[s] : s \in removal'.subtree}
      /\ \A n \in removal'.dirtied :
            /\ n \in Live /\ n \notin removal'.todo
            /\ active_dependencies[n] \cap removal'.todo # {}
  BY <1>1, <1>2, RemovalBegins
<1>4. RemovalOK'
  BY <1>2, <1>3 DEF RemovalOK, Live, regionVars, memberVars, scopeVars
<1> QED
  BY <1>2, <1>3, <1>4
     DEF RegionInv, SubgraphTypeOK, OwnershipMirror, OpenScopesExist, RegionIdsOrdered, Live,
         regionVars, memberVars, scopeVars

\* The innermost scope goes with its closure.
LEMMA CloseScopeKeepsRegions ==
    ASSUME EdgeInv, RegionInv, TypeOK', NEW outcome, CloseScope(outcome)
    PROVE  RegionInv'
<1> DEFINE k == Len(closures) - 1
           id == Last(closures).id
<1>1. /\ construction_subgraphs \in Seq(SubgraphId) /\ closures \in Seq(Closure)
      /\ closures # <<>>
      /\ construction_subgraphs' = Front(construction_subgraphs) /\ closures' = Front(closures)
      /\ UNCHANGED <<kind, state, active_dependencies>> /\ UNCHANGED <<regionVars, memberVars>>
      /\ \/ removal' = RemovalOf(id) /\ ~InUse(id, construction_subgraphs')
         \/ removal' = None
  BY DEF CloseScope, RestoredScopes, RegionInv, SubgraphTypeOK, vars, graphVars, nodeVars
<1>2. id \in SubgraphId
  BY <1>1, LastType DEF Closure
<1>3. /\ Len(construction_subgraphs) = Len(closures)
      /\ \A i \in 1..Len(closures) : construction_subgraphs[i] = closures[i].id
  BY <1>1, ScopesOfClosures DEF RegionInv, OpenScopesExist
<1>4. construction_subgraphs # <<>> /\ k \in Nat
  BY <1>1, <1>3
<1>5. /\ closures' \in Seq(Closure) /\ Len(closures') = k
      /\ \A i \in 1..k : closures'[i] = closures[i]
  BY <1>1, FrontElements, FrontType
<1>6. /\ construction_subgraphs' \in Seq(SubgraphId) /\ Len(construction_subgraphs') = k
      /\ \A i \in 1..k : construction_subgraphs'[i] = construction_subgraphs[i]
  BY <1>1, <1>3, <1>4, FrontElements, FrontType
<1>7. /\ DOMAIN closures' = 1..k /\ DOMAIN construction_subgraphs' = 1..k
      /\ DOMAIN closures = 1..(k + 1) /\ DOMAIN construction_subgraphs = 1..(k + 1)
  BY <1>1, <1>3, <1>4, <1>5, <1>6
<1> HIDE DEF id
<1>8. /\ removal' \in Removal \cup {None}
      /\ removal' # None =>
            /\ removal'.subtree \cap Range(construction_subgraphs') = {}
            /\ \A t \in removal'.subtree : children[t] \subseteq removal'.subtree
            /\ removal'.todo = UNION {nodes[s] : s \in removal'.subtree}
            /\ \A n \in removal'.dirtied :
                  /\ n \in Live /\ n \notin removal'.todo
                  /\ active_dependencies[n] \cap removal'.todo # {}
  BY <1>1, <1>2, RemovalBegins
<1>9. RemovalOK'
  BY <1>1, <1>8 DEF RemovalOK, Live, regionVars, memberVars
<1> HIDE DEF k
<1>10. OpenScopesExist'
  <2>1. construction_subgraphs' \in [1..k -> SubgraphId]
    BY <1>6
  <2>2. \A i \in 1..k : construction_subgraphs'[i] = closures'[i].id /\ i \in 1..(k + 1)
    BY <1>3, <1>4, <1>5, <1>6 DEF k
  <2>3. (construction_subgraphs = [i \in DOMAIN closures |-> closures[i].id])'
    BY <1>7, <2>1, <2>2
  <2>4. \A i \in 1..k : construction_subgraphs'[i] \in subgraphs'
    BY <1>1, <1>6, <1>7, <2>2 DEF RegionInv, OpenScopesExist, regionVars
  <2> QED BY <1>7, <2>3, <2>4 DEF OpenScopesExist
<1>11. RegionIdsOrdered'
  <2>1. ASSUME NEW i \in 1..k, closures'[i].fn = "build", NEW j \in 1..(i - 1)
        PROVE  closures'[j].id < closures'[i].id
    <3>1. i \in 1..(k + 1) /\ j \in 1..k
      BY <1>4
    <3>2. closures[i].fn = "build"
      BY <1>5, <2>1
    <3>3. closures[j].id < closures[i].id
      BY <1>7, <3>1, <3>2 DEF RegionInv, RegionIdsOrdered
    <3> QED BY <1>5, <3>1, <3>3
  <2> QED BY <1>1, <1>7, <2>1 DEF RegionInv, RegionIdsOrdered, regionVars
<1> QED
  BY <1>1, <1>5, <1>6, <1>8, <1>9, <1>10, <1>11
     DEF RegionInv, SubgraphTypeOK, OwnershipMirror, Live, regionVars, memberVars

LEMMA RemovalEndsKeepsRegions ==
    ASSUME RegionInv, TypeOK', RemovalEnds
    PROVE  RegionInv'
<1> DEFINE T == removal.subtree
<1>1. /\ removal # None /\ removal.todo = {} /\ removal' = None
      /\ subgraphs' = subgraphs \ T
      /\ parent' = [s \in SubgraphId |-> IF s \in T THEN None ELSE parent[s]]
      /\ children' = [s \in SubgraphId |-> IF s \in T THEN {}
                                            ELSE children[s] \ {c \in T : parent[c] = s}]
      /\ UNCHANGED <<kind, next_subgraph_id, memberVars, scopeVars>>
  BY DEF RemovalEnds, ForgetChildren, vars, graphVars, nodeVars
<1>2. /\ T \subseteq SubgraphId /\ T \cap Range(construction_subgraphs) = {}
      /\ \A t \in T : children[t] \subseteq T
      /\ UNION {nodes[s] : s \in T} = {}
  BY <1>1 DEF RegionInv, SubgraphTypeOK, Removal, RemovalOK
<1> HIDE DEF T
<1>3. /\ subgraphs \subseteq SubgraphId
      /\ parent \in [SubgraphId -> SubgraphId \cup {None}]
      /\ children \in [SubgraphId -> SUBSET SubgraphId]
      /\ construction_subgraphs \in Seq(SubgraphId)
      /\ None \notin SubgraphId
  BY SubgraphAssumption DEF RegionInv, SubgraphTypeOK
<1>4. /\ parent' \in [SubgraphId -> SubgraphId \cup {None}]
      /\ children' \in [SubgraphId -> SUBSET SubgraphId]
  BY <1>1, <1>3
<1>5. ASSUME NEW s \in SubgraphId, NEW c \in SubgraphId
      PROVE  c \in children'[s] <=> parent'[c] = s
  <2>1. c \in children[s] <=> parent[c] = s
    BY DEF RegionInv, OwnershipMirror
  <2>2. parent'[c] = s <=> c \notin T /\ parent[c] = s
    BY <1>1, <1>3
  <2>3. c \in children'[s] <=> s \notin T /\ c \notin T /\ parent[c] = s
    BY <1>1, <2>1
  <2> QED BY <1>2, <2>1, <2>2, <2>3
<1>6. ASSUME NEW c \in SubgraphId, parent'[c] # None
      PROVE  {c, parent'[c]} \subseteq subgraphs' /\ parent'[c] = parent[c]
  <2>1. c \notin T /\ parent'[c] = parent[c] /\ parent[c] # None
    BY <1>1, <1>6
  <2>2. {c, parent[c]} \subseteq subgraphs /\ parent[c] \in SubgraphId
    BY <1>3, <2>1 DEF RegionInv, OwnershipMirror
  <2>3. parent[c] \notin T
    BY <1>2, <2>1, <2>2 DEF RegionInv, OwnershipMirror
  <2> QED BY <1>1, <2>1, <2>2, <2>3
<1>7. ASSUME NEW n \in NodeId, subgraph[n] # None
      PROVE  n \in Live /\ subgraph[n] \in subgraphs'
  <2>1. n \in Live /\ subgraph[n] \in subgraphs /\ n \in nodes[subgraph[n]]
    BY <1>3, <1>7 DEF RegionInv, OwnershipMirror
  <2>2. subgraph[n] \notin T
    BY <1>2, <2>1
  <2> QED BY <1>1, <2>1, <2>2
<1>8. OwnershipMirror'
  BY <1>1, <1>5, <1>6, <1>7 DEF OwnershipMirror, RegionInv, memberVars, Live
<1>9. OpenScopesExist'
  <2>1. \A i \in DOMAIN construction_subgraphs : construction_subgraphs[i] \notin T
    BY <1>2 DEF Range
  <2> QED BY <1>1, <2>1 DEF RegionInv, OpenScopesExist, scopeVars
<1>10. RegionIdsOrdered'
  BY <1>1, <1>6 DEF RegionInv, RegionIdsOrdered, scopeVars
<1> QED
  BY <1>1, <1>4, <1>8, <1>9, <1>10
     DEF RegionInv, SubgraphTypeOK, RemovalOK, memberVars, scopeVars

-----------------------------------------------------------------------------
(***************************************************************************)
(* The invariant, and what it says.                                        *)
(***************************************************************************)
LEMMA StepKeepsRegions ==
    ASSUME EdgeInv, RegionInv, TypeOK', [SubgraphNext]_allVars
    PROVE  RegionInv'
<1>1. CASE UNCHANGED allVars
  BY <1>1
     DEF RegionInv, SubgraphTypeOK, OwnershipMirror, OpenScopesExist, RegionIdsOrdered, RemovalOK,
         Live, allVars, subgraphVars, regionVars, memberVars, scopeVars, vars, graphVars, nodeVars
<1>2. CASE SubgraphNext
  BY <1>2, CreateNodeKeepsRegions, RemoveOneNodeKeepsRegions, UseGraphKeepsRegions,
     CreateSubgraphKeepsRegions, WithSubgraphKeepsRegions, BuildSubgraphKeepsRegions,
     RemoveSubgraphKeepsRegions, RemovalRemovesNodeKeepsRegions, RemovalEndsKeepsRegions,
     CloseScopeKeepsRegions
     DEF SubgraphNext
<1> QED BY <1>1, <1>2

LEMMA InitRegions ==
    ASSUME SubgraphInit
    PROVE  CallInv /\ EdgeInv /\ RegionInv
<1>1. CallInv /\ EdgeInv
  BY InitCallInv DEF SubgraphInit, Init, EdgeInv, NextIdUnused, EdgesMirror
<1> QED
  BY <1>1, SubgraphAssumption
     DEF SubgraphInit, CallInv, RegionInv, SubgraphTypeOK, OwnershipMirror, OpenScopesExist,
         RegionIdsOrdered, RemovalOK

LEMMA RegionsInvariant == SubgraphSpec => [](CallInv /\ EdgeInv /\ PendingAreEdges /\ RegionInv)
<1> DEFINE Inv == CallInv /\ EdgeInv /\ PendingAreEdges /\ RegionInv
<1>1. ASSUME Inv, [SubgraphNext]_allVars PROVE Inv'
  <2>1. CallInv' /\ EdgeInv' /\ PendingAreEdges'
    BY <1>1, SubgraphNextIsNext, StepKeepsCallInv, StepKeepsEdges, StepKeepsPending
  <2>2. TypeOK'
    BY <2>1 DEF CallInv
  <2> QED BY <1>1, <2>1, <2>2, StepKeepsRegions
<1>2. SubgraphInit => Inv
  BY InitRegions DEF SubgraphInit, Init, PendingAreEdges
<1> QED BY <1>1, <1>2, PTL DEF SubgraphSpec

\* Every variable of the regions keeps its type, the locals of a removal included.
THEOREM RegionTypes == SubgraphSpec => []SubgraphTypeOK
BY RegionsInvariant, PTL DEF RegionInv

\* The two records of ownership agree, and the regions are a forest in which no child
\* and no node outlives its owner, whatever removes nodes and regions in which order.
THEOREM OwnershipAgrees == SubgraphSpec => []OwnershipMirror
BY RegionsInvariant, PTL DEF RegionInv

\* A scope that is open has its region, however the closures inside it ended.
THEOREM ScopesHaveRegions == SubgraphSpec => []OpenScopesExist
BY RegionsInvariant, PTL DEF RegionInv

\* However a build ends, remove_subgraph does not refuse to take its region back: the
\* regions below it are newer than it, the scopes around it are older.
THEOREM BuildsRollBack == SubgraphSpec => []RollbackNeverRefused
<1>1. RegionInv => RollbackNeverRefused
  <2> SUFFICES ASSUME RegionInv, NEW i \in DOMAIN closures, closures[i].fn = "build"
               PROVE  /\ closures[i].id \in subgraphs
                      /\ ~InUse(closures[i].id, SubSeq(construction_subgraphs, 1, i - 1))
    BY DEF RollbackNeverRefused
  <2> DEFINE id == closures[i].id
             below == SubSeq(construction_subgraphs, 1, i - 1)
  <2>1. /\ construction_subgraphs \in Seq(SubgraphId) /\ closures \in Seq(Closure)
        /\ SubgraphId \subseteq Nat
    BY SubgraphAssumption DEF RegionInv, SubgraphTypeOK
  <2>2. /\ Len(construction_subgraphs) = Len(closures)
        /\ \A j \in 1..Len(closures) : construction_subgraphs[j] = closures[j].id
    BY <2>1, ScopesOfClosures DEF RegionInv, OpenScopesExist
  <2>3. i \in 1..Len(closures) /\ Len(closures) \in Nat
    BY <2>1
  <2>4. id \in subgraphs /\ id \in SubgraphId
    BY <2>1, <2>2, <2>3 DEF RegionInv, OpenScopesExist, SubgraphTypeOK
  <2>5. ASSUME NEW j \in DOMAIN below PROVE below[j] \in SubgraphId /\ below[j] < id
    <3>1. j \in 1..(i - 1) /\ below[j] = construction_subgraphs[j]
      BY <2>1, <2>2, <2>3
    <3>2. j \in 1..Len(closures)
      BY <2>3, <3>1
    <3> QED BY <2>1, <2>2, <3>1, <3>2 DEF RegionInv, RegionIdsOrdered
  <2>6. \A s \in Subtree(id) : id <= s
    BY <2>4, SubtreeIsNewer
  <2> HIDE DEF id, below
  <2>7. Subtree(id) \cap Range(below) = {}
    <3> SUFFICES ASSUME NEW j \in DOMAIN below, below[j] \in Subtree(id) PROVE FALSE
      BY DEF Range
    <3>1. id <= below[j] /\ below[j] < id /\ below[j] \in Nat /\ id \in Nat
      BY <2>1, <2>4, <2>5, <2>6
    <3> QED BY <3>1
  <2> QED BY <2>4, <2>7 DEF InUse, id, below
<1> QED BY <1>1, RegionsInvariant, PTL

\* The nodes that remove_subgraph reports as invalidated are there, Dirty, and have no
\* edge into the region, however long the chains through it were.
THEOREM SurvivorsAreDirty == SubgraphSpec => []SurvivorsInvalidated
<1>1. EdgeInv /\ RegionInv => SurvivorsInvalidated
  <2> SUFFICES ASSUME EdgeInv, RegionInv, removal # None, removal.todo = {},
                      NEW n \in removal.dirtied
               PROVE  /\ n \in Live /\ state[n] = "Dirty"
                      /\ active_dependencies[n] \subseteq Live
                      /\ \A d \in active_dependencies[n] : subgraph[d] \notin removal.subtree
    BY DEF SurvivorsInvalidated
  <2>1. n \in Live /\ state[n] = "Dirty"
    BY DEF RegionInv, RemovalOK
  <2>2. active_dependencies[n] \subseteq Live
    BY <2>1 DEF EdgeInv, EdgesMirror, Live
  <2>3. ASSUME NEW d \in active_dependencies[n] PROVE subgraph[d] \notin removal.subtree
    <3>1. d \in NodeId /\ removal.subtree \subseteq SubgraphId
      BY <2>2 DEF Live, RegionInv, SubgraphTypeOK, Removal
    <3>2. \A s \in removal.subtree : nodes[s] = {}
      BY DEF RegionInv, RemovalOK
    <3> QED BY <3>1, <3>2 DEF RegionInv, OwnershipMirror
  <2> QED BY <2>1, <2>2, <2>3
<1> QED BY <1>1, RegionsInvariant, PTL
-----------------------------------------------------------------------------
(***************************************************************************)
(* The rule bodies, for any bodies and regions: who owns them, and when    *)
(* they are destroyed.                                                     *)
(***************************************************************************)
lifeVars == <<allVars, lifetimeVars>>

\* Every step is one of the regions, or leaves the graph and the regions alone.
LEMMA LifetimeNextIsSubgraphNext ==
    ASSUME [LifetimeNext]_lifeVars
    PROVE  [SubgraphNext]_allVars
<1>1. CASE UNCHANGED lifeVars
  BY <1>1 DEF lifeVars
<1>2. CASE InstallRule \/ TakeNode \/ CollectNode
  BY <1>2 DEF InstallRule, TakeNode, CollectNode, SubgraphNext
<1>3. CASE RejectRule \/ ApplicationDropsNode \/ DropRemovedNode \/ DropGraph
  BY <1>3 DEF RejectRule, ApplicationDropsNode, DropRemovedNode, DropGraph
<1>4. CASE UseOrRestructure
  BY <1>4 DEF UseOrRestructure, SubgraphNext
<1> QED BY <1>1, <1>2, <1>3, <1>4 DEF LifetimeNext

-----------------------------------------------------------------------------
(***************************************************************************)
(* Who has what.                                                           *)
(***************************************************************************)
LifetimeTypes ==
    /\ holder \in [Body -> Holder]
    /\ rule_of \in [Body -> NodeId \cup {None}]
    /\ destroyed \in [Body -> Nat]
    /\ alive \in BOOLEAN

DestroyedWhenDropped ==
    \A b \in Body : destroyed[b] = IF holder[b] = "nobody" THEN 1 ELSE 0

\* The bodies in the map are the rules of its derived nodes, one each; what has left the
\* map is the rule of a node that is not there and will not be again, ids being handed out
\* in order.
RulesInstalled ==
    /\ \A b \in HeldBy("graph") : rule_of[b] \in NodeId /\ kind[rule_of[b]] = "Derived"
    /\ \A b \in Body \ HeldBy("graph") : rule_of[b] \notin Live
    /\ \A b \in Body : rule_of[b] \in NodeId => rule_of[b] < next_node_id
    /\ \A n \in NodeId : kind[n] = "Derived" => \E b \in HeldBy("graph") : rule_of[b] = n
    /\ \A b, c \in HeldBy("graph") : rule_of[b] = rule_of[c] => b = c

LifetimeInv ==
    /\ LifetimeTypes /\ DestroyedWhenDropped
    /\ alive => RulesInstalled
    /\ ~alive => Idle /\ HeldBy("graph") = {}

LEMMA InitLifetimes ==
    ASSUME LifetimeInit
    PROVE  LifetimeInv
<1>1. None \notin NodeId
  BY ConstantsAssumption DEF Handle
<1> QED BY <1>1 DEF LifetimeInit, SubgraphInit, Init, LifetimeInv, LifetimeTypes, Holder,
                     DestroyedWhenDropped, RulesInstalled, HeldBy, Live

\* A descriptor that is not in the map is dropped.
LEMMA DropKeepsLifetimes ==
    ASSUME LifetimeInv, NEW b \in Body, holder[b] \notin {"graph", "nobody"},
           DropDescriptor(b), UNCHANGED <<allVars, rule_of, alive>>
    PROVE  LifetimeInv'
<1>1. /\ holder' = [holder EXCEPT ![b] = "nobody"] /\ destroyed' = [destroyed EXCEPT ![b] = @ + 1]
      /\ holder \in [Body -> Holder] /\ destroyed \in [Body -> Nat]
      /\ UNCHANGED <<rule_of, alive, kind, next_node_id, pending_edges, call>>
  BY DEF DropDescriptor, LifetimeInv, LifetimeTypes, allVars, vars, graphVars, callVars
<1>2. HeldBy("graph")' = HeldBy("graph") /\ Live' = Live
  BY <1>1 DEF HeldBy, Live
<1>3. LifetimeTypes'
  BY <1>1 DEF LifetimeInv, LifetimeTypes, Holder
<1>4. DestroyedWhenDropped'
  BY <1>1 DEF LifetimeInv, DestroyedWhenDropped
<1>6. alive' => RulesInstalled'
  BY <1>1, <1>2 DEF LifetimeInv, RulesInstalled
<1> QED BY <1>1, <1>2, <1>3, <1>4, <1>6 DEF LifetimeInv, Idle

\* A node goes out of the map with its rule.
LEMMA MoveKeepsLifetimes ==
    ASSUME CallInv, LifetimeInv, alive, NEW n \in NodeId, RemoveNode(n),
           NEW who \in {"application", "condemned"}, MoveRules(who),
           UNCHANGED <<rule_of, destroyed, alive>>
    PROVE  LifetimeInv'
<1>1. /\ kind' = [kind EXCEPT ![n] = "Absent"] /\ UNCHANGED next_node_id
      /\ kind \in [NodeId -> {"Absent", "Source", "Derived"}]
      /\ holder \in [Body -> Holder] /\ rule_of \in [Body -> NodeId \cup {None}]
  BY DEF RemoveNode, CallInv, TypeOK, GraphTypeOK, LifetimeInv, LifetimeTypes
<1>2. RulesInstalled
  BY DEF LifetimeInv
<1>3. Live' = Live \ {n}
  BY <1>1 DEF Live
<1>4. \A b \in Body : holder'[b] = IF b \in HeldBy("graph") /\ rule_of[b] = n THEN who ELSE holder[b]
  <2>1. ASSUME NEW b \in Body, holder[b] = "graph"
        PROVE  kind'[rule_of[b]] = "Absent" <=> rule_of[b] = n
    <3>1. rule_of[b] \in NodeId /\ kind[rule_of[b]] = "Derived"
      BY <1>2, <2>1 DEF RulesInstalled, HeldBy
    <3> QED BY <1>1, <3>1
  <2> QED BY <2>1 DEF MoveRules, HeldBy
<1>5. holder' \in [Body -> Holder]
  BY <1>1 DEF MoveRules, Holder
<1>6. HeldBy("graph")' = {b \in HeldBy("graph") : rule_of[b] # n}
  BY <1>4 DEF HeldBy
<1>7. LifetimeTypes'
  BY <1>5 DEF LifetimeInv, LifetimeTypes
<1>8. DestroyedWhenDropped'
  BY <1>4 DEF LifetimeInv, DestroyedWhenDropped, HeldBy
<1>9. RulesInstalled'
  <2>1. \A b \in HeldBy("graph")' : rule_of[b] \in NodeId /\ kind'[rule_of[b]] = "Derived"
    BY <1>1, <1>2, <1>6 DEF RulesInstalled
  <2>2. \A b \in Body \ HeldBy("graph")' : rule_of[b] \notin Live'
    BY <1>2, <1>3, <1>6 DEF RulesInstalled
  <2>3. \A m \in NodeId : kind'[m] = "Derived" => \E b \in HeldBy("graph")' : rule_of[b] = m
    <3> SUFFICES ASSUME NEW m \in NodeId, kind'[m] = "Derived"
                 PROVE  \E b \in HeldBy("graph")' : rule_of[b] = m
      OBVIOUS
    <3>1. m # n /\ kind[m] = "Derived"
      BY <1>1
    <3>2. PICK b \in HeldBy("graph") : rule_of[b] = m
      BY <1>2, <3>1 DEF RulesInstalled
    <3> QED BY <1>6, <3>1, <3>2
  <2>4. \A b \in Body : rule_of[b] \in NodeId => rule_of[b] < next_node_id
    BY <1>2 DEF RulesInstalled
  <2>5. \A b, c \in HeldBy("graph")' : rule_of[b] = rule_of[c] => b = c
    BY <1>2, <1>6 DEF RulesInstalled
  <2>6. rule_of' = rule_of /\ next_node_id' = next_node_id
    BY <1>1
  <2> QED BY <2>1, <2>2, <2>3, <2>4, <2>5, <2>6 DEF RulesInstalled
<1> QED BY <1>7, <1>8, <1>9 DEF LifetimeInv

\* add_source, and add_derived with the next body.
LEMMA InstallKeepsLifetimes ==
    ASSUME CallInv, EdgeInv, LifetimeInv, alive, InstallRule
    PROVE  LifetimeInv'
<1> DEFINE n == next_node_id
<1>1. /\ n \in NodeId /\ next_node_id' = n + 1 /\ NodeId \subseteq Nat
      /\ kind' = [kind EXCEPT ![n] = "Source"] \/ kind' = [kind EXCEPT ![n] = "Derived"]
      /\ UNCHANGED <<destroyed, alive>>
  BY NodeIdAssumption DEF InstallRule, CreateNode, AddSource, AddDerived
<1>2. /\ kind \in [NodeId -> {"Absent", "Source", "Derived"}]
      /\ holder \in [Body -> Holder] /\ rule_of \in [Body -> NodeId \cup {None}]
      /\ RulesInstalled
  BY DEF CallInv, TypeOK, GraphTypeOK, LifetimeInv, LifetimeTypes
<1>3. kind[n] = "Absent" /\ None \notin NodeId
  BY <1>1, ConstantsAssumption DEF EdgeInv, NextIdUnused, Handle
<1>4. \A b \in Body : rule_of[b] # n
  BY <1>1, <1>2 DEF RulesInstalled
<1>5. Live' = Live \cup {n}
  BY <1>1, <1>2 DEF Live
<1>6. CASE kind'[n] = "Source"
  <2>1. UNCHANGED <<holder, rule_of>>
    BY <1>6 DEF InstallRule
  <2>2. HeldBy("graph")' = HeldBy("graph")
    BY <2>1 DEF HeldBy
  <2>3. \A m \in NodeId : m # n => kind'[m] = kind[m]
    BY <1>1, <1>2
  <2>4. RulesInstalled'
    <3>1. \A b \in HeldBy("graph") : rule_of[b] \in NodeId /\ kind'[rule_of[b]] = "Derived"
      BY <1>2, <1>4, <2>3 DEF RulesInstalled, HeldBy
    <3>2. \A b \in Body \ HeldBy("graph") : rule_of[b] \notin Live'
      BY <1>2, <1>4, <1>5 DEF RulesInstalled
    <3>3. ASSUME NEW b \in Body, rule_of[b] \in NodeId PROVE rule_of[b] < next_node_id'
      <4>1. rule_of[b] < n /\ rule_of[b] \in Nat /\ n \in Nat
        BY <1>1, <1>2, <3>3 DEF RulesInstalled
      <4> QED BY <1>1, <4>1
    <3>4. \A m \in NodeId : kind'[m] = "Derived" => \E b \in HeldBy("graph") : rule_of[b] = m
      BY <1>2, <1>6, <2>3 DEF RulesInstalled
    <3> QED BY <1>2, <2>1, <2>2, <3>1, <3>2, <3>3, <3>4 DEF RulesInstalled
  <2> QED BY <1>1, <2>1, <2>4 DEF LifetimeInv, LifetimeTypes, DestroyedWhenDropped
<1>7. CASE kind'[n] # "Source"
  <2>1. PICK b \in NextBody : /\ holder' = [holder EXCEPT ![b] = "graph"]
                              /\ rule_of' = [rule_of EXCEPT ![b] = n]
    BY <1>7 DEF InstallRule
  <2>2. b \in Body /\ holder[b] = "provider"
    BY DEF NextBody, HeldBy
  <2>3. HeldBy("graph")' = HeldBy("graph") \cup {b} /\ b \notin HeldBy("graph")
    BY <1>2, <2>1, <2>2 DEF HeldBy
  <2>4. /\ kind'[n] = "Derived"
        /\ \A m \in NodeId : m # n => kind'[m] = kind[m]
    BY <1>1, <1>2, <1>7
  <2>5. \A c \in Body : rule_of'[c] = IF c = b THEN n ELSE rule_of[c]
    BY <1>2, <2>1
  <2>6. LifetimeTypes'
    BY <1>1, <1>2, <2>1 DEF LifetimeInv, LifetimeTypes, Holder
  <2>7. DestroyedWhenDropped'
    BY <1>1, <1>2, <2>1, <2>2 DEF LifetimeInv, DestroyedWhenDropped
  <2>8. RulesInstalled'
    <3> HIDE DEF n
    <3>1. ASSUME NEW c \in HeldBy("graph")'
          PROVE  rule_of'[c] \in NodeId /\ kind'[rule_of'[c]] = "Derived"
      <4>1. CASE c = b
        BY <1>1, <2>2, <2>4, <2>5, <4>1 DEF n
      <4>2. CASE c # b
        <5>1. c \in HeldBy("graph") /\ c \in Body
          BY <2>3, <4>2 DEF HeldBy
        <5>2. rule_of'[c] = rule_of[c] /\ rule_of[c] \in NodeId /\ kind[rule_of[c]] = "Derived"
          BY <1>2, <2>5, <4>2, <5>1 DEF RulesInstalled
        <5> QED BY <1>4, <2>4, <5>1, <5>2
      <4> QED BY <4>1, <4>2
    <3>2. \A c \in Body \ HeldBy("graph")' : rule_of'[c] \notin Live'
      BY <1>2, <1>4, <1>5, <2>3, <2>5 DEF RulesInstalled
    <3>3. ASSUME NEW c \in Body, rule_of'[c] \in NodeId PROVE rule_of'[c] < next_node_id'
      <4>1. n \in Nat /\ next_node_id' = n + 1
        BY <1>1 DEF n
      <4>2. CASE c = b
        BY <2>5, <4>1, <4>2
      <4>3. CASE c # b
        <5>1. rule_of'[c] < n /\ rule_of'[c] \in Nat
          BY <1>1, <1>2, <2>5, <3>3, <4>3 DEF RulesInstalled, n
        <5> QED BY <4>1, <5>1
      <4> QED BY <4>2, <4>3
    <3>4. \A m \in NodeId : kind'[m] = "Derived" => \E c \in HeldBy("graph")' : rule_of'[c] = m
      <4> SUFFICES ASSUME NEW m \in NodeId, kind'[m] = "Derived"
                   PROVE  \E c \in HeldBy("graph")' : rule_of'[c] = m
        OBVIOUS
      <4>1. CASE m = n
        BY <2>2, <2>3, <2>5, <4>1
      <4>2. CASE m # n
        <5>1. PICK c \in HeldBy("graph") : rule_of[c] = m
          BY <1>2, <2>4, <4>2 DEF RulesInstalled
        <5> QED BY <2>3, <2>5, <5>1 DEF HeldBy
      <4> QED BY <4>1, <4>2
    <3>5. \A c, d \in HeldBy("graph")' : rule_of'[c] = rule_of'[d] => c = d
      BY <1>2, <1>4, <2>2, <2>3, <2>5 DEF RulesInstalled, HeldBy
    <3> QED BY <3>1, <3>2, <3>3, <3>4, <3>5 DEF RulesInstalled
  <2> QED BY <1>1, <2>6, <2>7, <2>8 DEF LifetimeInv
<1> QED BY <1>6, <1>7

\* The graph is dropped: its bodies wait for their turn.
LEMMA DropGraphKeepsLifetimes ==
    ASSUME LifetimeInv, DropGraph
    PROVE  LifetimeInv'
<1>1. /\ Idle /\ alive' = FALSE
      /\ holder' = [b \in Body |-> IF b \in HeldBy("graph") THEN "condemned" ELSE holder[b]]
      /\ UNCHANGED <<rule_of, destroyed, kind, pending_edges, call>>
  BY DEF DropGraph, Quiet, StillOwned, allVars, vars, graphVars, callVars
<1>2. HeldBy("graph")' = {} /\ Live' = Live /\ Idle'
  BY <1>1 DEF HeldBy, Live, Idle
<1>3. LifetimeTypes'
  BY <1>1 DEF LifetimeInv, LifetimeTypes, Holder
<1>4. DestroyedWhenDropped'
  BY <1>1 DEF LifetimeInv, DestroyedWhenDropped, HeldBy
<1> QED BY <1>1, <1>2, <1>3, <1>4 DEF LifetimeInv

\* Everything else keeps the nodes, and with them the rules.
LEMMA UseKeepsLifetimes ==
    ASSUME LifetimeInv, alive, UseOrRestructure
    PROVE  LifetimeInv'
<1>1. UNCHANGED <<kind, next_node_id>>
  <2>1. CASE UNCHANGED vars
    BY <2>1 DEF vars, graphVars
  <2>2. CASE UseGraph
    BY <2>2
       DEF UseGraph, SetSourceValue, MarkChanged, ReadValue, UpdateNode, Continue,
           ValidateDependency, DependencyValidated, ValidationRecomputes, ValidationSettles,
           ValidationFails, RuleReads, RuleObserves, RuleFails, RulePanics, RuleUnwinds,
           RuleRefused, RuleCommits, Abandon, ReturnToCaller, graphVars, nodeVars
  <2> QED BY <2>1, <2>2
          DEF UseOrRestructure, CreateSubgraph, WithSubgraph, BuildSubgraph, RemoveSubgraph,
              RemovalEnds, CloseScope
<1>2. UNCHANGED <<holder, rule_of, destroyed, alive>>
  BY DEF UseOrRestructure, lifetimeVars
<1>3. HeldBy("graph")' = HeldBy("graph") /\ Live' = Live
  BY <1>1, <1>2 DEF HeldBy, Live
<1> QED BY <1>1, <1>2, <1>3
        DEF LifetimeInv, LifetimeTypes, DestroyedWhenDropped, RulesInstalled

LEMMA StepKeepsLifetimes ==
    ASSUME CallInv, EdgeInv, LifetimeInv, [LifetimeNext]_lifeVars
    PROVE  LifetimeInv'
<1>1. CASE UNCHANGED lifeVars
  <2>1. UNCHANGED <<holder, rule_of, destroyed, alive, kind, next_node_id, pending_edges, call>>
    BY <1>1 DEF lifeVars, lifetimeVars, allVars, vars, graphVars, callVars
  <2>2. HeldBy("graph")' = HeldBy("graph") /\ Live' = Live
    BY <2>1 DEF HeldBy, Live
  <2> QED BY <2>1, <2>2
          DEF LifetimeInv, LifetimeTypes, DestroyedWhenDropped, RulesInstalled, Idle
<1>2. ASSUME NEW b \in HeldBy("provider") \cup HeldBy("application") \cup HeldBy("condemned"),
             DropDescriptor(b), UNCHANGED <<allVars, rule_of, alive>>
      PROVE  LifetimeInv'
  BY <1>2, DropKeepsLifetimes DEF HeldBy
<1>3. CASE RejectRule
  <2>1. PICK b \in NextBody : DropDescriptor(b)
    BY <1>3 DEF RejectRule
  <2> QED BY <1>2, <1>3, <2>1 DEF RejectRule, NextBody
<1>4. CASE ApplicationDropsNode
  BY <1>2, <1>4 DEF ApplicationDropsNode
<1>5. CASE DropRemovedNode
  BY <1>2, <1>5 DEF DropRemovedNode
<1>6. CASE alive /\ InstallRule
  BY <1>6, InstallKeepsLifetimes
<1>7. CASE alive /\ TakeNode
  <2>1. PICK n \in NodeId : RemoveNode(n)
    BY <1>7 DEF TakeNode, RemoveOneNode
  <2> QED BY <1>7, <2>1, MoveKeepsLifetimes DEF TakeNode
<1>8. CASE alive /\ CollectNode
  <2>1. PICK n \in removal.todo : RemoveNode(n)
    BY <1>8 DEF CollectNode, RemovalRemovesNode
  <2>2. n \in NodeId
    BY <2>1 DEF RemoveNode, Live
  <2> QED BY <1>8, <2>1, <2>2, MoveKeepsLifetimes DEF CollectNode, KeepForLater
<1>9. CASE alive /\ UseOrRestructure
  BY <1>9, UseKeepsLifetimes
<1>10. CASE DropGraph
  BY <1>10, DropGraphKeepsLifetimes
<1> QED BY <1>1, <1>3, <1>4, <1>5, <1>6, <1>7, <1>8, <1>9, <1>10 DEF LifetimeNext

LEMMA LifetimesInvariant ==
    LifetimeSpec => [](CallInv /\ EdgeInv /\ PendingAreEdges /\ LifetimeInv)
<1> DEFINE Inv == CallInv /\ EdgeInv /\ PendingAreEdges /\ LifetimeInv
<1>1. ASSUME Inv, [LifetimeNext]_lifeVars PROVE Inv'
  <2>1. [Next]_vars
    BY <1>1, LifetimeNextIsSubgraphNext, SubgraphNextIsNext
  <2>2. CallInv' /\ EdgeInv' /\ PendingAreEdges'
    BY <1>1, <2>1, StepKeepsCallInv, StepKeepsEdges, StepKeepsPending
  <2> QED BY <1>1, <2>2, StepKeepsLifetimes
<1>2. LifetimeInit => Inv
  BY InitLifetimes, InitRegions DEF LifetimeInit, SubgraphInit, Init, PendingAreEdges
<1> QED BY <1>1, <1>2, PTL DEF LifetimeSpec, lifeVars

-----------------------------------------------------------------------------
(***************************************************************************)
(* The theorems.                                                           *)
(***************************************************************************)
\* Each derived node has the one rule it was created with, the rule of a running callback
\* is there, and a body is destroyed when its descriptor is dropped and at no other time:
\* whatever is removed, rolled back, refused or dropped, and by whom.
THEOREM RulesHaveOneOwner == LifetimeSpec => []RulesOwnedOnce
<1>1. CallInv /\ EdgeInv /\ LifetimeInv => RulesOwnedOnce
  <2> SUFFICES ASSUME CallInv, EdgeInv, LifetimeInv PROVE RulesOwnedOnce
    OBVIOUS
  <2>1. ASSUME NEW n \in NodeId, alive, kind[n] = "Derived"
        PROVE  \E b : BodyOf(n) = {b}
    <3>1. PICK b \in HeldBy("graph") : rule_of[b] = n
      BY <2>1 DEF LifetimeInv, RulesInstalled
    <3>2. BodyOf(n) = {b}
      BY <2>1, <3>1 DEF LifetimeInv, RulesInstalled, BodyOf
    <3> QED BY <3>2
  <2>2. ASSUME NEW n \in NodeId, alive, kind[n] # "Derived"
        PROVE  BodyOf(n) = {}
    BY <2>2 DEF LifetimeInv, RulesInstalled, BodyOf
  <2>3. ASSUME NEW n \in NodeId, alive
        PROVE  Cardinality(BodyOf(n)) = IF kind[n] = "Derived" THEN 1 ELSE 0
    BY <2>1, <2>2, <2>3, FS_Singleton, FS_EmptySet
  <2>4. ASSUME NEW i \in DOMAIN frames PROVE BodyOf(frames[i].node) # {}
    <3>1. /\ frames \in Seq(Frame) /\ frames # <<>> /\ ~Idle
          /\ kind[frames[i].node] = "Derived"
      BY DEF CallInv, TypeOK, CallTypeOK, FramesLinked, WaitsFor, IdleOK
    <3>2. frames[i].node \in NodeId /\ alive
      BY <3>1 DEF Frame, ValidateFrame, EvaluateFrame, LifetimeInv, LifetimeTypes
    <3> QED BY <2>1, <3>1, <3>2
  <2> QED BY <2>3, <2>4 DEF RulesOwnedOnce, LifetimeInv, DestroyedWhenDropped
<1> QED BY <1>1, LifetimesInvariant, PTL

\* A destroy callback of a living graph never meets a trace of its node in the graph, nor a
\* removal that is not finished.
THEOREM DestroyedWhenDetached == LifetimeSpec => DestroyedAfterDetachment
<1> DEFINE Detached(b) ==
       /\ removal = None
       /\ rule_of[b] \notin Live
       /\ \A e \in pending_edges : rule_of[b] \notin {e[1], e[2]}
       /\ \A n \in Live : rule_of[b] \notin active_dependencies[n] \cup dependents[n]
    A == \A b \in Body : destroyed'[b] # destroyed[b] /\ alive => Detached(b)
<1>1. CallInv /\ EdgeInv /\ PendingAreEdges /\ LifetimeInv /\ [LifetimeNext]_lifeVars => [A]_lifeVars
  <2> SUFFICES ASSUME CallInv, EdgeInv, PendingAreEdges, LifetimeInv, LifetimeNext,
                      NEW b \in Body, destroyed'[b] # destroyed[b], alive
               PROVE  Detached(b)
    OBVIOUS
  <2>1. removal = None /\ holder[b] # "graph"
    <3>1. ASSUME NEW c \in Body, DropDescriptor(c) PROVE b = c
      BY <3>1 DEF DropDescriptor, LifetimeInv, LifetimeTypes
    <3>2. CASE RejectRule
      BY <3>1, <3>2 DEF RejectRule, Quiet, NextBody, HeldBy
    <3>3. CASE ApplicationDropsNode
      BY <3>1, <3>3 DEF ApplicationDropsNode, Quiet, HeldBy
    <3>4. CASE DropRemovedNode
      BY <3>1, <3>4 DEF DropRemovedNode, Dropping, HeldBy
    <3> QED BY <3>2, <3>3, <3>4
            DEF LifetimeNext, InstallRule, TakeNode, CollectNode, KeepForLater, UseOrRestructure,
                DropGraph, lifetimeVars
  <2>2. rule_of[b] \notin Live
    BY <2>1 DEF LifetimeInv, RulesInstalled, HeldBy
  <2>3. \A e \in pending_edges : rule_of[b] \notin {e[1], e[2]}
    <3> SUFFICES ASSUME NEW e \in pending_edges PROVE rule_of[b] \notin {e[1], e[2]}
      OBVIOUS
    <3>1. GraphTypeOK /\ EdgesMirror
      BY DEF CallInv, TypeOK, EdgeInv
    <3>2. e[1] \in NodeId /\ e[2] \in dependents[e[1]]
      BY <3>1 DEF GraphTypeOK, PendingAreEdges
    <3>3. e[1] \in Live /\ e[2] \in Live
      BY <3>1, <3>2, EdgesLive
    <3> QED BY <2>2, <3>3
  <2>4. \A n \in Live : rule_of[b] \notin active_dependencies[n] \cup dependents[n]
    <3>1. GraphTypeOK /\ EdgesMirror
      BY DEF CallInv, TypeOK, EdgeInv
    <3>2. ASSUME NEW n \in Live, rule_of[b] \in active_dependencies[n] PROVE FALSE
      BY <2>2, <3>1, <3>2 DEF EdgesMirror, Live
    <3>3. ASSUME NEW n \in Live, rule_of[b] \in dependents[n] PROVE FALSE
      BY <2>2, <3>1, <3>3, EdgesLive DEF Live
    <3> QED BY <3>2, <3>3
  <2> QED BY <2>1, <2>2, <2>3, <2>4
<1>2. DestroyedAfterDetachment <=> [][A]_lifeVars
  BY DEF DestroyedAfterDetachment, lifeVars
<1> HIDE DEF A
<1> QED BY <1>1, <1>2, LifetimesInvariant, PTL DEF LifetimeSpec, lifeVars
=============================================================================
