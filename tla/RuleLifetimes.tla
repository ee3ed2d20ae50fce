--------------------------- MODULE RuleLifetimes ---------------------------
(***************************************************************************)
(* Who owns the body of a rule, and when its destroy callback runs         *)
(* (src/src/rule.rs, and the places in graph.rs and subgraphs.rs where a   *)
(* RuleDescriptor changes hands).  A provider hands a body over inside a   *)
(* descriptor; the descriptor moves into the node map, with its node out   *)
(* of it again, and dropping it destroys the body.  remove_node gives the  *)
(* node to the application, which drops it when it likes or never;         *)
(* remove_subgraph keeps the nodes it removes in a vector that it drops    *)
(* when the structure is gone; a rejected descriptor and those of a        *)
(* dropped graph are dropped on the spot.                                  *)
(*                                                                         *)
(* A descriptor without a destroy callback leaves its body to the          *)
(* provider and needs no steps.  Destroy callbacks reach no graph and do   *)
(* not panic (rule 8 of the provider contract, src/README.md:257).         *)
(***************************************************************************)
EXTENDS Subgraphs

CONSTANT Body       \* bound: the bodies that are handed over

ASSUME BodyAssumption == Body \subseteq Nat

VARIABLES
    holder,         \* who has the descriptor of a body
    rule_of,        \* history: the node that the descriptor was installed in
    destroyed,      \* history: how often the body has been destroyed
    alive           \* the graph has not been dropped

lifetimeVars == <<holder, rule_of, destroyed, alive>>

Holder == {"provider", "graph", "application", "condemned", "nobody"}

LifetimeInit ==
    /\ SubgraphInit
    /\ holder = [b \in Body |-> "provider"]
    /\ rule_of = [b \in Body |-> None]
    /\ destroyed = [b \in Body |-> 0]
    /\ alive = TRUE

HeldBy(who) == {b \in Body : holder[b] = who}
BodyOf(n) == {b \in HeldBy("graph") : rule_of[b] = n}

\* Bodies are alike: the next one is the least that the provider still has.
NextBody == {b \in HeldBy("provider") : \A c \in HeldBy("provider") : b <= c}

\* A vector of nodes and a node map are dropped a node at a time; until then the function, or
\* the application that drops the graph, does nothing else.
Dropping == removal = None /\ HeldBy("condemned") # {}
-----------------------------------------------------------------------------
\* Mutant: a node in the vector is forgotten and not dropped.
DropUnlessCondemned(b) ==
    /\ holder[b] # "condemned"
    /\ holder' = [holder EXCEPT ![b] = "nobody"]
    /\ destroyed' = [destroyed EXCEPT ![b] = @ + 1]

\* Drop for RuleDescriptor
DropDescriptor(b) ==
    /\ holder' = [holder EXCEPT ![b] = "nobody"]
    /\ destroyed' = [destroyed EXCEPT ![b] = @ + 1]

\* add_derived takes the descriptor; a source has none.
InstallRule ==
    /\ CreateNode
    /\ IF kind'[next_node_id] = "Source" THEN UNCHANGED <<holder, rule_of>>
       ELSE \E b \in NextBody : /\ holder' = [holder EXCEPT ![b] = "graph"]
                                /\ rule_of' = [rule_of EXCEPT ![b] = next_node_id]
    /\ UNCHANGED <<destroyed, alive>>

\* add_dynamic_attribute with a rule of another type.
RejectRule ==
    /\ Quiet
    /\ \E b \in NextBody : DropDescriptor(b)
    /\ UNCHANGED <<allVars, rule_of, alive>>

\* The nodes that a step takes out of the map take their rules along.
MoveRules(who) ==
    holder' = [b \in Body |->
                 IF holder[b] = "graph" /\ kind'[rule_of[b]] = "Absent" THEN who ELSE holder[b]]

\* remove_node: the application gets the node.
TakeNode ==
    /\ RemoveOneNode
    /\ MoveRules("application")
    /\ UNCHANGED <<rule_of, destroyed, alive>>

ApplicationDropsNode ==
    /\ Quiet \/ ~alive
    /\ \E b \in HeldBy("application") : DropDescriptor(b)
    /\ UNCHANGED <<allVars, rule_of, alive>>

\* Mutant: the nodes are dropped in the loop that removes them.
DropAtOnce ==
    \E b \in Body : holder[b] = "graph" /\ kind'[rule_of[b]] = "Absent" /\ DropDescriptor(b)

\* removed_nodes.push
KeepForLater == MoveRules("condemned") /\ UNCHANGED destroyed

CollectNode ==
    /\ RemovalRemovesNode
    /\ KeepForLater
    /\ UNCHANGED <<rule_of, alive>>

DropRemovedNode ==
    /\ Dropping
    /\ \E b \in HeldBy("condemned") : DropDescriptor(b)
    /\ UNCHANGED <<allVars, rule_of, alive>>

\* Mutant: the rules of a graph that is dropped are leaked.
NothingOwned == {}

\* Drop of the node map.
StillOwned == HeldBy("graph")

\* No closure holds a reference to the graph.
DropGraph ==
    /\ Quiet /\ closures = <<>>
    /\ alive' = FALSE
    /\ holder' = [b \in Body |-> IF b \in StillOwned THEN "condemned" ELSE holder[b]]
    /\ UNCHANGED <<allVars, rule_of, destroyed>>

\* What leaves the node map alone.
UseOrRestructure ==
    /\ \/ UseGraph
       \/ \E p \in subgraphs \cup {None} : CreateSubgraph(p)
       \/ \E id \in subgraphs : WithSubgraph(id)
       \/ \E p \in subgraphs \cup {None} : BuildSubgraph(p)
       \/ \E id \in subgraphs : RemoveSubgraph(id)
       \/ RemovalEnds
       \/ \E outcome \in {"ok", "error", "panic"} : CloseScope(outcome)
    /\ UNCHANGED lifetimeVars

\* Inside a call: what the code goes on with once it is called.
Teardown == CollectNode \/ (RemovalEnds /\ UNCHANGED lifetimeVars) \/ DropRemovedNode

LifetimeNext ==
    \/ DropRemovedNode
    \/ /\ alive /\ ~Dropping
       /\ \/ InstallRule
          \/ RejectRule
          \/ TakeNode
          \/ CollectNode
          \/ UseOrRestructure
          \/ DropGraph
    \/ ~Dropping /\ ApplicationDropsNode

LifetimeSpec ==
    LifetimeInit /\ [][LifetimeNext]_<<allVars, lifetimeVars>>
                 /\ WF_<<allVars, lifetimeVars>>(Teardown)
-----------------------------------------------------------------------------
(***************************************************************************)
(* Properties.                                                             *)
(***************************************************************************)
\* A derived node always has its rule, whatever removals and rollbacks do to the nodes
\* around it, and no rule outlives its node in the map; a body is destroyed when nobody
\* has it any more, and not again when graph, node and vector are dropped later.  In
\* particular the body of a callback that is running is there.
RulesOwnedOnce ==
    /\ \A n \in NodeId :
          alive => Cardinality(BodyOf(n)) = IF kind[n] = "Derived" THEN 1 ELSE 0
    /\ \A b \in Body : destroyed[b] = IF holder[b] = "nobody" THEN 1 ELSE 0
    /\ \A i \in DOMAIN frames : BodyOf(frames[i].node) # {}
    /\ ~alive => HeldBy("graph") = {}

\* A body that is destroyed while the graph lives is the rule of no node, edge or pending
\* edge of the graph any more, and the region it belonged to is gone with all of its
\* nodes when remove_subgraph destroys it: no callback meets half of a teardown.
DestroyedAfterDetachment ==
    [][\A b \in Body : destroyed'[b] # destroyed[b] /\ alive =>
          /\ removal = None
          /\ rule_of[b] \notin Live
          /\ \A e \in pending_edges : rule_of[b] \notin {e[1], e[2]}
          /\ \A n \in Live : rule_of[b] \notin active_dependencies[n] \cup dependents[n]
      ]_<<allVars, lifetimeVars>>

\* What a teardown has taken out of the map is destroyed in the end, however many closures
\* and removals the teardown is part of; the vector does not leak.
RemovedRulesDestroyed == HeldBy("condemned") # {} ~> HeldBy("condemned") = {}
=============================================================================
