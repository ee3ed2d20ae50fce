---------------------------- MODULE DiffSession ----------------------------
(***************************************************************************)
(* The diff crate (src/diff/src): a DiffSession captures snapshots of one  *)
(* graph as the application goes on using it, and each snapshot is         *)
(* compared with the one before.  The changes name what was added, removed *)
(* or changed; a tool that only has the first snapshot and the changes     *)
(* shows the graph as it went on.  The application labels nodes and        *)
(* regions as it goes, and a label counts from the next capture on.  The   *)
(* order of the changes is left out.                                       *)
(***************************************************************************)
EXTENDS Subgraphs

CONSTANTS
    MaxCaptures,            \* bound: captures of one session
    NodeLabels(_, _),       \* labels an application gives a node after so many captures
    SubgraphLabels(_, _)    \* and a region

\* A label is a string, so a node or a region that has one never goes back to none.
ASSUME SessionAssumption ==
    /\ MaxCaptures \in Nat
    /\ \A n \in NodeId, k \in 0..MaxCaptures : None \notin NodeLabels(n, k)
    /\ \A s \in SubgraphId, k \in 0..MaxCaptures : None \notin SubgraphLabels(s, k)

VARIABLES snapshots, diffs, node_labels, subgraph_labels

labelVars == <<node_labels, subgraph_labels>>
sessionVars == <<snapshots, diffs, labelVars>>

-----------------------------------------------------------------------------
(***************************************************************************)
(* GraphSnapshot::capture, through the inspection functions of the graph.  *)
(***************************************************************************)
ActiveEdges == {e \in NodeId \X NodeId : e[2] \in dependents[e[1]]}

\* edge_state of an edge that `edges` has listed.
EdgeState(e) ==
    IF e[1] \notin active_dependencies[e[2]] THEN "Inactive"
    ELSE IF e \in pending_edges THEN "Pending" ELSE "Settled"

NodeSnapshot(n) ==
    [label |-> node_labels[n], subgraph_id |-> subgraph[n], kind |-> kind[n], state |-> state[n],
     cached_value |-> value[n], dependencies |-> active_dependencies[n],
     dependents |-> dependents[n]]

SubgraphSnapshot(s) ==
    [label |-> subgraph_labels[s], parent |-> parent[s], children |-> children[s],
     nodes |-> nodes[s]]

Snapshot ==
    [subgraphs |-> [s \in subgraphs |-> SubgraphSnapshot(s)],
     nodes |-> [n \in Live |-> NodeSnapshot(n)],
     edges |-> [e \in ActiveEdges |-> EdgeState(e)],
     pending_edges |-> pending_edges]

-----------------------------------------------------------------------------
(***************************************************************************)
(* GraphDiff::between.                                                     *)
(***************************************************************************)
\* Mutant: the items of the earlier snapshot are not looked up.
AddedAll(what, old, new) == {<<what, "added", id, new[id]>> : id \in DOMAIN new}

Added(what, old, new) == {<<what, "added", id, new[id]>> : id \in DOMAIN new \ DOMAIN old}
Removed(what, old, new) == {<<what, "removed", id, old[id]>> : id \in DOMAIN old \ DOMAIN new}

\* A field of an item that both have.
Changed(what, old, new) ==
    {<<what, "changed", id, new[id]>> :
        id \in {id \in DOMAIN old \cap DOMAIN new : old[id] # new[id]}}

Field(items, field) == [id \in DOMAIN items |-> items[id][field]]

LabelsOf(items) ==
    [id \in {id \in DOMAIN items : items[id].label # None} |-> items[id].label]

\* diff_node
NodeChanges(old, new) ==
    Changed("state", Field(old, "state"), Field(new, "state"))
        \cup Changed("value", Field(old, "cached_value"), Field(new, "cached_value"))

Changes(before, after) ==
    Removed("node", before.nodes, after.nodes)
        \cup Removed("subgraph", before.subgraphs, after.subgraphs)
        \cup Added("subgraph", before.subgraphs, after.subgraphs)
        \cup Added("node", before.nodes, after.nodes)
        \cup NodeChanges(before.nodes, after.nodes)
        \cup Changed("edge", before.edges, after.edges)
        \cup Removed("edge", before.edges, after.edges)
        \cup Added("edge", before.edges, after.edges)

\* Mutant: the labels of the earlier snapshot are collected last.
EarlierLabels(before, after) == LabelsOf(before) @@ LabelsOf(after)

\* Mutant: an item that is gone has no label.
LaterLabels(before, after) == LabelsOf(after)

\* collect_node_labels, collect_subgraph_labels: the items of the earlier snapshot and
\* then those of the later one, whose labels overwrite.
CollectedLabels(before, after) ==
    LET earlier == LabelsOf(before) later == LabelsOf(after) IN
    [id \in DOMAIN earlier \cup DOMAIN later |->
        IF id \in DOMAIN later THEN later[id] ELSE earlier[id]]

Between(before, after) ==
    [changes |-> Changes(before, after),
     node_labels |-> CollectedLabels(before.nodes, after.nodes),
     subgraph_labels |-> CollectedLabels(before.subgraphs, after.subgraphs)]

\* DiffSession::capture
Capture ==
    /\ Quiet
    /\ diffs' = IF snapshots = <<>> THEN diffs
                ELSE Append(diffs, Between(Last(snapshots), Snapshot))
    /\ snapshots' = Append(snapshots, Snapshot)
    /\ UNCHANGED <<allVars, labelVars>>

\* label_node, label_attribute: of a handle, which may outlive its node.
LabelNode(n, label) ==
    /\ Quiet /\ n < next_node_id
    /\ node_labels' = [node_labels EXCEPT ![n] = label]
    /\ UNCHANGED <<allVars, snapshots, diffs, subgraph_labels>>

LabelSubgraph(s, label) ==
    /\ Quiet /\ s < next_subgraph_id
    /\ subgraph_labels' = [subgraph_labels EXCEPT ![s] = label]
    /\ UNCHANGED <<allVars, snapshots, diffs, node_labels>>

SessionInit ==
    /\ SubgraphInit
    /\ snapshots = <<>> /\ diffs = <<>>
    /\ node_labels = [n \in NodeId |-> None]
    /\ subgraph_labels = [s \in SubgraphId |-> None]

SessionNext ==
    /\ Len(snapshots) < MaxCaptures
    /\ \/ Capture
       \/ \E n \in NodeId : \E label \in NodeLabels(n, Len(snapshots)) : LabelNode(n, label)
       \/ \E s \in SubgraphId : \E label \in SubgraphLabels(s, Len(snapshots)) : LabelSubgraph(s, label)
       \/ SubgraphNext /\ UNCHANGED sessionVars

SessionSpec == SessionInit /\ [][SessionNext]_<<allVars, sessionVars>>
-----------------------------------------------------------------------------
(***************************************************************************)
(* Reading a diff: the snapshot that it leads to.                          *)
(***************************************************************************)
Ids(changes, what, how) == {c[3] : c \in {c \in changes : c[1] = what /\ c[2] = how}}
News(changes, what, id) ==
    (CHOOSE c \in changes : c[1] = what /\ c[2] # "removed" /\ c[3] = id)[4]

Replay(items, changes, what) ==
    [id \in (DOMAIN items \ Ids(changes, what, "removed")) \cup Ids(changes, what, "added") |->
        IF id \in Ids(changes, what, "added") \cup Ids(changes, what, "changed")
        THEN News(changes, what, id) ELSE items[id]]

LabelIn(labels, id) == IF id \in DOMAIN labels THEN labels[id] ELSE None

\* The nodes a reader has from a diff and the edges it has worked out: the node's own
\* lists of edges come from them, and so do the pending edges.
ReplayNodes(old, diff, edges) ==
    LET kept == Replay(old, diff.changes, "node")
        states == Replay(Field(kept, "state"), diff.changes, "state")
        values == Replay(Field(kept, "cached_value"), diff.changes, "value")
    IN [n \in DOMAIN kept |->
          [kept[n] EXCEPT !.label = LabelIn(diff.node_labels, n),
                          !.state = states[n], !.cached_value = values[n],
                          !.dependencies = {e[1] : e \in {e \in DOMAIN edges : e[2] = n}},
                          !.dependents = {e[2] : e \in {e \in DOMAIN edges : e[1] = n}}]]

\* The members of a region come from the nodes and the other regions.
ReplaySubgraphs(old, diff, known) ==
    LET kept == Replay(old, diff.changes, "subgraph")
    IN [s \in DOMAIN kept |->
          [kept[s] EXCEPT !.label = LabelIn(diff.subgraph_labels, s),
                          !.children = {c \in DOMAIN kept : kept[c].parent = s},
                          !.nodes = {n \in DOMAIN known : known[n].subgraph_id = s}]]

After(before, diff) ==
    LET edges == Replay(before.edges, diff.changes, "edge")
        known == ReplayNodes(before.nodes, diff, edges)
    IN [subgraphs |-> ReplaySubgraphs(before.subgraphs, diff, known), nodes |-> known,
        edges |-> edges, pending_edges |-> {e \in DOMAIN edges : edges[e] = "Pending"}]

Unlabelled(items) == [id \in DOMAIN items |-> [items[id] EXCEPT !.label = None]]

-----------------------------------------------------------------------------
\* A diff is complete: it leads from the earlier snapshot to the later one, with every
\* label and every list that the changes do not mention (dependencies, dependents,
\* pending edges, children and members of regions that are still there), whatever
\* happened between the captures.
DiffLeadsToNextSnapshot ==
    \A i \in DOMAIN diffs : After(snapshots[i], diffs[i]) = snapshots[i + 1]

\* A diff is minimal: it has no changes just when nothing but labels changed, no item
\* is reported twice in one respect, as added, removed or changed, and a node that was
\* added or removed has no change of its state or its value besides.
DiffIsConsistent ==
    \A i \in DOMAIN diffs :
        LET before == snapshots[i]
            after == snapshots[i + 1]
        IN /\ diffs[i].changes = {} <=>
                  /\ Unlabelled(before.nodes) = Unlabelled(after.nodes)
                  /\ Unlabelled(before.subgraphs) = Unlabelled(after.subgraphs)
                  /\ before.edges = after.edges /\ before.pending_edges = after.pending_edges
           /\ \A c, d \in diffs[i].changes :
                 /\ c[1] = d[1] /\ c[3] = d[3] => c = d
                 /\ c[1] = "node" /\ d[1] \in {"state", "value"} => c[3] # d[3]
=============================================================================
