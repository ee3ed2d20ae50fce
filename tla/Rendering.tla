----------------------------- MODULE Rendering -----------------------------
(***************************************************************************)
(* What the diff crate shows of a session (src/diff/src/render.rs): a text *)
(* of the first snapshot and of the diffs after it, and a drawing of the   *)
(* snapshots side by side, for Mermaid or Graphviz, with a box for every   *)
(* region.  A text is the set of the names that it gives to nodes and      *)
(* regions, a name being the id and the label that goes with it; a drawing *)
(* is a set of items, each with its reference and the references of the    *)
(* boxes around it, outermost first, and a set of arrows.  One box cannot  *)
(* have an item twice: it goes through the keys of one map or the members  *)
(* of one set of the graph.  Wording, escapes, colours and the order of    *)
(* the lines are left out.                                                 *)
(***************************************************************************)
EXTENDS DiffSession

-----------------------------------------------------------------------------
(***************************************************************************)
(* Text.                                                                   *)
(***************************************************************************)
Some(id) == {id} \ {None}

\* labeled_id, labeled_subgraph_id
Named(ids, labels) == {<<id, LabelIn(labels, id)>> : id \in ids}

\* node_name, subgraph_name
OwnName(id, item) == {<<id, item.label>>}

\* render_subgraph_line; the nodes of the region are bare ids.
SubgraphLine(s, item, labels) ==
    [nodes |-> {},
     subgraphs |-> OwnName(s, item) \cup Named(Some(item.parent) \cup item.children, labels)]

\* render_node_line; its dependencies and dependents are bare ids.
NodeLine(n, item, labels) ==
    [nodes |-> OwnName(n, item), subgraphs |-> Named(Some(item.subgraph_id), labels)]

\* render_edge
EdgeLine(e, labels) == [nodes |-> Named({e[1], e[2]}, labels), subgraphs |-> {}]

\* render_change
ChangeLine(change, diff) ==
    LET what == change[1] id == change[3] item == change[4] IN
    CASE what = "subgraph" ->
            [nodes |-> {}, subgraphs |-> OwnName(id, item)
                                            \cup Named(Some(item.parent), diff.subgraph_labels)]
      [] what = "node" -> NodeLine(id, item, diff.subgraph_labels)
      [] what \in {"state", "value"} -> [nodes |-> Named({id}, diff.node_labels), subgraphs |-> {}]
      [] what = "edge" -> EdgeLine(id, diff.node_labels)

RenderTextSnapshot(snapshot) ==
    LET labels == LabelsOf(snapshot.subgraphs) IN
    {SubgraphLine(s, snapshot.subgraphs[s], labels) : s \in DOMAIN snapshot.subgraphs}
        \cup {NodeLine(n, snapshot.nodes[n], labels) : n \in DOMAIN snapshot.nodes}
        \cup {EdgeLine(e, LabelsOf(snapshot.nodes)) : e \in DOMAIN snapshot.edges}

RenderTextDiff(diff) == {ChangeLine(change, diff) : change \in diff.changes}

RenderTextTimeline ==
    [i \in DOMAIN snapshots |-> IF i = 1 THEN RenderTextSnapshot(snapshots[1])
                                         ELSE RenderTextDiff(diffs[i - 1])]
-----------------------------------------------------------------------------
(***************************************************************************)
(* Drawings.  The prefix tells the snapshots of a timeline apart.          *)
(***************************************************************************)
NodeRef(prefix, n) == <<prefix, "n", n>>
SubgraphRef(prefix, s) == <<prefix, "sg", s>>

Item(ref) == [ref |-> ref, within |-> <<>>]

\* A box and what is in it.
Box(ref, items) ==
    {Item(ref)} \cup {[item EXCEPT !.within = <<ref>> \o @] : item \in items}

\* render_mermaid_subgraph (render_dot_subgraph), given the boxes of the regions below.
RenderSubgraph(snapshot, prefix, s, boxes) ==
    LET region == snapshot.subgraphs[s]
        members == {NodeRef(prefix, n) : n \in region.nodes \cap DOMAIN snapshot.nodes}
        empty == IF region.nodes = {} /\ region.children = {} THEN {<<prefix, "sg_empty", s>>} ELSE {}
        below == UNION {boxes[c] : c \in region.children \cap DOMAIN snapshot.subgraphs}
    IN Box(SubgraphRef(prefix, s), {Item(ref) : ref \in members \cup empty} \cup below)

\* It calls itself, so there is a box for every region of the snapshot.
Boxes(snapshot, prefix) ==
    LET boxes[s \in DOMAIN snapshot.subgraphs] == RenderSubgraph(snapshot, prefix, s, boxes)
    IN boxes

RootNodes(snapshot) ==
    {n \in DOMAIN snapshot.nodes : snapshot.nodes[n].subgraph_id \notin DOMAIN snapshot.subgraphs}

\* Mutant: every region is drawn at the top.
AllSubgraphs(snapshot) == DOMAIN snapshot.subgraphs

RootSubgraphs(snapshot) ==
    {s \in DOMAIN snapshot.subgraphs : snapshot.subgraphs[s].parent \notin DOMAIN snapshot.subgraphs}

\* render_dot_snapshot_body
DotItems(snapshot, prefix) ==
    {Item(NodeRef(prefix, n)) : n \in RootNodes(snapshot)}
        \cup UNION {Boxes(snapshot, prefix)[s] : s \in RootSubgraphs(snapshot)}

\* render_mermaid_snapshot_body: Mermaid shows an empty graph as well.
MermaidItems(snapshot, prefix) ==
    DotItems(snapshot, prefix)
        \cup IF DOMAIN snapshot.nodes = {} /\ DOMAIN snapshot.subgraphs = {}
             THEN {Item(<<prefix, "empty">>)} ELSE {}

Arrows(snapshot, prefix) ==
    {<<NodeRef(prefix, e[1]), NodeRef(prefix, e[2]), snapshot.edges[e]>> : e \in DOMAIN snapshot.edges}

RenderDotTimeline ==
    [items |-> UNION {Box(<<i, "cluster">>, DotItems(snapshots[i], i)) : i \in DOMAIN snapshots},
     arrows |-> UNION {Arrows(snapshots[i], i) : i \in DOMAIN snapshots}]

\* The anchors keep the snapshots in order.
RenderMermaidTimeline ==
    [items |-> UNION {Box(<<i, "snapshot">>, MermaidItems(snapshots[i], i)
                                                 \cup {Item(<<i, "timeline_anchor">>)}) :
                         i \in DOMAIN snapshots},
     arrows |-> UNION {Arrows(snapshots[i], i) : i \in DOMAIN snapshots}]
-----------------------------------------------------------------------------
(***************************************************************************)
(* Properties.                                                             *)
(***************************************************************************)
\* The box of region s and those around it, outermost first.
PathOf(snapshot, prefix, s, paths) ==
    LET p == snapshot.subgraphs[s].parent
    IN Append(IF p = None THEN <<>> ELSE paths[p], SubgraphRef(prefix, s))

RegionPath(snapshot, prefix) ==
    LET paths[s \in DOMAIN snapshot.subgraphs] == PathOf(snapshot, prefix, s, paths) IN paths

\* The boxes around what region s owns.
BoxesAround(snapshot, prefix, s) == IF s = None THEN <<>> ELSE RegionPath(snapshot, prefix)[s]

\* Where an item is drawn: at no place twice, and in the boxes that own it and no others.
DrawnAt(drawing, ref, path) == {item.within : item \in {x \in drawing.items : x.ref = ref}} = {path}

\* A snapshot in the box of a drawing that is for it, every node and region in its place.
SnapshotIsDrawn(drawing, snapshot, prefix, outer) ==
    /\ \A n \in DOMAIN snapshot.nodes :
          DrawnAt(drawing, NodeRef(prefix, n),
                  <<outer>> \o BoxesAround(snapshot, prefix, snapshot.nodes[n].subgraph_id))
    /\ \A s \in DOMAIN snapshot.subgraphs :
          DrawnAt(drawing, SubgraphRef(prefix, s),
                  <<outer>> \o BoxesAround(snapshot, prefix, snapshot.subgraphs[s].parent))

ArrowsJoinItems(drawing) ==
    \A arrow \in drawing.arrows : {arrow[1], arrow[2]} \subseteq {item.ref : item \in drawing.items}

\* A timeline has every node and every region of every snapshot in one place, in the boxes of the
\* regions that own it from the root down (a region is drawn as the child that its parent
\* lists, a node as the member that its region lists), and its arrows join what is drawn.
TimelineIsDrawn ==
    LET dot == RenderDotTimeline
        mermaid == RenderMermaidTimeline
    IN /\ \A i \in DOMAIN snapshots :
             /\ SnapshotIsDrawn(dot, snapshots[i], i, <<i, "cluster">>)
             /\ SnapshotIsDrawn(mermaid, snapshots[i], i, <<i, "snapshot">>)
       /\ ArrowsJoinItems(dot) /\ ArrowsJoinItems(mermaid)

\* The label of an item in snapshot i, or the last it had when it is no longer there.
LatestLabel(i, field, id) ==
    LET j == IF id \in DOMAIN snapshots[i][field] THEN i ELSE i - 1
    IN snapshots[j][field][id].label

\* In the text of a session an item goes by one name at a time, the latest: whether it is
\* what a change is about or only mentioned, and also when it has been removed.
NamesAreLatest ==
    \A i \in DOMAIN snapshots : \A line \in RenderTextTimeline[i] :
        /\ \A name \in line.nodes : name[2] = LatestLabel(i, "nodes", name[1])
        /\ \A name \in line.subgraphs : name[2] = LatestLabel(i, "subgraphs", name[1])
=============================================================================
