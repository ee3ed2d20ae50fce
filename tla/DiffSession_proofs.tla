------------------------- MODULE DiffSession_proofs -------------------------
(***************************************************************************)
(* Snapshots and diffs, for any graph, any session and any labels.         *)
(*                                                                         *)
(* That a diff leads to the next snapshot is a fact about two snapshots,   *)
(* but not about any two: the changes do not mention what a snapshot says  *)
(* twice, which has to follow from the rest (WellFormed), or what an item  *)
(* of both keeps (Succeeds).  The first holds of a snapshot because the    *)
(* graph's own copies of its edges and of its regions agree between two    *)
(* calls, the second because ids are not used twice: whatever happens      *)
(* after a capture, what is left of it has kept what it was (IsLeftOf).    *)
(* The names in a text and the contents of a drawing follow from the same  *)
(* two facts, the drawing by going up and down the ids of its regions.     *)
(***************************************************************************)
EXTENDS Rendering, Subgraphs_proofs, SequenceTheorems

\* The records of a snapshot; its edges join its nodes, which belong to its regions, and
\* the lists on the items are what the edges, the owners and the parents say.
WellFormed(x) ==
    /\ x = [subgraphs |-> x.subgraphs, nodes |-> x.nodes, edges |-> x.edges,
            pending_edges |-> x.pending_edges]
    /\ x.nodes = [n \in DOMAIN x.nodes |-> x.nodes[n]]
    /\ x.subgraphs = [s \in DOMAIN x.subgraphs |-> x.subgraphs[s]]
    /\ x.edges = [e \in DOMAIN x.edges |-> x.edges[e]]
    /\ \A n \in DOMAIN x.nodes : LET node == x.nodes[n] IN
          /\ node = [label |-> node.label, subgraph_id |-> node.subgraph_id, kind |-> node.kind,
                     state |-> node.state, cached_value |-> node.cached_value,
                     dependencies |-> node.dependencies, dependents |-> node.dependents]
          /\ node.subgraph_id \in DOMAIN x.subgraphs \cup {None}
          /\ node.dependencies = {e[1] : e \in {e \in DOMAIN x.edges : e[2] = n}}
          /\ node.dependents = {e[2] : e \in {e \in DOMAIN x.edges : e[1] = n}}
    /\ \A s \in DOMAIN x.subgraphs : LET region == x.subgraphs[s] IN
          /\ s \in Nat
          /\ region = [label |-> region.label, parent |-> region.parent,
                       children |-> region.children, nodes |-> region.nodes]
          /\ region.parent # None => region.parent \in DOMAIN x.subgraphs /\ region.parent < s
          /\ region.children = {c \in DOMAIN x.subgraphs : x.subgraphs[c].parent = s}
          /\ region.nodes = {n \in DOMAIN x.nodes : x.nodes[n].subgraph_id = s}
    /\ \A e \in DOMAIN x.edges : e[1] \in DOMAIN x.nodes /\ e[2] \in DOMAIN x.nodes
    /\ x.pending_edges = {e \in DOMAIN x.edges : x.edges[e] = "Pending"}
    /\ None \notin DOMAIN x.subgraphs
    /\ \E bound \in Nat : \A s \in DOMAIN x.subgraphs : s < bound

\* What two snapshots of one session have in common.
Succeeds(b, a) ==
    /\ \A n \in DOMAIN a.nodes \cap DOMAIN b.nodes :
          /\ b.nodes[n].kind = a.nodes[n].kind
          /\ b.nodes[n].subgraph_id = a.nodes[n].subgraph_id
          /\ b.nodes[n].label = None => a.nodes[n].label = None
    /\ \A s \in DOMAIN a.subgraphs \cap DOMAIN b.subgraphs :
          /\ b.subgraphs[s].parent = a.subgraphs[s].parent
          /\ b.subgraphs[s].label = None => a.subgraphs[s].label = None

\* The graph as it is now has gone on from snapshot a.
IsLeftOf(a) ==
    /\ \A n \in DOMAIN a.nodes :
          /\ n \in NodeId /\ n < next_node_id
          /\ kind[n] # "Absent" => kind[n] = a.nodes[n].kind /\ subgraph[n] = a.nodes[n].subgraph_id
          /\ node_labels[n] = None => a.nodes[n].label = None
    /\ \A s \in DOMAIN a.subgraphs :
          /\ s \in SubgraphId /\ s < next_subgraph_id
          /\ s \in subgraphs => parent[s] = a.subgraphs[s].parent
          /\ subgraph_labels[s] = None => a.subgraphs[s].label = None

SessionInv ==
    /\ snapshots \in Seq(Range(snapshots)) /\ diffs \in Seq(Range(diffs))
    /\ Len(diffs) = IF snapshots = <<>> THEN 0 ELSE Len(snapshots) - 1
    /\ Len(snapshots) <= MaxCaptures
    /\ node_labels = [n \in NodeId |-> node_labels[n]]
    /\ subgraph_labels = [s \in SubgraphId |-> subgraph_labels[s]]
    /\ \A i \in DOMAIN snapshots : WellFormed(snapshots[i])
    /\ \A i \in DOMAIN diffs :
          /\ diffs[i] = Between(snapshots[i], snapshots[i + 1])
          /\ Succeeds(snapshots[i + 1], snapshots[i])
    /\ snapshots # <<>> => IsLeftOf(Last(snapshots))
-----------------------------------------------------------------------------
(***************************************************************************)
(* Reading a list of changes.                                              *)
(***************************************************************************)
\* A map is told by what the changes add to another, remove from it and change in it.
LEMMA ReplayIs ==
    ASSUME NEW items, NEW new, NEW changes, NEW what,
           new = [id \in DOMAIN new |-> new[id]],
           DOMAIN new = (DOMAIN items \ Ids(changes, what, "removed"))
                           \cup Ids(changes, what, "added"),
           \A id \in DOMAIN new :
              IF id \in Ids(changes, what, "added") \cup Ids(changes, what, "changed")
              THEN News(changes, what, id) = new[id] ELSE items[id] = new[id]
    PROVE  Replay(items, changes, what) = new
BY DEF Replay

Reports(changes, what, how, S, x) ==
    /\ \A id \in S : <<what, how, id, x[id]>> \in changes
    /\ \A c \in changes : c[1] = what /\ c[2] = how => c[3] \in S

LEMMA IdsAre ==
    ASSUME NEW changes, NEW what, NEW how, NEW S, NEW x, Reports(changes, what, how, S, x)
    PROVE  Ids(changes, what, how) = S
<1>1. ASSUME NEW id \in S PROVE id \in Ids(changes, what, how)
  <2> DEFINE c == <<what, how, id, x[id]>>
  <2>1. c \in changes /\ c[1] = what /\ c[2] = how /\ c[3] = id
    BY DEF Reports
  <2> HIDE DEF c
  <2> QED BY <2>1 DEF Ids
<1>2. Ids(changes, what, how) \subseteq S
  BY DEF Ids, Reports
<1> QED BY <1>1, <1>2

\* A change that says what there is to say of an item is what News finds.
IsTheNews(changes, what, id, x) ==
    \A d \in changes : d[1] = what /\ d[2] # "removed" /\ d[3] = id => d[4] = x

LEMMA NewsIs ==
    ASSUME NEW changes, NEW what, NEW id, NEW x, NEW how \in {"added", "changed"},
           <<what, how, id, x>> \in changes, IsTheNews(changes, what, id, x)
    PROVE  News(changes, what, id) = x
<1> DEFINE P(d) == d[1] = what /\ d[2] # "removed" /\ d[3] = id
<1> DEFINE c == <<what, how, id, x>>
<1>1. c \in changes /\ P(c)
  OBVIOUS
<1> HIDE DEF c
<1>2. (CHOOSE d \in changes : P(d)) \in changes /\ P(CHOOSE d \in changes : P(d))
  BY <1>1
<1> QED BY <1>2 DEF News, IsTheNews

\* The changes of one sort, among them all.
Sort(changes, what) == {c \in changes : c[1] = what}

LEMMA IdsOfSort ==
    ASSUME NEW changes, NEW what, NEW how
    PROVE  Ids(changes, what, how) = Ids(Sort(changes, what), what, how)
BY DEF Ids, Sort

LEMMA NewsOfSort ==
    ASSUME NEW changes, NEW what, NEW id
    PROVE  News(changes, what, id) = News(Sort(changes, what), what, id)
<1>1. \A c : /\ (c \in changes /\ c[1] = what /\ c[2] # "removed" /\ c[3] = id)
             <=> (c \in Sort(changes, what) /\ c[1] = what /\ c[2] # "removed" /\ c[3] = id)
  BY DEF Sort
<1> QED BY <1>1 DEF News

LEMMA SortsOfChanges ==
    ASSUME NEW a, NEW b
    PROVE  /\ Sort(Changes(a, b), "node") =
                 Removed("node", a.nodes, b.nodes) \cup Added("node", a.nodes, b.nodes)
           /\ Sort(Changes(a, b), "subgraph") =
                 Removed("subgraph", a.subgraphs, b.subgraphs)
                    \cup Added("subgraph", a.subgraphs, b.subgraphs)
           /\ Sort(Changes(a, b), "edge") =
                 Changed("edge", a.edges, b.edges) \cup Removed("edge", a.edges, b.edges)
                    \cup Added("edge", a.edges, b.edges)
           /\ Sort(Changes(a, b), "state") =
                 Changed("state", Field(a.nodes, "state"), Field(b.nodes, "state"))
           /\ Sort(Changes(a, b), "value") =
                 Changed("value", Field(a.nodes, "cached_value"), Field(b.nodes, "cached_value"))
<1> DEFINE C == Changes(a, b)
<1>1. ASSUME NEW what, NEW old, NEW new, NEW how \in {"removed", "added", "changed"}
      PROVE  /\ \A c \in Removed(what, old, new) : c[1] = what
             /\ \A c \in Added(what, old, new) : c[1] = what
             /\ \A c \in Changed(what, old, new) : c[1] = what
  BY DEF Removed, Added, Changed
<1> QED BY <1>1 DEF Sort, Changes, NodeChanges

\* Of items that are not changed.
LEMMA MembershipReplays ==
    ASSUME NEW old, NEW new, NEW changes, NEW what,
           Sort(changes, what) = Removed(what, old, new) \cup Added(what, old, new)
    PROVE  Replay(old, changes, what) =
              [id \in DOMAIN new |-> IF id \in DOMAIN old THEN old[id] ELSE new[id]]
<1> DEFINE S == Sort(changes, what)
           result == [id \in DOMAIN new |-> IF id \in DOMAIN old THEN old[id] ELSE new[id]]
<1>1. \A c : c \in S <=> \/ \E id \in DOMAIN old \ DOMAIN new : c = <<what, "removed", id, old[id]>>
                         \/ \E id \in DOMAIN new \ DOMAIN old : c = <<what, "added", id, new[id]>>
  BY DEF Removed, Added
<1> HIDE DEF S
<1>2. Ids(S, what, "removed") = DOMAIN old \ DOMAIN new
  <2>1. Reports(S, what, "removed", DOMAIN old \ DOMAIN new, old)
    BY <1>1 DEF Reports
  <2> QED BY <2>1, IdsAre
<1>3. Ids(S, what, "added") = DOMAIN new \ DOMAIN old
  <2>1. Reports(S, what, "added", DOMAIN new \ DOMAIN old, new)
    BY <1>1 DEF Reports
  <2> QED BY <2>1, IdsAre
<1>4. Ids(S, what, "changed") = {}
  <2>1. \A c \in S : c[2] # "changed"
    BY <1>1
  <2> QED BY <2>1 DEF Ids
<1>5. ASSUME NEW id \in DOMAIN new \ DOMAIN old PROVE News(S, what, id) = new[id]
  <2>1. <<what, "added", id, new[id]>> \in S
    BY <1>1
  <2>2. IsTheNews(S, what, id, new[id])
    BY <1>1 DEF IsTheNews
  <2> QED BY <2>1, <2>2, NewsIs
<1>6. /\ Ids(changes, what, "removed") = DOMAIN old \ DOMAIN new
      /\ Ids(changes, what, "added") = DOMAIN new \ DOMAIN old
      /\ Ids(changes, what, "changed") = {}
      /\ \A id \in DOMAIN new \ DOMAIN old : News(changes, what, id) = new[id]
  BY <1>2, <1>3, <1>4, <1>5, IdsOfSort, NewsOfSort DEF S
<1>7. DOMAIN result = DOMAIN new /\ result = [id \in DOMAIN result |-> result[id]]
  OBVIOUS
<1>8. \A id \in DOMAIN result :
         IF id \in Ids(changes, what, "added") \cup Ids(changes, what, "changed")
         THEN News(changes, what, id) = result[id] ELSE old[id] = result[id]
  BY <1>6
<1>9. DOMAIN result = (DOMAIN old \ Ids(changes, what, "removed")) \cup Ids(changes, what, "added")
  BY <1>6, <1>7
<1> HIDE DEF result
<1>10. Replay(old, changes, what) = result
  BY <1>7, <1>8, <1>9, ReplayIs
<1> QED BY <1>10 DEF result

\* Of items that are all reported.
LEMMA EverythingReplays ==
    ASSUME NEW old, NEW new, NEW changes, NEW what, new = [id \in DOMAIN new |-> new[id]],
           Sort(changes, what) =
              Changed(what, old, new) \cup Removed(what, old, new) \cup Added(what, old, new)
    PROVE  Replay(old, changes, what) = new
<1> DEFINE S == Sort(changes, what)
           differ == {id \in DOMAIN old \cap DOMAIN new : old[id] # new[id]}
<1>1. \A c : c \in S <=> \/ \E id \in DOMAIN old \ DOMAIN new : c = <<what, "removed", id, old[id]>>
                         \/ \E id \in DOMAIN new \ DOMAIN old : c = <<what, "added", id, new[id]>>
                         \/ \E id \in differ : c = <<what, "changed", id, new[id]>>
  BY DEF Removed, Added, Changed
<1>2. differ \subseteq DOMAIN new
  OBVIOUS
<1> HIDE DEF S, differ
<1>3. /\ Ids(S, what, "removed") = DOMAIN old \ DOMAIN new
      /\ Ids(S, what, "added") = DOMAIN new \ DOMAIN old
      /\ Ids(S, what, "changed") = differ
  <2>1. Reports(S, what, "removed", DOMAIN old \ DOMAIN new, old)
    BY <1>1 DEF Reports
  <2>2. Reports(S, what, "added", DOMAIN new \ DOMAIN old, new)
    BY <1>1 DEF Reports
  <2>3. Reports(S, what, "changed", differ, new)
    BY <1>1 DEF Reports
  <2> QED BY <2>1, <2>2, <2>3, IdsAre
<1>4. ASSUME NEW id \in (DOMAIN new \ DOMAIN old) \cup differ PROVE News(S, what, id) = new[id]
  <2>1. \E how \in {"added", "changed"} : <<what, how, id, new[id]>> \in S
    BY <1>1
  <2>2. IsTheNews(S, what, id, new[id])
    BY <1>1 DEF IsTheNews
  <2> QED BY <2>1, <2>2, NewsIs
<1>5. /\ Ids(changes, what, "removed") = DOMAIN old \ DOMAIN new
      /\ Ids(changes, what, "added") = DOMAIN new \ DOMAIN old
      /\ Ids(changes, what, "changed") = differ
      /\ \A id \in (DOMAIN new \ DOMAIN old) \cup differ : News(changes, what, id) = new[id]
  BY <1>3, <1>4, IdsOfSort, NewsOfSort DEF S
<1>6. \A id \in DOMAIN new :
         IF id \in Ids(changes, what, "added") \cup Ids(changes, what, "changed")
         THEN News(changes, what, id) = new[id] ELSE old[id] = new[id]
  BY <1>5 DEF differ
<1>7. DOMAIN new = (DOMAIN old \ Ids(changes, what, "removed")) \cup Ids(changes, what, "added")
  BY <1>5
<1> QED BY <1>6, <1>7, ReplayIs

\* Of a field of the items that both have, when those added are there already.
LEMMA FieldReplays ==
    ASSUME NEW old, NEW new, NEW kept, NEW changes, NEW what,
           new = [id \in DOMAIN new |-> new[id]], DOMAIN kept = DOMAIN new,
           \A id \in DOMAIN new : kept[id] = IF id \in DOMAIN old THEN old[id] ELSE new[id],
           Sort(changes, what) = Changed(what, old, new)
    PROVE  Replay(kept, changes, what) = new
<1> DEFINE S == Sort(changes, what)
           differ == {id \in DOMAIN old \cap DOMAIN new : old[id] # new[id]}
<1>1. \A c : c \in S <=> \E id \in differ : c = <<what, "changed", id, new[id]>>
  BY DEF Changed
<1> HIDE DEF S, differ
<1>2. Ids(S, what, "removed") = {} /\ Ids(S, what, "added") = {} /\ Ids(S, what, "changed") = differ
  <2>1. \A c \in S : c[2] = "changed"
    BY <1>1
  <2>2. Reports(S, what, "changed", differ, new)
    BY <1>1 DEF Reports
  <2>3. Ids(S, what, "changed") = differ
    BY <2>2, IdsAre
  <2> QED BY <2>1, <2>3 DEF Ids
<1>3. ASSUME NEW id \in differ PROVE News(S, what, id) = new[id]
  <2>1. <<what, "changed", id, new[id]>> \in S
    BY <1>1
  <2>2. IsTheNews(S, what, id, new[id])
    BY <1>1 DEF IsTheNews
  <2> QED BY <2>1, <2>2, NewsIs
<1>4. /\ Ids(changes, what, "removed") = {}
      /\ Ids(changes, what, "added") = {}
      /\ Ids(changes, what, "changed") = differ
      /\ \A id \in differ : News(changes, what, id) = new[id]
  BY <1>2, <1>3, IdsOfSort, NewsOfSort DEF S
<1>5. \A id \in DOMAIN new :
         IF id \in Ids(changes, what, "added") \cup Ids(changes, what, "changed")
         THEN News(changes, what, id) = new[id] ELSE kept[id] = new[id]
  BY <1>4 DEF differ
<1>6. DOMAIN new = (DOMAIN kept \ Ids(changes, what, "removed")) \cup Ids(changes, what, "added")
  BY <1>4
<1> QED BY <1>5, <1>6, ReplayIs
-----------------------------------------------------------------------------
(***************************************************************************)
(* A diff leads to the next snapshot.                                      *)
(***************************************************************************)
\* The labels in a diff: an item of the later snapshot goes by the label it has there.
LEMMA LabelsAreLatest ==
    ASSUME NEW old, NEW new,
           \A id \in DOMAIN old \cap DOMAIN new : new[id].label = None => old[id].label = None
    PROVE  /\ \A id \in DOMAIN new : LabelIn(CollectedLabels(old, new), id) = new[id].label
           /\ \A id \in DOMAIN old \ DOMAIN new :
                 LabelIn(CollectedLabels(old, new), id) = old[id].label
<1> DEFINE labels == CollectedLabels(old, new)
<1>1. /\ DOMAIN LabelsOf(old) = {id \in DOMAIN old : old[id].label # None}
      /\ DOMAIN LabelsOf(new) = {id \in DOMAIN new : new[id].label # None}
      /\ \A id \in DOMAIN LabelsOf(old) : LabelsOf(old)[id] = old[id].label
      /\ \A id \in DOMAIN LabelsOf(new) : LabelsOf(new)[id] = new[id].label
  BY DEF LabelsOf
<1>2. /\ DOMAIN labels = DOMAIN LabelsOf(old) \cup DOMAIN LabelsOf(new)
      /\ \A id \in DOMAIN labels :
            labels[id] = IF id \in DOMAIN LabelsOf(new) THEN LabelsOf(new)[id]
                                                        ELSE LabelsOf(old)[id]
  BY DEF CollectedLabels
<1> HIDE DEF labels
<1>3. \A id \in DOMAIN new : LabelIn(labels, id) = new[id].label
  BY <1>1, <1>2 DEF LabelIn
<1>4. \A id \in DOMAIN old \ DOMAIN new : LabelIn(labels, id) = old[id].label
  BY <1>1, <1>2 DEF LabelIn
<1> QED BY <1>3, <1>4 DEF labels

LEMMA BetweenLeads ==
    ASSUME NEW a, NEW b, WellFormed(a), WellFormed(b), Succeeds(b, a)
    PROVE  After(a, Between(a, b)) = b
<1> DEFINE diff == Between(a, b)
           C == Changes(a, b)
<1>1. /\ diff.changes = C
      /\ diff.node_labels = CollectedLabels(a.nodes, b.nodes)
      /\ diff.subgraph_labels = CollectedLabels(a.subgraphs, b.subgraphs)
  BY DEF Between
<1> HIDE DEF diff, C
<1>2. Replay(a.edges, C, "edge") = b.edges
  <2>1. b.edges = [e \in DOMAIN b.edges |-> b.edges[e]]
    BY DEF WellFormed
  <2>2. Sort(C, "edge") = Changed("edge", a.edges, b.edges) \cup Removed("edge", a.edges, b.edges)
                            \cup Added("edge", a.edges, b.edges)
    BY SortsOfChanges DEF C
  <2> QED BY <2>1, <2>2, EverythingReplays
<1>3. ReplayNodes(a.nodes, diff, b.edges) = b.nodes
  <2> DEFINE kept == Replay(a.nodes, C, "node")
             states == Replay(Field(kept, "state"), C, "state")
             values == Replay(Field(kept, "cached_value"), C, "value")
             shown(n) == [kept[n] EXCEPT !.label = LabelIn(diff.node_labels, n),
                             !.state = states[n], !.cached_value = values[n],
                             !.dependencies = {e[1] : e \in {e \in DOMAIN b.edges : e[2] = n}},
                             !.dependents = {e[2] : e \in {e \in DOMAIN b.edges : e[1] = n}}]
  <2>1. /\ DOMAIN kept = DOMAIN b.nodes
        /\ \A n \in DOMAIN b.nodes :
              kept[n] = IF n \in DOMAIN a.nodes THEN a.nodes[n] ELSE b.nodes[n]
    <3>1. Sort(C, "node") = Removed("node", a.nodes, b.nodes) \cup Added("node", a.nodes, b.nodes)
      BY SortsOfChanges DEF C
    <3>2. kept = [n \in DOMAIN b.nodes |-> IF n \in DOMAIN a.nodes THEN a.nodes[n] ELSE b.nodes[n]]
      BY <3>1, MembershipReplays
    <3> QED BY <3>2
  <2> HIDE DEF kept
  <2>2. ASSUME NEW what, NEW field, Sort(C, what) =
                  Changed(what, Field(a.nodes, field), Field(b.nodes, field))
        PROVE  Replay(Field(kept, field), C, what) = Field(b.nodes, field)
    <3>1. /\ DOMAIN Field(kept, field) = DOMAIN b.nodes
          /\ DOMAIN Field(a.nodes, field) = DOMAIN a.nodes
          /\ DOMAIN Field(b.nodes, field) = DOMAIN b.nodes
          /\ \A n \in DOMAIN b.nodes : /\ Field(kept, field)[n] = kept[n][field]
                                       /\ Field(b.nodes, field)[n] = b.nodes[n][field]
          /\ \A n \in DOMAIN a.nodes : Field(a.nodes, field)[n] = a.nodes[n][field]
          /\ Field(b.nodes, field) =
                [n \in DOMAIN Field(b.nodes, field) |-> Field(b.nodes, field)[n]]
      BY <2>1 DEF Field
    <3>2. \A n \in DOMAIN Field(b.nodes, field) :
             Field(kept, field)[n] = IF n \in DOMAIN Field(a.nodes, field)
                                     THEN Field(a.nodes, field)[n] ELSE Field(b.nodes, field)[n]
      BY <2>1, <3>1
    <3> QED BY <2>2, <3>1, <3>2, FieldReplays
  <2>3. /\ Sort(C, "state") = Changed("state", Field(a.nodes, "state"), Field(b.nodes, "state"))
        /\ Sort(C, "value") =
              Changed("value", Field(a.nodes, "cached_value"), Field(b.nodes, "cached_value"))
    BY SortsOfChanges DEF C
  <2>4. states = Field(b.nodes, "state") /\ values = Field(b.nodes, "cached_value")
    BY <2>2, <2>3
  <2>5. \A n \in DOMAIN b.nodes : /\ states[n] = b.nodes[n].state
                                  /\ values[n] = b.nodes[n].cached_value
    BY <2>4 DEF Field
  <2>6. \A n \in DOMAIN b.nodes : LabelIn(diff.node_labels, n) = b.nodes[n].label
    BY <1>1, LabelsAreLatest DEF Succeeds
  <2> HIDE DEF states, values
  <2>7. ASSUME NEW n \in DOMAIN b.nodes PROVE shown(n) = b.nodes[n]
    <3>1. /\ kept[n].kind = b.nodes[n].kind
          /\ kept[n].subgraph_id = b.nodes[n].subgraph_id
      BY <2>1 DEF Succeeds
    <3>2. kept[n] = [label |-> kept[n].label, subgraph_id |-> kept[n].subgraph_id,
                     kind |-> kept[n].kind, state |-> kept[n].state,
                     cached_value |-> kept[n].cached_value,
                     dependencies |-> kept[n].dependencies, dependents |-> kept[n].dependents]
      BY <2>1 DEF WellFormed
    <3>3. /\ b.nodes[n] = [label |-> b.nodes[n].label, subgraph_id |-> b.nodes[n].subgraph_id,
                     kind |-> b.nodes[n].kind, state |-> b.nodes[n].state,
                     cached_value |-> b.nodes[n].cached_value,
                     dependencies |-> b.nodes[n].dependencies, dependents |-> b.nodes[n].dependents]
          /\ b.nodes[n].dependencies = {e[1] : e \in {e \in DOMAIN b.edges : e[2] = n}}
          /\ b.nodes[n].dependents = {e[2] : e \in {e \in DOMAIN b.edges : e[1] = n}}
      BY DEF WellFormed
    <3> QED BY <2>5, <2>6, <3>1, <3>2, <3>3
  <2>8. b.nodes = [n \in DOMAIN b.nodes |-> b.nodes[n]]
    BY DEF WellFormed
  <2>9. ReplayNodes(a.nodes, diff, b.edges) = [n \in DOMAIN kept |-> shown(n)]
    BY <1>1 DEF ReplayNodes, kept, states, values
  <2> HIDE DEF shown
  <2> QED BY <2>1, <2>7, <2>8, <2>9
<1>4. ReplaySubgraphs(a.subgraphs, diff, b.nodes) = b.subgraphs
  <2> DEFINE kept == Replay(a.subgraphs, C, "subgraph")
             shown(s) == [kept[s] EXCEPT !.label = LabelIn(diff.subgraph_labels, s),
                             !.children = {c \in DOMAIN kept : kept[c].parent = s},
                             !.nodes = {n \in DOMAIN b.nodes : b.nodes[n].subgraph_id = s}]
  <2>1. /\ DOMAIN kept = DOMAIN b.subgraphs
        /\ \A s \in DOMAIN b.subgraphs :
              kept[s] = IF s \in DOMAIN a.subgraphs THEN a.subgraphs[s] ELSE b.subgraphs[s]
    <3>1. Sort(C, "subgraph") = Removed("subgraph", a.subgraphs, b.subgraphs)
                                  \cup Added("subgraph", a.subgraphs, b.subgraphs)
      BY SortsOfChanges DEF C
    <3>2. kept = [s \in DOMAIN b.subgraphs |-> IF s \in DOMAIN a.subgraphs THEN a.subgraphs[s]
                                                                         ELSE b.subgraphs[s]]
      BY <3>1, MembershipReplays
    <3> QED BY <3>2
  <2> HIDE DEF kept
  <2>2. \A s \in DOMAIN b.subgraphs : LabelIn(diff.subgraph_labels, s) = b.subgraphs[s].label
    BY <1>1, LabelsAreLatest DEF Succeeds
  <2>3. \A s \in DOMAIN b.subgraphs : kept[s].parent = b.subgraphs[s].parent
    BY <2>1 DEF Succeeds
  <2>4. ASSUME NEW s \in DOMAIN b.subgraphs PROVE shown(s) = b.subgraphs[s]
    <3>1. kept[s] = [label |-> kept[s].label, parent |-> kept[s].parent,
                     children |-> kept[s].children, nodes |-> kept[s].nodes]
      BY <2>1 DEF WellFormed
    <3>2. /\ b.subgraphs[s] = [label |-> b.subgraphs[s].label, parent |-> b.subgraphs[s].parent,
                     children |-> b.subgraphs[s].children, nodes |-> b.subgraphs[s].nodes]
          /\ b.subgraphs[s].children = {c \in DOMAIN b.subgraphs : b.subgraphs[c].parent = s}
          /\ b.subgraphs[s].nodes = {n \in DOMAIN b.nodes : b.nodes[n].subgraph_id = s}
      BY DEF WellFormed
    <3>3. {c \in DOMAIN kept : kept[c].parent = s} =
             {c \in DOMAIN b.subgraphs : b.subgraphs[c].parent = s}
      BY <2>1, <2>3
    <3> QED BY <2>2, <2>3, <3>1, <3>2, <3>3
  <2>5. b.subgraphs = [s \in DOMAIN b.subgraphs |-> b.subgraphs[s]]
    BY DEF WellFormed
  <2>6. ReplaySubgraphs(a.subgraphs, diff, b.nodes) = [s \in DOMAIN kept |-> shown(s)]
    BY <1>1 DEF ReplaySubgraphs, kept
  <2> QED BY <2>1, <2>4, <2>5, <2>6
<1>5. After(a, diff) =
         [subgraphs |-> b.subgraphs, nodes |-> b.nodes, edges |-> b.edges,
          pending_edges |-> {e \in DOMAIN b.edges : b.edges[e] = "Pending"}]
  BY <1>1, <1>2, <1>3, <1>4 DEF After
<1>6. b = [subgraphs |-> b.subgraphs, nodes |-> b.nodes, edges |-> b.edges,
           pending_edges |-> b.pending_edges]
      /\ b.pending_edges = {e \in DOMAIN b.edges : b.edges[e] = "Pending"}
  BY DEF WellFormed
<1> QED BY <1>5, <1>6 DEF diff
-----------------------------------------------------------------------------
(***************************************************************************)
(* A diff reports what differs, and once.                                  *)
(***************************************************************************)
\* Where no items are reported, they are the same ones, and no field of them differs.
LEMMA NothingReported ==
    ASSUME NEW what, NEW old, NEW new
    PROVE  /\ Removed(what, old, new) \cup Added(what, old, new) = {} => DOMAIN old = DOMAIN new
           /\ Changed(what, old, new) = {} =>
                 \A id \in DOMAIN old \cap DOMAIN new : old[id] = new[id]
           /\ DOMAIN old = DOMAIN new => Removed(what, old, new) \cup Added(what, old, new) = {}
           /\ (\A id \in DOMAIN old \cap DOMAIN new : old[id] = new[id]) =>
                 Changed(what, old, new) = {}
<1>1. ASSUME Removed(what, old, new) \cup Added(what, old, new) = {} PROVE DOMAIN old = DOMAIN new
  <2>1. \A id \in DOMAIN old \ DOMAIN new :
           <<what, "removed", id, old[id]>> \in Removed(what, old, new)
    BY DEF Removed
  <2>2. \A id \in DOMAIN new \ DOMAIN old : <<what, "added", id, new[id]>> \in Added(what, old, new)
    BY DEF Added
  <2> QED BY <1>1, <2>1, <2>2
<1>2. ASSUME Changed(what, old, new) = {}, NEW id \in DOMAIN old \cap DOMAIN new
      PROVE  old[id] = new[id]
  <2>1. old[id] # new[id] => <<what, "changed", id, new[id]>> \in Changed(what, old, new)
    BY DEF Changed
  <2> QED BY <1>2, <2>1
<1>3. DOMAIN old = DOMAIN new => Removed(what, old, new) \cup Added(what, old, new) = {}
  BY DEF Removed, Added
<1>4. (\A id \in DOMAIN old \cap DOMAIN new : old[id] = new[id]) => Changed(what, old, new) = {}
  BY DEF Changed
<1> QED BY <1>1, <1>2, <1>3, <1>4

LEMMA FieldsReported ==
    ASSUME NEW what, NEW old, NEW new, NEW field
    PROVE  Changed(what, Field(old, field), Field(new, field)) = {} <=>
              \A id \in DOMAIN old \cap DOMAIN new : old[id][field] = new[id][field]
<1>1. /\ DOMAIN Field(old, field) = DOMAIN old /\ DOMAIN Field(new, field) = DOMAIN new
      /\ \A id \in DOMAIN old : Field(old, field)[id] = old[id][field]
      /\ \A id \in DOMAIN new : Field(new, field)[id] = new[id][field]
  BY DEF Field
<1>2. (\A id \in DOMAIN old \cap DOMAIN new : old[id][field] = new[id][field]) <=>
         \A id \in DOMAIN Field(old, field) \cap DOMAIN Field(new, field) :
            Field(old, field)[id] = Field(new, field)[id]
  BY <1>1
<1> QED BY <1>2, NothingReported

Same(a, b) ==
    /\ Unlabelled(a.nodes) = Unlabelled(b.nodes)
    /\ Unlabelled(a.subgraphs) = Unlabelled(b.subgraphs)
    /\ a.edges = b.edges /\ a.pending_edges = b.pending_edges

LEMMA ListsAreDerived ==
    ASSUME NEW x, WellFormed(x), NEW n \in DOMAIN x.nodes
    PROVE  /\ x.nodes[n].dependencies = {e[1] : e \in {e \in DOMAIN x.edges : e[2] = n}}
           /\ x.nodes[n].dependents = {e[2] : e \in {e \in DOMAIN x.edges : e[1] = n}}
<1>1. LET node == x.nodes[n] IN
         /\ node.dependencies = {e[1] : e \in {e \in DOMAIN x.edges : e[2] = n}}
         /\ node.dependents = {e[2] : e \in {e \in DOMAIN x.edges : e[1] = n}}
  BY DEF WellFormed
<1> QED BY <1>1

LEMMA MembersAreDerived ==
    ASSUME NEW x, WellFormed(x), NEW s \in DOMAIN x.subgraphs
    PROVE  /\ x.subgraphs[s].children = {c \in DOMAIN x.subgraphs : x.subgraphs[c].parent = s}
           /\ x.subgraphs[s].nodes = {n \in DOMAIN x.nodes : x.nodes[n].subgraph_id = s}
<1>1. LET region == x.subgraphs[s] IN
         /\ region.children = {c \in DOMAIN x.subgraphs : x.subgraphs[c].parent = s}
         /\ region.nodes = {n \in DOMAIN x.nodes : x.nodes[n].subgraph_id = s}
  BY DEF WellFormed
<1> QED BY <1>1

LEMMA BetweenIsMinimal ==
    ASSUME NEW a, NEW b, WellFormed(a), WellFormed(b), Succeeds(b, a)
    PROVE  Changes(a, b) = {} <=> Same(a, b)
<1> DEFINE bare(node) == [node EXCEPT !.label = None]
<1>1. ASSUME Changes(a, b) = {} PROVE Same(a, b)
  <2>1. /\ Removed("node", a.nodes, b.nodes) \cup Added("node", a.nodes, b.nodes) = {}
        /\ Removed("subgraph", a.subgraphs, b.subgraphs)
              \cup Added("subgraph", a.subgraphs, b.subgraphs) = {}
        /\ Removed("edge", a.edges, b.edges) \cup Added("edge", a.edges, b.edges) = {}
        /\ Changed("edge", a.edges, b.edges) = {}
        /\ Changed("state", Field(a.nodes, "state"), Field(b.nodes, "state")) = {}
        /\ Changed("value", Field(a.nodes, "cached_value"), Field(b.nodes, "cached_value")) = {}
    BY <1>1 DEF Changes, NodeChanges
  <2>2. DOMAIN a.nodes = DOMAIN b.nodes /\ DOMAIN a.subgraphs = DOMAIN b.subgraphs
    BY <2>1, NothingReported
  <2>3. a.edges = b.edges
    <3>1. DOMAIN a.edges = DOMAIN b.edges
      BY <2>1, NothingReported
    <3>2. \A e \in DOMAIN a.edges : a.edges[e] = b.edges[e]
      BY <2>1, <3>1, NothingReported
    <3> QED BY <3>1, <3>2 DEF WellFormed
  <2>4. \A n \in DOMAIN a.nodes : /\ a.nodes[n].state = b.nodes[n].state
                                  /\ a.nodes[n].cached_value = b.nodes[n].cached_value
    <3>1. /\ \A n \in DOMAIN a.nodes \cap DOMAIN b.nodes : a.nodes[n]["state"] = b.nodes[n]["state"]
          /\ \A n \in DOMAIN a.nodes \cap DOMAIN b.nodes :
                a.nodes[n]["cached_value"] = b.nodes[n]["cached_value"]
      BY <2>1, FieldsReported
    <3> QED BY <2>2, <3>1
  <2>5. ASSUME NEW n \in DOMAIN a.nodes PROVE bare(a.nodes[n]) = bare(b.nodes[n])
    <3>1. /\ a.nodes[n].kind = b.nodes[n].kind
          /\ a.nodes[n].subgraph_id = b.nodes[n].subgraph_id
      BY <2>2 DEF Succeeds
    <3>2. /\ a.nodes[n].dependencies = b.nodes[n].dependencies
          /\ a.nodes[n].dependents = b.nodes[n].dependents
      <4>1. /\ a.nodes[n].dependencies = {e[1] : e \in {e \in DOMAIN a.edges : e[2] = n}}
            /\ a.nodes[n].dependents = {e[2] : e \in {e \in DOMAIN a.edges : e[1] = n}}
        BY ListsAreDerived
      <4>2. /\ b.nodes[n].dependencies = {e[1] : e \in {e \in DOMAIN b.edges : e[2] = n}}
            /\ b.nodes[n].dependents = {e[2] : e \in {e \in DOMAIN b.edges : e[1] = n}}
        BY <2>2, ListsAreDerived
      <4> QED BY <2>3, <4>1, <4>2
    <3>3. /\ a.nodes[n] = [label |-> a.nodes[n].label, subgraph_id |-> a.nodes[n].subgraph_id,
                     kind |-> a.nodes[n].kind, state |-> a.nodes[n].state,
                     cached_value |-> a.nodes[n].cached_value,
                     dependencies |-> a.nodes[n].dependencies, dependents |-> a.nodes[n].dependents]
          /\ b.nodes[n] = [label |-> b.nodes[n].label, subgraph_id |-> b.nodes[n].subgraph_id,
                     kind |-> b.nodes[n].kind, state |-> b.nodes[n].state,
                     cached_value |-> b.nodes[n].cached_value,
                     dependencies |-> b.nodes[n].dependencies, dependents |-> b.nodes[n].dependents]
      BY <2>2 DEF WellFormed
    <3> QED BY <2>4, <3>1, <3>2, <3>3
  <2>6. ASSUME NEW s \in DOMAIN a.subgraphs PROVE bare(a.subgraphs[s]) = bare(b.subgraphs[s])
    <3>1. a.subgraphs[s].parent = b.subgraphs[s].parent
      BY <2>2 DEF Succeeds
    <3>2. a.subgraphs[s].children = b.subgraphs[s].children
      <4>1. \A c \in DOMAIN a.subgraphs : a.subgraphs[c].parent = b.subgraphs[c].parent
        BY <2>2 DEF Succeeds
      <4>2. /\ a.subgraphs[s].children = {c \in DOMAIN a.subgraphs : a.subgraphs[c].parent = s}
            /\ b.subgraphs[s].children = {c \in DOMAIN b.subgraphs : b.subgraphs[c].parent = s}
        BY <2>2, MembersAreDerived
      <4> QED BY <2>2, <4>1, <4>2
    <3>3. a.subgraphs[s].nodes = b.subgraphs[s].nodes
      <4>1. \A n \in DOMAIN a.nodes : a.nodes[n].subgraph_id = b.nodes[n].subgraph_id
        BY <2>2 DEF Succeeds
      <4>2. /\ a.subgraphs[s].nodes = {n \in DOMAIN a.nodes : a.nodes[n].subgraph_id = s}
            /\ b.subgraphs[s].nodes = {n \in DOMAIN b.nodes : b.nodes[n].subgraph_id = s}
        BY <2>2, MembersAreDerived
      <4> QED BY <2>2, <4>1, <4>2
    <3>4. /\ a.subgraphs[s] = [label |-> a.subgraphs[s].label, parent |-> a.subgraphs[s].parent,
                     children |-> a.subgraphs[s].children, nodes |-> a.subgraphs[s].nodes]
          /\ b.subgraphs[s] = [label |-> b.subgraphs[s].label, parent |-> b.subgraphs[s].parent,
                     children |-> b.subgraphs[s].children, nodes |-> b.subgraphs[s].nodes]
      BY <2>2 DEF WellFormed
    <3> QED BY <3>1, <3>2, <3>3, <3>4
  <2>7. a.pending_edges = b.pending_edges
    BY <2>3 DEF WellFormed
  <2>8. Unlabelled(a.nodes) = Unlabelled(b.nodes)
    BY <2>2, <2>5 DEF Unlabelled
  <2>9. Unlabelled(a.subgraphs) = Unlabelled(b.subgraphs)
    BY <2>2, <2>6 DEF Unlabelled
  <2> QED BY <2>3, <2>7, <2>8, <2>9 DEF Same
<1>2. ASSUME Same(a, b) PROVE Changes(a, b) = {}
  <2>1. /\ DOMAIN a.nodes = DOMAIN b.nodes
        /\ \A n \in DOMAIN a.nodes : bare(a.nodes[n]) = bare(b.nodes[n])
    <3>1. /\ DOMAIN Unlabelled(a.nodes) = DOMAIN a.nodes
          /\ DOMAIN Unlabelled(b.nodes) = DOMAIN b.nodes
          /\ \A n \in DOMAIN a.nodes : Unlabelled(a.nodes)[n] = bare(a.nodes[n])
          /\ \A n \in DOMAIN b.nodes : Unlabelled(b.nodes)[n] = bare(b.nodes[n])
      BY DEF Unlabelled
    <3> HIDE DEF bare
    <3> QED BY <1>2, <3>1 DEF Same
  <2>2. DOMAIN a.subgraphs = DOMAIN b.subgraphs
    <3>1. /\ DOMAIN Unlabelled(a.subgraphs) = DOMAIN a.subgraphs
          /\ DOMAIN Unlabelled(b.subgraphs) = DOMAIN b.subgraphs
      BY DEF Unlabelled
    <3> QED BY <1>2, <3>1 DEF Same
  <2>3. ASSUME NEW n \in DOMAIN a.nodes
        PROVE  /\ a.nodes[n]["state"] = b.nodes[n]["state"]
               /\ a.nodes[n]["cached_value"] = b.nodes[n]["cached_value"]
    <3>1. /\ a.nodes[n] = [label |-> a.nodes[n].label, subgraph_id |-> a.nodes[n].subgraph_id,
                     kind |-> a.nodes[n].kind, state |-> a.nodes[n].state,
                     cached_value |-> a.nodes[n].cached_value,
                     dependencies |-> a.nodes[n].dependencies, dependents |-> a.nodes[n].dependents]
          /\ b.nodes[n] = [label |-> b.nodes[n].label, subgraph_id |-> b.nodes[n].subgraph_id,
                     kind |-> b.nodes[n].kind, state |-> b.nodes[n].state,
                     cached_value |-> b.nodes[n].cached_value,
                     dependencies |-> b.nodes[n].dependencies, dependents |-> b.nodes[n].dependents]
      BY <2>1 DEF WellFormed
    <3>2. bare(a.nodes[n]).state = a.nodes[n].state /\ bare(b.nodes[n]).state = b.nodes[n].state
      BY <3>1
    <3>3. /\ bare(a.nodes[n]).cached_value = a.nodes[n].cached_value
          /\ bare(b.nodes[n]).cached_value = b.nodes[n].cached_value
      BY <3>1
    <3>4. bare(a.nodes[n]) = bare(b.nodes[n])
      BY <2>1
    <3> HIDE DEF bare
    <3> QED BY <3>2, <3>3, <3>4
  <2>4. /\ Changed("state", Field(a.nodes, "state"), Field(b.nodes, "state")) = {}
        /\ Changed("value", Field(a.nodes, "cached_value"), Field(b.nodes, "cached_value")) = {}
    BY <2>3, FieldsReported
  <2>5. /\ Removed("node", a.nodes, b.nodes) \cup Added("node", a.nodes, b.nodes) = {}
        /\ Removed("subgraph", a.subgraphs, b.subgraphs)
              \cup Added("subgraph", a.subgraphs, b.subgraphs) = {}
    BY <2>1, <2>2, NothingReported
  <2>6. /\ Removed("edge", a.edges, b.edges) \cup Added("edge", a.edges, b.edges) = {}
        /\ Changed("edge", a.edges, b.edges) = {}
    BY <1>2, NothingReported DEF Same
  <2> QED BY <2>4, <2>5, <2>6 DEF Changes, NodeChanges
<1> QED BY <1>1, <1>2

\* An item is not removed, added and changed at once.
LEMMA ReportedOnce ==
    ASSUME NEW a, NEW b, NEW c \in Changes(a, b), NEW d \in Changes(a, b), c[1] = d[1], c[3] = d[3]
    PROVE  c = d
<1> DEFINE what == c[1]
<1>1. ASSUME NEW w, NEW old, NEW new,
             NEW x \in Changed(w, old, new) \cup Removed(w, old, new) \cup Added(w, old, new),
             NEW y \in Changed(w, old, new) \cup Removed(w, old, new) \cup Added(w, old, new),
             x[3] = y[3]
      PROVE  x = y
  BY <1>1 DEF Changed, Removed, Added
<1>2. c[1] \in {"node", "subgraph", "edge", "state", "value"}
  BY DEF Changes, NodeChanges, Changed, Removed, Added
<1>3. c \in Sort(Changes(a, b), what) /\ d \in Sort(Changes(a, b), what)
  BY DEF Sort
<1>4. CASE what = "node"
  BY <1>1, <1>3, <1>4, SortsOfChanges
<1>5. CASE what = "subgraph"
  BY <1>1, <1>3, <1>5, SortsOfChanges
<1>6. CASE what = "edge"
  BY <1>1, <1>3, <1>6, SortsOfChanges
<1>7. CASE what = "state"
  BY <1>1, <1>3, <1>7, SortsOfChanges
<1>8. CASE what = "value"
  BY <1>1, <1>3, <1>8, SortsOfChanges
<1> QED BY <1>2, <1>4, <1>5, <1>6, <1>7, <1>8

\* A node that comes or goes is in one of the snapshots only, and a change is of a node of both.
LEMMA NewNodesUnchanged ==
    ASSUME NEW a, NEW b, NEW c \in Changes(a, b), NEW d \in Changes(a, b),
           c[1] = "node", d[1] \in {"state", "value"}
    PROVE  c[3] # d[3]
<1>1. c \in Removed("node", a.nodes, b.nodes) \cup Added("node", a.nodes, b.nodes)
  BY SortsOfChanges DEF Sort
<1>2. ASSUME NEW what, d[1] = what
      PROVE  d \in Sort(Changes(a, b), what)
  BY <1>2 DEF Sort
<1>3. c[3] \notin DOMAIN a.nodes \cap DOMAIN b.nodes
  BY <1>1 DEF Removed, Added
<1>4. ASSUME NEW what, NEW field,
             d \in Changed(what, Field(a.nodes, field), Field(b.nodes, field))
      PROVE  d[3] \in DOMAIN a.nodes \cap DOMAIN b.nodes
  <2>1. \A items : DOMAIN Field(items, field) = DOMAIN items
    BY DEF Field
  <2>2. d[3] \in DOMAIN Field(a.nodes, field) \cap DOMAIN Field(b.nodes, field)
    BY <1>4 DEF Changed
  <2> QED BY <2>1, <2>2
<1>5. d[3] \in DOMAIN a.nodes \cap DOMAIN b.nodes
  <2>1. CASE d[1] = "state"
    <3>1. d \in Sort(Changes(a, b), "state")
      BY <1>2, <2>1
    <3>2. d \in Changed("state", Field(a.nodes, "state"), Field(b.nodes, "state"))
      BY <3>1, SortsOfChanges
    <3> QED BY <1>4, <3>2
  <2>2. CASE d[1] = "value"
    <3>1. d \in Sort(Changes(a, b), "value")
      BY <1>2, <2>2
    <3>2. d \in Changed("value", Field(a.nodes, "cached_value"), Field(b.nodes, "cached_value"))
      BY <3>1, SortsOfChanges
    <3> QED BY <1>4, <3>2
  <2> QED BY <2>1, <2>2
<1> QED BY <1>3, <1>5
-----------------------------------------------------------------------------
(***************************************************************************)
(* A snapshot says nothing that does not fit together.                     *)
(***************************************************************************)
GraphInv == CallInv /\ EdgeInv /\ PendingAreEdges /\ RegionInv

\* The edges that the inspection functions list are the ones the nodes know.
LEMMA EdgesOfGraph ==
    ASSUME GraphInv
    PROVE  /\ \A n \in Live : active_dependencies[n] = {e[1] : e \in {e \in ActiveEdges : e[2] = n}}
           /\ \A n \in Live : dependents[n] = {e[2] : e \in {e \in ActiveEdges : e[1] = n}}
           /\ \A e \in ActiveEdges : e[1] \in Live /\ e[2] \in Live
           /\ pending_edges = {e \in ActiveEdges : EdgeState(e) = "Pending"}
<1>1. /\ active_dependencies \in [NodeId -> SUBSET NodeId]
      /\ dependents \in [NodeId -> SUBSET NodeId]
      /\ pending_edges \in SUBSET (NodeId \X NodeId)
      /\ kind \in [NodeId -> {"Absent", "Source", "Derived"}]
  BY DEF GraphInv, CallInv, TypeOK, GraphTypeOK
<1>2. \A d, n \in NodeId : n \in dependents[d] <=> d \in active_dependencies[n]
  BY DEF GraphInv, EdgeInv, EdgesMirror
<1>3. \A e : e \in ActiveEdges <=> \E d, n \in NodeId : e = <<d, n>> /\ n \in dependents[d]
  BY DEF ActiveEdges
<1>4. ASSUME NEW n \in NodeId
      PROVE  active_dependencies[n] = {e[1] : e \in {e \in ActiveEdges : e[2] = n}}
  <2>1. ASSUME NEW d \in active_dependencies[n]
        PROVE  d \in {e[1] : e \in {e \in ActiveEdges : e[2] = n}}
    <3> DEFINE e == <<d, n>>
    <3>1. e \in ActiveEdges /\ e[1] = d /\ e[2] = n
      BY <1>1, <1>2, <1>3
    <3> HIDE DEF e
    <3> QED BY <3>1
  <2>2. ASSUME NEW e \in ActiveEdges, e[2] = n PROVE e[1] \in active_dependencies[n]
    BY <1>2, <1>3, <2>2
  <2> QED BY <2>1, <2>2
<1>5. ASSUME NEW n \in NodeId
      PROVE  dependents[n] = {e[2] : e \in {e \in ActiveEdges : e[1] = n}}
  <2>1. ASSUME NEW d \in dependents[n]
        PROVE  d \in {e[2] : e \in {e \in ActiveEdges : e[1] = n}}
    <3> DEFINE e == <<n, d>>
    <3>1. e \in ActiveEdges /\ e[2] = d /\ e[1] = n
      BY <1>1, <1>2, <1>3
    <3> HIDE DEF e
    <3> QED BY <3>1
  <2>2. ASSUME NEW e \in ActiveEdges, e[1] = n PROVE e[2] \in dependents[n]
    BY <1>2, <1>3, <2>2
  <2> QED BY <2>1, <2>2
<1>6. ASSUME NEW e \in ActiveEdges
      PROVE  e[1] \in active_dependencies[e[2]] /\ e[1] \in Live /\ e[2] \in Live
  <2>1. PICK d \in NodeId, n \in NodeId : e = <<d, n>> /\ n \in dependents[d]
    BY <1>3
  <2>2. d \in active_dependencies[n]
    BY <1>2, <2>1
  <2>3. kind[n] = "Derived" /\ active_dependencies[n] \subseteq Live
    BY <2>2 DEF GraphInv, EdgeInv, EdgesMirror
  <2> QED BY <2>1, <2>2, <2>3 DEF Live
<1>7. pending_edges \subseteq ActiveEdges
  BY <1>1 DEF GraphInv, PendingAreEdges, ActiveEdges
<1>8. \A e \in ActiveEdges : EdgeState(e) = "Pending" <=> e \in pending_edges
  BY <1>6 DEF EdgeState
<1> QED BY <1>4, <1>5, <1>6, <1>7, <1>8 DEF Live

LEMMA SnapshotWellFormed ==
    ASSUME GraphInv
    PROVE  WellFormed(Snapshot)
<1> DEFINE x == Snapshot
<1>1. /\ DOMAIN x.nodes = Live /\ DOMAIN x.subgraphs = subgraphs /\ DOMAIN x.edges = ActiveEdges
      /\ \A n \in Live : x.nodes[n] = NodeSnapshot(n)
      /\ \A s \in subgraphs : x.subgraphs[s] = SubgraphSnapshot(s)
      /\ \A e \in ActiveEdges : x.edges[e] = EdgeState(e)
      /\ x.pending_edges = pending_edges
  BY DEF Snapshot
<1>2. /\ x = [subgraphs |-> x.subgraphs, nodes |-> x.nodes, edges |-> x.edges,
              pending_edges |-> x.pending_edges]
      /\ x.nodes = [n \in DOMAIN x.nodes |-> x.nodes[n]]
      /\ x.subgraphs = [s \in DOMAIN x.subgraphs |-> x.subgraphs[s]]
      /\ x.edges = [e \in DOMAIN x.edges |-> x.edges[e]]
  BY DEF Snapshot
<1> HIDE DEF x
<1>3. /\ \A s, c \in SubgraphId : c \in children[s] <=> parent[c] = s
      /\ \A c \in SubgraphId : parent[c] # None => {c, parent[c]} \subseteq subgraphs
      /\ \A s \in SubgraphId, n \in NodeId : n \in nodes[s] <=> subgraph[n] = s
      /\ \A n \in NodeId : subgraph[n] # None => n \in Live /\ subgraph[n] \in subgraphs
      /\ \A c \in SubgraphId : parent[c] # None => parent[c] < c
      /\ subgraphs \subseteq SubgraphId
      /\ children \in [SubgraphId -> SUBSET SubgraphId]
      /\ nodes \in [SubgraphId -> SUBSET NodeId]
      /\ SubgraphId \subseteq Nat /\ None \notin SubgraphId
  BY SubgraphAssumption
     DEF GraphInv, RegionInv, OwnershipMirror, RegionIdsOrdered, SubgraphTypeOK
<1>4. ASSUME NEW n \in DOMAIN x.nodes
      PROVE  LET node == x.nodes[n] IN
          /\ node = [label |-> node.label, subgraph_id |-> node.subgraph_id, kind |-> node.kind,
                     state |-> node.state, cached_value |-> node.cached_value,
                     dependencies |-> node.dependencies, dependents |-> node.dependents]
          /\ node.subgraph_id \in DOMAIN x.subgraphs \cup {None}
          /\ node.dependencies = {e[1] : e \in {e \in DOMAIN x.edges : e[2] = n}}
          /\ node.dependents = {e[2] : e \in {e \in DOMAIN x.edges : e[1] = n}}
  <2>1. n \in Live /\ n \in NodeId
    BY <1>1 DEF Live
  <2> DEFINE item == x.nodes[n]
  <2>0. item = [label |-> node_labels[n], subgraph_id |-> subgraph[n], kind |-> kind[n],
                state |-> state[n], cached_value |-> value[n],
                dependencies |-> active_dependencies[n], dependents |-> dependents[n]]
    BY <1>1, <2>1 DEF NodeSnapshot
  <2> HIDE DEF item
  <2>2. /\ x.nodes[n].subgraph_id = subgraph[n]
        /\ x.nodes[n].dependencies = active_dependencies[n]
        /\ x.nodes[n].dependents = dependents[n]
    BY <2>0 DEF item
  <2>3. LET node == x.nodes[n] IN
           node = [label |-> node.label, subgraph_id |-> node.subgraph_id, kind |-> node.kind,
                   state |-> node.state, cached_value |-> node.cached_value,
                   dependencies |-> node.dependencies, dependents |-> node.dependents]
    BY <2>0 DEF item
  <2>4. /\ x.nodes[n].dependencies = {e[1] : e \in {e \in DOMAIN x.edges : e[2] = n}}
        /\ x.nodes[n].dependents = {e[2] : e \in {e \in DOMAIN x.edges : e[1] = n}}
    BY <1>1, <2>1, <2>2, EdgesOfGraph
  <2>5. x.nodes[n].subgraph_id \in DOMAIN x.subgraphs \cup {None}
    BY <1>1, <1>3, <2>1, <2>2
  <2> QED BY <2>3, <2>4, <2>5
<1>5. ASSUME NEW s \in DOMAIN x.subgraphs
      PROVE  LET region == x.subgraphs[s] IN
          /\ s \in Nat
          /\ region = [label |-> region.label, parent |-> region.parent,
                       children |-> region.children, nodes |-> region.nodes]
          /\ region.parent # None => region.parent \in DOMAIN x.subgraphs /\ region.parent < s
          /\ region.children = {c \in DOMAIN x.subgraphs : x.subgraphs[c].parent = s}
          /\ region.nodes = {n \in DOMAIN x.nodes : x.nodes[n].subgraph_id = s}
  <2>1. s \in subgraphs /\ s \in SubgraphId /\ s \in Nat /\ s # None
    BY <1>1, <1>3
  <2> DEFINE item == x.subgraphs[s]
  <2>0. item = [label |-> subgraph_labels[s], parent |-> parent[s], children |-> children[s],
                  nodes |-> nodes[s]]
    BY <1>1, <2>1 DEF SubgraphSnapshot
  <2> HIDE DEF item
  <2>2. /\ x.subgraphs[s].parent = parent[s]
        /\ x.subgraphs[s].children = children[s]
        /\ x.subgraphs[s].nodes = nodes[s]
    BY <2>0 DEF item
  <2>3. LET region == x.subgraphs[s] IN
           region = [label |-> region.label, parent |-> region.parent,
                     children |-> region.children, nodes |-> region.nodes]
    BY <2>0 DEF item
  <2>4. /\ \A c \in subgraphs : x.subgraphs[c].parent = parent[c]
        /\ \A n \in Live : x.nodes[n].subgraph_id = subgraph[n]
    <3>1. ASSUME NEW c \in subgraphs PROVE x.subgraphs[c].parent = parent[c]
      <4>1. x.subgraphs[c] = SubgraphSnapshot(c)
        BY <1>1
      <4> QED BY <4>1 DEF SubgraphSnapshot
    <3>2. ASSUME NEW n \in Live PROVE x.nodes[n].subgraph_id = subgraph[n]
      <4>1. x.nodes[n] = NodeSnapshot(n)
        BY <1>1
      <4> QED BY <4>1 DEF NodeSnapshot
    <3> QED BY <3>1, <3>2
  <2>5. children[s] = {c \in subgraphs : parent[c] = s} /\ nodes[s] = {n \in Live : subgraph[n] = s}
    <3>1. children[s] \subseteq SubgraphId /\ nodes[s] \subseteq NodeId
      BY <1>3, <2>1
    <3>2. \A c : c \in children[s] <=> c \in subgraphs /\ parent[c] = s
      BY <1>3, <2>1, <3>1
    <3>3. \A n : n \in nodes[s] <=> n \in Live /\ subgraph[n] = s
      BY <1>3, <2>1, <3>1 DEF Live
    <3> QED BY <3>2, <3>3
  <2>6. children[s] = {c \in DOMAIN x.subgraphs : x.subgraphs[c].parent = s}
    BY <1>1, <2>4, <2>5
  <2>7. nodes[s] = {n \in DOMAIN x.nodes : x.nodes[n].subgraph_id = s}
    BY <1>1, <2>4, <2>5
  <2>8. parent[s] # None => parent[s] \in DOMAIN x.subgraphs /\ parent[s] < s
    BY <1>1, <1>3, <2>1
  <2> QED BY <2>1, <2>2, <2>3, <2>6, <2>7, <2>8
<1>6. /\ \A e \in DOMAIN x.edges : e[1] \in DOMAIN x.nodes /\ e[2] \in DOMAIN x.nodes
      /\ x.pending_edges = {e \in DOMAIN x.edges : x.edges[e] = "Pending"}
  BY <1>1, EdgesOfGraph
<1>7. None \notin DOMAIN x.subgraphs
  BY <1>1, <1>3
<1>8. \E bound \in Nat : \A s \in DOMAIN x.subgraphs : s < bound
  <2>1. next_subgraph_id \in Nat /\ \A s \in subgraphs : s < next_subgraph_id
    BY DEF GraphInv, RegionInv, RegionIdsOrdered, SubgraphTypeOK
  <2> QED BY <1>1, <2>1
<1>9. WellFormed(x)
  BY <1>2, <1>4, <1>5, <1>6, <1>7, <1>8 DEF WellFormed
<1> QED BY <1>9 DEF x

\* What there is now follows a snapshot that it has gone on from, and goes on from itself.
LEMMA SnapshotSucceeds ==
    ASSUME NEW a, IsLeftOf(a)
    PROVE  Succeeds(Snapshot, a)
<1> DEFINE x == Snapshot
<1>1. /\ DOMAIN x.nodes = Live /\ DOMAIN x.subgraphs = subgraphs
      /\ \A n \in Live : /\ x.nodes[n].kind = kind[n] /\ x.nodes[n].subgraph_id = subgraph[n]
                         /\ x.nodes[n].label = node_labels[n]
      /\ \A s \in subgraphs : /\ x.subgraphs[s].parent = parent[s]
                              /\ x.subgraphs[s].label = subgraph_labels[s]
  BY DEF Snapshot, NodeSnapshot, SubgraphSnapshot
<1> HIDE DEF x
<1>2. Succeeds(x, a)
  BY <1>1 DEF IsLeftOf, Succeeds, Live
<1> QED BY <1>2 DEF x

LEMMA SnapshotIsNow ==
    ASSUME GraphInv
    PROVE  IsLeftOf(Snapshot)
<1> DEFINE x == Snapshot
<1>1. /\ DOMAIN x.nodes = Live /\ DOMAIN x.subgraphs = subgraphs
      /\ \A n \in Live : /\ x.nodes[n].kind = kind[n] /\ x.nodes[n].subgraph_id = subgraph[n]
                         /\ x.nodes[n].label = node_labels[n]
      /\ \A s \in subgraphs : /\ x.subgraphs[s].parent = parent[s]
                              /\ x.subgraphs[s].label = subgraph_labels[s]
  BY DEF Snapshot, NodeSnapshot, SubgraphSnapshot
<1> HIDE DEF x
<1>2. \A n \in Live : n \in NodeId /\ n < next_node_id
  <2>1. next_node_id \in Nat /\ NodeId \subseteq Nat
    BY NodeIdAssumption DEF GraphInv, CallInv, TypeOK, GraphTypeOK
  <2>2. ASSUME NEW n \in NodeId, kind[n] # "Absent" PROVE n < next_node_id
    <3>1. ~(n >= next_node_id)
      BY <2>2 DEF GraphInv, EdgeInv, NextIdUnused
    <3>2. n \in Nat
      BY <2>1
    <3> QED BY <2>1, <3>1, <3>2
  <2> QED BY <2>2 DEF Live
<1>3. \A s \in subgraphs : s \in SubgraphId /\ s < next_subgraph_id
  BY DEF GraphInv, RegionInv, RegionIdsOrdered, SubgraphTypeOK
<1>4. IsLeftOf(x)
  BY <1>1, <1>2, <1>3 DEF IsLeftOf
<1> QED BY <1>4 DEF x
-----------------------------------------------------------------------------
(***************************************************************************)
(* What is left of a snapshot keeps what it was.                           *)
(***************************************************************************)
LEMMA NodesStay ==
    ASSUME GraphInv, [SubgraphNext]_allVars
    PROVE  /\ next_node_id \in Nat /\ next_node_id' \in Nat /\ next_node_id <= next_node_id'
           /\ \A n \in NodeId : n < next_node_id /\ kind'[n] # "Absent" =>
                 kind'[n] = kind[n] /\ subgraph'[n] = subgraph[n]
<1>1. /\ kind \in [NodeId -> {"Absent", "Source", "Derived"}]
      /\ next_node_id \in Nat /\ NodeId \subseteq Nat
      /\ subgraph \in [NodeId -> SubgraphId \cup {None}]
  BY NodeIdAssumption DEF GraphInv, CallInv, TypeOK, GraphTypeOK, RegionInv, SubgraphTypeOK
<1>2. ASSUME UNCHANGED <<nodeVars, subgraph>>
      PROVE  /\ next_node_id' \in Nat /\ next_node_id <= next_node_id'
             /\ \A n \in NodeId : n < next_node_id /\ kind'[n] # "Absent" =>
                   kind'[n] = kind[n] /\ subgraph'[n] = subgraph[n]
  BY <1>1, <1>2 DEF nodeVars
<1>3. ASSUME CreateNode
      PROVE  /\ next_node_id' \in Nat /\ next_node_id <= next_node_id'
             /\ \A n \in NodeId : n < next_node_id /\ kind'[n] # "Absent" =>
                   kind'[n] = kind[n] /\ subgraph'[n] = subgraph[n]
  <2>1. /\ next_node_id \in NodeId /\ next_node_id' = next_node_id + 1
        /\ \E k : kind' = [kind EXCEPT ![next_node_id] = k]
        /\ subgraph' = [subgraph EXCEPT ![next_node_id] = CurrentSubgraph]
    BY <1>3 DEF CreateNode, AddSource, AddDerived, RegisterNode
  <2>2. \A n \in NodeId : n # next_node_id => kind'[n] = kind[n] /\ subgraph'[n] = subgraph[n]
    BY <1>1, <2>1
  <2> QED BY <1>1, <2>1, <2>2
<1>4. ASSUME NEW id \in NodeId, RemoveNode(id), ForgetNode(id)
      PROVE  /\ next_node_id' \in Nat /\ next_node_id <= next_node_id'
             /\ \A n \in NodeId : n < next_node_id /\ kind'[n] # "Absent" =>
                   kind'[n] = kind[n] /\ subgraph'[n] = subgraph[n]
  <2>1. /\ next_node_id' = next_node_id
        /\ kind' = [kind EXCEPT ![id] = "Absent"]
        /\ subgraph' = [subgraph EXCEPT ![id] = None]
    BY <1>4 DEF RemoveNode, ForgetNode
  <2> QED BY <1>1, <2>1
<1>5. CASE UNCHANGED allVars
  BY <1>1, <1>2, <1>5 DEF allVars, vars, graphVars, nodeVars, subgraphVars, memberVars
<1>6. CASE RemoveOneNode
  BY <1>1, <1>4, <1>6 DEF RemoveOneNode
<1>7. CASE RemovalRemovesNode
  <2>1. PICK id \in removal.todo : RemoveNode(id) /\ ForgetNode(id)
    BY <1>7 DEF RemovalRemovesNode
  <2>2. id \in NodeId
    BY <2>1 DEF RemoveNode, Live
  <2> QED BY <1>1, <1>4, <2>1, <2>2
<1>8. CASE UseGraph
  <2>1. UNCHANGED nodeVars
    BY <1>8 DEF UseGraph, SetSourceValue, MarkChanged, ReadValue, UpdateNode, Continue,
         ValidateDependency, DependencyValidated, ValidationRecomputes, ValidationSettles,
         ValidationFails, RuleReads, RuleObserves, RuleFails, RulePanics, RuleUnwinds,
         RuleRefused, RuleCommits, Abandon, ReturnToCaller, nodeVars, graphVars
  <2>2. UNCHANGED subgraph
    BY <1>8 DEF UseGraph, subgraphVars, memberVars
  <2> QED BY <1>1, <1>2, <2>1, <2>2
<1>9. ASSUME UNCHANGED <<vars, memberVars>>
      PROVE  /\ next_node_id' \in Nat /\ next_node_id <= next_node_id'
             /\ \A n \in NodeId : n < next_node_id /\ kind'[n] # "Absent" =>
                   kind'[n] = kind[n] /\ subgraph'[n] = subgraph[n]
  BY <1>2, <1>9 DEF vars, graphVars, nodeVars, memberVars
<1>10. SubgraphNext => \/ CreateNode \/ RemoveOneNode \/ UseGraph \/ RemovalRemovesNode
                       \/ UNCHANGED <<vars, memberVars>>
  BY DEF SubgraphNext, CreateSubgraph, WithSubgraph, BuildSubgraph, RemoveSubgraph, RemovalEnds,
         CloseScope
<1> QED BY <1>1, <1>3, <1>5, <1>6, <1>7, <1>8, <1>9, <1>10

LEMMA RegionsStay ==
    ASSUME GraphInv, [SubgraphNext]_allVars
    PROVE  /\ next_subgraph_id \in Nat /\ next_subgraph_id' \in Nat
           /\ next_subgraph_id <= next_subgraph_id'
           /\ \A s \in SubgraphId : s < next_subgraph_id /\ s \in subgraphs' =>
                 s \in subgraphs /\ parent'[s] = parent[s]
<1>1. /\ next_subgraph_id \in Nat /\ SubgraphId \subseteq Nat
      /\ parent \in [SubgraphId -> SubgraphId \cup {None}]
  BY SubgraphAssumption DEF GraphInv, RegionInv, SubgraphTypeOK
<1>2. ASSUME UNCHANGED regionVars
      PROVE  /\ next_subgraph_id' \in Nat /\ next_subgraph_id <= next_subgraph_id'
             /\ \A s \in SubgraphId : s < next_subgraph_id /\ s \in subgraphs' =>
                   s \in subgraphs /\ parent'[s] = parent[s]
  BY <1>1, <1>2 DEF regionVars
<1>3. ASSUME NEW p, NewSubgraph(p)
      PROVE  /\ next_subgraph_id' \in Nat /\ next_subgraph_id <= next_subgraph_id'
             /\ \A s \in SubgraphId : s < next_subgraph_id /\ s \in subgraphs' =>
                   s \in subgraphs /\ parent'[s] = parent[s]
  BY <1>1, <1>3 DEF NewSubgraph
<1>4. ASSUME RemovalEnds
      PROVE  /\ next_subgraph_id' \in Nat /\ next_subgraph_id <= next_subgraph_id'
             /\ \A s \in SubgraphId : s < next_subgraph_id /\ s \in subgraphs' =>
                   s \in subgraphs /\ parent'[s] = parent[s]
  BY <1>1, <1>4 DEF RemovalEnds
<1>5. [SubgraphNext]_allVars => \/ UNCHANGED regionVars \/ RemovalEnds \/ \E p : NewSubgraph(p)
  BY DEF SubgraphNext, CreateNode, RemoveOneNode, UseGraph, CreateSubgraph, WithSubgraph,
         BuildSubgraph, RemoveSubgraph, RemovalRemovesNode, CloseScope, allVars, subgraphVars
<1> QED BY <1>1, <1>2, <1>3, <1>4, <1>5

LEMMA LeftStays ==
    ASSUME GraphInv, [SubgraphNext]_allVars, UNCHANGED labelVars, NEW a, IsLeftOf(a)
    PROVE  IsLeftOf(a)'
<1>1. UNCHANGED <<node_labels, subgraph_labels>>
  BY DEF labelVars
<1>2. ASSUME NEW n \in DOMAIN a.nodes
      PROVE  /\ n \in NodeId /\ n < next_node_id'
             /\ kind'[n] # "Absent" =>
                   kind'[n] = a.nodes[n].kind /\ subgraph'[n] = a.nodes[n].subgraph_id
             /\ node_labels'[n] = None => a.nodes[n].label = None
  <2>1. n \in NodeId /\ n \in Nat /\ n < next_node_id
    BY NodeIdAssumption DEF IsLeftOf
  <2>2. n < next_node_id'
    BY <2>1, NodesStay
  <2>3. kind'[n] # "Absent" => kind'[n] = kind[n] /\ subgraph'[n] = subgraph[n]
    BY <2>1, NodesStay
  <2> QED BY <1>1, <2>1, <2>2, <2>3 DEF IsLeftOf
<1>3. ASSUME NEW s \in DOMAIN a.subgraphs
      PROVE  /\ s \in SubgraphId /\ s < next_subgraph_id'
             /\ s \in subgraphs' => parent'[s] = a.subgraphs[s].parent
             /\ subgraph_labels'[s] = None => a.subgraphs[s].label = None
  <2>1. s \in SubgraphId /\ s \in Nat /\ s < next_subgraph_id
    BY SubgraphAssumption DEF IsLeftOf
  <2>2. s < next_subgraph_id'
    BY <2>1, RegionsStay
  <2>3. s \in subgraphs' => s \in subgraphs /\ parent'[s] = parent[s]
    BY <2>1, RegionsStay
  <2> QED BY <1>1, <2>1, <2>2, <2>3 DEF IsLeftOf
<1> QED BY <1>2, <1>3 DEF IsLeftOf

-----------------------------------------------------------------------------
(***************************************************************************)
(* The session.                                                            *)
(***************************************************************************)
LEMMA SessionStepIsStep ==
    ASSUME [SessionNext]_<<allVars, sessionVars>>
    PROVE  [SubgraphNext]_allVars
<1>1. CASE UNCHANGED <<allVars, sessionVars>>
  BY <1>1
<1>2. CASE SessionNext
  BY <1>2 DEF SessionNext, Capture, LabelNode, LabelSubgraph
<1> QED BY <1>1, <1>2

LEMMA GraphInvHolds == SessionSpec => []GraphInv
<1>1. SessionInit => SubgraphInit
  BY DEF SessionInit
<1>2. [SessionNext]_<<allVars, sessionVars>> => [SubgraphNext]_allVars
  BY SessionStepIsStep
<1>3. CallInv /\ EdgeInv /\ PendingAreEdges /\ RegionInv => GraphInv
  BY DEF GraphInv
<1> QED BY <1>1, <1>2, <1>3, RegionsInvariant, PTL DEF SessionSpec, SubgraphSpec

LEMMA SeqOfItsRange ==
    ASSUME NEW S, NEW s \in Seq(S)
    PROVE  s \in Seq(Range(s))
BY DEF Range

LEMMA AppendToRange ==
    ASSUME NEW s, s \in Seq(Range(s)), NEW x
    PROVE  Append(s, x) \in Seq(Range(Append(s, x)))
<1> DEFINE S == Range(s) \cup {x}
<1>1. s \in Seq(S) /\ x \in S
  OBVIOUS
<1>2. Append(s, x) \in Seq(S)
  BY <1>1
<1> QED BY <1>2, SeqOfItsRange

LEMMA CaptureKeepsSession ==
    ASSUME GraphInv, SessionInv, Capture, Len(snapshots) < MaxCaptures
    PROVE  SessionInv'
<1>1. PICK x : x = Snapshot
  OBVIOUS
<1>2. /\ snapshots' = Append(snapshots, x)
      /\ diffs' = IF snapshots = <<>> THEN diffs ELSE Append(diffs, Between(Last(snapshots), x))
      /\ UNCHANGED <<allVars, labelVars>>
  BY <1>1 DEF Capture
<1>3. WellFormed(x) /\ IsLeftOf(x)
  BY <1>1, SnapshotWellFormed, SnapshotIsNow
<1>4. snapshots # <<>> => Succeeds(x, Last(snapshots))
  BY <1>1, SnapshotSucceeds DEF SessionInv
<1>5. /\ snapshots \in Seq(Range(snapshots)) /\ diffs \in Seq(Range(diffs))
      /\ Len(snapshots) \in Nat /\ Len(diffs) \in Nat
      /\ DOMAIN snapshots = 1..Len(snapshots) /\ DOMAIN diffs = 1..Len(diffs)
      /\ MaxCaptures \in Nat
  BY SessionAssumption DEF SessionInv
<1>6. /\ Len(snapshots') = Len(snapshots) + 1 /\ DOMAIN snapshots' = 1..Len(snapshots) + 1
      /\ \A i \in DOMAIN snapshots : snapshots'[i] = snapshots[i]
      /\ snapshots'[Len(snapshots) + 1] = x
      /\ Last(snapshots') = x
  BY <1>2, <1>5 DEF Last
<1>7. snapshots' \in Seq(Range(snapshots')) /\ diffs' \in Seq(Range(diffs'))
  BY <1>2, <1>5, AppendToRange
<1>8. IsLeftOf(x)'
  BY <1>2, <1>3 DEF IsLeftOf, allVars, vars, graphVars, nodeVars, subgraphVars, regionVars,
                    memberVars, labelVars
<1>9. \A i \in DOMAIN snapshots' : WellFormed(snapshots'[i])
  <2> SUFFICES ASSUME NEW i \in DOMAIN snapshots' PROVE WellFormed(snapshots'[i])
    OBVIOUS
  <2>1. CASE i = Len(snapshots) + 1
    BY <1>3, <1>6, <2>1
  <2>2. CASE i # Len(snapshots) + 1
    <3>1. i \in DOMAIN snapshots /\ snapshots'[i] = snapshots[i]
      BY <1>5, <1>6, <2>2
    <3> QED BY <3>1 DEF SessionInv
  <2> QED BY <2>1, <2>2
<1>10. Len(diffs) = IF snapshots = <<>> THEN 0 ELSE Len(snapshots) - 1
  BY DEF SessionInv
<1>11. snapshots = <<>> <=> Len(snapshots) = 0
  BY <1>5
<1>12. Len(diffs') = (IF snapshots' = <<>> THEN 0 ELSE Len(snapshots') - 1) /\ snapshots' # <<>>
  <2>1. snapshots' # <<>>
    BY <1>6
  <2>2. CASE snapshots = <<>>
    BY <1>2, <1>6, <1>10, <1>11, <2>1, <2>2
  <2>3. CASE snapshots # <<>>
    <3>1. Len(diffs') = Len(diffs) + 1
      BY <1>2, <1>5, <2>3
    <3> QED BY <1>5, <1>6, <1>10, <2>1, <2>3, <3>1
  <2> QED BY <2>2, <2>3
<1>13. ASSUME NEW i \in DOMAIN diffs'
       PROVE  /\ diffs'[i] = Between(snapshots'[i], snapshots'[i + 1])
              /\ Succeeds(snapshots'[i + 1], snapshots'[i])
  <2>1. /\ diffs' \in Seq(Range(diffs')) /\ Len(diffs') = Len(snapshots)
        /\ i \in 1..Len(snapshots)
    BY <1>5, <1>6, <1>7, <1>12
  <2>2. snapshots # <<>> /\ Len(diffs) = Len(snapshots) - 1
    <3>1. Len(snapshots) # 0
      BY <1>5, <2>1
    <3> QED BY <1>10, <1>11, <3>1
  <2>3. CASE i = Len(snapshots)
    <3>1. /\ snapshots'[i] = Last(snapshots) /\ snapshots'[i + 1] = x
          /\ diffs'[i] = Between(Last(snapshots), x)
      BY <1>2, <1>5, <1>6, <2>1, <2>2, <2>3 DEF Last
    <3> QED BY <1>4, <2>2, <3>1
  <2>4. CASE i # Len(snapshots)
    <3>1. /\ i \in DOMAIN diffs /\ i \in DOMAIN snapshots /\ i + 1 \in DOMAIN snapshots
      BY <1>5, <2>1, <2>2, <2>4
    <3>2. /\ snapshots'[i] = snapshots[i] /\ snapshots'[i + 1] = snapshots[i + 1]
          /\ diffs'[i] = diffs[i]
      BY <1>2, <1>5, <1>6, <2>2, <3>1
    <3> QED BY <3>1, <3>2 DEF SessionInv
  <2> QED BY <2>3, <2>4
<1>14. /\ node_labels' = [n \in NodeId |-> node_labels'[n]]
       /\ subgraph_labels' = [s \in SubgraphId |-> subgraph_labels'[s]]
  BY <1>2 DEF SessionInv, labelVars
<1>15. Len(snapshots') <= MaxCaptures
  BY <1>5, <1>6
<1> QED BY <1>6, <1>7, <1>8, <1>9, <1>12, <1>13, <1>14, <1>15 DEF SessionInv

\* A label is a string, so an item that has had one always has.
LEMMA LabelKeepsSession ==
    ASSUME GraphInv, SessionInv, UNCHANGED <<allVars, snapshots, diffs>>,
           node_labels' = [n \in NodeId |-> node_labels'[n]],
           subgraph_labels' = [s \in SubgraphId |-> subgraph_labels'[s]],
           \A n \in NodeId : node_labels'[n] = None => node_labels[n] = None,
           \A s \in SubgraphId : subgraph_labels'[s] = None => subgraph_labels[s] = None
    PROVE  SessionInv'
<1>1. PICK a : a = Last(snapshots)
  OBVIOUS
<1>2. /\ UNCHANGED <<kind, next_node_id, subgraph, subgraphs, parent, next_subgraph_id>>
  BY DEF allVars, vars, graphVars, nodeVars, subgraphVars, regionVars, memberVars
<1>3. ASSUME snapshots # <<>> PROVE IsLeftOf(a)'
  <2>1. IsLeftOf(a)
    BY <1>1, <1>3 DEF SessionInv
  <2> QED BY <1>2, <2>1 DEF IsLeftOf
<1>4. snapshots' # <<>> => IsLeftOf(Last(snapshots))'
  BY <1>1, <1>3
<1> QED BY <1>4 DEF SessionInv

LEMMA StepKeepsSession ==
    ASSUME GraphInv, SessionInv, [SessionNext]_<<allVars, sessionVars>>
    PROVE  SessionInv'
<1>1. [SubgraphNext]_allVars
  BY SessionStepIsStep
<1>2. ASSUME UNCHANGED sessionVars PROVE SessionInv'
  <2>1. PICK a : a = Last(snapshots)
    OBVIOUS
  <2>2. UNCHANGED <<snapshots, diffs, node_labels, subgraph_labels>> /\ UNCHANGED labelVars
    BY <1>2 DEF sessionVars, labelVars
  <2>3. snapshots # <<>> => IsLeftOf(a)'
    BY <1>1, <2>1, <2>2, LeftStays DEF SessionInv
  <2>4. snapshots' # <<>> => IsLeftOf(Last(snapshots))'
    BY <2>1, <2>2, <2>3
  <2> QED BY <2>2, <2>4 DEF SessionInv
<1>3. CASE Len(snapshots) < MaxCaptures /\ Capture
  BY <1>3, CaptureKeepsSession
<1>4. Len(snapshots) < MaxCaptures => Len(snapshots) \in 0..MaxCaptures
  BY SessionAssumption DEF SessionInv
<1>5. ASSUME NEW n \in NodeId, NEW label \in NodeLabels(n, Len(snapshots)), LabelNode(n, label),
             Len(snapshots) < MaxCaptures
      PROVE  SessionInv'
  <2>1. label # None
    BY <1>4, <1>5, SessionAssumption
  <2>2. /\ node_labels' = [node_labels EXCEPT ![n] = label]
        /\ UNCHANGED <<allVars, snapshots, diffs, subgraph_labels>>
        /\ DOMAIN node_labels = NodeId
    BY <1>5 DEF LabelNode, SessionInv
  <2>3. /\ node_labels' = [m \in NodeId |-> node_labels'[m]]
        /\ \A m \in NodeId : node_labels'[m] = None => node_labels[m] = None
    BY <2>1, <2>2
  <2>4. subgraph_labels' = [s \in SubgraphId |-> subgraph_labels'[s]]
    BY <2>2 DEF SessionInv
  <2> QED BY <2>2, <2>3, <2>4, LabelKeepsSession
<1>6. ASSUME NEW s \in SubgraphId, NEW label \in SubgraphLabels(s, Len(snapshots)),
             LabelSubgraph(s, label), Len(snapshots) < MaxCaptures
      PROVE  SessionInv'
  <2>1. label # None
    BY <1>4, <1>6, SessionAssumption
  <2>2. /\ subgraph_labels' = [subgraph_labels EXCEPT ![s] = label]
        /\ UNCHANGED <<allVars, snapshots, diffs, node_labels>>
        /\ DOMAIN subgraph_labels = SubgraphId
    BY <1>6 DEF LabelSubgraph, SessionInv
  <2>3. /\ subgraph_labels' = [t \in SubgraphId |-> subgraph_labels'[t]]
        /\ \A t \in SubgraphId : subgraph_labels'[t] = None => subgraph_labels[t] = None
    BY <2>1, <2>2
  <2>4. node_labels' = [n \in NodeId |-> node_labels'[n]]
    BY <2>2 DEF SessionInv
  <2> QED BY <2>2, <2>3, <2>4, LabelKeepsSession
<1> QED
  BY <1>2, <1>3, <1>5, <1>6 DEF SessionNext

LEMMA SessionInvariant == SessionSpec => []SessionInv
<1>1. SessionInit => SessionInv
  BY SessionAssumption DEF SessionInit, SessionInv, Range
<1>2. GraphInv /\ SessionInv /\ [SessionNext]_<<allVars, sessionVars>> => SessionInv'
  BY StepKeepsSession
<1> QED BY <1>1, <1>2, GraphInvHolds, PTL DEF SessionSpec

\* Whatever the application does to the graph and its labels between two captures, the
\* diff leads a reader of the earlier snapshot to the later one.
THEOREM DiffsAreComplete == SessionSpec => []DiffLeadsToNextSnapshot
<1>1. SessionInv => DiffLeadsToNextSnapshot
  <2> SUFFICES ASSUME SessionInv, NEW i \in DOMAIN diffs
               PROVE  After(snapshots[i], diffs[i]) = snapshots[i + 1]
    BY DEF DiffLeadsToNextSnapshot
  <2>1. i \in DOMAIN snapshots /\ i + 1 \in DOMAIN snapshots
    BY DEF SessionInv
  <2> QED BY <2>1, BetweenLeads DEF SessionInv
<1> QED BY <1>1, SessionInvariant, PTL

\* A diff has a change just when more than labels differ, and one change at most of an
\* item's place in the graph, of its state, of its value or of an edge; none of the state
\* or the value of a node that comes or goes.
THEOREM DiffsAreMinimal == SessionSpec => []DiffIsConsistent
<1>1. SessionInv => DiffIsConsistent
  <2> SUFFICES ASSUME SessionInv, NEW i \in DOMAIN diffs
               PROVE  LET before == snapshots[i]
                          after == snapshots[i + 1]
                      IN /\ diffs[i].changes = {} <=>
                                /\ Unlabelled(before.nodes) = Unlabelled(after.nodes)
                                /\ Unlabelled(before.subgraphs) = Unlabelled(after.subgraphs)
                                /\ before.edges = after.edges
                                /\ before.pending_edges = after.pending_edges
                         /\ \A c, d \in diffs[i].changes :
                               /\ c[1] = d[1] /\ c[3] = d[3] => c = d
                               /\ c[1] = "node" /\ d[1] \in {"state", "value"} => c[3] # d[3]
    BY DEF DiffIsConsistent
  <2>1. i \in DOMAIN snapshots /\ i + 1 \in DOMAIN snapshots
    BY DEF SessionInv
  <2> DEFINE a == snapshots[i]
             b == snapshots[i + 1]
  <2>2. WellFormed(a) /\ WellFormed(b) /\ Succeeds(b, a) /\ diffs[i] = Between(a, b)
    BY <2>1 DEF SessionInv
  <2>3. diffs[i].changes = Changes(a, b)
    BY <2>2 DEF Between
  <2> HIDE DEF a, b
  <2>4. Changes(a, b) = {} <=> Same(a, b)
    BY <2>2, BetweenIsMinimal
  <2>5. \A c, d \in Changes(a, b) : c[1] = d[1] /\ c[3] = d[3] => c = d
    BY ReportedOnce
  <2>6. \A c, d \in Changes(a, b) :
           c[1] = "node" /\ d[1] \in {"state", "value"} => c[3] # d[3]
    BY NewNodesUnchanged
  <2> QED BY <2>3, <2>4, <2>5, <2>6 DEF Same, a, b
<1> QED BY <1>1, SessionInvariant, PTL
-----------------------------------------------------------------------------
(***************************************************************************)
(* Names in the text of a session.                                         *)
(***************************************************************************)
\* The label of an item of either map, the later one if both have it.
Latest(old, new, id) == IF id \in DOMAIN new THEN new[id].label ELSE old[id].label

\* The names in a line are of items there are, with their latest labels.
NamedAsLatest(names, old, new) ==
    \A name \in names : /\ name[1] \in DOMAIN old \cup DOMAIN new
                        /\ name[2] = Latest(old, new, name[1])

LineIsLatest(line, a, b) ==
    /\ NamedAsLatest(line.nodes, a.nodes, b.nodes)
    /\ NamedAsLatest(line.subgraphs, a.subgraphs, b.subgraphs)

LEMMA NamedByLabels ==
    ASSUME NEW old, NEW new, NEW labels, NEW ids,
           ids \subseteq DOMAIN old \cup DOMAIN new,
           \A id \in DOMAIN old \cup DOMAIN new : LabelIn(labels, id) = Latest(old, new, id)
    PROVE  NamedAsLatest(Named(ids, labels), old, new)
BY DEF NamedAsLatest, Named

LEMMA OwnNameIsLatest ==
    ASSUME NEW old, NEW new, NEW id \in DOMAIN old \cup DOMAIN new, NEW item,
           item.label = Latest(old, new, id)
    PROVE  NamedAsLatest(OwnName(id, item), old, new)
BY DEF NamedAsLatest, OwnName

LEMMA NamesTogether ==
    ASSUME NEW old, NEW new, NEW X, NEW Y, NamedAsLatest(X, old, new), NamedAsLatest(Y, old, new)
    PROVE  NamedAsLatest(X \cup Y, old, new) /\ NamedAsLatest({}, old, new)
BY DEF NamedAsLatest

\* The lines about a node, a region and an edge, in a snapshot or in a diff.
LEMMA LinesAreLatest ==
    ASSUME NEW a, NEW b, NEW x \in {a, b}, WellFormed(x), NEW node_names, NEW subgraph_names,
           \A id \in DOMAIN a.nodes \cup DOMAIN b.nodes :
              LabelIn(node_names, id) = Latest(a.nodes, b.nodes, id),
           \A id \in DOMAIN a.subgraphs \cup DOMAIN b.subgraphs :
              LabelIn(subgraph_names, id) = Latest(a.subgraphs, b.subgraphs, id)
    PROVE  /\ \A n \in DOMAIN x.nodes : x.nodes[n].label = Latest(a.nodes, b.nodes, n) =>
                 LineIsLatest(NodeLine(n, x.nodes[n], subgraph_names), a, b)
           /\ \A s \in DOMAIN x.subgraphs :
                 x.subgraphs[s].label = Latest(a.subgraphs, b.subgraphs, s) =>
                    LineIsLatest(SubgraphLine(s, x.subgraphs[s], subgraph_names), a, b)
           /\ \A s \in DOMAIN x.subgraphs :
                 NamedAsLatest(Named(Some(x.subgraphs[s].parent), subgraph_names),
                               a.subgraphs, b.subgraphs)
           /\ \A e \in DOMAIN x.edges : LineIsLatest(EdgeLine(e, node_names), a, b)
<1>1. /\ DOMAIN x.nodes \subseteq DOMAIN a.nodes \cup DOMAIN b.nodes
      /\ DOMAIN x.subgraphs \subseteq DOMAIN a.subgraphs \cup DOMAIN b.subgraphs
  OBVIOUS
<1>2. ASSUME NEW n \in DOMAIN x.nodes, x.nodes[n].label = Latest(a.nodes, b.nodes, n)
      PROVE  LineIsLatest(NodeLine(n, x.nodes[n], subgraph_names), a, b)
  <2> DEFINE item == x.nodes[n]
  <2>1. Some(item.subgraph_id) \subseteq DOMAIN a.subgraphs \cup DOMAIN b.subgraphs
    BY <1>1 DEF WellFormed, Some
  <2>2. NamedAsLatest(OwnName(n, item), a.nodes, b.nodes)
    BY <1>1, <1>2, OwnNameIsLatest
  <2>3. NamedAsLatest(Named(Some(item.subgraph_id), subgraph_names), a.subgraphs, b.subgraphs)
    BY <2>1, NamedByLabels
  <2> QED BY <2>2, <2>3 DEF LineIsLatest, NodeLine
<1>3. ASSUME NEW s \in DOMAIN x.subgraphs
      PROVE  /\ Some(x.subgraphs[s].parent) \subseteq DOMAIN a.subgraphs \cup DOMAIN b.subgraphs
             /\ x.subgraphs[s].children \subseteq DOMAIN a.subgraphs \cup DOMAIN b.subgraphs
  <2>1. x.subgraphs[s].parent # None => x.subgraphs[s].parent \in DOMAIN x.subgraphs
    BY DEF WellFormed
  <2>2. x.subgraphs[s].children = {c \in DOMAIN x.subgraphs : x.subgraphs[c].parent = s}
    BY MembersAreDerived
  <2> QED BY <1>1, <2>1, <2>2 DEF Some
<1>4. ASSUME NEW s \in DOMAIN x.subgraphs,
             x.subgraphs[s].label = Latest(a.subgraphs, b.subgraphs, s)
      PROVE  LineIsLatest(SubgraphLine(s, x.subgraphs[s], subgraph_names), a, b)
  <2> DEFINE item == x.subgraphs[s]
             others == Some(item.parent) \cup item.children
  <2>1. NamedAsLatest(OwnName(s, item), a.subgraphs, b.subgraphs)
    BY <1>1, <1>4, OwnNameIsLatest
  <2>2. others \subseteq DOMAIN a.subgraphs \cup DOMAIN b.subgraphs
    BY <1>3
  <2> HIDE DEF others, item
  <2>3. NamedAsLatest(Named(others, subgraph_names), a.subgraphs, b.subgraphs)
    BY <2>2, NamedByLabels
  <2>4. /\ NamedAsLatest(OwnName(s, item) \cup Named(others, subgraph_names),
                         a.subgraphs, b.subgraphs)
        /\ NamedAsLatest({}, a.nodes, b.nodes)
    BY <2>1, <2>3, NamesTogether DEF NamedAsLatest
  <2> QED BY <2>4 DEF LineIsLatest, SubgraphLine, item, others
<1>5. \A s \in DOMAIN x.subgraphs :
         NamedAsLatest(Named(Some(x.subgraphs[s].parent), subgraph_names), a.subgraphs, b.subgraphs)
  BY <1>3, NamedByLabels
<1>6. ASSUME NEW e \in DOMAIN x.edges PROVE LineIsLatest(EdgeLine(e, node_names), a, b)
  <2>1. {e[1], e[2]} \subseteq DOMAIN a.nodes \cup DOMAIN b.nodes
    BY <1>1 DEF WellFormed
  <2>2. NamedAsLatest(Named({e[1], e[2]}, node_names), a.nodes, b.nodes)
    BY <2>1, NamedByLabels
  <2> QED BY <2>2 DEF LineIsLatest, EdgeLine, NamedAsLatest
<1> QED BY <1>2, <1>4, <1>5, <1>6

LEMMA SnapshotTextIsLatest ==
    ASSUME NEW x, WellFormed(x), NEW line \in RenderTextSnapshot(x)
    PROVE  LineIsLatest(line, x, x)
<1>1. ASSUME NEW items PROVE \A id \in DOMAIN items \cup DOMAIN items :
         LabelIn(LabelsOf(items), id) = Latest(items, items, id)
  <2>1. /\ DOMAIN LabelsOf(items) = {id \in DOMAIN items : items[id].label # None}
        /\ \A id \in DOMAIN LabelsOf(items) : LabelsOf(items)[id] = items[id].label
    BY DEF LabelsOf
  <2> QED BY <2>1 DEF LabelIn, Latest
<1> DEFINE node_names == LabelsOf(x.nodes)
           subgraph_names == LabelsOf(x.subgraphs)
<1>2. /\ \A id \in DOMAIN x.nodes \cup DOMAIN x.nodes :
            LabelIn(node_names, id) = Latest(x.nodes, x.nodes, id)
      /\ \A id \in DOMAIN x.subgraphs \cup DOMAIN x.subgraphs :
            LabelIn(subgraph_names, id) = Latest(x.subgraphs, x.subgraphs, id)
  BY <1>1
<1> HIDE DEF node_names, subgraph_names
<1>3. /\ \A n \in DOMAIN x.nodes : x.nodes[n].label = Latest(x.nodes, x.nodes, n) =>
            LineIsLatest(NodeLine(n, x.nodes[n], subgraph_names), x, x)
      /\ \A s \in DOMAIN x.subgraphs :
            x.subgraphs[s].label = Latest(x.subgraphs, x.subgraphs, s) =>
               LineIsLatest(SubgraphLine(s, x.subgraphs[s], subgraph_names), x, x)
      /\ \A e \in DOMAIN x.edges : LineIsLatest(EdgeLine(e, node_names), x, x)
  BY <1>2, LinesAreLatest
<1>4. /\ \A n \in DOMAIN x.nodes : LineIsLatest(NodeLine(n, x.nodes[n], subgraph_names), x, x)
      /\ \A s \in DOMAIN x.subgraphs :
            LineIsLatest(SubgraphLine(s, x.subgraphs[s], subgraph_names), x, x)
  BY <1>3 DEF Latest
<1>5. \/ \E n \in DOMAIN x.nodes : line = NodeLine(n, x.nodes[n], subgraph_names)
      \/ \E s \in DOMAIN x.subgraphs : line = SubgraphLine(s, x.subgraphs[s], subgraph_names)
      \/ \E e \in DOMAIN x.edges : line = EdgeLine(e, node_names)
  BY DEF RenderTextSnapshot, node_names, subgraph_names
<1> QED BY <1>3, <1>4, <1>5

LEMMA DiffTextIsLatest ==
    ASSUME NEW a, NEW b, WellFormed(a), WellFormed(b), Succeeds(b, a),
           NEW line \in RenderTextDiff(Between(a, b))
    PROVE  LineIsLatest(line, a, b)
<1> DEFINE diff == Between(a, b)
           node_names == diff.node_labels
           subgraph_names == diff.subgraph_labels
<1>1. PICK c \in Changes(a, b) : line = ChangeLine(c, diff)
  BY DEF RenderTextDiff, Between
<1>2. /\ \A id \in DOMAIN a.nodes \cup DOMAIN b.nodes :
            LabelIn(node_names, id) = Latest(a.nodes, b.nodes, id)
      /\ \A id \in DOMAIN a.subgraphs \cup DOMAIN b.subgraphs :
            LabelIn(subgraph_names, id) = Latest(a.subgraphs, b.subgraphs, id)
  <2>1. /\ \A id \in DOMAIN a.nodes \cap DOMAIN b.nodes :
              b.nodes[id].label = None => a.nodes[id].label = None
        /\ \A id \in DOMAIN a.subgraphs \cap DOMAIN b.subgraphs :
              b.subgraphs[id].label = None => a.subgraphs[id].label = None
    BY DEF Succeeds
  <2>2. /\ node_names = CollectedLabels(a.nodes, b.nodes)
        /\ subgraph_names = CollectedLabels(a.subgraphs, b.subgraphs)
    BY DEF Between
  <2> QED BY <2>1, <2>2, LabelsAreLatest DEF Latest
<1> HIDE DEF diff
<1>3. ASSUME NEW x \in {a, b}
      PROVE  /\ \A n \in DOMAIN x.nodes : x.nodes[n].label = Latest(a.nodes, b.nodes, n) =>
                   LineIsLatest(NodeLine(n, x.nodes[n], subgraph_names), a, b)
             /\ \A s \in DOMAIN x.subgraphs :
                   NamedAsLatest(Named(Some(x.subgraphs[s].parent), subgraph_names),
                                 a.subgraphs, b.subgraphs)
             /\ \A e \in DOMAIN x.edges : LineIsLatest(EdgeLine(e, node_names), a, b)
  <2> HIDE DEF node_names, subgraph_names
  <2> QED BY <1>2, LinesAreLatest
<1>4. c[1] \in {"node", "subgraph", "edge", "state", "value"}
  BY DEF Changes, NodeChanges, Changed, Removed, Added
<1>5. c \in Sort(Changes(a, b), c[1])
  BY DEF Sort
<1>6. CASE c[1] = "node"
  <2>1. line = NodeLine(c[3], c[4], subgraph_names)
    BY <1>1, <1>6 DEF ChangeLine
  <2>2. \E x \in {a, b} : /\ c[3] \in DOMAIN x.nodes /\ c[4] = x.nodes[c[3]]
                          /\ c[4].label = Latest(a.nodes, b.nodes, c[3])
    BY <1>5, <1>6, SortsOfChanges DEF Removed, Added, Latest
  <2> QED BY <1>3, <2>1, <2>2
<1>7. CASE c[1] = "subgraph"
  <2>1. /\ line.nodes = {}
        /\ line.subgraphs = OwnName(c[3], c[4]) \cup Named(Some(c[4].parent), subgraph_names)
    BY <1>1, <1>7 DEF ChangeLine
  <2>2. \E x \in {a, b} : /\ c[3] \in DOMAIN x.subgraphs /\ c[4] = x.subgraphs[c[3]]
                          /\ c[4].label = Latest(a.subgraphs, b.subgraphs, c[3])
    BY <1>5, <1>7, SortsOfChanges DEF Removed, Added, Latest
  <2>3. NamedAsLatest(Named(Some(c[4].parent), subgraph_names), a.subgraphs, b.subgraphs)
    BY <1>3, <2>2
  <2>4. NamedAsLatest(OwnName(c[3], c[4]), a.subgraphs, b.subgraphs)
    BY <2>2, OwnNameIsLatest
  <2>5. NamedAsLatest(line.subgraphs, a.subgraphs, b.subgraphs)
    BY <2>1, <2>3, <2>4, NamesTogether
  <2> QED BY <2>1, <2>5 DEF LineIsLatest, NamedAsLatest
<1>8. CASE c[1] = "edge"
  <2>1. line = EdgeLine(c[3], node_names)
    BY <1>1, <1>8 DEF ChangeLine
  <2>2. \E x \in {a, b} : c[3] \in DOMAIN x.edges
    BY <1>5, <1>8, SortsOfChanges DEF Changed, Removed, Added
  <2> QED BY <1>3, <2>1, <2>2
<1>9. CASE c[1] \in {"state", "value"}
  <2>1. line.nodes = Named({c[3]}, node_names) /\ line.subgraphs = {}
    BY <1>1, <1>9 DEF ChangeLine
  <2>2. c[3] \in DOMAIN b.nodes
    <3>1. ASSUME NEW what, NEW field,
                 c \in Changed(what, Field(a.nodes, field), Field(b.nodes, field))
          PROVE  c[3] \in DOMAIN b.nodes
      <4>1. DOMAIN Field(b.nodes, field) = DOMAIN b.nodes
        BY DEF Field
      <4>2. c[3] \in DOMAIN Field(b.nodes, field)
        BY <3>1 DEF Changed
      <4> QED BY <4>1, <4>2
    <3>2. \/ c \in Changed("state", Field(a.nodes, "state"), Field(b.nodes, "state"))
          \/ c \in Changed("value", Field(a.nodes, "cached_value"), Field(b.nodes, "cached_value"))
      BY <1>5, <1>9, SortsOfChanges
    <3> QED BY <3>1, <3>2
  <2>3. NamedAsLatest(line.nodes, a.nodes, b.nodes)
    BY <1>2, <2>1, <2>2, NamedByLabels
  <2> QED BY <2>1, <2>3 DEF LineIsLatest, NamedAsLatest
<1> QED BY <1>4, <1>6, <1>7, <1>8, <1>9

\* In the text of a session an item goes by the latest label it has had, also where it is
\* only mentioned and when it is gone.
THEOREM TextNamesLatest == SessionSpec => []NamesAreLatest
<1>1. SessionInv => NamesAreLatest
  <2> SUFFICES ASSUME SessionInv, NEW i \in DOMAIN snapshots, NEW line \in RenderTextTimeline[i]
               PROVE  /\ \A name \in line.nodes : name[2] = LatestLabel(i, "nodes", name[1])
                      /\ \A name \in line.subgraphs :
                            name[2] = LatestLabel(i, "subgraphs", name[1])
    BY DEF NamesAreLatest
  <2>1. CASE i = 1
    <3> DEFINE x == snapshots[1]
    <3>1. WellFormed(x) /\ line \in RenderTextSnapshot(x)
      BY <2>1 DEF SessionInv, RenderTextTimeline
    <3>2. LineIsLatest(line, x, x)
      BY <3>1, SnapshotTextIsLatest
    <3>3. /\ \A id \in DOMAIN x.nodes : LatestLabel(1, "nodes", id) = x.nodes[id].label
          /\ \A id \in DOMAIN x.subgraphs : LatestLabel(1, "subgraphs", id) = x.subgraphs[id].label
      BY DEF LatestLabel
    <3> HIDE DEF x
    <3> QED BY <2>1, <3>2, <3>3 DEF LineIsLatest, NamedAsLatest, Latest
  <2>2. CASE i # 1
    <3> DEFINE a == snapshots[i - 1]
               b == snapshots[i]
    <3>1. i - 1 \in DOMAIN diffs /\ i - 1 \in DOMAIN snapshots /\ i - 1 + 1 = i
      BY <2>2 DEF SessionInv
    <3>2. WellFormed(a) /\ WellFormed(b) /\ Succeeds(b, a) /\ diffs[i - 1] = Between(a, b)
      BY <3>1 DEF SessionInv
    <3>3. line \in RenderTextDiff(Between(a, b))
      BY <2>2, <3>2 DEF RenderTextTimeline
    <3>4. /\ \A id : LatestLabel(i, "nodes", id) = Latest(a.nodes, b.nodes, id)
          /\ \A id : LatestLabel(i, "subgraphs", id) = Latest(a.subgraphs, b.subgraphs, id)
      BY DEF LatestLabel, Latest
    <3> HIDE DEF a, b
    <3>5. LineIsLatest(line, a, b)
      BY <3>2, <3>3, DiffTextIsLatest
    <3> QED BY <3>4, <3>5 DEF LineIsLatest, NamedAsLatest
  <2> QED BY <2>1, <2>2
<1> QED BY <1>1, SessionInvariant, PTL
-----------------------------------------------------------------------------
(***************************************************************************)
(* Boxes within boxes.  They are drawn from the outside in, a region       *)
(* calling for the regions below it, whose ids are greater; the path to a  *)
(* region is followed from the inside out, to ids that are less.           *)
(***************************************************************************)
LEMMA BoxesAlike ==
    ASSUME NEW x, NEW i, NEW s \in DOMAIN x.subgraphs, WellFormed(x), NEW f, NEW g,
           \A c \in DOMAIN x.subgraphs : c > s => f[c] = g[c]
    PROVE  RenderSubgraph(x, i, s, f) = RenderSubgraph(x, i, s, g)
<1>1. ASSUME NEW c \in x.subgraphs[s].children \cap DOMAIN x.subgraphs PROVE f[c] = g[c]
  <2>1. c \in DOMAIN x.subgraphs /\ x.subgraphs[c].parent = s
    BY MembersAreDerived
  <2>2. s # None /\ s \in Nat /\ c \in Nat /\ s < c
    BY <2>1 DEF WellFormed
  <2> QED BY <2>1, <2>2
<1>2. UNION {f[c] : c \in x.subgraphs[s].children \cap DOMAIN x.subgraphs} =
         UNION {g[c] : c \in x.subgraphs[s].children \cap DOMAIN x.subgraphs}
  BY <1>1
<1> QED BY <1>2 DEF RenderSubgraph

LEMMA BoxesAreRendered ==
    ASSUME NEW x, NEW i, WellFormed(x)
    PROVE  \A s \in DOMAIN x.subgraphs : Boxes(x, i)[s] = RenderSubgraph(x, i, s, Boxes(x, i))
<1> DEFINE D == DOMAIN x.subgraphs
           Step(f) == [s \in D |-> RenderSubgraph(x, i, s, f)]
           Right(f, s) == f[s] = RenderSubgraph(x, i, s, f)
<1>1. PICK N \in Nat : \A s \in D : s < N
  BY DEF WellFormed
<1>2. D \subseteq Nat
  BY DEF WellFormed
<1> DEFINE Good(k, f) == f = [s \in D |-> f[s]] /\ \A s \in D : s >= N - k => Right(f, s)
           H == {k \in 0 .. N : \E f : Good(k, f)}
<1>3. 0 \in H
  <2> DEFINE f == [s \in D |-> {}]
  <2>1. f = [s \in D |-> f[s]] /\ \A s \in D : ~(s >= N - 0)
    BY <1>1, <1>2
  <2> HIDE DEF f
  <2>2. Good(0, f)
    BY <2>1
  <2> HIDE DEF Good
  <2> QED BY <2>2
<1>4. ASSUME NEW k \in 1 .. N, k - 1 \in H PROVE k \in H
  <2>1. PICK f : Good(k - 1, f)
    BY <1>4
  <2> DEFINE g == Step(f)
  <2>2. (\A s \in D : g[s] = RenderSubgraph(x, i, s, f)) /\ g = [s \in D |-> g[s]]
    OBVIOUS
  <2> HIDE DEF g
  <2>3. ASSUME NEW s \in D, s >= N - k PROVE Right(g, s)
    <3>1. ASSUME NEW c \in D, c > s PROVE f[c] = g[c]
      <4>1. c >= N - (k - 1)
        BY <1>2, <2>3, <3>1
      <4> QED BY <2>1, <2>2, <4>1
    <3>2. RenderSubgraph(x, i, s, f) = RenderSubgraph(x, i, s, g)
      BY <3>1, BoxesAlike
    <3> QED BY <2>2, <3>2
  <2>4. Good(k, g)
    BY <2>2, <2>3
  <2> HIDE DEF Good
  <2> QED BY <2>4
<1>5. N \in H
  <2> HIDE DEF H
  <2>1. 0 .. N \subseteq H
    BY <1>3, <1>4, UpTo
  <2> QED BY <2>1
<1>6. \E f : f = Step(f)
  <2>1. PICK f : Good(N, f)
    BY <1>5
  <2>2. \A s \in D : s >= N - N
    BY <1>2
  <2>3. f = [s \in D |-> f[s]] /\ \A s \in D : f[s] = RenderSubgraph(x, i, s, f)
    BY <2>1, <2>2
  <2>4. f = Step(f)
    BY <2>3
  <2> QED BY <2>4
<1>7. Boxes(x, i) = Step(Boxes(x, i))
  <2> DEFINE boxes == CHOOSE f : f = Step(f)
  <2>1. Boxes(x, i) = boxes
    BY DEF Boxes
  <2>2. boxes = Step(boxes)
    <3> HIDE DEF Step
    <3> QED BY <1>6
  <2> QED BY <2>1, <2>2
<1>8. PICK f : f = Boxes(x, i)
  OBVIOUS
<1> QED BY <1>7, <1>8

LEMMA PathsAlike ==
    ASSUME NEW x, NEW i, NEW s \in DOMAIN x.subgraphs, WellFormed(x), NEW f, NEW g,
           \A c \in DOMAIN x.subgraphs : c < s => f[c] = g[c]
    PROVE  PathOf(x, i, s, f) = PathOf(x, i, s, g)
<1>1. x.subgraphs[s].parent # None =>
         x.subgraphs[s].parent \in DOMAIN x.subgraphs /\ x.subgraphs[s].parent < s
  BY DEF WellFormed
<1> QED BY <1>1 DEF PathOf

LEMMA PathsAreFollowed ==
    ASSUME NEW x, NEW i, WellFormed(x)
    PROVE  \A s \in DOMAIN x.subgraphs : RegionPath(x, i)[s] = PathOf(x, i, s, RegionPath(x, i))
<1> DEFINE D == DOMAIN x.subgraphs
           Step(f) == [s \in D |-> PathOf(x, i, s, f)]
           Right(f, s) == f[s] = PathOf(x, i, s, f)
<1>1. PICK N \in Nat : \A s \in D : s < N
  BY DEF WellFormed
<1>2. D \subseteq Nat
  BY DEF WellFormed
<1> DEFINE Good(k, f) == f = [s \in D |-> f[s]] /\ \A s \in D : s < k => Right(f, s)
           H == {k \in 0 .. N : \E f : Good(k, f)}
<1>3. 0 \in H
  <2> DEFINE f == [s \in D |-> <<>>]
  <2>1. f = [s \in D |-> f[s]] /\ \A s \in D : ~(s < 0)
    BY <1>2
  <2> HIDE DEF f
  <2>2. Good(0, f)
    BY <2>1
  <2> HIDE DEF Good
  <2> QED BY <2>2
<1>4. ASSUME NEW k \in 1 .. N, k - 1 \in H PROVE k \in H
  <2>1. PICK f : Good(k - 1, f)
    BY <1>4
  <2> DEFINE g == Step(f)
  <2>2. (\A s \in D : g[s] = PathOf(x, i, s, f)) /\ g = [s \in D |-> g[s]]
    OBVIOUS
  <2> HIDE DEF g
  <2>3. ASSUME NEW s \in D, s < k PROVE Right(g, s)
    <3>1. ASSUME NEW c \in D, c < s PROVE f[c] = g[c]
      <4>1. c < k - 1
        BY <1>2, <2>3, <3>1
      <4> QED BY <2>1, <2>2, <4>1
    <3>2. PathOf(x, i, s, f) = PathOf(x, i, s, g)
      BY <3>1, PathsAlike
    <3> QED BY <2>2, <3>2
  <2>4. Good(k, g)
    BY <2>2, <2>3
  <2> HIDE DEF Good
  <2> QED BY <2>4
<1>5. N \in H
  <2> HIDE DEF H
  <2>1. 0 .. N \subseteq H
    BY <1>3, <1>4, UpTo
  <2> QED BY <2>1
<1>6. \E f : f = Step(f)
  <2>1. PICK f : Good(N, f)
    BY <1>5
  <2>2. f = [s \in D |-> f[s]] /\ \A s \in D : f[s] = PathOf(x, i, s, f)
    BY <1>1, <2>1
  <2>3. f = Step(f)
    BY <2>2
  <2> QED BY <2>3
<1>7. RegionPath(x, i) = Step(RegionPath(x, i))
  <2> DEFINE paths == CHOOSE f : f = Step(f)
  <2>1. RegionPath(x, i) = paths
    BY DEF RegionPath
  <2>2. paths = Step(paths)
    <3> HIDE DEF Step
    <3> QED BY <1>6
  <2> QED BY <2>1, <2>2
<1>8. PICK f : f = RegionPath(x, i)
  OBVIOUS
<1> QED BY <1>7, <1>8
\* The references of the boxes that regions can be in.
Refs(x, i) == {SubgraphRef(i, s) : s \in DOMAIN x.subgraphs}

LEMMA PathsGrow ==
    ASSUME NEW x, NEW i, WellFormed(x), NEW s \in DOMAIN x.subgraphs
    PROVE  BoxesAround(x, i, s) =
              Append(BoxesAround(x, i, x.subgraphs[s].parent), SubgraphRef(i, s))
<1>1. s # None
  BY DEF WellFormed
<1>2. RegionPath(x, i)[s] = PathOf(x, i, s, RegionPath(x, i))
  BY PathsAreFollowed
<1> QED BY <1>1, <1>2 DEF BoxesAround, PathOf

LEMMA PathsAreSequences ==
    ASSUME NEW x, NEW i, WellFormed(x)
    PROVE  \A s \in DOMAIN x.subgraphs \cup {None} : BoxesAround(x, i, s) \in Seq(Refs(x, i))
<1> DEFINE D == DOMAIN x.subgraphs
           Right(s) == BoxesAround(x, i, s) \in Seq(Refs(x, i))
<1>1. PICK N \in Nat : \A s \in D : s < N
  BY DEF WellFormed
<1>2. D \subseteq Nat
  BY DEF WellFormed
<1>3. Right(None)
  BY DEF BoxesAround
<1> DEFINE H == {k \in 0 .. N : \A s \in D : s < k => Right(s)}
<1>4. 0 \in H
  BY <1>2
<1>5. ASSUME NEW k \in 1 .. N, k - 1 \in H PROVE k \in H
  <2> SUFFICES ASSUME NEW s \in D, s < k PROVE Right(s)
    OBVIOUS
  <2> DEFINE p == x.subgraphs[s].parent
  <2>1. p # None => p \in D /\ p \in Nat /\ p < s
    BY <1>2 DEF WellFormed
  <2>2. Right(p)
    <3>1. CASE p = None
      BY <1>3, <3>1
    <3>2. CASE p # None
      <4>1. p < k - 1
        BY <1>2, <2>1, <3>2
      <4> QED BY <1>5, <2>1, <3>2, <4>1
    <3> QED BY <3>1, <3>2
  <2>3. BoxesAround(x, i, s) = Append(BoxesAround(x, i, p), SubgraphRef(i, s))
    BY PathsGrow
  <2>4. SubgraphRef(i, s) \in Refs(x, i)
    BY DEF Refs
  <2> HIDE DEF p
  <2> QED BY <2>2, <2>3, <2>4, AppendProperties
<1>6. N \in H
  <2> HIDE DEF H
  <2>1. 0 .. N \subseteq H
    BY <1>4, <1>5, UpTo
  <2> QED BY <2>1
<1> QED BY <1>1, <1>3, <1>6

\* An item that is drawn in the boxes `around`, and in those of its own, is where it belongs.
PlacedIn(x, i, around, item) ==
    /\ item = [ref |-> item.ref, within |-> item.within]
    /\ item.within \in Seq(Refs(x, i))
    /\ item.ref[1] = i
    /\ \A n : item.ref = NodeRef(i, n) =>
          /\ n \in DOMAIN x.nodes
          /\ around \o item.within = BoxesAround(x, i, x.nodes[n].subgraph_id)
    /\ \A s : item.ref = SubgraphRef(i, s) =>
          /\ s \in DOMAIN x.subgraphs
          /\ around \o item.within = BoxesAround(x, i, x.subgraphs[s].parent)

LEMMA RefsDiffer ==
    ASSUME NEW i, NEW m, NEW n
    PROVE  /\ NodeRef(i, n) # SubgraphRef(i, m) /\ <<i, "sg_empty", n>> # SubgraphRef(i, m)
           /\ <<i, "sg_empty", n>> # NodeRef(i, m)
           /\ (NodeRef(i, n) = NodeRef(i, m)) => (n = m)
           /\ (SubgraphRef(i, n) = SubgraphRef(i, m)) => (n = m)
           /\ NodeRef(i, n)[1] = i /\ SubgraphRef(i, n)[1] = i /\ <<i, "sg_empty", n>>[1] = i
BY DEF NodeRef, SubgraphRef

\* A box more around the items.
LEMMA WrappedItems ==
    ASSUME NEW x, NEW i, NEW around \in Seq(Refs(x, i)), NEW ref \in Refs(x, i), NEW item,
           PlacedIn(x, i, Append(around, ref), item)
    PROVE  PlacedIn(x, i, around, [item EXCEPT !.within = <<ref>> \o @])
<1> DEFINE new == [item EXCEPT !.within = <<ref>> \o @]
           w == item.within
<1>1. item = [ref |-> item.ref, within |-> w] /\ w \in Seq(Refs(x, i))
  BY DEF PlacedIn
<1>2. /\ new.ref = item.ref /\ new.within = <<ref>> \o w
      /\ new = [ref |-> new.ref, within |-> new.within]
  <2> DEFINE r == item.ref
             u == <<ref>> \o w
  <2>1. item = [ref |-> r, within |-> w]
    BY <1>1
  <2>2. new = [item EXCEPT !.within = u]
    BY <2>1
  <2> HIDE DEF r, u, w, new
  <2>3. new = [ref |-> r, within |-> u]
    BY <2>1, <2>2
  <2> QED BY <2>3 DEF r, u
<1>3. <<ref>> \in Seq(Refs(x, i)) /\ <<ref>> \o w \in Seq(Refs(x, i))
  BY <1>1, ConcatProperties
<1>4. around \o (<<ref>> \o w) = Append(around, ref) \o w
  <2>1. around \o (<<ref>> \o w) = (around \o <<ref>>) \o w
    BY <1>1, <1>3, ConcatAssociative
  <2>2. Append(around, ref) = around \o <<ref>>
    BY AppendIsConcat
  <2> QED BY <2>1, <2>2
<1> HIDE DEF new, w
<1>5. PlacedIn(x, i, around, new)
  BY <1>2, <1>3, <1>4 DEF PlacedIn, w
<1> QED BY <1>5 DEF new

\* What a box holds is where it belongs, for the boxes further in hold what they should.
LEMMA BoxesPlace ==
    ASSUME NEW x, NEW i, WellFormed(x)
    PROVE  \A s \in DOMAIN x.subgraphs : \A item \in Boxes(x, i)[s] :
              PlacedIn(x, i, BoxesAround(x, i, x.subgraphs[s].parent), item)
<1> DEFINE D == DOMAIN x.subgraphs
           boxes == Boxes(x, i)
           Right(s) == \A item \in boxes[s] :
                          PlacedIn(x, i, BoxesAround(x, i, x.subgraphs[s].parent), item)
<1>1. PICK N \in Nat : \A s \in D : s < N
  BY DEF WellFormed
<1>2. D \subseteq Nat
  BY DEF WellFormed
<1> DEFINE H == {k \in 0 .. N : \A s \in D : s >= N - k => Right(s)}
<1>3. 0 \in H
  BY <1>1, <1>2
<1>4. ASSUME NEW k \in 1 .. N, k - 1 \in H PROVE k \in H
  <2> SUFFICES ASSUME NEW s \in D, s >= N - k PROVE Right(s)
    OBVIOUS
  <2> DEFINE p == x.subgraphs[s].parent
             around == BoxesAround(x, i, p)
             ref == SubgraphRef(i, s)
             region == x.subgraphs[s]
             members == {NodeRef(i, n) : n \in region.nodes \cap DOMAIN x.nodes}
             empty == IF region.nodes = {} /\ region.children = {}
                      THEN {<<i, "sg_empty", s>>} ELSE {}
             below == UNION {boxes[c] : c \in region.children \cap DOMAIN x.subgraphs}
             items == {Item(r) : r \in members \cup empty} \cup below
  <2>1. p \in D \cup {None}
    BY DEF WellFormed
  <2>2. around \in Seq(Refs(x, i)) /\ ref \in Refs(x, i) /\ around \o <<>> = around
    BY <2>1, PathsAreSequences, ConcatEmptySeq DEF Refs
  <2>3. BoxesAround(x, i, s) = Append(around, ref)
    BY PathsGrow
  <2>4. boxes[s] = Box(ref, items)
    BY BoxesAreRendered DEF RenderSubgraph
  <2>5. Append(around, ref) \o <<>> = Append(around, ref)
    BY <2>2, AppendProperties, ConcatEmptySeq
  <2>6. PlacedIn(x, i, around, Item(ref))
    <3>1. Item(ref) = [ref |-> ref, within |-> <<>>]
      BY DEF Item
    <3>2. \A n : ref # NodeRef(i, n)
      BY RefsDiffer
    <3>3. \A t : (ref = SubgraphRef(i, t)) => (t = s)
      BY RefsDiffer
    <3>4. ref[1] = i
      BY RefsDiffer
    <3> HIDE DEF ref, around
    <3>5. Item(ref).ref = ref /\ Item(ref).within = <<>>
          /\ Item(ref) = [ref |-> Item(ref).ref, within |-> Item(ref).within]
      BY <3>1
    <3> QED BY <2>2, <3>2, <3>3, <3>4, <3>5 DEF PlacedIn, around
  <2>7. ASSUME NEW r \in members \cup empty PROVE PlacedIn(x, i, Append(around, ref), Item(r))
    <3>1. Item(r) = [ref |-> r, within |-> <<>>]
      BY DEF Item
    <3>2. CASE r \in empty
      <4>1. r = <<i, "sg_empty", s>>
        BY <3>2
      <4>2. r[1] = i /\ (\A n : r # NodeRef(i, n)) /\ (\A t : r # SubgraphRef(i, t))
        BY <4>1, RefsDiffer
      <4> QED BY <3>1, <4>2 DEF PlacedIn
    <3>3. CASE r \in members
      <4>1. PICK n \in DOMAIN x.nodes : r = NodeRef(i, n) /\ n \in region.nodes
        BY <3>3
      <4>2. x.nodes[n].subgraph_id = s
        BY <4>1, MembersAreDerived
      <4>3. r[1] = i /\ (\A m : (r = NodeRef(i, m)) => (m = n)) /\ (\A t : r # SubgraphRef(i, t))
        BY <4>1, RefsDiffer
      <4> HIDE DEF around, ref, members, empty, region
      <4> QED BY <2>3, <2>5, <3>1, <4>1, <4>2, <4>3 DEF PlacedIn
    <3> QED BY <3>2, <3>3
  <2>8. ASSUME NEW c \in region.children \cap DOMAIN x.subgraphs, NEW item \in boxes[c]
        PROVE  PlacedIn(x, i, Append(around, ref), item)
    <3>1. c \in D /\ x.subgraphs[c].parent = s
      BY MembersAreDerived
    <3>2. c \in Nat /\ s \in Nat /\ s < c
      BY <1>2, <3>1 DEF WellFormed
    <3>3. c >= N - (k - 1)
      BY <3>2
    <3>4. Right(c)
      BY <1>4, <3>1, <3>3
    <3> QED BY <2>3, <3>1, <3>4
  <2>9. \A item \in items : PlacedIn(x, i, Append(around, ref), item)
    <3> HIDE DEF around, ref, members, empty, boxes
    <3> QED BY <2>7, <2>8
  <2> HIDE DEF around, ref, items, boxes
  <2>10. \A item \in items : PlacedIn(x, i, around, [item EXCEPT !.within = <<ref>> \o @])
    BY <2>2, <2>9, WrappedItems
  <2>11. \A item \in boxes[s] : PlacedIn(x, i, around, item)
    BY <2>4, <2>6, <2>10 DEF Box
  <2> QED BY <2>11 DEF around
<1>5. N \in H
  <2> HIDE DEF H
  <2>1. 0 .. N \subseteq H
    BY <1>3, <1>4, UpTo
  <2> QED BY <2>1
<1>6. \A s \in D : s >= N - N
  BY <1>2
<1> HIDE DEF Right
<1>7. \A s \in D : Right(s)
  BY <1>5, <1>6
<1> QED BY <1>7 DEF Right
\* A region is in the box of its parent, and so on up to one that is drawn at the top.
LEMMA BoxesAreReached ==
    ASSUME NEW x, NEW i, WellFormed(x)
    PROVE  \A s \in DOMAIN x.subgraphs : \E r \in RootSubgraphs(x) :
              \A item \in Boxes(x, i)[s] : \E top \in Boxes(x, i)[r] : top.ref = item.ref
<1> DEFINE D == DOMAIN x.subgraphs
           boxes == Boxes(x, i)
           Above(s, r) == \A item \in boxes[s] : \E top \in boxes[r] : top.ref = item.ref
           Right(s) == \E r \in RootSubgraphs(x) : Above(s, r)
<1>1. PICK N \in Nat : \A s \in D : s < N
  BY DEF WellFormed
<1>2. D \subseteq Nat
  BY DEF WellFormed
<1> DEFINE H == {k \in 0 .. N : \A s \in D : s < k => Right(s)}
<1>3. 0 \in H
  BY <1>2
<1>4. ASSUME NEW k \in 1 .. N, k - 1 \in H PROVE k \in H
  <2> SUFFICES ASSUME NEW s \in D, s < k PROVE Right(s)
    OBVIOUS
  <2> DEFINE p == x.subgraphs[s].parent
  <2>1. CASE p = None
    <3>1. s \in RootSubgraphs(x)
      BY <2>1 DEF RootSubgraphs, WellFormed
    <3> QED BY <3>1
  <2>2. CASE p # None
    <3>1. p \in D /\ p \in Nat /\ s \in Nat /\ p < s
      BY <1>2, <2>2 DEF WellFormed
    <3>2. p < k - 1
      BY <3>1
    <3>3. PICK r \in RootSubgraphs(x) : Above(p, r)
      BY <1>4, <3>1, <3>2
    <3>4. ASSUME NEW item \in boxes[s] PROVE \E inner \in boxes[p] : inner.ref = item.ref
      <4> DEFINE ref == SubgraphRef(i, p)
                 w == <<ref>> \o item.within
                 inner == [item EXCEPT !.within = <<ref>> \o @]
      <4>1. s \in x.subgraphs[p].children \cap DOMAIN x.subgraphs
        BY <3>1, MembersAreDerived
      <4>2. boxes[p] = RenderSubgraph(x, i, p, boxes)
        BY <3>1, BoxesAreRendered
      <4>3. inner \in boxes[p]
        BY <4>1, <4>2 DEF RenderSubgraph, Box
      <4>4. item = [ref |-> item.ref, within |-> item.within]
        <5>1. PlacedIn(x, i, BoxesAround(x, i, p), item)
          BY BoxesPlace
        <5> QED BY <5>1 DEF PlacedIn
      <4>5. inner = [item EXCEPT !.within = w]
        BY <4>4
      <4> HIDE DEF w, ref
      <4>6. [item EXCEPT !.within = w].ref = item.ref
        BY <4>4
      <4> HIDE DEF inner
      <4> QED BY <4>3, <4>5, <4>6
    <3> HIDE DEF boxes
    <3>5. Above(s, r)
      BY <3>3, <3>4
    <3> QED BY <3>5
  <2> QED BY <2>1, <2>2
<1>5. N \in H
  <2> HIDE DEF H
  <2>1. 0 .. N \subseteq H
    BY <1>3, <1>4, UpTo
  <2> QED BY <2>1
<1> HIDE DEF Right
<1>6. \A s \in D : Right(s)
  BY <1>1, <1>5
<1> QED BY <1>6 DEF Right

\* The items of a snapshot are where they belong, and none is missing.
SnapshotPlaced(x, i, items) ==
    /\ \A item \in items : PlacedIn(x, i, <<>>, item)
    /\ \A n \in DOMAIN x.nodes : \E item \in items : item.ref = NodeRef(i, n)
    /\ \A s \in DOMAIN x.subgraphs : \E item \in items : item.ref = SubgraphRef(i, s)

LEMMA DotItemsPlaced ==
    ASSUME NEW x, NEW i, WellFormed(x)
    PROVE  SnapshotPlaced(x, i, DotItems(x, i))
<1> DEFINE boxes == Boxes(x, i)
           items == DotItems(x, i)
<1>1. items = {Item(NodeRef(i, n)) : n \in RootNodes(x)}
                 \cup UNION {boxes[s] : s \in RootSubgraphs(x)}
  BY DEF DotItems
<1>2. ASSUME NEW n \in RootNodes(x)
      PROVE  /\ PlacedIn(x, i, <<>>, Item(NodeRef(i, n)))
             /\ Item(NodeRef(i, n)).ref = NodeRef(i, n)
  <2> DEFINE r == NodeRef(i, n)
  <2>1. n \in DOMAIN x.nodes /\ x.nodes[n].subgraph_id = None
    BY DEF RootNodes, WellFormed
  <2>2. BoxesAround(x, i, x.nodes[n].subgraph_id) = <<>>
    BY <2>1 DEF BoxesAround
  <2>3. r[1] = i /\ (\A m : (r = NodeRef(i, m)) => (m = n)) /\ (\A t : r # SubgraphRef(i, t))
    BY RefsDiffer
  <2>4. Item(r) = [ref |-> r, within |-> <<>>]
    BY DEF Item
  <2>5. <<>> \o <<>> = <<>> /\ <<>> \in Seq(Refs(x, i))
    BY ConcatEmptySeq
  <2> HIDE DEF r
  <2>6. PlacedIn(x, i, <<>>, Item(r)) /\ Item(r).ref = r
    BY <2>1, <2>2, <2>3, <2>4, <2>5 DEF PlacedIn
  <2> QED BY <2>6 DEF r
<1>3. ASSUME NEW s \in RootSubgraphs(x), NEW item \in boxes[s]
      PROVE  PlacedIn(x, i, <<>>, item)
  <2>1. s \in DOMAIN x.subgraphs /\ x.subgraphs[s].parent = None
    BY DEF RootSubgraphs, WellFormed
  <2>2. BoxesAround(x, i, x.subgraphs[s].parent) = <<>>
    BY <2>1 DEF BoxesAround
  <2>3. PlacedIn(x, i, BoxesAround(x, i, x.subgraphs[s].parent), item)
    BY <2>1, BoxesPlace
  <2> QED BY <2>2, <2>3
<1>4. \A item \in items : PlacedIn(x, i, <<>>, item)
  <2> HIDE DEF boxes, items
  <2> QED BY <1>1, <1>2, <1>3
<1>5. ASSUME NEW s \in DOMAIN x.subgraphs, NEW item \in boxes[s]
      PROVE  \E top \in items : top.ref = item.ref
  <2>1. PICK r \in RootSubgraphs(x) : \E top \in boxes[r] : top.ref = item.ref
    BY BoxesAreReached
  <2> HIDE DEF boxes, items
  <2> QED BY <1>1, <2>1
<1>6. ASSUME NEW s \in DOMAIN x.subgraphs
      PROVE  /\ \E item \in boxes[s] : item.ref = SubgraphRef(i, s)
             /\ \A n \in DOMAIN x.nodes : x.nodes[n].subgraph_id = s =>
                   \E item \in boxes[s] : item.ref = NodeRef(i, n)
  <2>1. boxes[s] = RenderSubgraph(x, i, s, boxes)
    BY BoxesAreRendered
  <2>2. Item(SubgraphRef(i, s)) \in boxes[s] /\ Item(SubgraphRef(i, s)).ref = SubgraphRef(i, s)
    BY <2>1 DEF RenderSubgraph, Box, Item
  <2>3. ASSUME NEW n \in DOMAIN x.nodes, x.nodes[n].subgraph_id = s
        PROVE  \E item \in boxes[s] : item.ref = NodeRef(i, n)
    <3> DEFINE r == NodeRef(i, n)
               w == <<SubgraphRef(i, s)>> \o <<>>
               inner == [Item(r) EXCEPT !.within = <<SubgraphRef(i, s)>> \o @]
    <3>1. n \in x.subgraphs[s].nodes \cap DOMAIN x.nodes
      BY <2>3, MembersAreDerived
    <3>2. inner \in boxes[s]
      <4> DEFINE region == x.subgraphs[s]
                 members == {NodeRef(i, m) : m \in region.nodes \cap DOMAIN x.nodes}
                 empty == IF region.nodes = {} /\ region.children = {}
                          THEN {<<i, "sg_empty", s>>} ELSE {}
                 below == UNION {boxes[c] : c \in region.children \cap DOMAIN x.subgraphs}
                 inside == {Item(ref) : ref \in members \cup empty} \cup below
      <4>1. boxes[s] = Box(SubgraphRef(i, s), inside)
        BY <2>1 DEF RenderSubgraph
      <4>2. r \in members
        BY <3>1
      <4>3. Item(r) \in inside
        BY <4>2
      <4> HIDE DEF inside, boxes, r
      <4> QED BY <4>1, <4>3 DEF Box
    <3>3. inner = [ref |-> r, within |-> w]
      BY DEF Item
    <3> HIDE DEF inner, r, w
    <3>4. inner.ref = r
      BY <3>3
    <3> QED BY <3>2, <3>4 DEF r
  <2> HIDE DEF boxes
  <2> QED BY <2>2, <2>3
<1>7. \A s \in DOMAIN x.subgraphs : \E item \in items : item.ref = SubgraphRef(i, s)
  <2> HIDE DEF boxes, items
  <2> QED BY <1>5, <1>6
<1>8. ASSUME NEW n \in DOMAIN x.nodes PROVE \E item \in items : item.ref = NodeRef(i, n)
  <2> HIDE DEF boxes, items
  <2>1. CASE x.nodes[n].subgraph_id \in DOMAIN x.subgraphs
    BY <1>5, <1>6, <2>1
  <2>2. CASE x.nodes[n].subgraph_id \notin DOMAIN x.subgraphs
    <3>1. n \in RootNodes(x)
      BY <2>2 DEF RootNodes
    <3>2. Item(NodeRef(i, n)) \in items
      BY <1>1, <3>1
    <3> QED BY <1>2, <3>1, <3>2
  <2> QED BY <2>1, <2>2
<1> HIDE DEF items
<1>9. SnapshotPlaced(x, i, items)
  BY <1>4, <1>7, <1>8 DEF SnapshotPlaced
<1> QED BY <1>9 DEF items

\* An item that is no node's and no region's is in nobody's way.
LEMMA OtherItemPlaced ==
    ASSUME NEW x, NEW i, NEW items, SnapshotPlaced(x, i, items),
           NEW what, what \notin {"n", "sg"}
    PROVE  SnapshotPlaced(x, i, items \cup {Item(<<i, what>>)})
<1> DEFINE r == <<i, what>>
<1>1. r[1] = i /\ r[2] = what
  OBVIOUS
<1>2. \A n : NodeRef(i, n)[2] = "n" /\ SubgraphRef(i, n)[2] = "sg"
  BY DEF NodeRef, SubgraphRef
<1> HIDE DEF r
<1>3. \A n : r # NodeRef(i, n) /\ r # SubgraphRef(i, n)
  BY <1>1, <1>2
<1>4. Item(r) = [ref |-> r, within |-> <<>>]
  BY DEF Item
<1>5. PlacedIn(x, i, <<>>, Item(r))
  BY <1>1, <1>3, <1>4 DEF PlacedIn
<1>6. SnapshotPlaced(x, i, items \cup {Item(r)})
  BY <1>5 DEF SnapshotPlaced
<1> QED BY <1>6 DEF r

\* Snapshots side by side, each in a box of its own.
IsTimeline(drawing, snaps, contents, outer) ==
    /\ outer \notin {"n", "sg"}
    /\ \A i \in DOMAIN snaps : WellFormed(snaps[i]) /\ SnapshotPlaced(snaps[i], i, contents[i])
    /\ drawing.items = UNION {Box(<<i, outer>>, contents[i]) : i \in DOMAIN snaps}
    /\ drawing.arrows = UNION {Arrows(snaps[i], i) : i \in DOMAIN snaps}

LEMMA TimelinePlaced ==
    ASSUME NEW snaps, NEW contents, NEW drawing, NEW outer,
           IsTimeline(drawing, snaps, contents, outer)
    PROVE  /\ \A i \in DOMAIN snaps : SnapshotIsDrawn(drawing, snaps[i], i, <<i, outer>>)
           /\ ArrowsJoinItems(drawing)
<1> DEFINE Wrap(i, item) == [item EXCEPT !.within = <<<<i, outer>>>> \o @]
<1>0. /\ outer \notin {"n", "sg"}
      /\ \A i \in DOMAIN snaps : WellFormed(snaps[i]) /\ SnapshotPlaced(snaps[i], i, contents[i])
      /\ drawing.items = UNION {Box(<<i, outer>>, contents[i]) : i \in DOMAIN snaps}
      /\ drawing.arrows = UNION {Arrows(snaps[i], i) : i \in DOMAIN snaps}
  BY DEF IsTimeline
<1>1. ASSUME NEW i \in DOMAIN snaps, NEW item \in contents[i]
      PROVE  /\ Wrap(i, item).ref = item.ref
             /\ Wrap(i, item).within = <<<<i, outer>>>> \o item.within
             /\ <<>> \o item.within = item.within
             /\ Wrap(i, item) \in drawing.items
  <2>1. /\ item = [ref |-> item.ref, within |-> item.within]
        /\ item.within \in Seq(Refs(snaps[i], i))
    BY <1>0 DEF SnapshotPlaced, PlacedIn
  <2>2. <<>> \o item.within = item.within
    BY <2>1, ConcatEmptySeq
  <2> DEFINE w == <<<<i, outer>>>> \o item.within
             new == Wrap(i, item)
  <2>3. new = [item EXCEPT !.within = w]
    BY <2>1
  <2>4. new \in drawing.items
    <3>1. new \in Box(<<i, outer>>, contents[i])
      BY DEF Box
    <3> HIDE DEF new
    <3> QED BY <1>0, <3>1
  <2> HIDE DEF w, new, Wrap
  <2>5. new.ref = item.ref /\ new.within = w
    BY <2>1, <2>3
  <2> QED BY <2>2, <2>4, <2>5 DEF w, new
<1>2. ASSUME NEW item \in drawing.items
      PROVE  \E i \in DOMAIN snaps : \/ item = Item(<<i, outer>>)
                                     \/ \E it \in contents[i] : item = Wrap(i, it)
  BY <1>0 DEF Box
<1> HIDE DEF Wrap
<1>3. ASSUME NEW i \in DOMAIN snaps, NEW ref, NEW path, ref[1] = i, ref[2] # outer,
             \E item \in contents[i] : item.ref = ref,
             \A item \in contents[i] : item.ref = ref => <<>> \o item.within = path
      PROVE  DrawnAt(drawing, ref, <<<<i, outer>>>> \o path)
  <2> DEFINE places == {item.within : item \in {x \in drawing.items : x.ref = ref}}
  <2>1. <<<<i, outer>>>> \o path \in places
    <3>1. PICK item \in contents[i] : item.ref = ref
      BY <1>3
    <3>2. item.within = path
      BY <1>1, <1>3, <3>1
    <3> QED BY <1>1, <3>1, <3>2
  <2>2. ASSUME NEW item \in drawing.items, item.ref = ref
        PROVE  item.within = <<<<i, outer>>>> \o path
    <3>1. PICK j \in DOMAIN snaps : \/ item = Item(<<j, outer>>)
                                    \/ \E it \in contents[j] : item = Wrap(j, it)
      BY <1>2
    <3>2. item # Item(<<j, outer>>)
      BY <1>3, <2>2 DEF Item
    <3>3. PICK it \in contents[j] : item = Wrap(j, it)
      BY <3>1, <3>2
    <3>4. it.ref = ref /\ it.ref[1] = j
      <4>1. it.ref = ref
        BY <1>1, <2>2, <3>3
      <4>2. PlacedIn(snaps[j], j, <<>>, it)
        BY <1>0 DEF SnapshotPlaced
      <4>3. it.ref[1] = j
        BY <4>2 DEF PlacedIn
      <4> QED BY <4>1, <4>3
    <3>5. j = i
      BY <1>3, <3>4
    <3>6. it.within = path
      BY <1>1, <1>3, <3>4, <3>5
    <3> QED BY <1>1, <3>3, <3>5, <3>6
  <2>3. places = {<<<<i, outer>>>> \o path}
    BY <2>1, <2>2
  <2> QED BY <2>3 DEF DrawnAt
<1>4. ASSUME NEW i \in DOMAIN snaps, NEW n \in DOMAIN snaps[i].nodes
      PROVE  DrawnAt(drawing, NodeRef(i, n),
                     <<<<i, outer>>>> \o BoxesAround(snaps[i], i, snaps[i].nodes[n].subgraph_id))
  <2> DEFINE ref == NodeRef(i, n)
             path == BoxesAround(snaps[i], i, snaps[i].nodes[n].subgraph_id)
  <2>1. ref[1] = i /\ ref[2] # outer
    BY <1>0 DEF NodeRef
  <2>2. /\ \E item \in contents[i] : item.ref = ref
        /\ \A item \in contents[i] : item.ref = ref => <<>> \o item.within = path
    BY <1>0 DEF SnapshotPlaced, PlacedIn
  <2> HIDE DEF ref, path
  <2>3. DrawnAt(drawing, ref, <<<<i, outer>>>> \o path)
    BY <1>3, <2>1, <2>2
  <2> QED BY <2>3 DEF ref, path
<1>5. ASSUME NEW i \in DOMAIN snaps, NEW s \in DOMAIN snaps[i].subgraphs
      PROVE  DrawnAt(drawing, SubgraphRef(i, s),
                     <<<<i, outer>>>> \o BoxesAround(snaps[i], i, snaps[i].subgraphs[s].parent))
  <2> DEFINE ref == SubgraphRef(i, s)
             path == BoxesAround(snaps[i], i, snaps[i].subgraphs[s].parent)
  <2>1. ref[1] = i /\ ref[2] # outer
    BY <1>0 DEF SubgraphRef
  <2>2. /\ \E item \in contents[i] : item.ref = ref
        /\ \A item \in contents[i] : item.ref = ref => <<>> \o item.within = path
    BY <1>0 DEF SnapshotPlaced, PlacedIn
  <2> HIDE DEF ref, path
  <2>3. DrawnAt(drawing, ref, <<<<i, outer>>>> \o path)
    BY <1>3, <2>1, <2>2
  <2> QED BY <2>3 DEF ref, path
<1>6. ASSUME NEW arrow \in drawing.arrows
      PROVE  {arrow[1], arrow[2]} \subseteq {item.ref : item \in drawing.items}
  <2>1. PICK i \in DOMAIN snaps : arrow \in Arrows(snaps[i], i)
    BY <1>0
  <2>2. PICK e \in DOMAIN snaps[i].edges :
             arrow[1] = NodeRef(i, e[1]) /\ arrow[2] = NodeRef(i, e[2])
    BY <2>1 DEF Arrows
  <2>3. e[1] \in DOMAIN snaps[i].nodes /\ e[2] \in DOMAIN snaps[i].nodes
    BY <1>0 DEF WellFormed
  <2>4. ASSUME NEW n \in DOMAIN snaps[i].nodes
        PROVE  NodeRef(i, n) \in {item.ref : item \in drawing.items}
    <3>1. PICK item \in contents[i] : item.ref = NodeRef(i, n)
      BY <1>0 DEF SnapshotPlaced
    <3>2. Wrap(i, item) \in drawing.items /\ Wrap(i, item).ref = NodeRef(i, n)
      BY <1>1, <3>1
    <3> QED BY <3>2
  <2> QED BY <2>2, <2>3, <2>4
<1> QED BY <1>4, <1>5, <1>6 DEF SnapshotIsDrawn, ArrowsJoinItems

\* A timeline draws every node and every region of every snapshot once, in the boxes of the
\* regions that own it, however deep they are nested, and joins what it draws.
THEOREM TimelinesAreComplete == SessionSpec => []TimelineIsDrawn
<1>1. SessionInv => TimelineIsDrawn
  <2> SUFFICES ASSUME SessionInv PROVE TimelineIsDrawn
    OBVIOUS
  <2>1. \A i \in DOMAIN snapshots : WellFormed(snapshots[i])
    BY DEF SessionInv
  <2>2. /\ \A i \in DOMAIN snapshots :
              SnapshotIsDrawn(RenderDotTimeline, snapshots[i], i, <<i, "cluster">>)
        /\ ArrowsJoinItems(RenderDotTimeline)
    <3> DEFINE contents == [i \in DOMAIN snapshots |-> DotItems(snapshots[i], i)]
               drawing == RenderDotTimeline
               outer == "cluster"
    <3>1. \A i \in DOMAIN snapshots :
             WellFormed(snapshots[i]) /\ SnapshotPlaced(snapshots[i], i, contents[i])
      BY <2>1, DotItemsPlaced
    <3>2. /\ drawing.items = UNION {Box(<<i, "cluster">>, contents[i]) : i \in DOMAIN snapshots}
          /\ drawing.arrows = UNION {Arrows(snapshots[i], i) : i \in DOMAIN snapshots}
      BY DEF RenderDotTimeline
    <3>3. outer \notin {"n", "sg"}
      OBVIOUS
    <3> HIDE DEF contents, drawing
    <3>4. IsTimeline(drawing, snapshots, contents, outer)
      BY <3>1, <3>2, <3>3 DEF IsTimeline
    <3> HIDE DEF outer
    <3>5. /\ \A i \in DOMAIN snapshots : SnapshotIsDrawn(drawing, snapshots[i], i, <<i, outer>>)
          /\ ArrowsJoinItems(drawing)
      BY <3>4, TimelinePlaced
    <3> QED BY <3>5 DEF drawing, outer
  <2>3. /\ \A i \in DOMAIN snapshots :
              SnapshotIsDrawn(RenderMermaidTimeline, snapshots[i], i, <<i, "snapshot">>)
        /\ ArrowsJoinItems(RenderMermaidTimeline)
    <3> DEFINE all(i) == MermaidItems(snapshots[i], i) \cup {Item(<<i, "timeline_anchor">>)}
               contents == [i \in DOMAIN snapshots |-> all(i)]
               drawing == RenderMermaidTimeline
               outer == "snapshot"
    <3>1. ASSUME NEW i \in DOMAIN snapshots
          PROVE  WellFormed(snapshots[i]) /\ SnapshotPlaced(snapshots[i], i, all(i))
      <4> DEFINE dot == DotItems(snapshots[i], i)
                 items == MermaidItems(snapshots[i], i)
      <4>1. SnapshotPlaced(snapshots[i], i, dot)
        BY <2>1, DotItemsPlaced
      <4>2. SnapshotPlaced(snapshots[i], i, dot \cup {Item(<<i, "empty">>)})
        BY <4>1, OtherItemPlaced
      <4>3. items = dot \/ items = dot \cup {Item(<<i, "empty">>)}
        BY DEF MermaidItems
      <4> HIDE DEF items, dot
      <4>4. SnapshotPlaced(snapshots[i], i, items)
        BY <4>1, <4>2, <4>3
      <4>5. SnapshotPlaced(snapshots[i], i, items \cup {Item(<<i, "timeline_anchor">>)})
        BY <4>4, OtherItemPlaced
      <4> QED BY <2>1, <4>5 DEF items
    <3>2. /\ drawing.items = UNION {Box(<<i, "snapshot">>, contents[i]) : i \in DOMAIN snapshots}
          /\ drawing.arrows = UNION {Arrows(snapshots[i], i) : i \in DOMAIN snapshots}
      BY DEF RenderMermaidTimeline
    <3>3. \A i \in DOMAIN snapshots :
             WellFormed(snapshots[i]) /\ SnapshotPlaced(snapshots[i], i, contents[i])
      BY <3>1
    <3>4. outer \notin {"n", "sg"}
      OBVIOUS
    <3> HIDE DEF contents, drawing
    <3>5. IsTimeline(drawing, snapshots, contents, outer)
      BY <3>2, <3>3, <3>4 DEF IsTimeline
    <3> HIDE DEF outer
    <3>6. /\ \A i \in DOMAIN snapshots : SnapshotIsDrawn(drawing, snapshots[i], i, <<i, outer>>)
          /\ ArrowsJoinItems(drawing)
      BY <3>5, TimelinePlaced
    <3> QED BY <3>6 DEF drawing, outer
  <2> QED BY <2>2, <2>3 DEF TimelineIsDrawn
<1> QED BY <1>1, SessionInvariant, PTL
=============================================================================
