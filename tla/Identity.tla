------------------------------ MODULE Identity ------------------------------
(***************************************************************************)
(* The ids of src/src/identity.rs.  All graphs of a process draw their id  *)
(* from one atomic counter, NEXT_GRAPH_ID, with fetch_update: a load, and  *)
(* then compare_exchange_weak with the id that was loaded until it         *)
(* succeeds.  Graphs are created on any thread.  The ordering is Relaxed:  *)
(* a load may return an older value of the counter than the newest, though *)
(* never one older than what the thread has read before, and an exchange   *)
(* may fail for no reason.                                                 *)
(*                                                                         *)
(* A handle (NodeId) is the id of its graph and a number the graph counts  *)
(* up itself, from 0 in every graph; only the first half tells the handles *)
(* of two graphs apart.                                                    *)
(***************************************************************************)
EXTENDS Naturals, Sequences

CONSTANTS
    Thread,
    MaxId,          \* u64::MAX
    MaxNodes,       \* bound: nodes of one graph
    None

ASSUME IdentityAssumption == MaxId \in Nat \ {0} /\ MaxNodes \in Nat /\ None \notin Nat

VARIABLES
    NEXT_GRAPH_ID,
    prev,           \* fetch_update's local, per thread; None outside the call
    latest,         \* the newest value of the counter the thread has read
    graphs          \* the graphs each thread has created, in order

vars == <<NEXT_GRAPH_ID, prev, latest, graphs>>

Graph == [id : 0..MaxId, next_node_id : 0..MaxNodes]

TypeOK ==
    /\ NEXT_GRAPH_ID \in 1..MaxId
    /\ prev \in [Thread -> 1..MaxId \cup {None}]
    /\ latest \in [Thread -> 1..MaxId]
    /\ graphs \in [Thread -> Seq(Graph)]

Init ==
    /\ NEXT_GRAPH_ID = 1
    /\ prev = [t \in Thread |-> None]
    /\ latest = [t \in Thread |-> 1]
    /\ graphs = [t \in Thread |-> <<>>]

Read(t, id) ==
    /\ prev' = [prev EXCEPT ![t] = id]
    /\ latest' = [latest EXCEPT ![t] = id]

\* Mutant: wrapping_add.
WrappingNext(id) == (id + 1) % (MaxId + 1)

\* checked_add(1)
CheckedNext(id) == IF id = MaxId THEN None ELSE id + 1

\* The load of fetch_update.
Load(t) ==
    /\ prev[t] = None
    /\ \E id \in latest[t]..NEXT_GRAPH_ID : Read(t, id)
    /\ UNCHANGED <<NEXT_GRAPH_ID, graphs>>

\* Mutant: the counter is stored to, not exchanged.
Unconditionally(t) == TRUE

StillCurrent(t) == NEXT_GRAPH_ID = prev[t]

\* compare_exchange_weak succeeds, and the graph gets the id.
Exchange(t) ==
    /\ prev[t] # None /\ CheckedNext(prev[t]) # None
    /\ StillCurrent(t)
    /\ NEXT_GRAPH_ID' = CheckedNext(prev[t])
    /\ graphs' = [graphs EXCEPT ![t] = Append(@, [id |-> prev[t], next_node_id |-> 0])]
    /\ prev' = [prev EXCEPT ![t] = None]
    /\ latest' = [latest EXCEPT ![t] = CheckedNext(prev[t])]

\* It fails, and returns the value it found.
ExchangeFails(t) ==
    /\ prev[t] # None /\ CheckedNext(prev[t]) # None
    /\ \E id \in latest[t]..NEXT_GRAPH_ID : Read(t, id)
    /\ UNCHANGED <<NEXT_GRAPH_ID, graphs>>

\* "attribute graph exhausted its graph id space"
Panic(t) ==
    /\ prev[t] # None /\ CheckedNext(prev[t]) = None
    /\ prev' = [prev EXCEPT ![t] = None]
    /\ UNCHANGED <<NEXT_GRAPH_ID, latest, graphs>>

\* add_source or add_derived on a graph of the thread.
AddNode(t) ==
    /\ prev[t] = None
    /\ \E i \in DOMAIN graphs[t] :
          /\ graphs[t][i].next_node_id < MaxNodes
          /\ graphs' = [graphs EXCEPT ![t][i].next_node_id = @ + 1]
    /\ UNCHANGED <<NEXT_GRAPH_ID, prev, latest>>

Next == \E t \in Thread : Load(t) \/ Exchange(t) \/ ExchangeFails(t) \/ Panic(t) \/ AddNode(t)

Spec == Init /\ [][Next]_vars
-----------------------------------------------------------------------------
Handles(g) == {[graph |-> g.id, local |-> k] : k \in 0..(g.next_node_id - 1)}

\* Mutant: the graph id is not compared.
AcceptsNumber(g, handle) == handle.local < g.next_node_id

\* ensure_node, while no node is removed.
Accepts(g, handle) == handle.graph = g.id /\ handle.local < g.next_node_id

\* No two graphs of the process have the same id, on whatever threads they are created
\* and however far the counter has come: an id is not handed out twice, not even when
\* the counter is at its end.
GraphIdsUnique ==
    \A t, u \in Thread : \A i \in DOMAIN graphs[t], j \in DOMAIN graphs[u] :
        graphs[t][i].id = graphs[u][j].id => t = u /\ i = j

\* A graph accepts no handle that another graph has issued, although the numbers in
\* them are the same.
ForeignHandlesRefused ==
    \A t, u \in Thread : \A i \in DOMAIN graphs[t], j \in DOMAIN graphs[u] :
        (\E handle \in Handles(graphs[u][j]) : Accepts(graphs[t][i], handle))
            => t = u /\ i = j
=============================================================================
