-------------------------- MODULE Identity_proofs --------------------------
(***************************************************************************)
(* Graph ids are unique for any number of threads and any range of ids.    *)
(*                                                                         *)
(* GraphIdsUnique is not inductive alone: the id an exchange hands out is  *)
(* new because every graph has an id below the counter (IdsBelowCounter),  *)
(* and the exchange succeeds only when the id is the counter's value.      *)
(***************************************************************************)
EXTENDS Identity, TLAPS

IdsBelowCounter ==
    \A t \in Thread : \A i \in DOMAIN graphs[t] : graphs[t][i].id < NEXT_GRAPH_ID

IInv == TypeOK /\ IdsBelowCounter /\ GraphIdsUnique

-----------------------------------------------------------------------------
\* Counting a node in one graph of a thread leaves the ids of all graphs as they are.
LEMMA AddNodeKeepsIds ==
    ASSUME TypeOK, NEW t \in Thread, AddNode(t)
    PROVE  /\ graphs' \in [Thread -> Seq(Graph)]
           /\ \A u \in Thread : DOMAIN graphs'[u] = DOMAIN graphs[u]
           /\ \A u \in Thread : \A j \in DOMAIN graphs[u] :
                 graphs'[u][j].id = graphs[u][j].id
<1>1. PICK i \in DOMAIN graphs[t] :
          /\ graphs[t][i].next_node_id < MaxNodes
          /\ graphs' = [graphs EXCEPT ![t][i].next_node_id = @ + 1]
  BY DEF AddNode
<1> DEFINE g == graphs[t][i]
           counted == [g EXCEPT !.next_node_id = @ + 1]
           own == [graphs[t] EXCEPT ![i] = counted]
<1>2. graphs[t] \in Seq(Graph) /\ g \in Graph
  <2>1. graphs[t] \in Seq(Graph)
    BY DEF TypeOK
  <2> QED
    BY <2>1
<1>3. counted \in Graph /\ counted.id = g.id
  BY <1>1, <1>2, IdentityAssumption DEF Graph
<1>4. own \in Seq(Graph) /\ DOMAIN own = DOMAIN graphs[t]
  BY <1>2, <1>3
<1>5. graphs' = [graphs EXCEPT ![t] = own]
  BY <1>1
<1>6. \A j \in DOMAIN graphs[t] : own[j].id = graphs[t][j].id
  BY <1>3
<1>7. /\ graphs'[t] = own
      /\ \A u \in Thread \ {t} : graphs'[u] = graphs[u]
  BY <1>5 DEF TypeOK
<1> HIDE DEF own
<1> QED
  BY <1>4, <1>5, <1>6, <1>7 DEF TypeOK

\* A successful exchange adds one graph, with the id the counter had.
LEMMA ExchangeAddsGraph ==
    ASSUME TypeOK, NEW t \in Thread, Exchange(t)
    PROVE  /\ graphs' \in [Thread -> Seq(Graph)]
           /\ \A u \in Thread \ {t} : graphs'[u] = graphs[u]
           /\ DOMAIN graphs'[t] = DOMAIN graphs[t] \cup {Len(graphs[t]) + 1}
           /\ \A j \in DOMAIN graphs[t] : graphs'[t][j] = graphs[t][j]
           /\ graphs'[t][Len(graphs[t]) + 1].id = NEXT_GRAPH_ID
           /\ NEXT_GRAPH_ID' = NEXT_GRAPH_ID + 1
           /\ NEXT_GRAPH_ID' \in 1..MaxId
<1> DEFINE new == [id |-> prev[t], next_node_id |-> 0]
<1>1. graphs' = [graphs EXCEPT ![t] = Append(graphs[t], new)]
  BY DEF Exchange
<1>2. prev[t] = NEXT_GRAPH_ID /\ NEXT_GRAPH_ID \in 1..MaxId
  BY DEF Exchange, StillCurrent, TypeOK
<1>3. new \in Graph /\ new.id = NEXT_GRAPH_ID
  BY <1>2, IdentityAssumption DEF Graph
<1>4. graphs[t] \in Seq(Graph)
  BY DEF TypeOK
<1>5. graphs'[t] = Append(graphs[t], new) /\ \A u \in Thread \ {t} : graphs'[u] = graphs[u]
  BY <1>1 DEF TypeOK
<1>6. graphs' \in [Thread -> Seq(Graph)]
  <2>1. Append(graphs[t], new) \in Seq(Graph)
    BY <1>3, <1>4
  <2> QED
    BY <1>1, <2>1 DEF TypeOK
<1>7. NEXT_GRAPH_ID' = NEXT_GRAPH_ID + 1 /\ NEXT_GRAPH_ID' \in 1..MaxId
  BY <1>2, IdentityAssumption DEF Exchange, CheckedNext
<1> HIDE DEF new
<1> QED
  BY <1>3, <1>4, <1>5, <1>6, <1>7

LEMMA InitIds == Init => IInv
<1> SUFFICES ASSUME Init PROVE IInv
  OBVIOUS
<1>1. TypeOK
  BY IdentityAssumption DEF Init, TypeOK
<1>2. ASSUME NEW t \in Thread PROVE DOMAIN graphs[t] = {}
  <2>1. graphs[t] = << >> /\ Len(<< >>) = 0
    BY DEF Init
  <2>2. graphs[t] \in Seq(Graph)
    BY <1>1 DEF TypeOK
  <2>3. DOMAIN graphs[t] = 1..Len(graphs[t])
    BY <2>2
  <2>4. DOMAIN graphs[t] = 1..0
    BY <2>1, <2>3
  <2> QED
    BY <2>4
<1> QED
  BY <1>1, <1>2 DEF IInv, IdsBelowCounter, GraphIdsUnique

LEMMA StepIds == IInv /\ [Next]_vars => IInv'
<1> SUFFICES ASSUME IInv, [Next]_vars PROVE IInv'
  OBVIOUS
<1> USE DEF IInv
<1>1. ASSUME NEW t \in Thread, NEW id \in latest[t]..NEXT_GRAPH_ID, Read(t, id),
             UNCHANGED <<NEXT_GRAPH_ID, graphs>>
      PROVE  IInv'
  <2>1. id \in 1..MaxId
    BY <1>1, IdentityAssumption DEF TypeOK
  <2>2. TypeOK'
    BY <1>1, <2>1 DEF TypeOK, Read
  <2> QED
    BY <1>1, <2>2 DEF IdsBelowCounter, GraphIdsUnique
<1>2. ASSUME NEW t \in Thread, Exchange(t)
      PROVE  IInv'
  <2>1. TypeOK'
    <3>1. prev' \in [Thread -> 1..MaxId \cup {None}]
      BY <1>2 DEF Exchange, TypeOK
    <3>2. CheckedNext(prev[t]) = NEXT_GRAPH_ID'
      BY <1>2 DEF Exchange
    <3>3. latest' \in [Thread -> 1..MaxId]
      BY <1>2, <3>2, ExchangeAddsGraph DEF Exchange, TypeOK
    <3> QED
      BY <1>2, <3>1, <3>3, ExchangeAddsGraph DEF TypeOK
  <2>2. \A u \in Thread : \A i \in DOMAIN graphs'[u] :
           \/ i \in DOMAIN graphs[u] /\ graphs'[u][i].id = graphs[u][i].id
           \/ u = t /\ i = Len(graphs[t]) + 1 /\ graphs'[u][i].id = NEXT_GRAPH_ID
    BY <1>2, ExchangeAddsGraph
  <2>3. \A u \in Thread : \A i \in DOMAIN graphs[u] : graphs[u][i].id \in Nat
    <3>1. \A u \in Thread : \A i \in DOMAIN graphs[u] : graphs[u][i] \in Graph
      BY DEF TypeOK
    <3> QED
      BY <3>1, IdentityAssumption DEF Graph
  <2>4. NEXT_GRAPH_ID \in Nat /\ NEXT_GRAPH_ID' = NEXT_GRAPH_ID + 1
    BY <1>2, IdentityAssumption, ExchangeAddsGraph DEF TypeOK
  <2>5. IdsBelowCounter'
    BY <2>2, <2>3, <2>4 DEF IdsBelowCounter
  <2>6. GraphIdsUnique'
    BY <2>2, <2>3, <2>4 DEF IdsBelowCounter, GraphIdsUnique
  <2> QED
    BY <2>1, <2>5, <2>6
<1>3. ASSUME NEW t \in Thread, Panic(t)
      PROVE  IInv'
  <2>1. TypeOK'
    BY <1>3 DEF TypeOK, Panic
  <2> QED
    BY <1>3, <2>1 DEF Panic, IdsBelowCounter, GraphIdsUnique
<1>4. ASSUME NEW t \in Thread, AddNode(t)
      PROVE  IInv'
  <2>1. TypeOK'
    BY <1>4, AddNodeKeepsIds DEF AddNode, TypeOK
  <2>2. IdsBelowCounter' /\ GraphIdsUnique'
    <3>1. UNCHANGED NEXT_GRAPH_ID
      BY <1>4 DEF AddNode
    <3>2. \A u \in Thread : /\ DOMAIN graphs'[u] = DOMAIN graphs[u]
                            /\ \A j \in DOMAIN graphs[u] :
                                  graphs'[u][j].id = graphs[u][j].id
      BY <1>4, AddNodeKeepsIds
    <3> QED
      BY <3>1, <3>2 DEF IdsBelowCounter, GraphIdsUnique
  <2> QED
    BY <2>1, <2>2
<1>5. CASE UNCHANGED vars
  BY <1>5 DEF vars, TypeOK, IdsBelowCounter, GraphIdsUnique
<1> QED
  BY <1>1, <1>2, <1>3, <1>4, <1>5 DEF Next, Load, ExchangeFails

-----------------------------------------------------------------------------
\* The counter stays in 1..u64::MAX, and so does every id that was ever loaded from it:
\* neither exhaustion nor a stale load makes it wrap.
THEOREM CounterInRange == Spec => []TypeOK
<1>1. IInv => TypeOK
  BY DEF IInv
<1> QED
  BY <1>1, InitIds, StepIds, PTL DEF Spec

\* An id that next_graph_id has returned is never returned again, to any thread,
\* also when loads are stale, exchanges fail and the counter reaches its end.
THEOREM IdsUnique == Spec => []GraphIdsUnique
<1>1. IInv => GraphIdsUnique
  BY DEF IInv
<1> QED
  BY <1>1, InitIds, StepIds, PTL DEF Spec

\* ensure_node refuses every handle that another graph of the process has issued.
THEOREM ForeignRefused == Spec => []ForeignHandlesRefused
<1>1. GraphIdsUnique => ForeignHandlesRefused
  BY DEF GraphIdsUnique, ForeignHandlesRefused, Handles, Accepts
<1> QED
  BY <1>1, IdsUnique, PTL
=============================================================================
