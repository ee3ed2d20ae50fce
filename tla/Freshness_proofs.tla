-------------------------- MODULE Freshness_proofs --------------------------
(***************************************************************************)
(* Theorems about what AttributeGraph hands out: caches are current, stale *)
(* nodes are known to be, and what a running callback has read holds.      *)
(* They need every rule to hold handles of older nodes only.               *)
(*                                                                         *)
(* The argument, which FreshInv makes inductive.  The frames of a call are *)
(* about ever older nodes, because edges lead to older nodes; so while a   *)
(* node is brought up to date, everything that waits below its frame is    *)
(* newer.  Nothing that was Clean stops being Clean during a call: what a  *)
(* commit marks was stale before, because the committing node was, and     *)
(* staleness reaches every dependent.  So the dependencies a frame has     *)
(* validated, or a callback has recorded, are Clean with the same value    *)
(* when it ends, and its node may be called Clean itself.  And a node      *)
(* becomes Dirty in the middle of a call only if the dependency it waits   *)
(* for has changed, which that dependency then reports to it.              *)
(***************************************************************************)
EXTENDS AttributeGraph_proofs

-----------------------------------------------------------------------------
(***************************************************************************)
(* mark_changed and mark_unchanged keep the bookkeeping of staleness, on   *)
(* any graph.                                                              *)
(***************************************************************************)
\* act and deps are the same edges, from their two ends.
Mirrored(act, deps) == \A d, n \in NodeId : n \in deps[d] <=> d \in act[n]

\* StaleEdgesPending of any edges, states and pending edges.
StalePending(act, st, pend) ==
    /\ \A n \in NodeId : \A d \in act[n] :
          st[d] # "Clean" => st[n] # "Clean" /\ <<d, n>> \in pend
    /\ \A d, n \in NodeId : <<d, n>> \in pend => d \in act[n] /\ st[n] # "Clean"

Status == NodeState \cup {"Absent"}
Edges == [NodeId -> SUBSET NodeId]

\* Downstream(S) contains S, is closed, and is least among the closed sets.
LEMMA DownstreamClosed ==
    ASSUME NEW deps \in Edges, NEW S \in SUBSET NodeId
    PROVE  /\ S \subseteq Downstream(deps, S)
           /\ Downstream(deps, S) \subseteq NodeId
           /\ \A u \in Downstream(deps, S) : deps[u] \subseteq Downstream(deps, S)
<1>1. S \subseteq Downstream(deps, S) /\ Downstream(deps, S) \subseteq NodeId
  BY DEF Downstream
<1>2. ASSUME NEW u \in Downstream(deps, S), NEW v \in deps[u] PROVE v \in Downstream(deps, S)
  <2>1. u \in NodeId /\ v \in NodeId
    BY <1>1, <1>2 DEF Edges
  <2>2. ASSUME NEW K \in SUBSET NodeId, S \subseteq K, ClosedUnder(deps, K) PROVE v \in K
    <3>1. u \in K
      BY <2>2 DEF Downstream
    <3> QED BY <1>2, <2>2, <3>1 DEF ClosedUnder
  <2> QED BY <2>1, <2>2 DEF Downstream
<1> QED BY <1>1, <1>2

LEMMA DownstreamLeast ==
    ASSUME NEW deps \in Edges, NEW S, NEW K \in SUBSET NodeId,
           S \subseteq K, \A u \in K : deps[u] \subseteq K
    PROVE  Downstream(deps, S) \subseteq K
BY DEF Downstream, ClosedUnder

\* mark_changed, node by node.
LEMMA MarkedChanged ==
    ASSUME NEW deps \in Edges, NEW st \in [NodeId -> Status], NEW d \in NodeId, NEW n \in NodeId
    PROVE  LET st2 == StatesAfterMarkChanged(deps, st, d)
               D == Downstream(deps, deps[d])
           IN /\ n \in deps[d] => st2[n] = "Dirty"
              /\ n \notin D => st2[n] = st[n]
              /\ n \in D => st2[n] # "Clean"
              /\ n \notin deps[d] /\ st[n] # "Clean" => st2[n] = st[n]
              /\ st2[n] = "MaybeDirty" => st[n] \in {"Clean", "MaybeDirty"}
              /\ n \notin deps[d] /\ st[n] = "Clean" => st2[n] \in {"Clean", "MaybeDirty"}
<1>1. deps[d] \in SUBSET NodeId
  BY DEF Edges
<1>2. deps[d] \subseteq Downstream(deps, deps[d])
  BY <1>1, DownstreamClosed
<1> QED BY <1>2 DEF StatesAfterMarkChanged

\* What mark_changed makes stale has all its edges made pending.
LEMMA MarkChangedKeepsPending ==
    ASSUME NEW act \in Edges, NEW deps \in Edges, NEW st \in [NodeId -> Status],
           NEW pend \in SUBSET (NodeId \X NodeId), NEW d \in NodeId,
           Mirrored(act, deps), StalePending(act, st, pend)
    PROVE  StalePending(act, StatesAfterMarkChanged(deps, st, d),
                        PendingAfterMarkChanged(deps, pend, d))
<1> DEFINE D == Downstream(deps, deps[d])
           st2 == StatesAfterMarkChanged(deps, st, d)
           pend2 == PendingAfterMarkChanged(deps, pend, d)
<1>1. deps[d] \in SUBSET NodeId
  BY DEF Edges
<1>2. deps[d] \subseteq D /\ D \subseteq NodeId /\ \A u \in D : deps[u] \subseteq D
  BY <1>1, DownstreamClosed
<1>3. \A n \in NodeId : /\ n \in deps[d] => st2[n] = "Dirty"
                        /\ n \notin D => st2[n] = st[n]
                        /\ n \in D => st2[n] # "Clean"
                        /\ n \notin deps[d] /\ st[n] # "Clean" => st2[n] = st[n]
  BY MarkedChanged
<1>4. \A e, n \in NodeId : <<e, n>> \in pend2 <=>
          \/ <<e, n>> \in pend
          \/ n \in deps[e] /\ (e = d \/ e \in D)
  BY DEF PendingAfterMarkChanged
<1> HIDE DEF D, st2, pend2
<1>5. ASSUME NEW n \in NodeId, NEW e \in act[n], st2[e] # "Clean"
      PROVE  st2[n] # "Clean" /\ <<e, n>> \in pend2
  <2>1. e \in NodeId /\ n \in deps[e]
    BY <1>5 DEF Edges, Mirrored
  <2>2. CASE st[e] = "Clean"
    <3>1. e \in D
      BY <1>3, <1>5, <2>1, <2>2
    <3>2. n \in D
      BY <1>2, <2>1, <3>1
    <3> QED BY <1>3, <1>4, <2>1, <3>1, <3>2
  <2>3. CASE st[e] # "Clean"
    <3>1. st[n] # "Clean" /\ <<e, n>> \in pend
      BY <1>5, <2>3 DEF StalePending
    <3>2. <<e, n>> \in pend2
      BY <1>4, <2>1, <3>1
    <3>3. st2[n] # "Clean"
      BY <1>3, <3>1
    <3> QED BY <3>2, <3>3
  <2> QED BY <2>2, <2>3
<1>6. ASSUME NEW e \in NodeId, NEW n \in NodeId, <<e, n>> \in pend2
      PROVE  e \in act[n] /\ st2[n] # "Clean"
  <2>1. CASE <<e, n>> \in pend
    <3>1. e \in act[n] /\ st[n] # "Clean"
      BY <2>1 DEF StalePending
    <3> QED BY <1>3, <3>1
  <2>2. CASE n \in deps[e] /\ (e = d \/ e \in D)
    <3>1. n \in D
      BY <1>2, <2>2
    <3> QED BY <1>3, <2>2, <3>1 DEF Mirrored
  <2> QED BY <1>4, <1>6, <2>1, <2>2
<1> QED BY <1>5, <1>6 DEF StalePending, st2, pend2

\* A node is not blocked again when more is known to be unchanged.
LEMMA UnblockedMonotone ==
    ASSUME NEW deps, NEW st, NEW pend, NEW K, NEW L, K \subseteq L, NEW c,
           Unblocked(deps, st, pend, K, c)
    PROVE  Unblocked(deps, st, pend, L, c)
BY DEF Unblocked

\* What mark_unchanged settles is settled for a reason.
LEMMA SettledUnblocked ==
    ASSUME NEW deps, NEW st, NEW pend, NEW d \in NodeId,
           NEW n \in Settled(deps, st, pend, d), n # d
    PROVE  Unblocked(deps, st, pend, Settled(deps, st, pend, d), n)
<1> DEFINE S == Settled(deps, st, pend, d)
           K == S \ {n}
<1>1. S \subseteq NodeId /\ d \in S
  BY DEF Settled
<1>2. K \in SUBSET NodeId /\ d \in K /\ n \notin K
  BY <1>1
<1>3. PICK c \in NodeId : Unblocked(deps, st, pend, K, c) /\ c \notin K
  <2> HIDE DEF K
  <2>1. SUFFICES ASSUME \A c \in NodeId : Unblocked(deps, st, pend, K, c) => c \in K
                 PROVE  FALSE
    OBVIOUS
  <2>2. n \in K
    BY <1>2, <2>1 DEF Settled
  <2> QED BY <1>2, <2>2
<1>4. Unblocked(deps, st, pend, S, c)
  <2>1. K \subseteq S
    OBVIOUS
  <2> HIDE DEF K, S
  <2> QED BY <1>3, <2>1, UnblockedMonotone
<1>5. c \in S
  <2>1. ASSUME NEW L \in SUBSET NodeId, d \in L,
               \A x \in NodeId : Unblocked(deps, st, pend, L, x) => x \in L
        PROVE  c \in L
    <3>1. S \subseteq L
      BY <2>1 DEF Settled
    <3> HIDE DEF S
    <3>2. Unblocked(deps, st, pend, L, c)
      BY <1>4, <3>1, UnblockedMonotone
    <3> QED BY <1>3, <2>1, <3>2
  <2> QED BY <1>3, <2>1 DEF Settled
<1>6. c = n
  BY <1>3, <1>5
<1> QED BY <1>4, <1>6

\* What mark_unchanged calls Clean has only Clean dependencies left.
LEMMA MarkUnchangedKeepsPending ==
    ASSUME NEW act \in Edges, NEW deps \in Edges, NEW st \in [NodeId -> Status],
           NEW pend \in SUBSET (NodeId \X NodeId), NEW d \in NodeId,
           Mirrored(act, deps), StalePending(act, st, pend), st[d] = "Clean"
    PROVE  StalePending(act, StatesAfterMarkUnchanged(deps, st, pend, d),
                        PendingAfterMarkUnchanged(deps, st, pend, d))
<1> DEFINE K == Settled(deps, st, pend, d)
           st2 == StatesAfterMarkUnchanged(deps, st, pend, d)
           pend2 == PendingAfterMarkUnchanged(deps, st, pend, d)
<1>1. K \subseteq NodeId /\ d \in K
  BY DEF Settled
<1>2. \A n \in K \ {d} : \A x \in NodeId : <<x, n>> \in pend => x \in K
  BY SettledUnblocked DEF Unblocked
<1>3. \A n \in NodeId : st2[n] = IF n # d /\ n \in K THEN "Clean" ELSE st[n]
  BY DEF StatesAfterMarkUnchanged
<1>4. \A e, n \in NodeId : <<e, n>> \in pend2 <=>
          <<e, n>> \in pend /\ ~(e \in K /\ n \in deps[e])
  BY DEF PendingAfterMarkUnchanged
<1> HIDE DEF K, st2, pend2
<1>5. ASSUME NEW n \in NodeId, NEW e \in act[n], st2[e] # "Clean"
      PROVE  st2[n] # "Clean" /\ <<e, n>> \in pend2
  <2>1. e \in NodeId
    BY <1>5 DEF Edges
  <2>2. e \notin K /\ st[e] # "Clean"
    BY <1>3, <1>5, <2>1
  <2>3. st[n] # "Clean" /\ <<e, n>> \in pend
    BY <1>5, <2>2 DEF StalePending
  <2>4. n \notin K
    BY <1>2, <2>1, <2>2, <2>3
  <2> QED BY <1>3, <1>4, <2>1, <2>2, <2>3, <2>4
<1>6. ASSUME NEW e \in NodeId, NEW n \in NodeId, <<e, n>> \in pend2
      PROVE  e \in act[n] /\ st2[n] # "Clean"
  <2>1. <<e, n>> \in pend /\ e \in act[n] /\ st[n] # "Clean"
    BY <1>4, <1>6 DEF StalePending
  <2>2. e \notin K
    BY <1>4, <1>6, <2>1 DEF Mirrored
  <2>3. n \notin K
    BY <1>2, <2>1, <2>2
  <2> QED BY <1>3, <2>1, <2>3
<1> QED BY <1>5, <1>6 DEF StalePending, st2, pend2

\* mark_unchanged, node by node.
LEMMA MarkedUnchanged ==
    ASSUME NEW deps \in Edges, NEW st \in [NodeId -> Status], NEW pend, NEW d \in NodeId,
           NEW n \in NodeId
    PROVE  LET st2 == StatesAfterMarkUnchanged(deps, st, pend, d)
           IN \/ st2[n] = st[n]
              \/ n # d /\ st[n] = "MaybeDirty" /\ st2[n] = "Clean"
<1>1. n # d /\ n \in Settled(deps, st, pend, d) => st[n] \in {"MaybeDirty", "Clean"}
  BY SettledUnblocked DEF Unblocked
<1> QED BY <1>1 DEF StatesAfterMarkUnchanged

\* A node that is brought up to date, with all it depends on.
LEMMA CleanedKeepsPending ==
    ASSUME NEW act \in Edges, NEW act2 \in Edges, NEW st \in [NodeId -> Status], NEW st2,
           NEW pend, NEW pend2, NEW n \in NodeId,
           \A m \in NodeId \ {n} : act2[m] = act[m],
           \A d \in act2[n] : st[d] = "Clean" /\ d # n,
           \A m \in NodeId : st2[m] = IF m = n THEN "Clean" ELSE st[m],
           \A d, m \in NodeId : <<d, m>> \in pend2 <=> <<d, m>> \in pend /\ m # n,
           StalePending(act, st, pend)
    PROVE  StalePending(act2, st2, pend2)
<1>1. \A m \in NodeId : st2[m] = IF m = n THEN "Clean" ELSE st[m]
  OBVIOUS
<1>2. \A d, m \in NodeId : <<d, m>> \in pend2 <=> <<d, m>> \in pend /\ m # n
  OBVIOUS
<1>3. ASSUME NEW m \in NodeId, NEW d \in act2[m], st2[d] # "Clean"
      PROVE  st2[m] # "Clean" /\ <<d, m>> \in pend2
  <2>1. d \in NodeId /\ d # n /\ st[d] # "Clean" /\ m # n
    BY <1>1, <1>3 DEF Edges
  <2>2. d \in act[m]
    BY <1>3, <2>1
  <2>3. st[m] # "Clean" /\ <<d, m>> \in pend
    BY <2>1, <2>2 DEF StalePending
  <2> QED BY <1>1, <1>2, <2>1, <2>3
<1>4. ASSUME NEW d \in NodeId, NEW m \in NodeId, <<d, m>> \in pend2
      PROVE  d \in act2[m] /\ st2[m] # "Clean"
  BY <1>1, <1>2, <1>4 DEF StalePending
<1> QED BY <1>3, <1>4 DEF StalePending

-----------------------------------------------------------------------------
(***************************************************************************)
(* The invariant.                                                          *)
(***************************************************************************)
\* What the fields of a node say of each other.
NodesOK ==
    /\ \A n \in NodeId : kind[n] = "Derived" => rule[n] \in DerivedRules(n)
    /\ \A n \in NodeId : kind[n] = "Source" => state[n] = "Clean"
    /\ \A n \in NodeId : kind[n] = "Absent" <=> state[n] = "Absent"
    /\ \A n \in NodeId : kind[n] = "Absent" => value[n] = None
    /\ \A n \in NodeId : kind[n] # "Derived" => consumed[n] = [d \in NodeId |-> None]
    /\ \A n \in NodeId : state[n] \in {"Clean", "MaybeDirty"} => value[n] # None

\* Committed dependencies are older than their dependent.
EdgesDescend == \A n \in NodeId : \A d \in active_dependencies[n] : d < n

\* recompute_derived_node in its callback: what it has recorded is Clean, and holds.
EvaluateOK(f) ==
    /\ state[f.node] = "Dirty"
    /\ f.old_value = value[f.node]
    /\ \A d \in f.dependencies_read :
          d < f.node /\ state[d] = "Clean" /\ f.seen[d].value = value[d]

\* validate_derived_node in its loop: the dependencies it is done with are Clean, but for
\* the one it waits for, if it does.
ValidateOK(f, b) ==
    /\ f.todo \subseteq active_dependencies[f.node]
    /\ \A d \in active_dependencies[f.node] \ f.todo : d = b \/ state[d] = "Clean"
    /\ f.dependency_changed => state[f.node] = "Dirty"

\* The frame on top.  The node of a validation is Dirty only if a dependency changed.
FrameRuns(f) ==
    /\ f.op = "evaluate" => EvaluateOK(f)
    /\ f.op = "validate" =>
          ValidateOK(f, None) /\ (f.dependency_changed \/ state[f.node] # "Dirty")

\* A frame that waits for h, which has or has not been validated, and changed or not.
FrameWaits(f, h, ok, changed) ==
    /\ h \in NodeId => h < f.node
    /\ f.op = "evaluate" =>
          EvaluateOK(f) /\ f.reading = h /\ (ok \/ h \notin f.dependencies_read)
    /\ f.op = "validate" =>
          /\ ValidateOK(f, h)
          /\ h \in active_dependencies[f.node] \ f.todo
          /\ \A d \in f.todo : h < d
          /\ f.dependency_changed \/ changed \/ state[f.node] # "Dirty"

\* A stack whose top waits for h, and every other frame for the node of the one above.
Waiting(fs, h, ok, changed) ==
    /\ \A i \in DOMAIN fs :
          IF i = Len(fs) THEN FrameWaits(fs[i], h, ok, changed)
                         ELSE FrameWaits(fs[i], fs[i + 1].node, FALSE, FALSE)
    /\ \A i, j \in DOMAIN fs : i < j => fs[j].node < fs[i].node

\* The result on its way is "ok" for h: it is Clean, and what depends on it is Dirty if
\* it changed.
Delivers(h) ==
    /\ h \in Live /\ state[h] = "Clean"
    /\ returning.value_changed => \A n \in dependents[h] : state[n] = "Dirty"

\* The node at the bottom of a stack that calls the recursion for h is that of the call.
Bottom(fs, h) == IF fs = <<>> THEN h ELSE fs[1].node

CallAt(fs, h) == call.node = Bottom(fs, h)

StackOK ==
    /\ frames # <<>> => CallAt(Front(frames), Top.node)
    /\ frames = <<>> /\ returning # None =>
          (returning.status = "ok" => call.node \in Live /\ state[call.node] = "Clean")
    /\ frames # <<>> /\ returning = None =>
          Waiting(Front(frames), Top.node, FALSE, FALSE) /\ FrameRuns(Top)
    /\ frames # <<>> /\ returning # None =>
          \E h \in Handle :
             /\ Waiting(frames, h, returning.status = "ok", returning.value_changed)
             /\ returning.status = "ok" => Delivers(h)

\* What holds between any two steps, whatever the frames.
GraphFresh == NodesOK /\ EdgesDescend /\ StaleEdgesPending /\ CleanIsCurrent

FreshInv == GraphFresh /\ StackOK
-----------------------------------------------------------------------------
(***************************************************************************)
(* Pushes and pops.                                                        *)
(***************************************************************************)
\* What is on top of a stack and below it, and what a push leaves.
LEMMA StackTop ==
    ASSUME NEW fs \in Seq(Frame), fs # <<>>
    PROVE  /\ Front(fs) \in Seq(Frame)
           /\ Last(fs) \in Frame
           /\ Last(fs).node \in NodeId
           /\ Last(fs) = fs[Len(fs)]
           /\ Len(fs) \in Nat \ {0}
           /\ Len(Front(fs)) = Len(fs) - 1
           /\ \A i \in 1..(Len(fs) - 1) : Front(fs)[i] = fs[i]
<1>1. Last(fs) \in Frame /\ Front(fs) \in Seq(Frame)
  BY LastType, FrontType
<1>2. Last(fs).node \in NodeId
  BY <1>1 DEF Frame, ValidateFrame, EvaluateFrame
<1> QED BY <1>1, <1>2, FrontElements DEF Last

LEMMA StackPush ==
    ASSUME NEW fs \in Seq(Frame), NEW f \in Frame
    PROVE  /\ Append(fs, f) \in Seq(Frame)
           /\ Append(fs, f) # <<>>
           /\ Front(Append(fs, f)) = fs
           /\ Last(Append(fs, f)) = f
<1>1. /\ Append(fs, f) \in Seq(Frame) /\ Append(fs, f) # <<>>
      /\ Len(Append(fs, f)) = Len(fs) + 1 /\ Len(fs) \in Nat
      /\ \A i \in 1..Len(fs) : Append(fs, f)[i] = fs[i]
      /\ Last(Append(fs, f)) = f
  BY AppendElements
<1> DEFINE gs == Append(fs, f)
<1> HIDE DEF gs
<1>2. /\ Front(gs) \in Seq(Frame) /\ Len(Front(gs)) = Len(gs) - 1
      /\ \A i \in 1..(Len(gs) - 1) : Front(gs)[i] = gs[i]
  BY <1>1, StackTop DEF gs
<1>3. Len(gs) - 1 = Len(fs) /\ \A i \in 1..Len(fs) : gs[i] = fs[i]
  BY <1>1 DEF gs
<1>4. Front(gs) = fs
  BY <1>1, <1>2, <1>3
<1> QED BY <1>1, <1>4 DEF gs

\* The top of a stack is put back with what has changed about it, and waits for h.
LEMMA TopWaits ==
    ASSUME NEW fs \in Seq(Frame), NEW g \in Frame, NEW h, NEW ok \in BOOLEAN, NEW changed \in BOOLEAN,
           Waiting(fs, g.node, FALSE, FALSE), FrameWaits(g, h, ok, changed)
    PROVE  Waiting(Append(fs, g), h, ok, changed)
<1> DEFINE gs == Append(fs, g)
           k == Len(fs)
<1>1. /\ Len(gs) = k + 1 /\ k \in Nat /\ gs \in Seq(Frame)
      /\ \A i \in 1..k : gs[i] = fs[i]
      /\ gs[k + 1] = g
  BY AppendElements
<1>2. DOMAIN fs = 1..k /\ DOMAIN gs = 1..(k + 1)
  BY <1>1
<1> HIDE DEF gs, k
<1>3. ASSUME NEW i \in 1..k
      PROVE  FrameWaits(gs[i], gs[i + 1].node, FALSE, FALSE)
  <2>1. CASE i = k
    BY <1>1, <1>2, <1>3, <2>1 DEF Waiting, k
  <2>2. CASE i # k
    <3>1. i + 1 \in 1..k
      BY <1>1, <2>2
    <3>2. FrameWaits(fs[i], fs[i + 1].node, FALSE, FALSE)
      BY <1>2, <1>3, <2>2 DEF Waiting, k
    <3> QED BY <1>1, <1>3, <3>1, <3>2
  <2> QED BY <2>1, <2>2
<1>4. ASSUME NEW i \in 1..k PROVE g.node < gs[i].node
  <2>1. k \in 1..k /\ fs[k].node \in NodeId /\ g.node \in NodeId /\ fs[i].node \in NodeId
    <3>1. \A j \in DOMAIN fs : fs[j] \in Frame
      OBVIOUS
    <3> QED BY <1>1, <1>2, <3>1 DEF Frame, ValidateFrame, EvaluateFrame
  <2>2. g.node < fs[k].node
    BY <1>2, <2>1 DEF Waiting, FrameWaits, k
  <2>3. i = k \/ fs[k].node < fs[i].node
    BY <1>1, <1>2, <2>1 DEF Waiting
  <2>4. fs[k].node \in Nat /\ g.node \in Nat /\ fs[i].node \in Nat
    BY <2>1, NodeIdAssumption
  <2>5. CASE i = k
    BY <1>1, <2>2, <2>5
  <2>6. CASE fs[k].node < fs[i].node
    BY <1>1, <2>2, <2>4, <2>6
  <2> QED BY <2>3, <2>5, <2>6
<1>5. ASSUME NEW i \in 1..(k + 1), NEW j \in 1..(k + 1), i < j
      PROVE  gs[j].node < gs[i].node
  <2>1. i \in 1..k
    BY <1>1, <1>5
  <2>2. CASE j = k + 1
    BY <1>1, <1>4, <2>1, <2>2
  <2>3. CASE j \in 1..k
    BY <1>1, <1>2, <1>5, <2>1, <2>3 DEF Waiting
  <2> QED BY <1>1, <2>2, <2>3
<1>6. ASSUME NEW i \in 1..(k + 1)
      PROVE  IF i = k + 1 THEN FrameWaits(gs[i], h, ok, changed)
                          ELSE FrameWaits(gs[i], gs[i + 1].node, FALSE, FALSE)
  <2>1. i = k + 1 \/ i \in 1..k
    BY <1>1
  <2>2. i \in 1..k => i # k + 1
    BY <1>1
  <2> QED BY <1>1, <1>3, <2>1, <2>2
<1>7. Waiting(gs, h, ok, changed)
  BY <1>1, <1>2, <1>5, <1>6 DEF Waiting
<1> QED BY <1>7 DEF gs

\* Without its top, the stack waits for the node of the top.
LEMMA PoppedWaits ==
    ASSUME NEW fs \in Seq(Frame), fs # <<>>, NEW h, NEW ok, NEW changed,
           Waiting(fs, h, ok, changed)
    PROVE  Waiting(Front(fs), Last(fs).node, FALSE, FALSE)
<1> DEFINE gs == Front(fs)
           k == Len(fs) - 1
<1>1. /\ gs \in Seq(Frame) /\ Len(gs) = k /\ k \in Nat /\ Len(fs) = k + 1
      /\ \A i \in 1..k : gs[i] = fs[i]
      /\ Last(fs) = fs[k + 1]
  BY StackTop
<1>2. DOMAIN gs = 1..k /\ DOMAIN fs = 1..(k + 1)
  BY <1>1
<1> HIDE DEF gs, k
<1>3. ASSUME NEW i \in 1..k
      PROVE  IF i = k THEN FrameWaits(gs[i], Last(fs).node, FALSE, FALSE)
                      ELSE FrameWaits(gs[i], gs[i + 1].node, FALSE, FALSE)
  <2>1. i \in 1..(k + 1) /\ i # k + 1
    BY <1>1
  <2>2. FrameWaits(fs[i], fs[i + 1].node, FALSE, FALSE)
    BY <1>1, <1>2, <2>1 DEF Waiting
  <2>3. i # k => i + 1 \in 1..k
    BY <1>1
  <2> QED BY <1>1, <2>2, <2>3
<1>4. ASSUME NEW i \in 1..k, NEW j \in 1..k, i < j PROVE gs[j].node < gs[i].node
  <2>1. i \in 1..(k + 1) /\ j \in 1..(k + 1)
    BY <1>1
  <2> QED BY <1>1, <1>2, <1>4, <2>1 DEF Waiting
<1>5. Waiting(gs, Last(fs).node, FALSE, FALSE)
  BY <1>1, <1>2, <1>3, <1>4 DEF Waiting
<1> QED BY <1>5 DEF gs

\* The result of a frame for h may be delivered to a stack that waited for h.
LEMMA MayDeliver ==
    ASSUME NEW fs \in Seq(Frame), NEW h, NEW ok \in BOOLEAN, NEW changed \in BOOLEAN,
           Waiting(fs, h, FALSE, FALSE)
    PROVE  Waiting(fs, h, ok, changed)
BY DEF Waiting, FrameWaits

\* What waits keeps waiting while the graph does not change.
LEMMA StillWaits ==
    ASSUME NEW fs, NEW h, NEW ok, NEW changed, Waiting(fs, h, ok, changed),
           UNCHANGED <<state, value, active_dependencies>>
    PROVE  Waiting(fs, h, ok, changed)'
BY DEF Waiting, FrameWaits, EvaluateOK, ValidateOK

\* What a rule has recorded is Clean, so a read of it cannot fail.
LEMMA NotRecorded ==
    ASSUME NEW fs \in Seq(Frame), NEW h, NEW ok, NEW changed, Waiting(fs, h, ok, changed),
           h \notin NodeId \/ state[h] # "Clean"
    PROVE  Waiting(fs, h, FALSE, changed)
<1>1. \A i \in DOMAIN fs : fs[i] \in Frame
  OBVIOUS
<1>2. \A f \in Frame : FrameWaits(f, h, ok, changed) => FrameWaits(f, h, FALSE, changed)
  BY DEF FrameWaits, EvaluateOK, Frame, ValidateFrame, EvaluateFrame
<1> QED BY <1>1, <1>2 DEF Waiting

\* The node the call is about, below a push and below a pop.
LEMMA BottomPush ==
    ASSUME NEW fs \in Seq(Frame), NEW g \in Frame, NEW h
    PROVE  Bottom(Append(fs, g), h) = Bottom(fs, g.node)
<1>1. /\ Append(fs, g) # <<>> /\ Len(fs) \in Nat
      /\ \A i \in 1..Len(fs) : Append(fs, g)[i] = fs[i]
      /\ Append(fs, g)[Len(fs) + 1] = g
  BY AppendElements
<1>2. CASE fs = <<>>
  BY <1>1, <1>2 DEF Bottom
<1>3. CASE fs # <<>>
  <2>1. 1 \in 1..Len(fs)
    BY <1>1, <1>3
  <2> QED BY <1>1, <1>3, <2>1 DEF Bottom
<1> QED BY <1>2, <1>3

LEMMA BottomPop ==
    ASSUME NEW fs \in Seq(Frame), fs # <<>>, NEW h
    PROVE  Bottom(Front(fs), Last(fs).node) = Bottom(fs, h)
<1> DEFINE gs == Front(fs)
<1>1. /\ Len(fs) \in Nat \ {0} /\ Len(gs) = Len(fs) - 1 /\ gs \in Seq(Frame)
      /\ \A i \in 1..(Len(fs) - 1) : gs[i] = fs[i]
      /\ Last(fs) = fs[Len(fs)]
  BY StackTop
<1> HIDE DEF gs
<1>2. ASSUME gs = <<>> PROVE Bottom(gs, Last(fs).node) = Bottom(fs, h)
  <2>1. Len(fs) = 1
    BY <1>1, <1>2
  <2> QED BY <1>1, <1>2, <2>1 DEF Bottom
<1>3. ASSUME gs # <<>> PROVE Bottom(gs, Last(fs).node) = Bottom(fs, h)
  <2>1. 1 \in 1..(Len(fs) - 1)
    BY <1>1, <1>3
  <2> QED BY <1>1, <1>3, <2>1 DEF Bottom
<1>4. Bottom(gs, Last(fs).node) = Bottom(fs, h)
  BY <1>2, <1>3
<1> QED BY <1>4 DEF gs

\* A step that ends with a result on its way, and one that ends with a frame running.
LEMMA DeliverKeepsStack ==
    ASSUME NEW fs \in Seq(Frame), NEW h \in Handle, NEW r \in Outcome,
           frames' = fs, returning' = r, CallAt(fs, h)',
           Waiting(fs, h, r.status = "ok", r.value_changed)',
           r.status = "ok" => Delivers(h)'
    PROVE  StackOK'
<1>1. r # None
  BY ConstantsAssumption
<1>2. fs # <<>> => CallAt(Front(fs), Last(fs).node)'
  BY BottomPop DEF CallAt
<1>3. fs = <<>> => call'.node = h
  BY DEF CallAt, Bottom
<1> QED BY <1>1, <1>2, <1>3 DEF StackOK, Delivers, Top

LEMMA RunKeepsStack ==
    ASSUME NEW fs \in Seq(Frame), NEW f \in Frame,
           frames' = Append(fs, f), returning' = None, CallAt(fs, f.node)',
           Waiting(fs, f.node, FALSE, FALSE)', FrameRuns(f)'
    PROVE  StackOK'
<1>1. frames' # <<>> /\ Front(frames') = fs /\ Last(frames') = f
  BY StackPush
<1> QED BY <1>1 DEF StackOK, Top

\* The recursion is entered at h.
LEMMA EnterKeepsStack ==
    ASSUME TypeOK, GraphFresh, NEW h \in Handle, NEW fs \in Seq(Frame),
           Waiting(fs, h, TRUE, FALSE), UNCHANGED graphVars,
           CallAt(fs, h)',
           \/ (h \notin NodeId \/ state[h] # "Clean") /\ \E e \in Error : Answer(Err(e), fs)
           \/ ValidateForRead(h, fs)
           \/ h \in NodeId /\ kind[h] = "Derived" /\ ValidateDerived(h, fs)
           \/ h \in NodeId /\ state[h] = "Dirty" /\ Recompute(h, fs)
    PROVE  StackOK'
<1>1. UNCHANGED <<kind, state, value, active_dependencies, dependents>>
  BY DEF graphVars
<1>2. /\ kind \in [NodeId -> {"Absent", "Source", "Derived"}]
      /\ state \in [NodeId -> NodeState \cup {"Absent"}]
      /\ value \in [NodeId -> Storage \cup {None}]
      /\ active_dependencies \in [NodeId -> SUBSET NodeId]
  BY DEF TypeOK, GraphTypeOK
<1>3. \A ok, changed \in BOOLEAN : Waiting(fs, h, ok, changed) => Waiting(fs, h, ok, changed)'
  BY <1>1, StillWaits
<1>4. ASSUME h \notin NodeId \/ state[h] # "Clean", NEW e \in Error, Answer(Err(e), fs)
      PROVE  StackOK'
  <2>1. Err(e) \in Outcome /\ Err(e).status = "error" /\ Err(e).value_changed = FALSE
    BY <1>4 DEF Err, Outcome
  <2>2. Waiting(fs, h, FALSE, FALSE)'
    BY <1>3, <1>4, NotRecorded
  <2>3. frames' = fs /\ returning' = Err(e)
    BY <1>4 DEF Answer
  <2> QED BY <2>1, <2>2, <2>3, DeliverKeepsStack
<1>5. ASSUME h \in NodeId, state[h] = "Clean", Answer(Ok(FALSE), fs) PROVE StackOK'
  <2>1. Ok(FALSE) \in Outcome /\ Ok(FALSE).status = "ok" /\ Ok(FALSE).value_changed = FALSE
    BY DEF Ok, Outcome
  <2>2. h \in Live'
    BY <1>1, <1>5 DEF Live, GraphFresh, NodesOK
  <2>3. frames' = fs /\ returning' = Ok(FALSE)
    BY <1>5 DEF Answer
  <2>4. Delivers(h)'
    BY <1>1, <1>5, <2>1, <2>2, <2>3 DEF Delivers
  <2>5. Waiting(fs, h, TRUE, FALSE)'
    BY <1>3
  <2> QED BY <2>1, <2>3, <2>4, <2>5, DeliverKeepsStack
<1>6. ASSUME h \in NodeId, state[h] = "Dirty", Recompute(h, fs) PROVE StackOK'
  <2> DEFINE f == [op |-> "evaluate", node |-> h, old_value |-> value[h],
                   dependencies_read |-> {}, seen |-> [x \in Handle |-> None], reading |-> None]
  <2>1. CASE Answer(Err("CycleDetected"), fs)
    BY <1>4, <1>6, <2>1 DEF Error
  <2>2. CASE CallRule(h, fs)
    <3>1. frames' = Append(fs, f) /\ returning' = None
      BY <2>2 DEF CallRule
    <3>2. f \in EvaluateFrame
      BY <1>2, <1>6 DEF EvaluateFrame
    <3>3. PICK g \in Frame : g = f
      BY <3>2 DEF Frame
    <3>4. Waiting(fs, g.node, FALSE, FALSE)'
      BY <1>3, <1>6, <3>3, NotRecorded
    <3>5. FrameRuns(g)'
      BY <1>1, <1>6, <3>3 DEF FrameRuns, EvaluateOK
    <3> QED BY <3>1, <3>3, <3>4, <3>5, RunKeepsStack
  <2> QED BY <1>6, <2>1, <2>2 DEF Recompute
<1>7. ASSUME h \in NodeId, kind[h] = "Derived", ValidateDerived(h, fs) PROVE StackOK'
  <2> DEFINE f == [op |-> "validate", node |-> h, todo |-> active_dependencies[h],
                   dependency_changed |-> FALSE]
  <2>1. state[h] \in {"Clean", "MaybeDirty", "Dirty"} /\ (value[h] = None => state[h] = "Dirty")
    BY <1>2, <1>7 DEF NodeState, GraphFresh, NodesOK
  <2>2. CASE state[h] = "Clean" /\ value[h] # None
    BY <1>5, <1>7, <2>2 DEF ValidateDerived
  <2>3. CASE state[h] = "Dirty" \/ value[h] = None
    BY <1>6, <1>7, <2>1, <2>3 DEF ValidateDerived
  <2>4. CASE state[h] = "MaybeDirty" /\ value[h] # None
    <3>1. frames' = Append(fs, f) /\ returning' = None
      BY <1>7, <2>4 DEF ValidateDerived
    <3>2. f \in ValidateFrame
      BY <1>2, <1>7 DEF ValidateFrame
    <3>3. PICK g \in Frame : g = f
      BY <3>2 DEF Frame
    <3>4. Waiting(fs, g.node, FALSE, FALSE)'
      BY <1>3, <2>4, <3>3, NotRecorded
    <3>5. FrameRuns(g)'
      BY <1>1, <2>4, <3>3 DEF FrameRuns, ValidateOK
    <3> QED BY <3>1, <3>3, <3>4, <3>5, RunKeepsStack
  <2> QED BY <2>1, <2>2, <2>3, <2>4
<1>8. ASSUME ValidateForRead(h, fs) PROVE StackOK'
  <2>1. CASE h \notin Live
    <3>1. Answer(Err(HandleError(h)), fs) /\ HandleError(h) \in Error
      BY <1>8, <2>1 DEF ValidateForRead, HandleError, Error
    <3>2. h \notin NodeId \/ state[h] # "Clean"
      BY <2>1 DEF Live, GraphFresh, NodesOK
    <3> QED BY <1>4, <3>1, <3>2
  <2>2. CASE h \in Live /\ kind[h] = "Source"
    BY <1>5, <1>8, <2>2 DEF ValidateForRead, Live, GraphFresh, NodesOK
  <2>3. CASE h \in Live /\ kind[h] = "Derived"
    BY <1>7, <1>8, <2>3 DEF ValidateForRead, Live
  <2> QED BY <1>2, <2>1, <2>2, <2>3 DEF Live
<1> QED BY <1>4, <1>6, <1>7, <1>8

-----------------------------------------------------------------------------
(***************************************************************************)
(* Steps of a call that leave the graph as it is.                          *)
(***************************************************************************)
\* The facts of a step in a call that every case below uses.
LEMMA TopFacts ==
    ASSUME CallInv, frames # <<>>
    PROVE  /\ frames \in Seq(Frame)
           /\ Front(frames) \in Seq(Frame)
           /\ Top \in Frame
           /\ Top.op = "validate" => Top \in ValidateFrame
           /\ Top.op = "evaluate" => Top \in EvaluateFrame
           /\ Top.node \in NodeId
           /\ kind[Top.node] = "Derived"
           /\ Top = frames[Len(frames)]
           /\ Len(frames) \in DOMAIN frames
<1>1. frames \in Seq(Frame) /\ CallTypeOK
  BY DEF CallInv, TypeOK, CallTypeOK
<1>2. Len(frames) \in DOMAIN frames /\ Top = frames[Len(frames)] /\ Top.node \in NodeId
  BY <1>1, StackTop DEF Top
<1>3. kind[Top.node] = "Derived"
  BY <1>2 DEF CallInv, FramesLinked, WaitsFor
<1> QED BY <1>1, <1>2, <1>3, TopType

\* GraphFresh is about the graph only.
LEMMA QuietGraph ==
    ASSUME GraphFresh, UNCHANGED graphVars
    PROVE  GraphFresh'
BY DEF GraphFresh, NodesOK, EdgesDescend, StaleEdgesPending, CleanIsCurrent, graphVars

\* The frame on top, while its function runs and while a result is on its way to it.
LEMMA RunningTop ==
    ASSUME StackOK, frames # <<>>, returning = None
    PROVE  /\ Waiting(Front(frames), Top.node, FALSE, FALSE)
           /\ FrameRuns(Top)
           /\ CallAt(Front(frames), Top.node)
BY DEF StackOK

LEMMA DeliveringTop ==
    ASSUME CallInv, StackOK, frames # <<>>, returning # None
    PROVE  /\ CallAt(Front(frames), Top.node)
           /\ Waiting(Front(frames), Top.node, FALSE, FALSE)
           /\ \E h \in Handle :
                 /\ FrameWaits(Top, h, returning.status = "ok", returning.value_changed)
                 /\ returning.status = "ok" => Delivers(h)
<1>1. PICK h \in Handle :
          /\ Waiting(frames, h, returning.status = "ok", returning.value_changed)
          /\ returning.status = "ok" => Delivers(h)
  BY DEF StackOK
<1>2. Waiting(Front(frames), Top.node, FALSE, FALSE)
  BY <1>1, TopFacts, PoppedWaits DEF Top
<1>3. FrameWaits(Top, h, returning.status = "ok", returning.value_changed)
  BY <1>1, TopFacts DEF Waiting
<1> QED BY <1>1, <1>2, <1>3 DEF StackOK

\* A result says whether the value changed.
LEMMA OutcomeType ==
    ASSUME NEW r \in Outcome
    PROVE  r.value_changed \in BOOLEAN
<1>1. ASSUME NEW b \in BOOLEAN, r = Ok(b) PROVE r.value_changed \in BOOLEAN
  BY <1>1 DEF Ok
<1>2. ASSUME NEW e, r = Err(e) PROVE r.value_changed \in BOOLEAN
  BY <1>2 DEF Err
<1>3. r = Panicked => r.value_changed \in BOOLEAN
  BY DEF Panicked
<1> QED BY <1>1, <1>2, <1>3, Zenon DEF Outcome

\* The top frame is gone with a result that is no "ok", the graph is as it was.
LEMMA FailKeepsStack ==
    ASSUME CallInv, StackOK, frames # <<>>, NEW r \in Outcome, r.status # "ok",
           frames' = Front(frames), returning' = r, UNCHANGED <<graphVars, call>>
    PROVE  StackOK'
<1>1. PICK fs \in Seq(Frame) : fs = Front(frames)
  BY TopFacts
<1>2. PICK h \in Handle : h = Top.node
  BY TopFacts DEF Handle
<1>3. Waiting(fs, h, FALSE, FALSE) /\ CallAt(fs, h)
  BY <1>1, <1>2, RunningTop, DeliveringTop
<1>4. r.value_changed \in BOOLEAN
  BY OutcomeType
<1>5. Waiting(fs, h, r.status = "ok", r.value_changed)
  BY <1>3, <1>4, MayDeliver
<1>6. Waiting(fs, h, r.status = "ok", r.value_changed)'
  BY <1>5, StillWaits DEF graphVars
<1>7. CallAt(fs, h)'
  BY <1>3 DEF CallAt
<1> QED BY <1>1, <1>6, <1>7, DeliverKeepsStack

\* The top frame goes on as g.
LEMMA ResumeKeepsStack ==
    ASSUME CallInv, StackOK, frames # <<>>, NEW g \in Frame, g.node = Top.node,
           frames' = Append(Front(frames), g), returning' = None,
           UNCHANGED <<graphVars, call>>, FrameRuns(g)
    PROVE  StackOK'
<1>1. PICK fs \in Seq(Frame) : fs = Front(frames)
  BY TopFacts
<1>2. Waiting(fs, g.node, FALSE, FALSE) /\ CallAt(fs, g.node)
  BY <1>1, RunningTop, DeliveringTop
<1>3. Waiting(fs, g.node, FALSE, FALSE)'
  BY <1>2, StillWaits DEF graphVars
<1>4. CallAt(fs, g.node)'
  BY <1>2 DEF CallAt
<1>5. FrameRuns(g)'
  BY DEF FrameRuns, EvaluateOK, ValidateOK, graphVars
<1> QED BY <1>1, <1>3, <1>4, <1>5, RunKeepsStack

\* The top frame, as g, calls the recursion for h.
LEMMA CallKeepsStack ==
    ASSUME CallInv, GraphFresh, StackOK, frames # <<>>, returning = None,
           NEW g \in Frame, g.node = Top.node, NEW h \in Handle,
           FrameWaits(g, h, TRUE, FALSE), ValidateForRead(h, Append(Front(frames), g)),
           UNCHANGED <<graphVars, call>>
    PROVE  StackOK'
<1>1. Front(frames) \in Seq(Frame)
  BY TopFacts
<1>2. PICK fs \in Seq(Frame) : fs = Append(Front(frames), g)
  BY <1>1, StackPush
<1>3. Waiting(fs, h, TRUE, FALSE)
  BY <1>1, <1>2, RunningTop, TopWaits
<1>4. CallAt(fs, h)
  BY <1>1, <1>2, RunningTop, BottomPush DEF CallAt
<1>5. CallAt(fs, h)'
  BY <1>4 DEF CallAt
<1> QED BY <1>2, <1>3, <1>5, EnterKeepsStack DEF CallInv

\* The next dependency is older than those that are still to be validated.
LEMMA ValidateDependencyKeeps ==
    ASSUME CallInv, FreshInv, ValidateDependency
    PROVE  StackOK'
<1>1. PICK d \in Top.todo :
          /\ \A e \in Top.todo : d <= e
          /\ ValidateForRead(d, Append(Front(frames), [Top EXCEPT !.todo = @ \ {d}]))
  BY DEF ValidateDependency
<1>2. /\ frames # <<>> /\ returning = None /\ Top \in ValidateFrame /\ Top.op = "validate"
      /\ UNCHANGED <<graphVars, call>> /\ Top.node \in NodeId
  BY TopFacts DEF ValidateDependency, Running
<1>3. d \in NodeId /\ Top.todo \subseteq NodeId
  BY <1>2 DEF ValidateFrame
<1>4. FrameRuns(Top)
  BY <1>2, RunningTop DEF FreshInv
<1>5. /\ ValidateOK(Top, None)
      /\ Top.dependency_changed \/ state[Top.node] # "Dirty"
  BY <1>2, <1>4 DEF FrameRuns
<1>6. PICK g \in ValidateFrame : g = [Top EXCEPT !.todo = @ \ {d}]
  BY <1>2 DEF ValidateFrame
<1>7. /\ g.op = "validate" /\ g.node = Top.node /\ g.todo = Top.todo \ {d}
      /\ g.dependency_changed = Top.dependency_changed
  BY <1>2, <1>6 DEF ValidateFrame
<1>8. \A e \in active_dependencies[Top.node] \ Top.todo : state[e] = "Clean"
  <2>1. None \notin NodeId /\ active_dependencies[Top.node] \subseteq NodeId
    BY <1>2, ConstantsAssumption DEF Handle, CallInv, TypeOK, GraphTypeOK
  <2> QED BY <1>5, <2>1 DEF ValidateOK
<1>9. ValidateOK(g, d)
  BY <1>5, <1>7, <1>8 DEF ValidateOK
<1>10. d \in active_dependencies[g.node] \ g.todo /\ d < g.node
  BY <1>1, <1>2, <1>5, <1>7 DEF ValidateOK, FreshInv, GraphFresh, EdgesDescend
<1>11. \A e \in g.todo : d < e
  <2>1. \A e \in Top.todo : e \in Nat
    BY <1>3, NodeIdAssumption
  <2> QED BY <1>1, <1>7, <2>1
<1>12. FrameWaits(g, d, TRUE, FALSE)
  BY <1>5, <1>7, <1>9, <1>10, <1>11 DEF FrameWaits
<1> QED BY <1>1, <1>2, <1>3, <1>6, <1>7, <1>12, CallKeepsStack DEF FreshInv, Frame, Handle

\* A dependency that changed has made the node Dirty, and dependency_changed says so.
LEMMA DependencyValidatedKeeps ==
    ASSUME CallInv, EdgesMirror, FreshInv, DependencyValidated
    PROVE  StackOK'
<1>1. /\ frames # <<>> /\ returning # None /\ returning \in Outcome /\ returning.status = "ok"
      /\ Top \in ValidateFrame /\ Top.op = "validate" /\ Top.node \in NodeId
      /\ UNCHANGED <<graphVars, call>> /\ returning' = None
      /\ frames' = Append(Front(frames), [Top EXCEPT !.dependency_changed =
                                                          @ \/ returning.value_changed])
  BY TopFacts DEF DependencyValidated, Delivering, CallInv, TypeOK, CallTypeOK
<1>2. PICK h \in Handle : FrameWaits(Top, h, TRUE, returning.value_changed) /\ Delivers(h)
  BY <1>1, DeliveringTop DEF FreshInv
<1>3. h \in NodeId /\ state[h] = "Clean"
  BY <1>2 DEF Delivers, Live
<1>4. /\ ValidateOK(Top, h) /\ h \in active_dependencies[Top.node] \ Top.todo
      /\ \/ Top.dependency_changed \/ returning.value_changed
         \/ state[Top.node] # "Dirty"
  BY <1>1, <1>2 DEF FrameWaits
<1>5. returning.value_changed => state[Top.node] = "Dirty"
  BY <1>1, <1>2, <1>3, <1>4 DEF Delivers, EdgesMirror
<1>6. returning.value_changed \in BOOLEAN
  BY <1>1, OutcomeType
<1>7. PICK g \in ValidateFrame :
          g = [Top EXCEPT !.dependency_changed = @ \/ returning.value_changed]
  BY <1>1, <1>6 DEF ValidateFrame
<1>8. /\ g.op = "validate" /\ g.node = Top.node /\ g.todo = Top.todo
      /\ g.dependency_changed <=> Top.dependency_changed \/ returning.value_changed
  BY <1>1, <1>7 DEF ValidateFrame
<1>9. FrameRuns(g)
  <2>1. ValidateOK(g, None)
    BY <1>3, <1>4, <1>5, <1>8 DEF ValidateOK
  <2>2. g.dependency_changed \/ state[g.node] # "Dirty"
    BY <1>4, <1>8
  <2> QED BY <1>8, <2>1, <2>2 DEF FrameRuns
<1> QED BY <1>1, <1>7, <1>8, <1>9, ResumeKeepsStack DEF FreshInv, Frame

\* dependency_changed is set for a Dirty node only, so it may be recomputed.
LEMMA ValidationRecomputesKeeps ==
    ASSUME CallInv, FreshInv, ValidationRecomputes
    PROVE  StackOK'
<1>1. /\ frames # <<>> /\ returning = None /\ Top.op = "validate" /\ Top.node \in NodeId
      /\ UNCHANGED <<graphVars, call>> /\ Recompute(Top.node, Front(frames))
      /\ Top.dependency_changed
  BY TopFacts DEF ValidationRecomputes, Running
<1>2. PICK fs \in Seq(Frame) : fs = Front(frames)
  BY <1>1, TopFacts
<1>3. PICK h \in Handle : h = Top.node
  BY <1>1 DEF Handle
<1>4. Waiting(fs, h, FALSE, FALSE) /\ CallAt(fs, h) /\ state[h] = "Dirty"
  BY <1>1, <1>2, <1>3, RunningTop DEF FreshInv, FrameRuns, ValidateOK
<1>5. Waiting(fs, h, TRUE, FALSE)
  BY <1>4, MayDeliver
<1>6. CallAt(fs, h)'
  BY <1>1, <1>4 DEF CallAt
<1> QED BY <1>1, <1>2, <1>3, <1>4, <1>5, <1>6, EnterKeepsStack DEF CallInv, FreshInv

\* A rule reads older nodes: this is where OlderHandles is used.
LEMMA RuleReadsKeeps ==
    ASSUME OlderHandles, CallInv, FreshInv, NEW h \in Handle, RuleReads(h)
    PROVE  StackOK'
<1>1. /\ frames # <<>> /\ returning = None /\ Top \in EvaluateFrame /\ Top.op = "evaluate"
      /\ UNCHANGED <<graphVars, call>> /\ Top.node \in NodeId /\ kind[Top.node] = "Derived"
      /\ h \in Handles(rule[Top.node])
  BY TopFacts DEF RuleReads, Running
<1>2. rule[Top.node] \in DerivedRules(Top.node)
  BY <1>1 DEF FreshInv, GraphFresh, NodesOK
<1>3. h \in NodeId => h < Top.node
  BY <1>1, <1>2 DEF OlderHandles
<1>4. h # Top.node
  <2>1. Top.node \in Nat
    BY <1>1, NodeIdAssumption
  <2>2. ~(Top.node < Top.node)
    BY <2>1
  <2> QED BY <1>1, <1>3, <2>2
<1>5. PICK g \in EvaluateFrame : g = [Top EXCEPT !.reading = h]
  BY <1>1 DEF EvaluateFrame
<1>6. ValidateForRead(h, Append(Front(frames), g))
  BY <1>4, <1>5 DEF RuleReads
<1>7. /\ g.op = "evaluate" /\ g.node = Top.node /\ g.reading = h
      /\ g.old_value = Top.old_value /\ g.seen = Top.seen
      /\ g.dependencies_read = Top.dependencies_read
  BY <1>1, <1>5 DEF EvaluateFrame
<1>8. EvaluateOK(Top)
  BY <1>1, RunningTop DEF FreshInv, FrameRuns
<1>9. FrameWaits(g, h, TRUE, FALSE)
  BY <1>3, <1>7, <1>8 DEF FrameWaits, EvaluateOK
<1> QED BY <1>1, <1>5, <1>6, <1>7, <1>9, CallKeepsStack DEF FreshInv, Frame

\* What is recorded is Clean, and was seen with the value it has.
LEMMA RuleObservesKeeps ==
    ASSUME CallInv, CallInv', FreshInv, RuleObserves
    PROVE  StackOK'
<1>1. /\ frames # <<>> /\ returning # None /\ Top \in EvaluateFrame /\ Top.op = "evaluate"
      /\ UNCHANGED <<graphVars, call>> /\ Top.node \in NodeId /\ returning' = None
      /\ frames \in Seq(Frame)
  BY TopFacts DEF RuleObserves, Delivering
<1>2. PICK h \in Handle :
          /\ FrameWaits(Top, h, returning.status = "ok", returning.value_changed)
          /\ returning.status = "ok" => Delivers(h)
  BY <1>1, DeliveringTop DEF FreshInv
<1>3. /\ EvaluateOK(Top) /\ Top.reading = h
      /\ returning.status = "ok" \/ h \notin Top.dependencies_read
      /\ h \in NodeId => h < Top.node
  BY <1>1, <1>2 DEF FrameWaits
<1> DEFINE g == [Top EXCEPT !.reading = None, !.seen = [@ EXCEPT ![h] = Observed(h)],
                            !.dependencies_read = Recorded(@, h, returning)]
<1>4. frames' = Append(Front(frames), g)
  BY <1>3 DEF RuleObserves
<1>5. /\ g.op = "evaluate" /\ g.node = Top.node /\ g.old_value = Top.old_value
      /\ g.dependencies_read = Recorded(Top.dependencies_read, h, returning)
      /\ g.seen = [Top.seen EXCEPT ![h] = Observed(h)]
  BY <1>1 DEF EvaluateFrame
<1> HIDE DEF g
<1>6. g \in Frame
  <2>1. frames' \in Seq(Frame) /\ Front(frames) \in Seq(Frame)
    BY <1>1, TopFacts DEF CallInv, TypeOK, CallTypeOK
  <2> QED BY <1>4, <2>1
<1>7. /\ g.seen[h] = Observed(h)
      /\ \A d \in NodeId : d # h => g.seen[d] = Top.seen[d]
  BY <1>1, <1>5 DEF EvaluateFrame, Handle
<1>8. returning.status = "ok" => Observed(h).value = value[h] /\ state[h] = "Clean" /\ h \in NodeId
  BY <1>2 DEF Observed, Delivers, Live
<1>9. ASSUME NEW d \in g.dependencies_read
      PROVE  d < g.node /\ state[d] = "Clean" /\ g.seen[d].value = value[d]
  <2>1. CASE d = h
    BY <1>3, <1>5, <1>7, <1>8, <1>9, <2>1 DEF Recorded
  <2>2. CASE d # h
    <3>1. d \in Top.dependencies_read /\ d \in NodeId
      BY <1>1, <1>5, <1>9, <2>2 DEF Recorded, EvaluateFrame
    <3> QED BY <1>3, <1>5, <1>7, <2>2, <3>1 DEF EvaluateOK
  <2> QED BY <2>1, <2>2
<1>10. FrameRuns(g)
  BY <1>3, <1>5, <1>9 DEF FrameRuns, EvaluateOK
<1>11. PICK k \in Frame : k = g
  BY <1>6
<1> QED BY <1>1, <1>4, <1>5, <1>10, <1>11, ResumeKeepsStack DEF FreshInv

-----------------------------------------------------------------------------
(***************************************************************************)
(* A node is brought up to date: ValidationSettles and RuleCommits.        *)
(***************************************************************************)
\* StaleEdgesPending, in terms of the operators on the graph.
LEMMA StalePendingNow ==
    ASSUME GraphTypeOK, EdgesMirror
    PROVE  /\ active_dependencies \in Edges /\ dependents \in Edges
           /\ state \in [NodeId -> Status]
           /\ pending_edges \in SUBSET (NodeId \X NodeId)
           /\ Mirrored(active_dependencies, dependents)
           /\ StaleEdgesPending <=> StalePending(active_dependencies, state, pending_edges)
<1>1. /\ active_dependencies \in Edges /\ dependents \in Edges
      /\ state \in [NodeId -> Status] /\ pending_edges \in SUBSET (NodeId \X NodeId)
  BY DEF GraphTypeOK, Edges, Status
<1>2. Mirrored(active_dependencies, dependents)
  BY DEF EdgesMirror, Mirrored
<1>3. (\A e \in pending_edges : e[2] \in dependents[e[1]] /\ state[e[2]] # "Clean")
        <=> \A d, n \in NodeId : <<d, n>> \in pending_edges =>
                d \in active_dependencies[n] /\ state[n] # "Clean"
  <2>1. \A e \in pending_edges : e[1] \in NodeId /\ e[2] \in NodeId /\ e = <<e[1], e[2]>>
    BY <1>1
  <2>2. \A d, n \in NodeId : <<d, n>> \in pending_edges =>
            LET e == <<d, n>> IN e[1] = d /\ e[2] = n
    OBVIOUS
  <2> QED BY <1>2, <2>1, <2>2 DEF Mirrored
<1> QED BY <1>1, <1>2, <1>3 DEF StaleEdgesPending, StalePending

LEMMA StalePendingThen ==
    ASSUME GraphTypeOK', EdgesMirror',
           StalePending(active_dependencies', state', pending_edges')
    PROVE  StaleEdgesPending'
<1>1. /\ active_dependencies' \in Edges /\ dependents' \in Edges
      /\ pending_edges' \in SUBSET (NodeId \X NodeId)
  BY DEF GraphTypeOK, Edges
<1>2. ASSUME NEW e \in pending_edges' PROVE e[2] \in dependents'[e[1]] /\ state'[e[2]] # "Clean"
  <2>1. e[1] \in NodeId /\ e[2] \in NodeId /\ e = <<e[1], e[2]>>
    BY <1>1
  <2> QED BY <1>2, <2>1 DEF EdgesMirror, StalePending
<1> QED BY <1>2 DEF StaleEdgesPending, StalePending

\* n has been brought up to date with dependencies that are all Clean and older, and is
\* marked changed or unchanged.
BroughtUpToDate(n, changed) ==
    LET clean == [state EXCEPT ![n] = "Clean"]
        pending == {e \in pending_edges : e[2] # n}
    IN  /\ \A m \in NodeId \ {n} : active_dependencies'[m] = active_dependencies[m]
        /\ \A d \in active_dependencies'[n] : d < n /\ state[d] = "Clean"
        /\ IF changed
           THEN /\ state[n] = "Dirty"
                /\ state' = StatesAfterMarkChanged(dependents', clean, n)
                /\ pending_edges' = PendingAfterMarkChanged(dependents', pending, n)
           ELSE /\ state' = StatesAfterMarkUnchanged(dependents', clean, pending, n)
                /\ pending_edges' = PendingAfterMarkUnchanged(dependents', clean, pending, n)

\* Nothing that was Clean is marked: what n reaches was not Clean before n was.
LEMMA CleanOutOfReach ==
    ASSUME GraphTypeOK, EdgesMirror, EdgesDescend, StaleEdgesPending,
           GraphTypeOK', EdgesMirror', NEW n \in NodeId, state[n] = "Dirty",
           \A m \in NodeId \ {n} : active_dependencies'[m] = active_dependencies[m],
           \A d \in active_dependencies'[n] : d < n
    PROVE  \A m \in Downstream(dependents', dependents'[n]) : n < m /\ state[m] # "Clean"
<1> DEFINE K == {m \in NodeId : n < m /\ state[m] # "Clean"}
<1>1. dependents' \in Edges /\ \A m \in NodeId : m \in Nat
  BY NodeIdAssumption DEF GraphTypeOK, Edges
<1>2. ASSUME NEW u \in NodeId, u = n \/ u \in K, NEW v \in dependents'[u]
      PROVE  v \in K
  <2>1. v \in NodeId /\ u \in active_dependencies'[v] /\ n \in Nat /\ u \in Nat /\ v \in Nat
    BY <1>1, <1>2 DEF EdgesMirror, Edges
  <2>2. v # n
    <3>1. SUFFICES ASSUME v = n PROVE FALSE
      OBVIOUS
    <3>2. u < n
      BY <2>1, <3>1
    <3> QED BY <1>2, <2>1, <3>2
  <2>3. u \in active_dependencies[v]
    BY <2>1, <2>2
  <2>4. u < v /\ state[u] # "Clean"
    BY <1>2, <2>1, <2>3 DEF EdgesDescend
  <2>5. n < v
    BY <1>2, <2>1, <2>4
  <2> QED BY <2>1, <2>3, <2>4, <2>5 DEF StaleEdgesPending
<1>3. K \in SUBSET NodeId /\ dependents'[n] \subseteq K /\ \A u \in K : dependents'[u] \subseteq K
  BY <1>2
<1>4. PICK deps \in Edges : deps = dependents'
  BY <1>1
<1>5. Downstream(deps, deps[n]) \subseteq K
  <2> HIDE DEF K
  <2> QED BY <1>3, <1>4, DownstreamLeast
<1> QED BY <1>4, <1>5

\* What bringing n up to date does to the state of another node m.
KeptBeside(n, changed, m) ==
    /\ state[m] = "Clean" => state'[m] = "Clean"
    /\ state[m] = "Dirty" => state'[m] = "Dirty"
    /\ state'[m] = "Dirty" =>
          state[m] = "Dirty" \/ (changed /\ n \in active_dependencies[m])
    /\ changed /\ n \in active_dependencies[m] => state'[m] = "Dirty"
    /\ state'[m] = "MaybeDirty" => state[m] \in {"Clean", "MaybeDirty"}
    /\ state'[m] = "Clean" => state[m] \in {"Clean", "MaybeDirty"}
    /\ (state[m] = "Absent") <=> (state'[m] = "Absent")

LEMMA BroughtUpToDateStates ==
    ASSUME GraphTypeOK, EdgesMirror, NodesOK, EdgesDescend, StaleEdgesPending,
           GraphTypeOK', EdgesMirror', NEW n \in NodeId, NEW changed \in BOOLEAN,
           BroughtUpToDate(n, changed)
    PROVE  /\ StaleEdgesPending'
           /\ state'[n] = "Clean"
           /\ \A m \in NodeId \ {n} : KeptBeside(n, changed, m)
<1>1. PICK act \in Edges, deps \in Edges, st \in [NodeId -> Status],
           pend \in SUBSET (NodeId \X NodeId) :
          /\ act = active_dependencies' /\ deps = dependents'
          /\ st = [state EXCEPT ![n] = "Clean"] /\ pend = {e \in pending_edges : e[2] # n}
  <2>1. [state EXCEPT ![n] = "Clean"] \in [NodeId -> Status]
    BY DEF GraphTypeOK, Status, NodeState
  <2>2. {e \in pending_edges : e[2] # n} \in SUBSET (NodeId \X NodeId)
    BY DEF GraphTypeOK
  <2>3. active_dependencies' \in Edges /\ dependents' \in Edges
    BY DEF GraphTypeOK, Edges
  <2> QED BY <2>1, <2>2, <2>3
<1>2. Mirrored(act, deps)
  BY <1>1 DEF EdgesMirror, Mirrored
<1>3. \A m \in NodeId : st[m] = IF m = n THEN "Clean" ELSE state[m]
  BY <1>1 DEF GraphTypeOK
<1>4. /\ \A m \in NodeId \ {n} : act[m] = active_dependencies[m]
      /\ \A d \in act[n] : d < n /\ state[d] = "Clean"
      /\ ~(n < n)
  BY <1>1, NodeIdAssumption DEF BroughtUpToDate
<1>5. StalePending(act, st, pend)
  <2>1. StalePending(active_dependencies, state, pending_edges)
    BY StalePendingNow
  <2>2. \A d \in act[n] : state[d] = "Clean" /\ d # n
    BY <1>4
  <2>3. /\ active_dependencies \in Edges /\ state \in [NodeId -> Status]
        /\ pending_edges \in SUBSET (NodeId \X NodeId)
    BY StalePendingNow
  <2>4. \A m \in NodeId \ {n} : act[m] = active_dependencies[m]
    BY <1>4
  <2>5. \A d, m \in NodeId : <<d, m>> \in pend <=> (<<d, m>> \in pending_edges /\ m # n)
    BY <1>1
  <2> QED BY <1>3, <2>1, <2>2, <2>3, <2>4, <2>5, CleanedKeepsPending
<1>6. \A m \in NodeId \ {n} : n \in active_dependencies[m] <=> m \in deps[n]
  BY <1>1, <1>2, <1>4 DEF Mirrored
<1>7. n \notin deps[n]
  BY <1>2, <1>4 DEF Mirrored
<1>8. CASE changed
  <2>1. /\ state[n] = "Dirty" /\ state' = StatesAfterMarkChanged(deps, st, n)
        /\ pending_edges' = PendingAfterMarkChanged(deps, pend, n)
    BY <1>1, <1>8 DEF BroughtUpToDate
  <2>2. StaleEdgesPending'
    BY <1>1, <1>2, <1>5, <2>1, MarkChangedKeepsPending, StalePendingThen
  <2>3. \A m \in Downstream(deps, deps[n]) : n < m /\ state[m] # "Clean"
    BY <1>1, <1>4, <2>1, CleanOutOfReach
  <2> DEFINE D == Downstream(deps, deps[n])
  <2>4. \A m \in NodeId : /\ m \in deps[n] => state'[m] = "Dirty"
                          /\ m \notin D => state'[m] = st[m]
                          /\ m \in D => state'[m] # "Clean"
                          /\ m \notin deps[n] /\ st[m] # "Clean" => state'[m] = st[m]
                          /\ state'[m] = "MaybeDirty" => st[m] \in {"Clean", "MaybeDirty"}
                          /\ m \in deps[n] => m \in D
    <3>1. deps[n] \subseteq D
      <4>1. deps[n] \in SUBSET NodeId
        BY DEF Edges
      <4> QED BY <4>1, DownstreamClosed
    <3> QED BY <2>1, <3>1, MarkedChanged
  <2> HIDE DEF D
  <2>5. n \notin D
    BY <1>4, <2>3 DEF D
  <2>6. state'[n] = "Clean"
    BY <1>3, <2>4, <2>5
  <2>7. \A m \in NodeId : m \in D => state[m] # "Clean"
    BY <2>3 DEF D
  <2>8. \A m \in NodeId : m \in deps[n] => state[m] # "Absent"
    BY <1>6, <1>7 DEF EdgesMirror, NodesOK
  <2>9. ASSUME NEW m \in NodeId \ {n} PROVE KeptBeside(n, changed, m)
    <3>1. CASE m \in deps[n]
      BY <1>6, <1>8, <2>4, <2>7, <2>8, <3>1 DEF KeptBeside
    <3>2. CASE m \notin deps[n] /\ st[m] # "Clean"
      <4>1. state'[m] = state[m] /\ state[m] # "Clean" /\ n \notin active_dependencies[m]
        BY <1>3, <1>6, <2>4, <3>2
      <4> QED BY <4>1 DEF KeptBeside
    <3>3. CASE m \notin deps[n] /\ st[m] = "Clean"
      BY <1>3, <1>6, <2>4, <2>7, <3>3 DEF KeptBeside
    <3> QED BY <3>1, <3>2, <3>3
  <2> QED BY <2>2, <2>6, <2>9
<1>9. CASE ~changed
  <2>1. /\ state' = StatesAfterMarkUnchanged(deps, st, pend, n)
        /\ pending_edges' = PendingAfterMarkUnchanged(deps, st, pend, n)
    BY <1>1, <1>9 DEF BroughtUpToDate
  <2>2. StaleEdgesPending'
    BY <1>1, <1>2, <1>3, <1>5, <2>1, MarkUnchangedKeepsPending, StalePendingThen
  <2>3. \A m \in NodeId : \/ state'[m] = st[m]
                          \/ m # n /\ st[m] = "MaybeDirty" /\ state'[m] = "Clean"
    BY <2>1, MarkedUnchanged
  <2>4. state'[n] = "Clean"
    BY <1>3, <2>3
  <2>5. ASSUME NEW m \in NodeId \ {n} PROVE KeptBeside(n, changed, m)
    <3>1. state'[m] = state[m] \/ (state[m] = "MaybeDirty" /\ state'[m] = "Clean")
      BY <1>3, <2>3
    <3> QED BY <1>9, <3>1 DEF KeptBeside
  <2> QED BY <2>2, <2>4, <2>5
<1> QED BY <1>8, <1>9

\* What a frame that waits sees of n having been brought up to date.
OnlyAt(n, changed) ==
    /\ changed => state[n] = "Dirty"
    /\ changed \/ value'[n] = value[n]
    /\ state'[n] = "Clean"
    /\ \A m \in NodeId \ {n} :
          /\ KeptBeside(n, changed, m)
          /\ active_dependencies'[m] = active_dependencies[m]
          /\ value'[m] = value[m]

\* A frame that waits above n still waits after n has been brought up to date.  h is the
\* node the frame waits for: n itself at the top of the stack, a newer node below it.
LEMMA FrameKept ==
    ASSUME TypeOK, NEW f \in Frame, NEW n \in NodeId, NEW h \in NodeId,
           NEW changed \in BOOLEAN, f.node \in NodeId, n < f.node, n < h \/ n = h,
           FrameWaits(f, h, FALSE, FALSE), OnlyAt(n, changed)
    PROVE  /\ FrameWaits(f, h, FALSE, FALSE)' \/ n = h
           /\ n = h => FrameWaits(f, h, TRUE, changed)'
<1>1. f.node \in NodeId \ {n} /\ n \in Nat /\ ~(n < n)
  BY NodeIdAssumption
<1>2. \A d \in NodeId : state[d] = "Clean" => state'[d] = "Clean" /\ value'[d] = value[d]
  BY DEF KeptBeside, OnlyAt
<1>3. /\ state[f.node] = "Dirty" => state'[f.node] = "Dirty"
      /\ state'[f.node] = "Dirty" =>
            state[f.node] = "Dirty" \/ (changed /\ n \in active_dependencies[f.node])
  BY <1>1 DEF KeptBeside, OnlyAt
<1>4. /\ active_dependencies'[f.node] = active_dependencies[f.node]
      /\ value'[f.node] = value[f.node] /\ active_dependencies[f.node] \subseteq NodeId
  BY <1>1 DEF TypeOK, GraphTypeOK, OnlyAt
<1>5. CASE f.op = "evaluate"
  <2>1. EvaluateOK(f) /\ f.reading = h /\ h \notin f.dependencies_read /\ h < f.node
    BY <1>5 DEF FrameWaits
  <2>2. f.dependencies_read \subseteq NodeId
    BY <1>5 DEF Frame, EvaluateFrame, ValidateFrame
  <2>3. EvaluateOK(f)'
    BY <1>2, <1>3, <1>4, <2>1, <2>2 DEF EvaluateOK
  <2> QED BY <1>5, <2>1, <2>3 DEF FrameWaits
<1>6. CASE f.op = "validate"
  <2>1. /\ ValidateOK(f, h) /\ h \in active_dependencies[f.node] \ f.todo /\ h < f.node
        /\ \A d \in f.todo : h < d
        /\ f.dependency_changed \/ state[f.node] # "Dirty"
    BY <1>6 DEF FrameWaits
  <2>2. ValidateOK(f, h)'
    BY <1>2, <1>3, <1>4, <2>1 DEF ValidateOK
  <2>3. CASE n = h
    <3>1. f.dependency_changed \/ changed \/ state'[f.node] # "Dirty"
      BY <1>3, <2>1
    <3> QED BY <1>4, <1>6, <2>1, <2>2, <2>3, <3>1 DEF FrameWaits
  <2>4. CASE n < h
    <3>1. ~(changed /\ n \in active_dependencies[f.node])
      <4>1. SUFFICES ASSUME changed, n \in active_dependencies[f.node] PROVE FALSE
        OBVIOUS
      <4>2. h \in Nat /\ n # h
        BY <1>1, <2>4, NodeIdAssumption
      <4>3. n \in f.todo
        BY <2>1, <4>1, <4>2 DEF ValidateOK, OnlyAt
      <4>4. h < n
        BY <2>1, <4>3
      <4> QED BY <1>1, <2>4, <4>2, <4>4
    <3>2. f.dependency_changed \/ state'[f.node] # "Dirty"
      BY <1>3, <2>1, <3>1
    <3> QED BY <1>4, <1>6, <2>1, <2>2, <3>2 DEF FrameWaits
  <2> QED BY <2>3, <2>4
<1> QED BY <1>5, <1>6 DEF Frame, EvaluateFrame, ValidateFrame

\* All that waits is above h.
LEMMA WaitingAbove ==
    ASSUME NEW fs \in Seq(Frame), NEW h \in NodeId, Waiting(fs, h, FALSE, FALSE)
    PROVE  \A i \in DOMAIN fs : fs[i].node \in NodeId /\ h < fs[i].node
<1> DEFINE k == Len(fs)
<1>1. k \in Nat /\ DOMAIN fs = 1..k /\ \A i \in DOMAIN fs : fs[i] \in Frame
  OBVIOUS
<1>2. \A i \in DOMAIN fs : fs[i].node \in NodeId /\ fs[i].node \in Nat
  BY <1>1, NodeIdAssumption DEF Frame, ValidateFrame, EvaluateFrame
<1>3. ASSUME NEW i \in DOMAIN fs PROVE h < fs[i].node
  <2>1. k \in DOMAIN fs /\ h \in Nat
    BY <1>1, NodeIdAssumption
  <2>2. h < fs[k].node
    BY <2>1 DEF Waiting, FrameWaits
  <2>3. i = k \/ i < k
    BY <1>1
  <2>4. i < k => fs[k].node < fs[i].node
    BY <2>1 DEF Waiting
  <2>5. fs[k].node \in Nat /\ fs[i].node \in Nat
    BY <1>2, <2>1
  <2>6. CASE i = k
    BY <2>2, <2>6
  <2>7. CASE i < k
    BY <2>1, <2>2, <2>4, <2>5, <2>7
  <2> QED BY <2>3, <2>6, <2>7
<1> QED BY <1>2, <1>3

\* All that waits for n may be told that n is up to date.
LEMMA WaitingKept ==
    ASSUME TypeOK, NEW fs \in Seq(Frame), NEW n \in NodeId, NEW changed \in BOOLEAN,
           Waiting(fs, n, FALSE, FALSE),
           OnlyAt(n, changed)
    PROVE  Waiting(fs, n, TRUE, changed)'
<1>1. \A i \in DOMAIN fs : fs[i] \in Frame /\ fs[i].node \in NodeId /\ n < fs[i].node
  <2>1. \A i \in DOMAIN fs : fs[i] \in Frame
    OBVIOUS
  <2>2. \A i \in DOMAIN fs : fs[i].node \in NodeId /\ n < fs[i].node
    BY WaitingAbove
  <2> QED BY <2>1, <2>2
<1>2. ASSUME NEW i \in DOMAIN fs, i = Len(fs) PROVE FrameWaits(fs[i], n, TRUE, changed)'
  <2>1. FrameWaits(fs[i], n, FALSE, FALSE)
    BY <1>2 DEF Waiting
  <2> QED BY <1>1, <2>1, FrameKept
<1>3. ASSUME NEW i \in DOMAIN fs, i # Len(fs)
      PROVE  FrameWaits(fs[i], fs[i + 1].node, FALSE, FALSE)'
  <2>1. FrameWaits(fs[i], fs[i + 1].node, FALSE, FALSE)
    BY <1>3 DEF Waiting
  <2>2. i + 1 \in DOMAIN fs
    BY <1>3
  <2>3. PICK h \in NodeId : h = fs[i + 1].node /\ n < h
    BY <1>1, <2>2
  <2>4. FrameWaits(fs[i], h, FALSE, FALSE)'
    <3>1. n # h
      BY <2>3, NodeIdAssumption
    <3> QED BY <1>1, <2>1, <2>3, <3>1, FrameKept
  <2> QED BY <2>3, <2>4
<1> QED BY <1>2, <1>3 DEF Waiting

\* n is brought up to date: nothing else is stale that was not, and the frames below go on.
LEMMA BroughtUpToDateKeeps ==
    ASSUME CallInv, EdgesMirror, FreshInv, CallInv', EdgesMirror',
           frames # <<>>, returning = None, NEW n, n = Top.node, NEW changed \in BOOLEAN,
           BroughtUpToDate(n, changed),
           frames' = Front(frames), returning' = Ok(changed), UNCHANGED <<nodeVars, call>>,
           changed \/ value'[n] = value[n],
           \A m \in NodeId \ {n} : value'[m] = value[m] /\ consumed'[m] = consumed[m],
           value'[n] # None,
           consumed'[n] = [d \in NodeId |-> IF d \in active_dependencies'[n]
                                            THEN value[d] ELSE None]
    PROVE  FreshInv'
<1>1. /\ n \in NodeId /\ kind[n] = "Derived" /\ GraphTypeOK /\ GraphTypeOK'
      /\ NodesOK /\ EdgesDescend /\ StaleEdgesPending /\ CleanIsCurrent
      /\ kind' = kind /\ rule' = rule
  BY TopFacts DEF CallInv, TypeOK, FreshInv, GraphFresh, nodeVars
<1>2. /\ StaleEdgesPending' /\ state'[n] = "Clean"
      /\ \A m \in NodeId \ {n} : KeptBeside(n, changed, m)
  BY <1>1, BroughtUpToDateStates
<1>3. /\ \A m \in NodeId \ {n} : active_dependencies'[m] = active_dependencies[m]
      /\ \A d \in active_dependencies'[n] : d < n /\ state[d] = "Clean"
      /\ changed => state[n] = "Dirty"
  BY DEF BroughtUpToDate
<1>4. EdgesDescend'
  BY <1>1, <1>3 DEF EdgesDescend
<1>5. NodesOK'
  <2>1. ASSUME NEW m \in NodeId, m # n
        PROVE  /\ kind[m] = "Source" => state'[m] = "Clean"
               /\ (kind[m] = "Absent") <=> (state'[m] = "Absent")
               /\ state'[m] \in {"Clean", "MaybeDirty"} => value'[m] # None
    BY <1>1, <1>2, <2>1 DEF NodesOK, KeptBeside
  <2>2. \A m \in NodeId : kind[m] = "Derived" => rule'[m] \in DerivedRules(m)
    BY <1>1 DEF NodesOK
  <2>3. \A m \in NodeId : kind[m] = "Absent" => value'[m] = None
    BY <1>1 DEF NodesOK
  <2>4. \A m \in NodeId : kind[m] # "Derived" => consumed'[m] = [d \in NodeId |-> None]
    BY <1>1 DEF NodesOK
  <2> QED BY <1>1, <1>2, <2>1, <2>2, <2>3, <2>4 DEF NodesOK
<1>6. CleanIsCurrent'
  <2>1. ASSUME NEW m \in NodeId, state'[m] \in {"Clean", "MaybeDirty"}, m # n
        PROVE  \A d \in active_dependencies'[m] : value'[d] = value[d]
    <3>1. ~(changed /\ n \in active_dependencies[m])
      BY <1>2, <2>1 DEF KeptBeside
    <3>2. active_dependencies[m] \subseteq NodeId
      BY <1>1 DEF GraphTypeOK
    <3> QED BY <1>3, <2>1, <3>1, <3>2
  <2>2. ASSUME NEW m \in NodeId, state'[m] \in {"Clean", "MaybeDirty"}, m # n
        PROVE  consumed'[m] = [d \in NodeId |-> IF d \in active_dependencies'[m]
                                                THEN value'[d] ELSE None]
    <3>1. state[m] \in {"Clean", "MaybeDirty"}
      BY <1>2, <2>2 DEF KeptBeside
    <3>2. consumed[m] = [d \in NodeId |-> IF d \in active_dependencies[m]
                                          THEN value[d] ELSE None]
      BY <1>1, <3>1 DEF CleanIsCurrent
    <3> QED BY <1>3, <2>1, <2>2, <3>2
  <2>3. consumed'[n] = [d \in NodeId |-> IF d \in active_dependencies'[n]
                                         THEN value'[d] ELSE None]
    <3>1. ASSUME NEW d \in NodeId, d \in active_dependencies'[n] PROVE value'[d] = value[d]
      BY <1>1, <1>3, <3>1, NodeIdAssumption
    <3> QED BY <3>1
  <2> QED BY <2>2, <2>3 DEF CleanIsCurrent
<1>7. StackOK'
  <2>1. PICK fs \in Seq(Frame) : fs = Front(frames)
    BY TopFacts
  <2>2. PICK r \in Outcome : r = Ok(changed) /\ r.status = "ok" /\ r.value_changed = changed
    BY DEF Outcome, Ok
  <2>3. Waiting(fs, n, FALSE, FALSE) /\ CallAt(fs, n)
    BY <2>1, RunningTop DEF FreshInv
  <2>4. Waiting(fs, n, TRUE, changed)'
    <3>1. OnlyAt(n, changed)
      BY <1>2, <1>3 DEF OnlyAt
    <3> QED BY <1>1, <2>3, <3>1, WaitingKept DEF CallInv
  <2>5. CallAt(fs, n)'
    BY <2>3 DEF CallAt
  <2>6. Delivers(n)'
    <3>1. n \in Live'
      BY <1>1 DEF Live
    <3>2. ASSUME changed, NEW m \in dependents'[n] PROVE state'[m] = "Dirty"
      <4>1. m \in NodeId /\ n \in active_dependencies'[m]
        BY <1>1, <3>2 DEF GraphTypeOK, EdgesMirror
      <4>2. m # n
        BY <1>1, <1>3, <4>1, NodeIdAssumption
      <4> QED BY <1>2, <1>3, <3>2, <4>1, <4>2 DEF KeptBeside
    <3>3. returning'.value_changed = changed
      BY <2>2
    <3> QED BY <1>2, <3>1, <3>2, <3>3 DEF Delivers
  <2> QED BY <1>1, <2>1, <2>2, <2>4, <2>5, <2>6, DeliverKeepsStack DEF Handle
<1> QED BY <1>2, <1>4, <1>5, <1>6, <1>7 DEF FreshInv, GraphFresh

\* mark_clean and mark_unchanged at the end of a validation.
LEMMA SettlesBringsUpToDate ==
    ASSUME CallInv, FreshInv, ValidationSettles, NEW n \in NodeId, n = Top.node,
           kind[n] = "Derived"
    PROVE  BroughtUpToDate(n, FALSE) /\ state[n] \in {"Clean", "MaybeDirty"}
<1>1. /\ frames # <<>> /\ returning = None /\ Top \in ValidateFrame /\ Top.op = "validate"
      /\ UNCHANGED <<active_dependencies, dependents>>
      /\ Top.todo = {} /\ ~Top.dependency_changed
  BY TopFacts DEF ValidationSettles, Running
<1>2. FrameRuns(Top)
  BY <1>1, RunningTop DEF FreshInv
<1>3. ValidateOK(Top, None) /\ state[n] # "Dirty"
  BY <1>1, <1>2 DEF FrameRuns
<1>4. /\ active_dependencies[n] \subseteq NodeId /\ None \notin NodeId
      /\ state[n] \in NodeState \cup {"Absent"}
  BY ConstantsAssumption DEF Handle, CallInv, TypeOK, GraphTypeOK
<1>5. state[n] \in {"Clean", "MaybeDirty"}
  BY <1>3, <1>4 DEF NodeState, FreshInv, GraphFresh, NodesOK
<1>6. \A d \in active_dependencies[n] : d < n /\ state[d] = "Clean"
  BY <1>1, <1>3, <1>4 DEF ValidateOK, FreshInv, GraphFresh, EdgesDescend
<1> QED BY <1>1, <1>5, <1>6 DEF BroughtUpToDate, ValidationSettles

LEMMA ValidationSettlesKeeps ==
    ASSUME CallInv, EdgesMirror, FreshInv, CallInv', EdgesMirror', ValidationSettles
    PROVE  FreshInv'
<1>1. PICK n \in NodeId : n = Top.node /\ kind[n] = "Derived"
  BY TopFacts DEF ValidationSettles, Running
<1>2. /\ frames # <<>> /\ returning = None
      /\ frames' = Front(frames) /\ returning' = Ok(FALSE)
      /\ UNCHANGED <<nodeVars, value, active_dependencies, dependents, consumed, call>>
  BY DEF ValidationSettles, Running, Answer
<1>3. BroughtUpToDate(n, FALSE) /\ state[n] \in {"Clean", "MaybeDirty"}
  BY <1>1, SettlesBringsUpToDate
<1>4. value[n] # None
  BY <1>3 DEF FreshInv, GraphFresh, NodesOK
<1>5. consumed[n] = [d \in NodeId |-> IF d \in active_dependencies[n] THEN value[d] ELSE None]
  BY <1>3 DEF FreshInv, GraphFresh, CleanIsCurrent
<1> QED BY <1>1, <1>2, <1>3, <1>4, <1>5, BroughtUpToDateKeeps

\* An output that is not meaningfully changed is the value that was there.
LEMMA UnchangedIsSame ==
    ASSUME NEW new \in Storage, NEW old \in Storage \cup {None}, ~MeaningfullyChanged(new, old)
    PROVE  new = old
<1>1. /\ old \in Storage /\ new.value_type = old.value_type /\ new.bytes = old.bytes
      /\ "AlwaysChanged" \notin {new.comparison, old.comparison}
  BY DEF MeaningfullyChanged
<1>2. /\ new = [value_type |-> new.value_type, bytes |-> new.bytes, comparison |-> new.comparison]
      /\ old = [value_type |-> old.value_type, bytes |-> old.bytes, comparison |-> old.comparison]
      /\ new.comparison = "Bytewise" /\ old.comparison = "Bytewise"
  BY <1>1, ConstantsAssumption
<1> QED BY <1>1, <1>2

\* What a commit has of BroughtUpToDate, and what it stores.
LEMMA CommitBringsUpToDate ==
    ASSUME CallInv, FreshInv, NEW output \in Storage \cup {None}, RuleCommits(output),
           NEW n \in NodeId, n = Top.node
    PROVE  \E changed \in BOOLEAN :
              /\ BroughtUpToDate(n, changed)
              /\ returning' = Ok(changed)
              /\ changed \/ value'[n] = value[n]
<1> DEFINE reads == Top.dependencies_read
           clean == [state EXCEPT ![n] = "Clean"]
           pending == {e \in pending_edges : e[2] # n}
<1>1. /\ frames # <<>> /\ returning = None /\ Top \in EvaluateFrame /\ Top.op = "evaluate"
      /\ active_dependencies' = [active_dependencies EXCEPT ![n] = reads]
      /\ dependents' = DependentsAfterCommit(n, reads)
      /\ value' = [value EXCEPT ![n] = output]
  BY TopFacts DEF RuleCommits, Running
<1>2. PICK changed \in BOOLEAN : changed = MeaningfullyChanged(output, Top.old_value)
  BY DEF MeaningfullyChanged
<1>3. /\ returning' = Ok(changed)
      /\ changed => /\ state' = StatesAfterMarkChanged(dependents', clean, n)
                    /\ pending_edges' = PendingAfterMarkChanged(dependents', pending, n)
      /\ ~changed => /\ state' = StatesAfterMarkUnchanged(dependents', clean, pending, n)
                     /\ pending_edges' = PendingAfterMarkUnchanged(dependents', clean, pending, n)
  BY <1>1, <1>2 DEF RuleCommits
<1>4. output \in Storage
  BY ConstantsAssumption DEF RuleCommits, Refusals
<1>5. EvaluateOK(Top) /\ Top.old_value \in Storage \cup {None}
  BY <1>1, RunningTop DEF FreshInv, FrameRuns, EvaluateFrame
<1>6. /\ \A m \in NodeId \ {n} : active_dependencies'[m] = active_dependencies[m]
      /\ active_dependencies'[n] = reads
      /\ value'[n] = output
  BY <1>1 DEF CallInv, TypeOK, GraphTypeOK
<1>7. /\ state[n] = "Dirty" /\ Top.old_value = value[n]
      /\ \A d \in reads : d < n /\ state[d] = "Clean"
  BY <1>5 DEF EvaluateOK
<1>8. changed \/ value'[n] = value[n]
  BY <1>2, <1>4, <1>5, <1>6, <1>7, UnchangedIsSame
<1>9. BroughtUpToDate(n, changed)
  <2> HIDE DEF reads
  <2>1. \A d \in active_dependencies'[n] : d < n /\ state[d] = "Clean"
    BY <1>6, <1>7
  <2> QED BY <1>3, <1>6, <1>7, <2>1 DEF BroughtUpToDate
<1> QED BY <1>3, <1>8, <1>9

LEMMA RuleCommitsKeeps ==
    ASSUME CallInv, EdgesMirror, FreshInv, CallInv', EdgesMirror',
           NEW output \in Storage \cup {None}, RuleCommits(output)
    PROVE  FreshInv'
<1>1. PICK n \in NodeId : n = Top.node
  BY TopFacts DEF RuleCommits, Running
<1> DEFINE reads == Top.dependencies_read
<1>2. /\ frames # <<>> /\ returning = None /\ Top \in EvaluateFrame /\ Top.op = "evaluate"
      /\ frames' = Front(frames) /\ UNCHANGED <<nodeVars, call>>
      /\ active_dependencies' = [active_dependencies EXCEPT ![n] = reads]
      /\ value' = [value EXCEPT ![n] = output]
      /\ consumed' = [consumed EXCEPT ![n] =
                         [d \in NodeId |-> IF d \in reads THEN Top.seen[d].value ELSE None]]
  BY <1>1, TopFacts DEF RuleCommits, Running
<1>3. PICK changed \in BOOLEAN : /\ BroughtUpToDate(n, changed) /\ returning' = Ok(changed)
                                 /\ changed \/ value'[n] = value[n]
  BY <1>1, CommitBringsUpToDate
<1>4. output # None
  BY DEF RuleCommits, Refusals
<1>5. /\ \A m \in NodeId \ {n} : value'[m] = value[m] /\ consumed'[m] = consumed[m]
      /\ active_dependencies'[n] = reads /\ value'[n] = output
      /\ consumed'[n] = [d \in NodeId |-> IF d \in reads THEN Top.seen[d].value ELSE None]
  BY <1>2 DEF CallInv, TypeOK, GraphTypeOK
<1>6. \A d \in reads : Top.seen[d].value = value[d]
  BY <1>2, RunningTop DEF FreshInv, FrameRuns, EvaluateOK
<1>7. consumed'[n] = [d \in NodeId |-> IF d \in active_dependencies'[n]
                                       THEN value[d] ELSE None]
  BY <1>5, <1>6
<1> QED BY <1>1, <1>2, <1>3, <1>4, <1>5, <1>7, BroughtUpToDateKeeps
-----------------------------------------------------------------------------
(***************************************************************************)
(* Requests.                                                               *)
(***************************************************************************)
\* What a change of id marks are derived nodes.
LEMMA MarkedNodes ==
    ASSUME GraphTypeOK, EdgesMirror, NodesOK, NEW id \in NodeId, NEW m \in NodeId
    PROVE  LET marked == StatesAfterMarkChanged(dependents, state, id)
           IN /\ kind[m] # "Derived" => marked[m] = state[m]
              /\ state[m] = "Dirty" => marked[m] = "Dirty"
              /\ (state[m] = "Absent") <=> (marked[m] = "Absent")
              /\ marked[m] \in {"Clean", "MaybeDirty"} =>
                    /\ state[m] \in {"Clean", "MaybeDirty"}
                    /\ id \notin active_dependencies[m]
<1> DEFINE marked == StatesAfterMarkChanged(dependents, state, id)
           D == Downstream(dependents, dependents[id])
<1>1. dependents \in Edges /\ state \in [NodeId -> Status]
  BY DEF GraphTypeOK, Edges, Status
<1>2. \A u \in NodeId : dependents[u] \subseteq {v \in NodeId : kind[v] = "Derived"}
  BY <1>1 DEF EdgesMirror, Edges
<1>3. D \subseteq {v \in NodeId : kind[v] = "Derived"}
  BY <1>1, <1>2, DownstreamLeast
<1>4. /\ m \in dependents[id] => marked[m] = "Dirty"
      /\ m \notin D => marked[m] = state[m]
      /\ m \in D => marked[m] # "Clean"
      /\ m \notin dependents[id] /\ state[m] # "Clean" => marked[m] = state[m]
      /\ marked[m] = "MaybeDirty" => state[m] \in {"Clean", "MaybeDirty"}
      /\ m \notin dependents[id] /\ state[m] = "Clean" => marked[m] \in {"Clean", "MaybeDirty"}
  BY <1>1, MarkedChanged
<1>5. /\ m \in dependents[id] <=> id \in active_dependencies[m]
      /\ (kind[m] = "Absent") <=> (state[m] = "Absent")
  BY DEF EdgesMirror, NodesOK
<1>6. m \in D => kind[m] = "Derived"
  BY <1>3
<1>7. m \in dependents[id] => kind[m] = "Derived"
  BY <1>2
<1> HIDE DEF marked, D
<1>8. kind[m] # "Derived" => marked[m] = state[m]
  BY <1>4, <1>6
<1>9. state[m] = "Dirty" => marked[m] = "Dirty"
  BY <1>4
<1>10. (state[m] = "Absent") <=> (marked[m] = "Absent")
  BY <1>4, <1>5, <1>7
<1>11. marked[m] \in {"Clean", "MaybeDirty"} =>
          state[m] \in {"Clean", "MaybeDirty"} /\ id \notin active_dependencies[m]
  BY <1>4, <1>5
<1> QED BY <1>8, <1>9, <1>10, <1>11 DEF marked

\* id has changed to v, or so the host says.
LEMMA ChangeKeepsGraph ==
    ASSUME GraphTypeOK, EdgesMirror, GraphFresh, GraphTypeOK', EdgesMirror',
           NEW id \in NodeId,
           state' = StatesAfterMarkChanged(dependents, state, id),
           pending_edges' = PendingAfterMarkChanged(dependents, pending_edges, id),
           \A m \in NodeId \ {id} : value'[m] = value[m],
           (value[id] = None) <=> (value'[id] = None),
           UNCHANGED <<nodeVars, active_dependencies, dependents, consumed>>
    PROVE  GraphFresh'
<1>1. \A m \in NodeId : /\ kind[m] # "Derived" => state'[m] = state[m]
                        /\ (state[m] = "Absent") <=> (state'[m] = "Absent")
                        /\ state'[m] \in {"Clean", "MaybeDirty"} =>
                              /\ state[m] \in {"Clean", "MaybeDirty"}
                              /\ id \notin active_dependencies[m]
  BY MarkedNodes DEF GraphFresh
<1>2. \A m \in NodeId : (value[m] = None) <=> (value'[m] = None)
  OBVIOUS
<1>3. NodesOK'
  BY <1>1, <1>2 DEF GraphFresh, NodesOK, nodeVars
<1>4. EdgesDescend'
  BY DEF GraphFresh, EdgesDescend
<1>5. StaleEdgesPending'
  <2>1. StalePending(active_dependencies, state', pending_edges')
    BY StalePendingNow, MarkChangedKeepsPending DEF GraphFresh
  <2> QED BY <2>1, StalePendingThen
<1>6. CleanIsCurrent'
  <2> SUFFICES ASSUME NEW m \in NodeId, state'[m] \in {"Clean", "MaybeDirty"}
               PROVE  consumed[m] = [d \in NodeId |-> IF d \in active_dependencies[m]
                                                      THEN value'[d] ELSE None]
    BY DEF CleanIsCurrent
  <2>1. consumed[m] = [d \in NodeId |-> IF d \in active_dependencies[m] THEN value[d] ELSE None]
    BY <1>1 DEF GraphFresh, CleanIsCurrent
  <2>2. ASSUME NEW d \in NodeId, d \in active_dependencies[m] PROVE value'[d] = value[d]
    BY <1>1, <2>2
  <2> QED BY <2>1, <2>2
<1> QED BY <1>3, <1>4, <1>5, <1>6 DEF GraphFresh

\* A fresh node has no edges, so nothing depends on its state or its value.
LEMMA AddedNodeKeepsGraph ==
    ASSUME GraphTypeOK, EdgeInv, GraphFresh, GraphTypeOK', EdgesMirror',
           NEW id \in NodeId, id = next_node_id,
           NEW k \in {"Source", "Derived"}, NEW st \in {"Clean", "Dirty"},
           k = "Source" <=> st = "Clean",
           kind' = [kind EXCEPT ![id] = k], state' = [state EXCEPT ![id] = st],
           \A m \in NodeId \ {id} : value'[m] = value[m] /\ rule'[m] = rule[m],
           k = "Source" => value'[id] # None,
           k = "Derived" => rule'[id] \in DerivedRules(id),
           UNCHANGED <<active_dependencies, dependents, pending_edges, consumed>>
    PROVE  GraphFresh'
<1>1. /\ kind[id] = "Absent" /\ active_dependencies[id] = {}
      /\ \A m \in NodeId : id \notin active_dependencies[m]
      /\ \A m \in NodeId : active_dependencies[m] \subseteq NodeId
  <2>1. kind[id] = "Absent"
    BY NodeIdAssumption DEF EdgeInv, NextIdUnused
  <2>2. id \notin Live
    BY <2>1 DEF Live
  <2> QED BY <2>1, <2>2 DEF EdgeInv, EdgesMirror, GraphTypeOK
<1>2. \A m \in NodeId : /\ kind'[m] = IF m = id THEN k ELSE kind[m]
                        /\ state'[m] = IF m = id THEN st ELSE state[m]
  BY DEF GraphTypeOK
<1>3. NodesOK'
  <2>1. ASSUME NEW m \in NodeId, m # id
        PROVE  /\ kind'[m] = "Derived" => rule'[m] \in DerivedRules(m)
               /\ kind'[m] = "Source" => state'[m] = "Clean"
               /\ (kind'[m] = "Absent") <=> (state'[m] = "Absent")
               /\ kind'[m] = "Absent" => value'[m] = None
               /\ kind'[m] # "Derived" => consumed[m] = [d \in NodeId |-> None]
               /\ state'[m] \in {"Clean", "MaybeDirty"} => value'[m] # None
    BY <1>2, <2>1 DEF GraphFresh, NodesOK
  <2>2. consumed[id] = [d \in NodeId |-> None]
    BY <1>1 DEF GraphFresh, NodesOK
  <2> QED BY <1>2, <2>1, <2>2 DEF NodesOK
<1>4. EdgesDescend'
  BY DEF GraphFresh, EdgesDescend
<1>5. StaleEdgesPending'
  <2>1. \A m \in NodeId : \A d \in active_dependencies[m] :
            state'[d] = state[d] /\ state'[m] = state[m]
    BY <1>1, <1>2
  <2>2. StalePending(active_dependencies, state, pending_edges)
    BY StalePendingNow DEF GraphFresh, EdgeInv
  <2>3. StalePending(active_dependencies, state', pending_edges)
    BY <2>1, <2>2 DEF StalePending
  <2> QED BY <2>3, StalePendingThen
<1>6. CleanIsCurrent'
  <2> SUFFICES ASSUME NEW m \in NodeId, state'[m] \in {"Clean", "MaybeDirty"}
               PROVE  consumed[m] = [d \in NodeId |-> IF d \in active_dependencies[m]
                                                      THEN value'[d] ELSE None]
    BY DEF CleanIsCurrent
  <2>1. CASE m = id
    <3>1. consumed[m] = [d \in NodeId |-> None]
      BY <1>1, <2>1 DEF GraphFresh, NodesOK
    <3> QED BY <1>1, <2>1, <3>1
  <2>2. CASE m # id
    <3>1. consumed[m] = [d \in NodeId |-> IF d \in active_dependencies[m]
                                          THEN value[d] ELSE None]
      BY <1>2, <2>2 DEF GraphFresh, CleanIsCurrent
    <3>2. ASSUME NEW d \in NodeId, d \in active_dependencies[m] PROVE value'[d] = value[d]
      BY <1>1, <3>2
    <3> QED BY <3>1, <3>2
  <2> QED BY <2>1, <2>2
<1> QED BY <1>3, <1>4, <1>5, <1>6 DEF GraphFresh

\* What depended on a removed node is Dirty, the rest never read it.
LEMMA RemovedNodeKeepsGraph ==
    ASSUME GraphTypeOK, EdgesMirror, GraphFresh, GraphTypeOK', EdgesMirror',
           NEW id \in NodeId, RemoveNode(id)
    PROVE  GraphFresh'
<1> DEFINE marked == StatesAfterMarkChanged(dependents, state, id)
           pend == PendingAfterMarkChanged(dependents, pending_edges, id)
<1>1. /\ kind' = [kind EXCEPT ![id] = "Absent"] /\ state' = [marked EXCEPT ![id] = "Absent"]
      /\ value' = [value EXCEPT ![id] = None] /\ rule' = [rule EXCEPT ![id] = None]
      /\ consumed' = [consumed EXCEPT ![id] = [d \in NodeId |-> None]]
      /\ pending_edges' = {e \in pend : id \notin {e[1], e[2]}}
  BY DEF RemoveNode
<1>2. \A m \in NodeId : active_dependencies'[m] = IF m = id THEN {}
                                                  ELSE active_dependencies[m] \ {id}
  <2>1. \A m \in NodeId : m \in dependents[id] <=> id \in active_dependencies[m]
    BY DEF EdgesMirror
  <2>2. \A m \in NodeId : active_dependencies'[m] =
            IF m = id THEN {}
            ELSE IF m \in dependents[id] THEN active_dependencies[m] \ {id}
            ELSE active_dependencies[m]
    BY DEF RemoveNode
  <2> QED BY <2>1, <2>2
<1>3. marked \in [NodeId -> Status]
  BY MarkedStatesType DEF GraphTypeOK, Status
<1>4. \A m \in NodeId : /\ kind[m] # "Derived" => marked[m] = state[m]
                        /\ (state[m] = "Absent") <=> (marked[m] = "Absent")
                        /\ marked[m] \in {"Clean", "MaybeDirty"} =>
                              /\ state[m] \in {"Clean", "MaybeDirty"}
                              /\ id \notin active_dependencies[m]
  BY MarkedNodes DEF GraphFresh
<1>5. StalePending(active_dependencies, marked, pend)
  BY StalePendingNow, MarkChangedKeepsPending DEF GraphFresh
<1>6. \A d, m \in NodeId : <<d, m>> \in pending_edges' <=> (<<d, m>> \in pend /\ id # d /\ id # m)
  BY <1>1
<1> HIDE DEF marked, pend
<1>7. \A m \in NodeId :
         /\ kind'[m] = IF m = id THEN "Absent" ELSE kind[m]
         /\ state'[m] = IF m = id THEN "Absent" ELSE marked[m]
         /\ value'[m] = IF m = id THEN None ELSE value[m]
         /\ rule'[m] = IF m = id THEN None ELSE rule[m]
         /\ consumed'[m] = IF m = id THEN [d \in NodeId |-> None] ELSE consumed[m]
  BY <1>1, <1>3 DEF GraphTypeOK
<1>8. NodesOK'
  <2>1. ASSUME NEW m \in NodeId, m # id
        PROVE  /\ kind'[m] = "Derived" => rule'[m] \in DerivedRules(m)
               /\ kind'[m] = "Source" => state'[m] = "Clean"
               /\ (kind'[m] = "Absent") <=> (state'[m] = "Absent")
               /\ kind'[m] = "Absent" => value'[m] = None
               /\ kind'[m] # "Derived" => consumed'[m] = [d \in NodeId |-> None]
               /\ state'[m] \in {"Clean", "MaybeDirty"} => value'[m] # None
    BY <1>4, <1>7, <2>1 DEF GraphFresh, NodesOK
  <2> QED BY <1>7, <2>1 DEF NodesOK
<1>9. EdgesDescend'
  BY <1>2 DEF GraphFresh, EdgesDescend
<1>10. StaleEdgesPending'
  <2>1. ASSUME NEW m \in NodeId, NEW d \in active_dependencies'[m], state'[d] # "Clean"
        PROVE  state'[m] # "Clean" /\ <<d, m>> \in pending_edges'
    <3>1. m # id /\ d # id /\ d \in active_dependencies[m] /\ d \in NodeId
      BY <1>2, <2>1 DEF GraphTypeOK
    <3>2. marked[d] # "Clean"
      BY <1>7, <2>1, <3>1
    <3>3. marked[m] # "Clean" /\ <<d, m>> \in pend
      BY <1>5, <3>1, <3>2 DEF StalePending
    <3> QED BY <1>6, <1>7, <3>1, <3>3
  <2>2. ASSUME NEW d \in NodeId, NEW m \in NodeId, <<d, m>> \in pending_edges'
        PROVE  d \in active_dependencies'[m] /\ state'[m] # "Clean"
    BY <1>2, <1>5, <1>6, <1>7, <2>2 DEF StalePending
  <2>3. StalePending(active_dependencies', state', pending_edges')
    BY <2>1, <2>2 DEF StalePending
  <2> QED BY <2>3, StalePendingThen
<1>11. CleanIsCurrent'
  <2> SUFFICES ASSUME NEW m \in NodeId, state'[m] \in {"Clean", "MaybeDirty"}
               PROVE  consumed'[m] = [d \in NodeId |-> IF d \in active_dependencies'[m]
                                                       THEN value'[d] ELSE None]
    BY DEF CleanIsCurrent
  <2>1. m # id
    BY <1>7
  <2>2. state[m] \in {"Clean", "MaybeDirty"} /\ id \notin active_dependencies[m]
    BY <1>4, <1>7, <2>1
  <2>3. consumed[m] = [d \in NodeId |-> IF d \in active_dependencies[m] THEN value[d] ELSE None]
    BY <2>2 DEF GraphFresh, CleanIsCurrent
  <2>4. active_dependencies'[m] = active_dependencies[m] /\ consumed'[m] = consumed[m]
    <3>1. active_dependencies'[m] = active_dependencies[m] \ {id}
      BY <1>2, <2>1
    <3>2. active_dependencies[m] \ {id} = active_dependencies[m]
      BY <2>2
    <3>3. consumed'[m] = consumed[m]
      BY <1>7, <2>1
    <3> QED BY <3>1, <3>2, <3>3
  <2>5. \A d \in NodeId : d \in active_dependencies[m] => value'[d] = value[d]
    BY <1>7, <2>2
  <2> QED BY <2>3, <2>4, <2>5
<1> QED BY <1>8, <1>9, <1>10, <1>11 DEF GraphFresh

LEMMA RequestKeepsFresh ==
    ASSUME CallInv, EdgeInv, FreshInv, CallInv', EdgesMirror', Request
    PROVE  FreshInv'
<1>1. /\ GraphTypeOK /\ GraphTypeOK' /\ GraphFresh /\ EdgesMirror
      /\ \A s \in Storage : s # None
  BY ConstantsAssumption DEF CallInv, TypeOK, FreshInv, EdgeInv
<1>2. ASSUME Idle, UNCHANGED callVars PROVE StackOK'
  BY <1>2 DEF StackOK, callVars, CallInv, IdleOK, CallAt
<1>3. ASSUME NEW v \in Storage, AddSource(v) PROVE FreshInv'
  <2>1. PICK id \in NodeId : id = next_node_id
    BY <1>3 DEF AddSource
  <2>2. /\ \A m \in NodeId \ {id} : value'[m] = value[m]
        /\ value'[id] = v
    BY <1>1, <1>3, <2>1 DEF AddSource, GraphTypeOK
  <2>3. GraphFresh'
    BY <1>1, <1>3, <2>1, <2>2, AddedNodeKeepsGraph DEF AddSource
  <2> QED BY <1>2, <1>3, <2>3 DEF AddSource, FreshInv
<1>4. ASSUME NEW r \in Rules, AddDerived(r) PROVE FreshInv'
  <2>1. PICK id \in NodeId : id = next_node_id
    BY <1>4 DEF AddDerived
  <2>2. /\ \A m \in NodeId \ {id} : rule'[m] = rule[m]
        /\ rule'[id] = r /\ r \in DerivedRules(id)
    BY <1>1, <1>4, <2>1 DEF AddDerived, GraphTypeOK
  <2>3. GraphFresh'
    BY <1>1, <1>4, <2>1, <2>2, AddedNodeKeepsGraph DEF AddDerived
  <2> QED BY <1>2, <1>4, <2>3 DEF AddDerived, FreshInv
<1>5. ASSUME NEW id \in NodeId, NEW v \in Storage, SetSourceValue(id, v) PROVE FreshInv'
  <2>1. /\ kind[id] = "Source" /\ state[id] = "Clean" /\ value[id] \in Storage
        /\ [state EXCEPT ![id] = "Clean"] = state
    <3>1. kind[id] = "Source" /\ state[id] = "Clean" /\ value[id] # None
      BY <1>1, <1>5 DEF SetSourceValue, GraphFresh, NodesOK
    <3> QED BY <1>1, <3>1 DEF GraphTypeOK
  <2>2. /\ \A m \in NodeId \ {id} : value'[m] = value[m]
        /\ value'[id] = v /\ v # None /\ value[id] # None
    BY <1>1, <1>5, <2>1 DEF SetSourceValue, GraphTypeOK
  <2>3. CASE MeaningfullyChanged(v, value[id])
    <3>1. /\ state' = StatesAfterMarkChanged(dependents, state, id)
          /\ pending_edges' = PendingAfterMarkChanged(dependents, pending_edges, id)
          /\ UNCHANGED <<nodeVars, active_dependencies, dependents, consumed>>
      BY <1>5, <2>1, <2>3 DEF SetSourceValue
    <3>2. GraphFresh'
      BY <1>1, <2>2, <3>1, ChangeKeepsGraph
    <3> QED BY <1>2, <1>5, <3>2 DEF SetSourceValue, FreshInv
  <2>4. CASE ~MeaningfullyChanged(v, value[id])
    <3>1. v = value[id]
      BY <2>1, <2>4, UnchangedIsSame
    <3>2. value' = value
      BY <1>1, <1>5, <3>1 DEF SetSourceValue, GraphTypeOK
    <3>3. UNCHANGED graphVars
      BY <1>5, <2>1, <2>4, <3>2 DEF SetSourceValue, graphVars, nodeVars
    <3>4. GraphFresh'
      BY <1>1, <3>3, QuietGraph
    <3> QED BY <1>2, <1>5, <3>4 DEF SetSourceValue, FreshInv
  <2> QED BY <2>3, <2>4
<1>6. ASSUME NEW id \in NodeId, MarkChanged(id) PROVE FreshInv'
  <2>1. GraphFresh'
    BY <1>1, <1>6, ChangeKeepsGraph DEF MarkChanged
  <2> QED BY <1>2, <1>6, <2>1 DEF MarkChanged, FreshInv
<1>7. ASSUME NEW id \in NodeId, RemoveNode(id) PROVE FreshInv'
  <2>1. GraphFresh'
    BY <1>1, <1>7, RemovedNodeKeepsGraph
  <2> QED BY <1>2, <1>7, <2>1 DEF RemoveNode, FreshInv
<1>8. PICK fs \in Seq(Frame) : fs = <<>>
  <2>1. <<>> \in Seq(Frame)
    OBVIOUS
  <2> QED BY <2>1
<1>9. \A h \in Handle : call'.node = h =>
          CallAt(fs, h)' /\ Waiting(fs, h, TRUE, FALSE)
  BY <1>8 DEF CallAt, Bottom, Waiting
<1>10. ASSUME NEW h \in Handle, ReadValue(h) PROVE FreshInv'
  <2>1. UNCHANGED graphVars /\ call'.node = h /\ ValidateForRead(h, fs)
    BY <1>8, <1>10 DEF ReadValue
  <2>2. GraphFresh'
    BY <1>1, <2>1, QuietGraph
  <2>3. StackOK'
    BY <1>1, <1>9, <2>1, EnterKeepsStack DEF CallInv
  <2> QED BY <2>2, <2>3 DEF FreshInv
<1>11. ASSUME NEW h \in Handle, UpdateNode(h) PROVE FreshInv'
  <2>1. UNCHANGED graphVars /\ call'.node = h
    BY <1>11 DEF UpdateNode
  <2>2. GraphFresh'
    BY <1>1, <2>1, QuietGraph
  <2>3. ASSUME NEW e \in Error, Answer(Err(e), fs) PROVE StackOK'
    <3>1. PICK r \in Outcome : r = Err(e) /\ r.status # "ok"
      <4>1. Err(e) \in Outcome /\ Err(e).status # "ok"
        BY DEF Outcome, Err
      <4> QED BY <4>1
    <3>2. frames' = fs /\ returning' = r
      BY <2>3, <3>1 DEF Answer
    <3>3. Waiting(fs, h, r.status = "ok", r.value_changed)'
      BY <1>8 DEF Waiting
    <3> QED BY <1>9, <2>1, <3>1, <3>2, <3>3, DeliverKeepsStack
  <2>4. CASE h \in Live /\ kind[h] = "Derived"
    <3>1. h \in NodeId /\ ValidateDerived(h, fs)
      BY <1>8, <1>11, <2>4 DEF UpdateNode, Live
    <3>2. StackOK'
      BY <1>1, <1>9, <2>1, <2>4, <3>1, EnterKeepsStack DEF CallInv
    <3> QED BY <2>2, <3>2 DEF FreshInv
  <2>5. CASE ~(h \in Live /\ kind[h] = "Derived")
    <3>1. \E e \in Error : Answer(Err(e), fs)
      <4>1. "NotDerived" \in Error /\ HandleError(h) \in Error
        BY DEF Error, HandleError
      <4>2. h \in Live => kind[h] \in {"Source", "Derived"}
        BY <1>1 DEF Live, GraphTypeOK
      <4> QED BY <1>8, <1>11, <2>5, <4>1, <4>2 DEF UpdateNode
    <3> QED BY <2>2, <2>3, <3>1 DEF FreshInv
  <2> QED BY <2>4, <2>5
<1> QED BY <1>3, <1>4, <1>5, <1>6, <1>7, <1>10, <1>11 DEF Request

LEMMA ContinueKeepsFresh ==
    ASSUME OlderHandles, CallInv, EdgesMirror, FreshInv, CallInv', EdgesMirror', Continue
    PROVE  FreshInv'
<1>1. CallTypeOK /\ GraphFresh /\ StackOK
  BY DEF CallInv, TypeOK, FreshInv
<1>2. ASSUME UNCHANGED graphVars, StackOK' PROVE FreshInv'
  BY <1>1, <1>2, QuietGraph DEF FreshInv
<1>3. ASSUME ValidateDependency PROVE FreshInv'
  BY <1>2, <1>3, ValidateDependencyKeeps DEF ValidateDependency
<1>4. ASSUME DependencyValidated PROVE FreshInv'
  BY <1>2, <1>4, DependencyValidatedKeeps DEF DependencyValidated
<1>5. ASSUME ValidationRecomputes PROVE FreshInv'
  BY <1>2, <1>5, ValidationRecomputesKeeps DEF ValidationRecomputes
<1>6. ASSUME NEW h \in Handle, RuleReads(h) PROVE FreshInv'
  BY <1>2, <1>6, RuleReadsKeeps DEF RuleReads
<1>7. ASSUME RuleObserves PROVE FreshInv'
  BY <1>2, <1>7, RuleObservesKeeps DEF RuleObserves
<1>8. ASSUME frames # <<>>, NEW r \in Outcome, r.status # "ok", frames' = Front(frames),
             returning' = r, UNCHANGED <<graphVars, call>>
      PROVE  FreshInv'
  BY <1>1, <1>2, <1>8, FailKeepsStack
<1>9. ASSUME ValidationFails PROVE FreshInv'
  <2>1. returning \in Outcome
    BY <1>1, <1>9 DEF CallTypeOK, ValidationFails, Delivering
  <2> QED BY <1>8, <1>9, <2>1 DEF ValidationFails, Delivering, Answer
<1>10. ASSUME NEW e \in Error, frames # <<>>, Abandon(Err(e)) PROVE FreshInv'
  <2>1. Err(e) \in Outcome /\ Err(e).status # "ok"
    BY DEF Outcome, Err
  <2> QED BY <1>8, <1>10, <2>1 DEF Abandon
<1>11. ASSUME frames # <<>>, Abandon(Panicked) PROVE FreshInv'
  <2>1. Panicked \in Outcome /\ Panicked.status # "ok"
    BY DEF Outcome, Panicked
  <2> QED BY <1>8, <1>11, <2>1 DEF Abandon
<1>12. ASSUME NEW e \in Error, RuleFails(e) PROVE FreshInv'
  BY <1>10, <1>12 DEF RuleFails, Running
<1>13. ASSUME RulePanics \/ RuleUnwinds PROVE FreshInv'
  BY <1>11, <1>13 DEF RulePanics, RuleUnwinds, Running, Delivering
<1>14. ASSUME NEW output, RuleRefused(output) PROVE FreshInv'
  <2>1. Refusals(Top.node, Top.dependencies_read, output) \subseteq Error
    BY DEF Refusals, CommitErrors, Error
  <2> QED BY <1>10, <1>14, <2>1 DEF RuleRefused, Running
<1>15. ASSUME ReturnToCaller PROVE FreshInv'
  BY <1>2, <1>15 DEF ReturnToCaller, StackOK
<1> QED BY <1>3, <1>4, <1>5, <1>6, <1>7, <1>9, <1>12, <1>13, <1>14, <1>15,
           ValidationSettlesKeeps, RuleCommitsKeeps DEF Continue

LEMMA StepKeepsFresh ==
    ASSUME OlderHandles, CallInv, EdgeInv, FreshInv, CallInv', EdgeInv', [Next]_vars
    PROVE  FreshInv'
<1>1. CASE UNCHANGED vars
  <2>1. GraphFresh'
    BY <1>1, QuietGraph DEF FreshInv, vars
  <2>2. StackOK'
    BY <1>1 DEF FreshInv, StackOK, Waiting, FrameWaits, FrameRuns, EvaluateOK, ValidateOK,
                CallAt, Delivers, Live, Top, vars, graphVars, callVars
  <2> QED BY <2>1, <2>2 DEF FreshInv
<1>2. EdgesMirror /\ EdgesMirror'
  BY DEF EdgeInv
<1> QED BY <1>1, <1>2, RequestKeepsFresh, ContinueKeepsFresh DEF Next

-----------------------------------------------------------------------------
(***************************************************************************)
(* What the invariant implies.                                             *)
(***************************************************************************)
LEMMA InitFresh ==
    ASSUME Init
    PROVE  FreshInv
<1>1. NodesOK /\ EdgesDescend /\ StaleEdgesPending /\ CleanIsCurrent
  BY DEF Init, NodesOK, EdgesDescend, StaleEdgesPending, CleanIsCurrent
<1>2. StackOK
  BY DEF Init, StackOK
<1> QED BY <1>1, <1>2 DEF FreshInv, GraphFresh

\* Every callback that runs, on top or waiting, is in order.
LEMMA EvaluationsOK ==
    ASSUME CallInv, FreshInv, NEW i \in DOMAIN frames, frames[i].op = "evaluate"
    PROVE  EvaluateOK(frames[i])
<1>1. /\ frames \in Seq(Frame) /\ frames # <<>> /\ Top = frames[Len(frames)] /\ Len(frames) \in Nat
      /\ i \in 1..Len(frames)
  BY TopFacts DEF CallInv, TypeOK, CallTypeOK
<1>2. CASE returning # None
  <2>1. PICK h \in Handle :
           Waiting(frames, h, returning.status = "ok", returning.value_changed)
    BY <1>1, <1>2 DEF FreshInv, StackOK
  <2> QED BY <2>1 DEF Waiting, FrameWaits
<1>3. CASE returning = None /\ i = Len(frames)
  BY <1>1, <1>3, RunningTop DEF FreshInv, FrameRuns
<1>4. CASE returning = None /\ i # Len(frames)
  <2>1. /\ Len(Front(frames)) = Len(frames) - 1 /\ Front(frames) \in Seq(Frame)
        /\ \A j \in 1..(Len(frames) - 1) : Front(frames)[j] = frames[j]
    BY <1>1, StackTop
  <2>2. i \in DOMAIN Front(frames) /\ Front(frames)[i] = frames[i]
    BY <1>1, <1>4, <2>1
  <2>3. Waiting(Front(frames), Top.node, FALSE, FALSE)
    BY <1>1, <1>4, RunningTop DEF FreshInv
  <2> QED BY <2>2, <2>3 DEF Waiting, FrameWaits
<1> QED BY <1>2, <1>3, <1>4

LEMMA FreshStates ==
    ASSUME CallInv, FreshInv
    PROVE  /\ CleanIsCurrent /\ StaleEdgesPending /\ SuccessLeavesNodeClean
           /\ EvaluationReadsStayCurrent /\ EvaluatingNodeIsDirty /\ OldValueStillCached
<1>1. CleanIsCurrent /\ StaleEdgesPending
  BY DEF FreshInv, GraphFresh
<1>2. SuccessLeavesNodeClean
  <2> SUFFICES ASSUME frames = <<>>, returning # None, returning.status = "ok"
               PROVE  /\ state[call.node] = "Clean" /\ value[call.node] # None
                      /\ \A d \in active_dependencies[call.node] : state[d] = "Clean"
    BY DEF SuccessLeavesNodeClean
  <2>1. call.node \in NodeId /\ state[call.node] = "Clean"
    BY DEF FreshInv, StackOK, Live
  <2> QED BY <1>1, <2>1 DEF FreshInv, GraphFresh, NodesOK, StaleEdgesPending
<1>3. EvaluationReadsStayCurrent
  BY EvaluationsOK DEF EvaluationReadsStayCurrent, EvaluateOK
<1>4. EvaluatingNodeIsDirty
  BY EvaluationsOK DEF EvaluatingNodeIsDirty, EvaluateOK
<1>5. OldValueStillCached
  BY EvaluationsOK DEF OldValueStillCached, EvaluateOK
<1> QED BY <1>1, <1>2, <1>3, <1>4, <1>5

\* What a step makes usable is what it evaluates.
StaysDirty ==
    \A n \in NodeId : state[n] = "Dirty" /\ state'[n] \notin {"Dirty", "Absent"} =>
        Running("evaluate") /\ Top.node = n

LEMMA BroughtUpToDateStaysDirty ==
    ASSUME CallInv, EdgesMirror, FreshInv, CallInv', EdgesMirror', NEW n \in NodeId,
           NEW changed \in BOOLEAN, BroughtUpToDate(n, changed)
    PROVE  \A m \in NodeId \ {n} : state[m] = "Dirty" => state'[m] = "Dirty"
<1>1. \A m \in NodeId \ {n} : KeptBeside(n, changed, m)
  BY BroughtUpToDateStates DEF CallInv, TypeOK, FreshInv, GraphFresh
<1> QED BY <1>1 DEF KeptBeside

LEMMA StepKeepsDirty ==
    ASSUME CallInv, EdgeInv, FreshInv, CallInv', EdgeInv', [Next]_vars
    PROVE  StaysDirty
<1>1. /\ GraphTypeOK /\ EdgesMirror /\ EdgesMirror' /\ NodesOK
  BY DEF CallInv, TypeOK, EdgeInv, FreshInv, GraphFresh
<1>2. ASSUME UNCHANGED state PROVE StaysDirty
  BY <1>2 DEF StaysDirty
<1>3. ASSUME NEW v \in Storage, AddSource(v) PROVE StaysDirty
  <2>1. kind[next_node_id] = "Absent" /\ next_node_id \in NodeId
    BY <1>3, NodeIdAssumption DEF AddSource, EdgeInv, NextIdUnused
  <2>2. state[next_node_id] = "Absent"
    BY <1>1, <2>1 DEF NodesOK
  <2> QED BY <1>1, <1>3, <2>2 DEF AddSource, StaysDirty, GraphTypeOK
<1>4. ASSUME NEW r \in Rules, AddDerived(r) PROVE StaysDirty
  BY <1>1, <1>4 DEF AddDerived, StaysDirty, GraphTypeOK
<1>5. \A id, m \in NodeId :
         state[m] = "Dirty" => StatesAfterMarkChanged(dependents, state, id)[m] = "Dirty"
  BY <1>1, MarkedNodes
<1>6. ASSUME NEW id \in NodeId, NEW v \in Storage, SetSourceValue(id, v) PROVE StaysDirty
  <2>1. [state EXCEPT ![id] = "Clean"] = state
    BY <1>1, <1>6 DEF SetSourceValue, NodesOK, GraphTypeOK
  <2>2. state' = state \/ state' = StatesAfterMarkChanged(dependents, state, id)
    BY <1>6, <2>1 DEF SetSourceValue
  <2> QED BY <1>5, <2>2 DEF StaysDirty
<1>7. ASSUME NEW id \in NodeId, MarkChanged(id) PROVE StaysDirty
  BY <1>5, <1>7 DEF MarkChanged, StaysDirty
<1>8. ASSUME NEW id \in NodeId, RemoveNode(id) PROVE StaysDirty
  <2>1. state' = [StatesAfterMarkChanged(dependents, state, id) EXCEPT ![id] = "Absent"]
    BY <1>8 DEF RemoveNode
  <2>2. StatesAfterMarkChanged(dependents, state, id) \in [NodeId -> NodeState \cup {"Absent"}]
    BY <1>1, MarkedStatesType DEF GraphTypeOK
  <2> QED BY <1>5, <2>1, <2>2 DEF StaysDirty
<1>9. ASSUME ValidationSettles PROVE StaysDirty
  <2>1. PICK n \in NodeId : n = Top.node /\ kind[n] = "Derived"
    BY <1>9, TopFacts DEF ValidationSettles, Running
  <2>2. BroughtUpToDate(n, FALSE) /\ state[n] # "Dirty"
    BY <1>1, <1>9, <2>1, SettlesBringsUpToDate
  <2> QED BY <1>1, <2>2, BroughtUpToDateStaysDirty DEF StaysDirty
<1>10. ASSUME NEW output \in Storage \cup {None}, RuleCommits(output) PROVE StaysDirty
  <2>1. PICK n \in NodeId : n = Top.node /\ kind[n] = "Derived"
    BY <1>10, TopFacts DEF RuleCommits, Running
  <2>2. PICK changed \in BOOLEAN : BroughtUpToDate(n, changed)
    BY <1>1, <1>10, <2>1, CommitBringsUpToDate
  <2>3. \A m \in NodeId \ {n} : state[m] = "Dirty" => state'[m] = "Dirty"
    BY <1>1, <2>2, BroughtUpToDateStaysDirty
  <2> QED BY <1>10, <2>1, <2>3 DEF StaysDirty, RuleCommits
<1>11. CASE Request
  BY <1>2, <1>3, <1>4, <1>6, <1>7, <1>8, <1>11 DEF Request, ReadValue, UpdateNode, graphVars
<1>12. CASE Continue
  BY <1>2, <1>9, <1>10, <1>12
     DEF Continue, ValidateDependency, DependencyValidated, ValidationRecomputes,
         ValidationFails, RuleReads, RuleObserves, RuleFails, RulePanics, RuleUnwinds,
         RuleRefused, Abandon, ReturnToCaller, graphVars
<1> QED BY <1>2, <1>11, <1>12 DEF Next, vars, graphVars

-----------------------------------------------------------------------------
(***************************************************************************)
(* The theorems.                                                           *)
(***************************************************************************)
\* With rules that hold handles of older nodes only, the frames of a call and the states
\* of the nodes fit together in every reachable state.
THEOREM FreshnessKept == ASSUME OlderHandles PROVE Spec => [](CallInv /\ EdgeInv /\ FreshInv)
<1>1. Init => CallInv /\ EdgeInv /\ FreshInv
  <2>1. Init => EdgeInv
    BY DEF Init, EdgeInv, NextIdUnused, EdgesMirror
  <2> QED BY <2>1, InitCallInv, InitFresh
<1>2. CallInv /\ EdgeInv /\ FreshInv /\ [Next]_vars => (CallInv /\ EdgeInv /\ FreshInv)'
  <2>1. CallInv /\ [Next]_vars => CallInv'
    BY StepKeepsCallInv
  <2>2. CallInv /\ EdgeInv /\ [Next]_vars => EdgeInv'
    BY StepKeepsEdges
  <2> QED BY <2>1, <2>2, StepKeepsFresh
<1> QED BY <1>1, <1>2, PTL DEF Spec

\* A cache that is not Dirty was computed from the values its dependencies have now,
\* whatever was set, marked, removed, evaluated, or failed half-way since.
THEOREM CachesCurrent == ASSUME OlderHandles PROVE Spec => []CleanIsCurrent
<1>1. CallInv /\ FreshInv => CleanIsCurrent
  BY FreshStates
<1> QED BY <1>1, FreshnessKept, PTL

\* A node whose dependency is stale is stale itself with the edge pending, and no edge
\* into a Clean node is pending, in the middle of calls too.
THEOREM StalenessPending == ASSUME OlderHandles PROVE Spec => []StaleEdgesPending
<1>1. CallInv /\ FreshInv => StaleEdgesPending
  BY FreshStates
<1> QED BY <1>1, FreshnessKept, PTL

\* A read_value or update_node that succeeds leaves its node Clean with a value, and so is
\* all that it depends on: nothing stale is handed out.
THEOREM ReadsAreClean == ASSUME OlderHandles PROVE Spec => []SuccessLeavesNodeClean
<1>1. CallInv /\ FreshInv => SuccessLeavesNodeClean
  BY FreshStates
<1> QED BY <1>1, FreshnessKept, PTL

\* What a callback has read stays Clean with the value it was given until it returns,
\* whatever the calls nested in its later reads recompute.
THEOREM ReadsHold == ASSUME OlderHandles PROVE Spec => []EvaluationReadsStayCurrent
<1>1. CallInv /\ FreshInv => EvaluationReadsStayCurrent
  BY FreshStates
<1> QED BY <1>1, FreshnessKept, PTL

\* A node whose callback runs is Dirty with its old cache until the commit, so an error or
\* a panic at any point leaves it to be recomputed, and old_value is what it replaces.
THEOREM EvaluatingStaysDirty ==
    ASSUME OlderHandles PROVE Spec => [](EvaluatingNodeIsDirty /\ OldValueStillCached)
<1>1. CallInv /\ FreshInv => EvaluatingNodeIsDirty /\ OldValueStillCached
  BY FreshStates
<1> QED BY <1>1, FreshnessKept, PTL

\* No validation and no propagation of "unchanged" makes a Dirty node usable: only the end
\* of its own callback does.
THEOREM DirtyIsEvaluated == ASSUME OlderHandles PROVE Spec => DirtyNeedsEvaluation
<1>1. /\ CallInv /\ EdgeInv /\ FreshInv /\ (CallInv /\ EdgeInv /\ FreshInv)' /\ [Next]_vars
      => [StaysDirty]_vars
  BY StepKeepsDirty
<1>2. DirtyNeedsEvaluation <=> [][StaysDirty]_vars
  BY DEF DirtyNeedsEvaluation, StaysDirty
<1> QED BY <1>1, <1>2, FreshnessKept, PTL DEF Spec
=============================================================================
