------------------------ MODULE AttributeGraph_proofs ------------------------
(***************************************************************************)
(* Theorems about AttributeGraph, for every value of its constants.        *)
(***************************************************************************)
EXTENDS GraphProperties, TLAPS, FiniteSetTheorems, WellFoundedInduction

-----------------------------------------------------------------------------
(***************************************************************************)
(* The stack of frames.                                                    *)
(***************************************************************************)
\* What is below and what is on top of a stack.
LEMMA FrontType ==
    ASSUME NEW S, NEW s \in Seq(S)
    PROVE  Front(s) \in Seq(S)
<1>1. CASE s = <<>>
  BY <1>1 DEF Front
<1>2. CASE s # <<>>
  BY <1>2 DEF Front
<1> QED BY <1>1, <1>2

LEMMA LastType ==
    ASSUME NEW S, NEW s \in Seq(S), s # <<>>
    PROVE  Last(s) \in S
BY DEF Last

\* The elements of a stack after a pop, a push, and a replacement of its top.
LEMMA FrontElements ==
    ASSUME NEW S, NEW s \in Seq(S), s # <<>>
    PROVE  /\ Len(Front(s)) = Len(s) - 1
           /\ Len(s) \in Nat \ {0}
           /\ \A i \in 1..(Len(s) - 1) : Front(s)[i] = s[i]
<1>1. Len(s) \in Nat \ {0}
  OBVIOUS
<1>2. Front(s) = [i \in 1..(Len(s) - 1) |-> s[i]]
  BY <1>1 DEF Front
<1> QED BY <1>1, <1>2

LEMMA AppendElements ==
    ASSUME NEW S, NEW s \in Seq(S), NEW e \in S
    PROVE  /\ Append(s, e) \in Seq(S)
           /\ Append(s, e) # <<>>
           /\ Len(Append(s, e)) = Len(s) + 1
           /\ Len(s) \in Nat
           /\ \A i \in 1..Len(s) : Append(s, e)[i] = s[i]
           /\ Append(s, e)[Len(s) + 1] = e
           /\ Last(Append(s, e)) = e
<1>1. /\ Append(s, e) \in Seq(S)
      /\ Len(Append(s, e)) = Len(s) + 1
      /\ Len(s) \in Nat
      /\ \A i \in 1..Len(s) : Append(s, e)[i] = s[i]
      /\ Append(s, e)[Len(s) + 1] = e
  OBVIOUS
<1>2. Append(s, e) # <<>>
  BY <1>1
<1> QED BY <1>1, <1>2 DEF Last

LEMMA ReplaceElements ==
    ASSUME NEW S, NEW s \in Seq(S), s # <<>>, NEW e \in S
    PROVE  /\ Append(Front(s), e) \in Seq(S)
           /\ Append(Front(s), e) # <<>>
           /\ Len(Append(Front(s), e)) = Len(s)
           /\ Len(s) \in Nat \ {0}
           /\ \A i \in 1..(Len(s) - 1) : Append(Front(s), e)[i] = s[i]
           /\ Append(Front(s), e)[Len(s)] = e
           /\ Last(Append(Front(s), e)) = e
<1> DEFINE b == Front(s)
<1>1. b \in Seq(S) /\ Len(b) = Len(s) - 1 /\ Len(s) \in Nat \ {0}
      /\ \A i \in 1..(Len(s) - 1) : b[i] = s[i]
  BY FrontType, FrontElements
<1>2. /\ Append(b, e) \in Seq(S)
      /\ Append(b, e) # <<>>
      /\ Len(Append(b, e)) = Len(b) + 1
      /\ \A i \in 1..Len(b) : Append(b, e)[i] = b[i]
      /\ Append(b, e)[Len(b) + 1] = e
      /\ Last(Append(b, e)) = e
  BY <1>1, AppendElements
<1> QED BY <1>1, <1>2

\* The frame on top, by the function it belongs to.
LEMMA TopType ==
    ASSUME CallTypeOK, frames # <<>>
    PROVE  /\ Front(frames) \in Seq(Frame)
           /\ Top \in Frame
           /\ Top.op = "validate" => Top \in ValidateFrame
           /\ Top.op = "evaluate" => Top \in EvaluateFrame
<1>1. Front(frames) \in Seq(Frame)
  BY FrontType DEF CallTypeOK
<1>2. Top \in Frame
  BY LastType DEF CallTypeOK, Top
<1> QED BY <1>1, <1>2 DEF Frame, ValidateFrame, EvaluateFrame

-----------------------------------------------------------------------------
(***************************************************************************)
(* Type correctness.                                                       *)
(***************************************************************************)
LEMMA MarkedStatesType ==
    ASSUME NEW deps, NEW st \in [NodeId -> NodeState \cup {"Absent"}], NEW pend, NEW d
    PROVE  /\ StatesAfterMarkChanged(deps, st, d) \in [NodeId -> NodeState \cup {"Absent"}]
           /\ StatesAfterMarkUnchanged(deps, st, pend, d) \in [NodeId -> NodeState \cup {"Absent"}]
BY DEF StatesAfterMarkChanged, StatesAfterMarkUnchanged, NodeState

LEMMA MarkedPendingType ==
    ASSUME NEW deps, NEW st, NEW pend \in SUBSET (NodeId \X NodeId), NEW d
    PROVE  /\ PendingAfterMarkChanged(deps, pend, d) \in SUBSET (NodeId \X NodeId)
           /\ PendingAfterMarkUnchanged(deps, st, pend, d) \in SUBSET (NodeId \X NodeId)
BY DEF PendingAfterMarkChanged, PendingAfterMarkUnchanged

-----------------------------------------------------------------------------
(***************************************************************************)
(* The shape of a call.                                                    *)
(*                                                                         *)
(* TypeOK alone is not inductive: that the value handed to a callback      *)
(* exists, for instance, rests on the frame below being the one that asked *)
(* for it.  CallInv adds what ties the frames together: they are about     *)
(* derived nodes of the graph, a callback waits for the node of the frame  *)
(* above it, and a result "ok" is about the node that was asked for.       *)
(***************************************************************************)
\* fs is a stack whose top waits for the node or handle h.
WaitsFor(fs, h) ==
    \A i \in DOMAIN fs :
        /\ kind[fs[i].node] = "Derived"
        /\ fs[i].op = "evaluate" =>
              /\ fs[i].dependencies_read \subseteq Live
              /\ fs[i].reading = IF i = Len(fs) THEN h ELSE fs[i + 1].node

FramesLinked == frames # <<>> => WaitsFor(frames, Top.reading)

ReturningOK ==
    Delivering("evaluate") /\ returning.status = "ok" => Top.reading \in Live

IdleOK == Idle => frames = <<>> /\ returning = None

CallInv == TypeOK /\ FramesLinked /\ ReturningOK /\ IdleOK

\* The recursion is entered at h from the frames fs, in any of its functions, or refuses
\* h right away.
Enters(h, fs) ==
    \/ \E e \in Error : Answer(Err(e), fs)
    \/ ValidateForRead(h, fs)
    \/ h \in NodeId /\ kind[h] = "Derived" /\ (ValidateDerived(h, fs) \/ Recompute(h, fs))

\* It answers at once, with "ok" only for a node of the graph, or pushes a frame for h.
Answered(h, fs) ==
    /\ frames' = fs
    /\ returning' \in Outcome
    /\ returning'.status = "ok" => h \in Live

Pushed(h, fs) ==
    /\ returning' = None
    /\ kind[h] = "Derived"
    /\ \E f \in Frame :
          /\ frames' = Append(fs, f)
          /\ f.node = h
          /\ f.op = "evaluate" => f.dependencies_read = {} /\ f.reading = None

LEMMA Entered ==
    ASSUME GraphTypeOK, CallTypeOK, NEW h \in Handle, NEW fs \in Seq(Frame), Enters(h, fs)
    PROVE  /\ evaluation_stack' \in Seq(NodeId)
           /\ Answered(h, fs) \/ Pushed(h, fs)
<1> DEFINE Goal == evaluation_stack' \in Seq(NodeId) /\ (Answered(h, fs) \/ Pushed(h, fs))
<1>1. ASSUME NEW e \in Error, Answer(Err(e), fs) PROVE Goal
  BY <1>1 DEF Answer, CallTypeOK, Outcome, Err, Answered
<1>2. ASSUME h \in Live, Answer(Ok(FALSE), fs) PROVE Goal
  BY <1>2 DEF Answer, CallTypeOK, Outcome, Ok, Answered
<1>3. HandleError(h) \in Error /\ "CycleDetected" \in Error
  BY DEF HandleError, Error
<1>4. ASSUME h \in NodeId, kind[h] = "Derived", CallRule(h, fs) PROVE Goal
  <2> DEFINE f == [op |-> "evaluate", node |-> h, old_value |-> value[h],
                   dependencies_read |-> {}, seen |-> [g \in Handle |-> None],
                   reading |-> None]
  <2>1. f \in Frame
    BY <1>4 DEF Frame, EvaluateFrame, GraphTypeOK
  <2>2. f.node = h /\ f.dependencies_read = {} /\ f.reading = None
    OBVIOUS
  <2>3. frames' = Append(fs, f) /\ returning' = None /\ evaluation_stack' \in Seq(NodeId)
    BY <1>4 DEF CallRule, CallTypeOK
  <2> QED BY <1>4, <2>1, <2>2, <2>3 DEF Pushed
<1>5. ASSUME h \in NodeId, kind[h] = "Derived", Recompute(h, fs) PROVE Goal
  BY <1>1, <1>3, <1>4, <1>5 DEF Recompute
<1>6. ASSUME h \in NodeId, kind[h] = "Derived", ValidateDerived(h, fs) PROVE Goal
  <2> DEFINE f == [op |-> "validate", node |-> h, todo |-> active_dependencies[h],
                   dependency_changed |-> FALSE]
  <2>1. f \in Frame
    BY <1>6 DEF Frame, ValidateFrame, GraphTypeOK
  <2>2. f.node = h /\ f.op # "evaluate"
    OBVIOUS
  <2>3. CASE frames' = Append(fs, f) /\ returning' = None /\ UNCHANGED evaluation_stack
    BY <1>6, <2>1, <2>2, <2>3 DEF CallTypeOK, Pushed
  <2>4. h \in Live
    BY <1>6 DEF Live
  <2> QED BY <1>2, <1>5, <1>6, <2>3, <2>4 DEF ValidateDerived
<1>7. ASSUME ValidateForRead(h, fs) PROVE Goal
  <2>1. h \in Live => kind[h] \in {"Source", "Derived"} /\ h \in NodeId
    BY DEF Live, GraphTypeOK
  <2> QED BY <1>1, <1>2, <1>3, <1>6, <1>7, <2>1 DEF ValidateForRead
<1> QED BY <1>1, <1>5, <1>6, <1>7 DEF Enters

-----------------------------------------------------------------------------
(***************************************************************************)
(* The three ways in which a step changes the frames.                      *)
(***************************************************************************)
\* The stack below the top waits for the node of the top.
LEMMA FrontWaits ==
    ASSUME CallInv, frames # <<>>
    PROVE  WaitsFor(Front(frames), Top.node)
<1>1. frames \in Seq(Frame)
  BY DEF CallInv, TypeOK, CallTypeOK
<1>2. WaitsFor(frames, Top.reading)
  BY DEF CallInv, FramesLinked
<1>3. /\ Len(Front(frames)) = Len(frames) - 1
      /\ Len(frames) \in Nat \ {0}
      /\ \A i \in 1..(Len(frames) - 1) : Front(frames)[i] = frames[i]
      /\ Front(frames) \in Seq(Frame)
  BY <1>1, FrontElements, FrontType
<1>4. \A i \in DOMAIN Front(frames) : i \in 1..(Len(frames) - 1)
  BY <1>3
<1>5. Top = frames[Len(frames)]
  BY DEF Top, Last
<1>6. ASSUME NEW i \in DOMAIN Front(frames)
      PROVE  /\ kind[Front(frames)[i].node] = "Derived"
             /\ Front(frames)[i].op = "evaluate" =>
                   /\ Front(frames)[i].dependencies_read \subseteq Live
                   /\ Front(frames)[i].reading = frames[i + 1].node
  <2>1. i \in 1..(Len(frames) - 1) /\ i \in DOMAIN frames /\ i # Len(frames)
    BY <1>1, <1>3, <1>4
  <2> QED BY <1>2, <1>3, <2>1 DEF WaitsFor
<1>7. ASSUME NEW i \in DOMAIN Front(frames)
      PROVE  frames[i + 1].node = IF i = Len(Front(frames)) THEN Top.node
                                  ELSE Front(frames)[i + 1].node
  BY <1>3, <1>4, <1>5
<1> QED BY <1>6, <1>7 DEF WaitsFor

\* The top is replaced by a frame of the same function for the same node.
LEMMA ReplacedWaits ==
    ASSUME CallInv, frames # <<>>, NEW g \in Frame, NEW h,
           g.node = Top.node,
           g.op = "evaluate" => g.dependencies_read \subseteq Live /\ g.reading = h
    PROVE  WaitsFor(Append(Front(frames), g), h)
<1> DEFINE s == Append(Front(frames), g)
<1>1. frames \in Seq(Frame)
  BY DEF CallInv, TypeOK, CallTypeOK
<1>2. WaitsFor(frames, Top.reading)
  BY DEF CallInv, FramesLinked
<1>3. /\ s \in Seq(Frame)
      /\ Len(s) = Len(frames)
      /\ Len(frames) \in Nat \ {0}
      /\ \A i \in 1..(Len(frames) - 1) : s[i] = frames[i]
      /\ s[Len(frames)] = g
  BY <1>1, ReplaceElements
<1>4. Top = frames[Len(frames)]
  BY DEF Top, Last
<1>5. ASSUME NEW i \in DOMAIN s, i # Len(s)
      PROVE  /\ kind[s[i].node] = "Derived"
             /\ s[i].op = "evaluate" => /\ s[i].dependencies_read \subseteq Live
                                        /\ s[i].reading = s[i + 1].node
  <2>1. i \in 1..(Len(frames) - 1) /\ i \in DOMAIN frames
    BY <1>1, <1>3, <1>5
  <2>2. s[i] = frames[i] /\ (i + 1 \in 1..(Len(frames) - 1) \/ i + 1 = Len(frames))
    BY <1>3, <2>1
  <2>3. s[i + 1].node = frames[i + 1].node
    BY <1>3, <1>4, <2>2
  <2> QED BY <1>2, <1>3, <2>1, <2>2, <2>3 DEF WaitsFor
<1>6. kind[g.node] = "Derived"
  BY <1>1, <1>2, <1>3, <1>4 DEF WaitsFor
<1> QED BY <1>3, <1>5, <1>6 DEF WaitsFor

\* A call of the recursion from frames that wait for its node.
LEMMA EnterInv ==
    ASSUME TypeOK, NEW h \in Handle, NEW fs \in Seq(Frame), WaitsFor(fs, h),
           Enters(h, fs), UNCHANGED graphVars, call' \in Call
    PROVE  CallInv'
<1>1. GraphTypeOK'
  BY DEF TypeOK, GraphTypeOK, graphVars
<1>2. kind' = kind /\ Live' = Live
  BY DEF graphVars, Live
<1>3. ~Idle' /\ IdleOK'
  <2>1. call' # None
    BY ConstantsAssumption
  <2> QED BY <2>1 DEF Idle, IdleOK
<1>4. CASE Answered(h, fs)
  <2>1. FramesLinked'
    BY <1>2, <1>4 DEF Answered, FramesLinked, WaitsFor, Top, Last
  <2>2. ReturningOK'
    BY <1>2, <1>4 DEF Answered, ReturningOK, Delivering, Top, Last, WaitsFor
  <2>3. CallTypeOK'
    BY <1>4, Entered DEF Answered, TypeOK, CallTypeOK
  <2> QED BY <1>1, <1>3, <2>1, <2>2, <2>3 DEF CallInv, TypeOK
<1>5. ASSUME NEW f \in Frame, returning' = None, kind[h] = "Derived",
             frames' = Append(fs, f), f.node = h,
             f.op = "evaluate" => f.dependencies_read = {} /\ f.reading = None
      PROVE  CallInv'
  <2>1. /\ frames' \in Seq(Frame)
        /\ Len(frames') = Len(fs) + 1
        /\ Len(fs) \in Nat
        /\ \A i \in 1..Len(fs) : frames'[i] = fs[i]
        /\ frames'[Len(fs) + 1] = f
        /\ Top' = f
    BY <1>5, AppendElements DEF Top
  <2>2. FramesLinked'
    <3> SUFFICES ASSUME NEW i \in 1..(Len(fs) + 1)
                 PROVE  /\ kind[frames'[i].node] = "Derived"
                        /\ frames'[i].op = "evaluate" =>
                              /\ frames'[i].dependencies_read \subseteq Live
                              /\ frames'[i].reading = IF i = Len(frames') THEN Top'.reading
                                                      ELSE frames'[i + 1].node
      BY <1>2, <2>1 DEF FramesLinked, WaitsFor
    <3>1. CASE i = Len(fs) + 1
      BY <1>5, <2>1, <3>1
    <3>2. CASE i \in 1..Len(fs)
      <4>1. i \in DOMAIN fs /\ frames'[i] = fs[i]
        BY <2>1, <3>2
      <4>2. frames'[i + 1].node = IF i = Len(fs) THEN h ELSE fs[i + 1].node
        BY <1>5, <2>1, <3>2
      <4> QED BY <2>1, <3>2, <4>1, <4>2 DEF WaitsFor
    <3> QED BY <2>1, <3>1, <3>2
  <2>3. ReturningOK'
    BY <1>5 DEF ReturningOK, Delivering
  <2>4. CallTypeOK'
    BY <1>5, <2>1, Entered DEF TypeOK, CallTypeOK
  <2> QED BY <1>1, <1>3, <2>2, <2>3, <2>4 DEF CallInv, TypeOK
<1>6. Answered(h, fs) \/ Pushed(h, fs)
  BY Entered DEF TypeOK
<1>7. CASE Pushed(h, fs)
  BY <1>5, <1>7 DEF Pushed
<1> QED BY <1>4, <1>6, <1>7

\* A return: the top frame is popped and its result is on its way.
LEMMA ReturnInv ==
    ASSUME CallInv, frames # <<>>, GraphTypeOK', kind' = kind, call' = call,
           evaluation_stack' \in Seq(NodeId), returning' \in Outcome,
           frames' = Front(frames)
    PROVE  CallInv'
<1>1. Live' = Live
  BY DEF Live
<1>2. frames' \in Seq(Frame) /\ WaitsFor(frames', Top.node)
  BY FrontType, FrontWaits DEF CallInv, TypeOK, CallTypeOK
<1>3. CallTypeOK'
  BY <1>2 DEF CallInv, TypeOK, CallTypeOK
<1>4. IdleOK'
  BY DEF CallInv, IdleOK, Idle
<1>5. FramesLinked'
  BY <1>1, <1>2 DEF FramesLinked, WaitsFor, Top, Last
<1>6. Top.node \in Live
  <2>1. Len(frames) \in DOMAIN frames
    BY FrontElements DEF CallInv, TypeOK, CallTypeOK
  <2>2. kind[Top.node] = "Derived"
    BY <2>1 DEF CallInv, FramesLinked, WaitsFor, Top, Last
  <2>3. Top.node \in NodeId
    BY TopType DEF CallInv, TypeOK, Frame, ValidateFrame, EvaluateFrame
  <2> QED BY <2>2, <2>3 DEF Live
<1>7. ReturningOK'
  BY <1>1, <1>2, <1>6 DEF ReturningOK, Delivering, WaitsFor, Top, Last
<1> QED BY <1>3, <1>4, <1>5, <1>7 DEF CallInv, TypeOK

\* The top frame goes on with a result, or without one.
LEMMA ResumeInv ==
    ASSUME CallInv, frames # <<>>, UNCHANGED <<graphVars, call, evaluation_stack>>,
           NEW g \in Frame, g.node = Top.node, frames' = Append(Front(frames), g),
           g.op = "evaluate" => g.dependencies_read \subseteq Live,
           returning' = None
    PROVE  CallInv'
<1>1. GraphTypeOK' /\ kind' = kind /\ Live' = Live
  BY DEF CallInv, TypeOK, GraphTypeOK, graphVars, Live
<1>2. frames \in Seq(Frame)
  BY DEF CallInv, TypeOK, CallTypeOK
<1>3. frames' \in Seq(Frame) /\ Top' = g
  BY <1>2, ReplaceElements DEF Top
<1>4. WaitsFor(frames', g.reading)
  BY ReplacedWaits
<1>5. FramesLinked'
  BY <1>1, <1>3, <1>4 DEF FramesLinked, WaitsFor
<1>6. CallTypeOK'
  BY <1>3 DEF CallInv, TypeOK, CallTypeOK
<1>7. ReturningOK' /\ IdleOK'
  BY DEF ReturningOK, Delivering, CallInv, IdleOK, Idle
<1> QED BY <1>1, <1>5, <1>6, <1>7 DEF CallInv, TypeOK

\* A step of the consumer between two calls.
LEMMA QuietInv ==
    ASSUME CallInv, Idle, UNCHANGED callVars, GraphTypeOK'
    PROVE  CallInv'
BY DEF CallInv, TypeOK, CallTypeOK, callVars, Idle, IdleOK, FramesLinked, ReturningOK, Delivering

-----------------------------------------------------------------------------
(***************************************************************************)
(* Every step keeps CallInv.                                               *)
(***************************************************************************)
LEMMA RequestKeepsCallInv ==
    ASSUME CallInv, Request
    PROVE  CallInv'
<1> USE DEF NodeState
<1>1. GraphTypeOK /\ CallTypeOK
  BY DEF CallInv, TypeOK
<1>2. ASSUME NEW v \in Storage, AddSource(v) PROVE CallInv'
  BY <1>1, <1>2, QuietInv DEF AddSource, GraphTypeOK
<1>3. ASSUME NEW r \in Rules, AddDerived(r) PROVE CallInv'
  BY <1>1, <1>3, QuietInv DEF AddDerived, GraphTypeOK
<1>4. ASSUME NEW id \in NodeId, NEW v \in Storage, SetSourceValue(id, v) PROVE CallInv'
  <2> DEFINE clean == [state EXCEPT ![id] = "Clean"]
  <2>1. clean \in [NodeId -> NodeState \cup {"Absent"}]
    BY <1>1 DEF GraphTypeOK
  <2>2. state' \in [NodeId -> NodeState \cup {"Absent"}]
    <3>1. state' = clean \/ state' = StatesAfterMarkChanged(dependents, clean, id)
      BY <1>4 DEF SetSourceValue
    <3> HIDE DEF clean
    <3> QED BY <2>1, <3>1, MarkedStatesType
  <2>3. pending_edges' \in SUBSET (NodeId \X NodeId)
    <3>1. \/ pending_edges' = pending_edges
          \/ pending_edges' = PendingAfterMarkChanged(dependents, pending_edges, id)
      BY <1>4 DEF SetSourceValue
    <3> QED BY <1>1, <3>1, MarkedPendingType DEF GraphTypeOK
  <2> QED BY <1>1, <1>4, <2>2, <2>3, QuietInv DEF SetSourceValue, GraphTypeOK, nodeVars
<1>5. ASSUME NEW id \in NodeId, MarkChanged(id) PROVE CallInv'
  <2>1. state' \in [NodeId -> NodeState \cup {"Absent"}]
    BY <1>1, <1>5, MarkedStatesType DEF MarkChanged, GraphTypeOK
  <2>2. pending_edges' \in SUBSET (NodeId \X NodeId)
    BY <1>1, <1>5, MarkedPendingType DEF MarkChanged, GraphTypeOK
  <2> QED BY <1>1, <1>5, <2>1, <2>2, QuietInv DEF MarkChanged, GraphTypeOK, nodeVars
<1>6. ASSUME NEW id \in NodeId, RemoveNode(id) PROVE CallInv'
  <2>1. state' \in [NodeId -> NodeState \cup {"Absent"}]
    BY <1>1, <1>6, MarkedStatesType DEF RemoveNode, GraphTypeOK
  <2>2. pending_edges' \in SUBSET (NodeId \X NodeId)
    BY <1>1, <1>6, MarkedPendingType DEF RemoveNode, GraphTypeOK
  <2>3. /\ active_dependencies' \in [NodeId -> SUBSET NodeId]
        /\ dependents' \in [NodeId -> SUBSET NodeId]
    BY <1>1, <1>6 DEF RemoveNode, GraphTypeOK
  <2> QED BY <1>1, <1>6, <2>1, <2>2, <2>3, QuietInv DEF RemoveNode, GraphTypeOK
<1>7. ASSUME NEW h \in Handle, ReadValue(h) PROVE CallInv'
  <2>1. Enters(h, <<>>) /\ WaitsFor(<<>>, h) /\ <<>> \in Seq(Frame)
    BY <1>7 DEF ReadValue, Enters, WaitsFor
  <2>2. call' \in Call /\ UNCHANGED graphVars
    BY <1>7 DEF ReadValue, Call
  <2> QED BY <2>1, <2>2, EnterInv DEF CallInv
<1>8. ASSUME NEW h \in Handle, UpdateNode(h) PROVE CallInv'
  <2>1. HandleError(h) \in Error /\ "NotDerived" \in Error
    BY DEF HandleError, Error
  <2>2. h \in Live => h \in NodeId /\ kind[h] \in {"Source", "Derived"}
    BY <1>1 DEF Live, GraphTypeOK
  <2>3. Enters(h, <<>>) /\ WaitsFor(<<>>, h) /\ <<>> \in Seq(Frame)
    BY <1>8, <2>1, <2>2 DEF UpdateNode, Enters, WaitsFor
  <2>4. call' \in Call /\ UNCHANGED graphVars
    BY <1>8 DEF UpdateNode, Call
  <2> QED BY <2>3, <2>4, EnterInv DEF CallInv
<1> QED BY <1>2, <1>3, <1>4, <1>5, <1>6, <1>7, <1>8 DEF Request

LEMMA ContinueKeepsCallInv ==
    ASSUME CallInv, Continue
    PROVE  CallInv'
<1>1. GraphTypeOK /\ CallTypeOK
  BY DEF CallInv, TypeOK
<1>2. UNCHANGED graphVars => GraphTypeOK' /\ kind' = kind /\ Live' = Live
  BY <1>1 DEF graphVars, GraphTypeOK, Live
<1>3. frames # <<>> => /\ ~Idle /\ call \in Call
                       /\ Top \in Frame
                       /\ Top.op = "validate" => Top \in ValidateFrame
                       /\ Top.op = "evaluate" => Top \in EvaluateFrame
                       /\ Front(frames) \in Seq(Frame)
  BY <1>1, TopType DEF CallInv, IdleOK, Idle, CallTypeOK
<1>4. Front(evaluation_stack) \in Seq(NodeId)
  BY <1>1, FrontType DEF CallTypeOK
<1>5. frames # <<>> => /\ kind[Top.node] = "Derived"
                       /\ Top.node \in NodeId
                       /\ Top.op = "evaluate" => Top.dependencies_read \subseteq Live
  <2>1. frames # <<>> => Len(frames) \in DOMAIN frames
    BY <1>1, FrontElements DEF CallTypeOK
  <2> QED BY <1>3, <2>1 DEF CallInv, FramesLinked, WaitsFor, Top, Last, Frame, ValidateFrame,
                            EvaluateFrame
<1>6. ASSUME ValidateDependency PROVE CallInv'
  <2>1. PICK d \in Top.todo :
           ValidateForRead(d, Append(Front(frames), [Top EXCEPT !.todo = @ \ {d}]))
    BY <1>6 DEF ValidateDependency
  <2> DEFINE g == [Top EXCEPT !.todo = @ \ {d}]
  <2>2. frames # <<>> /\ Top.op = "validate" /\ Top \in ValidateFrame
    BY <1>3, <1>6 DEF ValidateDependency, Running
  <2>3. g \in Frame /\ g.node = Top.node /\ g.op # "evaluate" /\ d \in Handle
    BY <2>2 DEF Frame, ValidateFrame, Handle
  <2> DEFINE fs == Append(Front(frames), g)
  <2>4. fs \in Seq(Frame)
    BY <1>3, <2>2, <2>3, AppendElements
  <2>5. WaitsFor(fs, d)
    BY <2>2, <2>3, ReplacedWaits
  <2>6. UNCHANGED graphVars /\ call' \in Call
    BY <1>3, <1>6, <2>2 DEF ValidateDependency
  <2>7. Enters(d, fs)
    BY <2>1 DEF Enters
  <2> HIDE DEF fs
  <2> QED BY <2>3, <2>4, <2>5, <2>6, <2>7, EnterInv DEF CallInv
<1>7. ASSUME DependencyValidated PROVE CallInv'
  <2> DEFINE g == [Top EXCEPT !.dependency_changed = @ \/ returning.value_changed]
  <2>1. frames # <<>> /\ Top \in ValidateFrame /\ returning \in Outcome
    BY <1>1, <1>3, <1>7 DEF DependencyValidated, Delivering, CallTypeOK
  <2>2. returning.value_changed \in BOOLEAN
    <3>1. ASSUME NEW b \in BOOLEAN, returning = Ok(b) PROVE returning.value_changed = b
      BY <3>1 DEF Ok
    <3>2. ASSUME NEW e, returning = Err(e) PROVE returning.value_changed = FALSE
      BY <3>2 DEF Err
    <3>3. returning = Panicked => returning.value_changed = FALSE
      BY DEF Panicked
    <3> QED BY <2>1, <3>1, <3>2, <3>3, Zenon DEF Outcome
  <2>3. g \in Frame /\ g.node = Top.node /\ g.op # "evaluate"
    BY <2>1, <2>2 DEF Frame, ValidateFrame
  <2>4. /\ frames' = Append(Front(frames), g) /\ returning' = None
        /\ UNCHANGED <<graphVars, call, evaluation_stack>>
    BY <1>7 DEF DependencyValidated
  <2> HIDE DEF g
  <2> QED BY <2>1, <2>3, <2>4, ResumeInv
<1>8. ASSUME ValidationRecomputes PROVE CallInv'
  <2>1. frames # <<>> /\ Recompute(Top.node, Front(frames)) /\ UNCHANGED <<graphVars, call>>
    BY <1>8 DEF ValidationRecomputes, Running
  <2>2. Enters(Top.node, Front(frames)) /\ Top.node \in Handle
    BY <1>5, <2>1 DEF Enters, Handle
  <2>3. WaitsFor(Front(frames), Top.node)
    BY <2>1, FrontWaits
  <2> QED BY <1>3, <2>1, <2>2, <2>3, EnterInv DEF CallInv
<1>9. ASSUME ValidationSettles PROVE CallInv'
  <2> DEFINE n == Top.node
             clean == [state EXCEPT ![n] = "Clean"]
             pending == {e \in pending_edges : e[2] # n}
  <2>1. /\ frames # <<>>
        /\ state' = StatesAfterMarkUnchanged(dependents, clean, pending, n)
        /\ pending_edges' = PendingAfterMarkUnchanged(dependents, clean, pending, n)
        /\ returning' = Ok(FALSE) /\ frames' = Front(frames)
        /\ UNCHANGED <<nodeVars, value, active_dependencies, dependents, consumed, call,
                       evaluation_stack>>
    BY <1>9 DEF ValidationSettles, Running, Answer
  <2>2. /\ clean \in [NodeId -> NodeState \cup {"Absent"}]
        /\ pending \in SUBSET (NodeId \X NodeId)
    BY <1>1 DEF GraphTypeOK, NodeState
  <2> HIDE DEF clean, pending
  <2>3. state' \in [NodeId -> NodeState \cup {"Absent"}]
    BY <2>1, <2>2, MarkedStatesType
  <2>4. pending_edges' \in SUBSET (NodeId \X NodeId)
    BY <2>1, <2>2, MarkedPendingType
  <2>5. GraphTypeOK'
    BY <1>1, <2>1, <2>3, <2>4 DEF GraphTypeOK, nodeVars
  <2>6. returning' \in Outcome /\ evaluation_stack' \in Seq(NodeId)
    BY <1>1, <2>1 DEF Outcome, CallTypeOK
  <2>7. kind' = kind /\ call' = call
    BY <2>1 DEF nodeVars
  <2> QED BY <2>1, <2>5, <2>6, <2>7, ReturnInv
<1>10. ASSUME ValidationFails PROVE CallInv'
  <2>1. /\ frames # <<>> /\ returning \in Outcome
        /\ returning' = returning /\ frames' = Front(frames)
        /\ evaluation_stack' = evaluation_stack
        /\ UNCHANGED <<graphVars, call>>
    BY <1>1, <1>10 DEF ValidationFails, Delivering, Answer, CallTypeOK
  <2> QED BY <1>1, <1>2, <2>1, ReturnInv DEF CallTypeOK
<1>11. ASSUME NEW h \in Handle, RuleReads(h) PROVE CallInv'
  <2> DEFINE g == [Top EXCEPT !.reading = h]
  <2>1. frames # <<>> /\ Top.op = "evaluate" /\ Top \in EvaluateFrame
    BY <1>3, <1>11 DEF RuleReads, Running
  <2>2. g \in Frame /\ g.node = Top.node /\ g.dependencies_read \subseteq Live /\ g.reading = h
    BY <1>5, <2>1 DEF Frame, EvaluateFrame
  <2> DEFINE fs == Append(Front(frames), g)
  <2>3. fs \in Seq(Frame)
    BY <1>3, <2>1, <2>2, AppendElements
  <2>4. WaitsFor(fs, h)
    BY <2>1, <2>2, ReplacedWaits
  <2>5. UNCHANGED graphVars /\ call' \in Call
    BY <1>3, <1>11, <2>1 DEF RuleReads
  <2>6. Enters(h, fs)
    <3>1. "SelfDependency" \in Error
      BY DEF Error
    <3> QED BY <1>11, <3>1 DEF RuleReads, Enters
  <2> HIDE DEF fs
  <2> QED BY <2>3, <2>4, <2>5, <2>6, EnterInv DEF CallInv
<1>12. ASSUME RuleObserves PROVE CallInv'
  <2> DEFINE h == Top.reading
             got == Observed(h)
             reads == Recorded(Top.dependencies_read, h, returning)
             g == [Top EXCEPT !.reading = None, !.seen = [@ EXCEPT ![h] = got],
                              !.dependencies_read = reads]
  <2>1. /\ frames # <<>> /\ Top.op = "evaluate" /\ Top \in EvaluateFrame
        /\ returning \in Outcome /\ returning.status \in {"ok", "error", "panic"}
    BY <1>1, <1>3, <1>12 DEF RuleObserves, Delivering, CallTypeOK, Outcome, Ok, Err, Panicked
  <2>2. returning.status = "ok" => h \in Live /\ h \in NodeId
    BY <1>12 DEF RuleObserves, CallInv, ReturningOK, Delivering, Live
  <2>3. returning.status = "error" => returning.error \in Error
    BY <2>1 DEF Outcome, Ok, Err, Panicked
  <2>4. got \in Observation
    BY <1>1, <2>1, <2>2, <2>3 DEF Observed, Observation, GraphTypeOK, Error
  <2>5. reads \subseteq Live /\ reads \subseteq Top.dependencies_read \cup {h}
    BY <1>5, <2>1, <2>2 DEF Recorded
  <2>6. h \in reads => h \in Handle
    BY <2>5 DEF Live, Handle
  <2> HIDE DEF got, reads
  <2>7. g \in EvaluateFrame /\ g.node = Top.node /\ g.dependencies_read \subseteq Live
    <3>1. [Top.seen EXCEPT ![h] = got] \in [Handle -> Observation \cup {None}]
      BY <2>1, <2>4 DEF EvaluateFrame
    <3>2. \A d \in reads : [Top.seen EXCEPT ![h] = got][d] # None
      BY <2>1, <2>4, <2>5, <2>6, ConstantsAssumption DEF EvaluateFrame, Live, Handle
    <3>3. reads \subseteq NodeId
      BY <2>5 DEF Live
    <3> QED BY <2>1, <2>5, <3>1, <3>2, <3>3 DEF EvaluateFrame
  <2>8. /\ frames' = Append(Front(frames), g) /\ returning' = None
        /\ UNCHANGED <<graphVars, call, evaluation_stack>>
    BY <1>12 DEF RuleObserves, reads, got
  <2>9. g \in Frame
    BY <2>7 DEF Frame
  <2> HIDE DEF g
  <2> QED BY <2>1, <2>7, <2>8, <2>9, ResumeInv
<1>13. ASSUME NEW o \in Outcome, frames # <<>>, Abandon(o) PROVE CallInv'
  BY <1>1, <1>2, <1>4, <1>13, ReturnInv DEF Abandon
<1>14. ASSUME NEW e \in Error, RuleFails(e) PROVE CallInv'
  BY <1>13, <1>14 DEF RuleFails, Running, Outcome
<1>15. ASSUME RulePanics \/ RuleUnwinds PROVE CallInv'
  BY <1>13, <1>15 DEF RulePanics, RuleUnwinds, Running, Delivering, Outcome
<1>16. ASSUME NEW output \in Storage \cup {None}, RuleRefused(output) PROVE CallInv'
  <2>1. Refusals(Top.node, Top.dependencies_read, output) \subseteq Error
    BY DEF Refusals, CommitErrors, Error
  <2> QED BY <1>13, <1>16, <2>1 DEF RuleRefused, Running, Outcome
<1>17. ASSUME NEW output \in Storage \cup {None}, RuleCommits(output) PROVE CallInv'
  <2> DEFINE n == Top.node
             reads == Top.dependencies_read
             changed == MeaningfullyChanged(output, Top.old_value)
             new_dependents == DependentsAfterCommit(n, reads)
             clean == [state EXCEPT ![n] = "Clean"]
             pending == {e \in pending_edges : e[2] # n}
             bound == [d \in NodeId |-> IF d \in reads THEN Top.seen[d].value ELSE None]
  <2>1. /\ frames # <<>> /\ Top.op = "evaluate" /\ Top \in EvaluateFrame
        /\ n \in NodeId /\ reads \subseteq NodeId
    BY <1>3, <1>5, <1>17 DEF RuleCommits, Running, EvaluateFrame
  <2>2. output \in Storage
    BY <1>17 DEF RuleCommits, Refusals
  <2>3. active_dependencies' \in [NodeId -> SUBSET NodeId]
    BY <1>1, <1>17, <2>1 DEF RuleCommits, GraphTypeOK
  <2>4. new_dependents \in [NodeId -> SUBSET NodeId] /\ dependents' = new_dependents
    BY <1>1, <1>17, <2>1 DEF RuleCommits, DependentsAfterCommit, GraphTypeOK
  <2>5. value' \in [NodeId -> Storage \cup {None}]
    BY <1>1, <1>17, <2>2 DEF RuleCommits, GraphTypeOK
  <2>6. bound \in [NodeId -> Storage \cup {None}] /\ consumed' = [consumed EXCEPT ![n] = bound]
    <3>1. ASSUME NEW d \in reads PROVE Top.seen[d].value \in Storage \cup {None}
      <4>1. Top.seen[d] \in Observation
        BY <2>1 DEF EvaluateFrame, Handle
      <4> QED BY <4>1 DEF Observation
    <3> QED BY <1>17, <3>1 DEF RuleCommits
  <2>7. consumed' \in [NodeId -> [NodeId -> Storage \cup {None}]]
    <3> HIDE DEF bound
    <3> QED BY <1>1, <2>6 DEF GraphTypeOK
  <2>8. /\ clean \in [NodeId -> NodeState \cup {"Absent"}]
        /\ pending \in SUBSET (NodeId \X NodeId)
    BY <1>1 DEF GraphTypeOK, NodeState
  <2>9. /\ \/ state' = StatesAfterMarkChanged(new_dependents, clean, n)
           \/ state' = StatesAfterMarkUnchanged(new_dependents, clean, pending, n)
        /\ \/ pending_edges' = PendingAfterMarkChanged(new_dependents, pending, n)
           \/ pending_edges' = PendingAfterMarkUnchanged(new_dependents, clean, pending, n)
    BY <1>17 DEF RuleCommits
  <2>10. /\ returning' = Ok(changed) /\ frames' = Front(frames)
         /\ evaluation_stack' = Front(evaluation_stack)
         /\ UNCHANGED <<nodeVars, call>>
    BY <1>17 DEF RuleCommits
  <2>11. returning' \in Outcome
    <3>1. changed \in BOOLEAN
      BY DEF MeaningfullyChanged
    <3> HIDE DEF changed
    <3> QED BY <2>10, <3>1 DEF Outcome
  <2> HIDE DEF clean, pending, new_dependents, bound, changed
  <2>12. /\ state' \in [NodeId -> NodeState \cup {"Absent"}]
         /\ pending_edges' \in SUBSET (NodeId \X NodeId)
    BY <2>8, <2>9, MarkedStatesType, MarkedPendingType
  <2>13. GraphTypeOK' /\ kind' = kind /\ call' = call
    BY <1>1, <2>3, <2>4, <2>5, <2>7, <2>10, <2>12 DEF GraphTypeOK, nodeVars
  <2> QED BY <1>4, <2>1, <2>10, <2>11, <2>13, ReturnInv
<1>18. ASSUME ReturnToCaller PROVE CallInv'
  BY <1>1, <1>2, <1>18 DEF ReturnToCaller, CallInv, TypeOK, CallTypeOK, FramesLinked,
                            ReturningOK, Delivering, IdleOK
<1> QED BY <1>6, <1>7, <1>8, <1>9, <1>10, <1>11, <1>12, <1>14, <1>15, <1>16, <1>17, <1>18
        DEF Continue

-----------------------------------------------------------------------------
(***************************************************************************)
(* The first theorem.                                                      *)
(***************************************************************************)
LEMMA InitCallInv ==
    ASSUME Init
    PROVE  CallInv
<1>1. GraphTypeOK /\ CallTypeOK
  BY DEF Init, GraphTypeOK, CallTypeOK
<1> QED BY <1>1 DEF Init, CallInv, TypeOK, FramesLinked, ReturningOK, Delivering, IdleOK

LEMMA StepKeepsCallInv ==
    ASSUME CallInv, [Next]_vars
    PROVE  CallInv'
<1>1. CASE UNCHANGED vars
  BY <1>1 DEF CallInv, TypeOK, GraphTypeOK, CallTypeOK, FramesLinked, WaitsFor, ReturningOK,
              Delivering, IdleOK, Idle, Live, Top, vars, graphVars, callVars
<1> QED BY <1>1, RequestKeepsCallInv, ContinueKeepsCallInv DEF Next

\* The invariant that carries the others: in every reachable state the frames of the call
\* in progress fit together, whatever the rules read and however they end.
THEOREM CallsWellFormed == Spec => []CallInv
BY InitCallInv, StepKeepsCallInv, PTL DEF Spec

\* Every variable keeps its type: a value handed to a callback is there, a recorded
\* dependency has been seen, and a commit stores a value and not a None.
THEOREM TypeCorrect == Spec => []TypeOK
BY CallsWellFormed, PTL DEF CallInv

-----------------------------------------------------------------------------
(***************************************************************************)
(* The two copies of the edges.  That they agree is inductive once an id   *)
(* that has not been handed out is known to be unused, and a callback to   *)
(* have recorded nodes of the graph only (FramesLinked).                   *)
(***************************************************************************)
NextIdUnused == \A n \in NodeId : n >= next_node_id => kind[n] = "Absent"

EdgeInv == NextIdUnused /\ EdgesMirror

\* A fresh node has no edges, and a node of another kind than "Absent" keeps its own.
LEMMA AddedNodeKeepsEdges ==
    ASSUME CallInv, EdgeInv, NEW k \in {"Source", "Derived"}, next_node_id \in NodeId,
           kind' = [kind EXCEPT ![next_node_id] = k], next_node_id' = next_node_id + 1,
           UNCHANGED <<active_dependencies, dependents>>
    PROVE  EdgeInv'
<1>1. GraphTypeOK /\ \A n \in NodeId : n \in Nat
  BY NodeIdAssumption DEF CallInv, TypeOK
<1>2. kind[next_node_id] = "Absent"
  BY <1>1 DEF EdgeInv, NextIdUnused
<1>3. NextIdUnused'
  BY <1>1 DEF EdgeInv, NextIdUnused, GraphTypeOK
<1>4. Live \subseteq Live'
  BY <1>1, <1>2 DEF Live, GraphTypeOK
<1>5. \A n \in NodeId : n # next_node_id => kind'[n] = kind[n]
  BY <1>1 DEF GraphTypeOK
<1>6. EdgesMirror'
  BY <1>2, <1>4, <1>5 DEF EdgeInv, EdgesMirror
<1> QED BY <1>3, <1>6 DEF EdgeInv

LEMMA RemoveNodeKeepsEdges ==
    ASSUME CallInv, EdgeInv, NEW id \in NodeId, RemoveNode(id)
    PROVE  EdgeInv'
<1>1. GraphTypeOK
  BY DEF CallInv, TypeOK
<1>2. NextIdUnused'
  BY <1>1 DEF EdgeInv, NextIdUnused, RemoveNode, GraphTypeOK
<1>3. Live' = Live \ {id}
  BY <1>1 DEF RemoveNode, Live, GraphTypeOK
<1>4. \A n \in NodeId : kind'[n] = IF n = id THEN "Absent" ELSE kind[n]
  BY <1>1 DEF RemoveNode, GraphTypeOK
<1>5. \A n \in NodeId : active_dependencies'[n] = IF n = id THEN {}
                                                   ELSE active_dependencies[n] \ {id}
  BY DEF RemoveNode, EdgeInv, EdgesMirror
<1>6. \A n \in NodeId : dependents'[n] = IF n = id THEN {} ELSE dependents[n] \ {id}
  BY DEF RemoveNode, EdgeInv, EdgesMirror
<1>7. ASSUME NEW d \in NodeId, NEW n \in NodeId
      PROVE  n \in dependents'[d] <=> d \in active_dependencies'[n]
  <2>1. n \in dependents[d] <=> d \in active_dependencies[n]
    BY DEF EdgeInv, EdgesMirror
  <2>2. n \in dependents'[d] <=> d # id /\ n # id /\ n \in dependents[d]
    BY <1>6
  <2>3. d \in active_dependencies'[n] <=> d # id /\ n # id /\ d \in active_dependencies[n]
    BY <1>5
  <2> QED BY <2>1, <2>2, <2>3
<1>8. ASSUME NEW n \in NodeId, active_dependencies'[n] # {}
      PROVE  kind'[n] = "Derived" /\ active_dependencies'[n] \subseteq Live'
  <2>1. n # id /\ active_dependencies'[n] = active_dependencies[n] \ {id}
    BY <1>5, <1>8
  <2>2. active_dependencies[n] # {}
    BY <1>8, <2>1
  <2>3. kind[n] = "Derived" /\ active_dependencies[n] \subseteq Live
    BY <2>2 DEF EdgeInv, EdgesMirror
  <2> QED BY <1>3, <1>4, <2>1, <2>3
<1> QED BY <1>2, <1>7, <1>8 DEF EdgeInv, EdgesMirror

\* A commit replaces the dependencies of one node on both sides.
LEMMA CommitKeepsEdges ==
    ASSUME CallInv, EdgeInv, NEW output, RuleCommits(output)
    PROVE  EdgeInv'
<1> DEFINE n == Top.node
           reads == Top.dependencies_read
<1>1. GraphTypeOK /\ frames # <<>> /\ Top.op = "evaluate"
  BY DEF CallInv, TypeOK, RuleCommits, Running
<1>2. n \in NodeId /\ reads \subseteq NodeId
  BY <1>1, TopType DEF CallInv, TypeOK, EvaluateFrame
<1>3. kind[n] = "Derived" /\ reads \subseteq Live
  <2>1. Len(frames) \in DOMAIN frames
    BY <1>1, FrontElements DEF CallInv, TypeOK, CallTypeOK
  <2> QED BY <1>1, <2>1 DEF CallInv, FramesLinked, WaitsFor, Top, Last
<1>4. kind' = kind /\ next_node_id' = next_node_id /\ Live' = Live
  BY DEF RuleCommits, nodeVars, Live
<1>5. active_dependencies' = [active_dependencies EXCEPT ![n] = reads]
  BY DEF RuleCommits
<1>6. dependents' = DependentsAfterCommit(n, reads)
  BY DEF RuleCommits
<1> HIDE DEF n, reads
<1>7. \A m \in NodeId : active_dependencies'[m] = IF m = n THEN reads
                                                   ELSE active_dependencies[m]
  BY <1>1, <1>5 DEF GraphTypeOK
<1>8. \A d \in NodeId : dependents'[d] =
          IF d \in active_dependencies[n] \ reads THEN dependents[d] \ {n}
          ELSE IF d \in reads \ active_dependencies[n] THEN dependents[d] \cup {n}
          ELSE dependents[d]
  BY <1>6 DEF DependentsAfterCommit
<1>9. ASSUME NEW d \in NodeId, NEW m \in NodeId
      PROVE  m \in dependents'[d] <=> d \in active_dependencies'[m]
  <2>1. m \in dependents[d] <=> d \in active_dependencies[m]
    BY DEF EdgeInv, EdgesMirror
  <2>2. m \in dependents'[d] <=> IF m = n THEN d \in reads ELSE m \in dependents[d]
    <3>1. n \in dependents[d] <=> d \in active_dependencies[n]
      BY <1>2 DEF EdgeInv, EdgesMirror
    <3>2. CASE d \in active_dependencies[n] \ reads
      BY <1>8, <3>2
    <3>3. CASE d \in reads \ active_dependencies[n]
      BY <1>8, <3>3
    <3>4. CASE d \in reads <=> d \in active_dependencies[n]
      BY <1>8, <3>1, <3>4
    <3> QED BY <3>2, <3>3, <3>4
  <2>3. d \in active_dependencies'[m] <=> IF m = n THEN d \in reads
                                          ELSE d \in active_dependencies[m]
    BY <1>7
  <2> QED BY <2>1, <2>2, <2>3
<1>10. ASSUME NEW m \in NodeId, active_dependencies'[m] # {}
       PROVE  kind'[m] = "Derived" /\ active_dependencies'[m] \subseteq Live'
  BY <1>3, <1>4, <1>7, <1>10 DEF EdgeInv, EdgesMirror
<1> QED BY <1>4, <1>9, <1>10 DEF EdgeInv, EdgesMirror, NextIdUnused

LEMMA StepKeepsEdges ==
    ASSUME CallInv, EdgeInv, [Next]_vars
    PROVE  EdgeInv'
<1>1. ASSUME UNCHANGED <<kind, next_node_id, active_dependencies, dependents>>
      PROVE  EdgeInv'
  BY <1>1 DEF EdgeInv, NextIdUnused, EdgesMirror, Live
<1>2. ASSUME NEW v \in Storage, AddSource(v) PROVE EdgeInv'
  BY <1>2, AddedNodeKeepsEdges DEF AddSource
<1>3. ASSUME NEW r \in Rules, AddDerived(r) PROVE EdgeInv'
  BY <1>3, AddedNodeKeepsEdges DEF AddDerived
<1>4. CASE Request
  BY <1>1, <1>2, <1>3, <1>4, RemoveNodeKeepsEdges
     DEF Request, SetSourceValue, MarkChanged, ReadValue, UpdateNode, nodeVars, graphVars
<1>5. CASE Continue
  BY <1>1, <1>5, CommitKeepsEdges
     DEF Continue, ValidateDependency, DependencyValidated, ValidationRecomputes,
         ValidationSettles, ValidationFails, RuleReads, RuleObserves, RuleFails, RulePanics,
         RuleUnwinds, RuleRefused, Abandon, ReturnToCaller, nodeVars, graphVars
<1> QED BY <1>1, <1>4, <1>5 DEF Next, vars, graphVars

\* The edges a node has as a dependent and the edges it has as a dependency are the same
\* after every commit and every removal, whatever set of nodes an evaluation read.
THEOREM EdgesAgree == Spec => []EdgesMirror
<1>1. Init => EdgeInv
  BY DEF Init, EdgeInv, NextIdUnused, EdgesMirror
<1>2. CallInv /\ EdgeInv /\ [Next]_vars => EdgeInv'
  BY StepKeepsEdges
<1>3. EdgeInv => EdgesMirror
  BY DEF EdgeInv
<1> QED BY <1>1, <1>2, <1>3, CallsWellFormed, PTL DEF Spec
-----------------------------------------------------------------------------
(***************************************************************************)
(* What pending_edges holds are edges of the graph.                        *)
(***************************************************************************)
PendingAreEdges == \A e \in pending_edges : e[2] \in dependents[e[1]]

\* mark_changed makes edges pending that are there.
LEMMA MarkedAreEdges ==
    ASSUME NEW deps, NEW pend, \A e \in pend : e[2] \in deps[e[1]], NEW d
    PROVE  \A e \in PendingAfterMarkChanged(deps, pend, d) : e[2] \in deps[e[1]]
BY DEF PendingAfterMarkChanged

LEMMA StepKeepsPending ==
    ASSUME CallInv, EdgeInv, PendingAreEdges, [Next]_vars
    PROVE  PendingAreEdges'
<1>1. /\ dependents \in [NodeId -> SUBSET NodeId]
      /\ pending_edges \in SUBSET (NodeId \X NodeId)
  BY DEF CallInv, TypeOK, GraphTypeOK
<1>2. ASSUME UNCHANGED dependents, pending_edges' \subseteq pending_edges PROVE PendingAreEdges'
  BY <1>2 DEF PendingAreEdges
<1>3. ASSUME NEW id, UNCHANGED dependents,
             pending_edges' = PendingAfterMarkChanged(dependents, pending_edges, id)
      PROVE  PendingAreEdges'
  BY <1>3, MarkedAreEdges DEF PendingAreEdges
<1>4. ASSUME NEW id \in NodeId, RemoveNode(id) PROVE PendingAreEdges'
  <2>1. ASSUME NEW e \in pending_edges' PROVE e[2] \in dependents'[e[1]]
    <3>1. e \in PendingAfterMarkChanged(dependents, pending_edges, id) /\ e[1] # id /\ e[2] # id
      BY <1>4, <2>1 DEF RemoveNode
    <3>2. e[1] \in NodeId /\ e[2] \in dependents[e[1]]
      BY <1>1, <3>1, MarkedAreEdges DEF PendingAreEdges, PendingAfterMarkChanged
    <3>3. dependents'[e[1]] = dependents[e[1]] \/ dependents'[e[1]] = dependents[e[1]] \ {id}
      BY <1>4, <3>1, <3>2 DEF RemoveNode
    <3> QED BY <3>1, <3>2, <3>3
  <2> QED BY <2>1 DEF PendingAreEdges
<1>5. ASSUME NEW output, RuleCommits(output) PROVE PendingAreEdges'
  <2> DEFINE n == Top.node
             clean == [state EXCEPT ![n] = "Clean"]
             pending == {e \in pending_edges : e[2] # n}
             new == DependentsAfterCommit(n, Top.dependencies_read)
  <2>1. /\ dependents' = new
        /\ \/ pending_edges' = PendingAfterMarkChanged(dependents', pending, n)
           \/ pending_edges' = PendingAfterMarkUnchanged(new, clean, pending, n)
    BY <1>5 DEF RuleCommits
  <2>2. ASSUME NEW e \in pending PROVE e[2] \in dependents'[e[1]]
    <3>1. e[1] \in NodeId /\ e[2] \in dependents[e[1]] /\ e[2] # n
      BY <1>1 DEF PendingAreEdges
    <3> QED BY <2>1, <3>1 DEF DependentsAfterCommit
  <2> HIDE DEF pending, clean, n, new
  <2>3. \A e \in PendingAfterMarkChanged(dependents', pending, n) : e[2] \in dependents'[e[1]]
    BY <2>2, MarkedAreEdges
  <2>4. PendingAfterMarkUnchanged(new, clean, pending, n) \subseteq pending
    BY DEF PendingAfterMarkUnchanged
  <2> QED BY <2>1, <2>2, <2>3, <2>4 DEF PendingAreEdges
<1>6. ASSUME ValidationSettles PROVE PendingAreEdges'
  <2>1. UNCHANGED dependents /\ pending_edges' \subseteq pending_edges
    BY <1>6 DEF ValidationSettles, PendingAfterMarkUnchanged
  <2> QED BY <1>2, <2>1
<1>7. ASSUME NEW id, NEW v, SetSourceValue(id, v) PROVE PendingAreEdges'
  <2>1. /\ UNCHANGED dependents
        /\ \/ pending_edges' = pending_edges
           \/ pending_edges' = PendingAfterMarkChanged(dependents, pending_edges, id)
    BY <1>7 DEF SetSourceValue
  <2> QED BY <1>2, <1>3, <2>1
<1>8. ASSUME NEW id, MarkChanged(id) PROVE PendingAreEdges'
  BY <1>3, <1>8 DEF MarkChanged
<1>9. ASSUME UNCHANGED graphVars PROVE PendingAreEdges'
  BY <1>2, <1>9 DEF graphVars
<1>10. CASE Request
  BY <1>2, <1>4, <1>7, <1>8, <1>9, <1>10 DEF Request, AddSource, AddDerived, ReadValue, UpdateNode
<1>11. CASE Continue
  BY <1>5, <1>6, <1>9, <1>11
     DEF Continue, ValidateDependency, DependencyValidated, ValidationRecomputes,
         ValidationFails, RuleReads, RuleObserves, RuleFails, RulePanics, RuleUnwinds,
         RuleRefused, Abandon, ReturnToCaller
<1> QED BY <1>9, <1>10, <1>11 DEF Next, vars

LEMMA EdgesLive ==
    ASSUME GraphTypeOK, EdgesMirror
    PROVE  \A u \in NodeId : \A v \in dependents[u] : u \in Live /\ v \in Live
<1> SUFFICES ASSUME NEW u \in NodeId, NEW v \in dependents[u]
             PROVE  u \in Live /\ v \in Live
  OBVIOUS
<1>1. v \in NodeId /\ u \in active_dependencies[v]
  BY DEF GraphTypeOK, EdgesMirror
<1>2. kind[v] = "Derived" /\ u \in Live
  BY <1>1 DEF EdgesMirror
<1> QED BY <1>1, <1>2 DEF Live

-----------------------------------------------------------------------------
(***************************************************************************)
(* No cycles.  A set without a bottom after a commit of n would contain n, *)
(* and those of its members that n does not reach would already have been  *)
(* a set without a bottom before.                                          *)
(***************************************************************************)
\* What HasPath says of one node it says of its dependents.
LEMMA PathStart ==
    ASSUME NEW deps, NEW n \in NodeId
    PROVE  HasPath(deps, n, n)
BY DEF HasPath, Downstream

LEMMA PathStep ==
    ASSUME NEW deps, NEW n \in NodeId, NEW e \in NodeId, NEW m \in NodeId,
           HasPath(deps, n, e), m \in deps[e]
    PROVE  HasPath(deps, n, m)
<1> SUFFICES ASSUME NEW K \in SUBSET NodeId, {n} \subseteq K, ClosedUnder(deps, K)
             PROVE  m \in K
  BY DEF HasPath, Downstream
<1>1. e \in K
  BY DEF HasPath, Downstream
<1> QED BY <1>1 DEF ClosedUnder

LEMMA CommitKeepsAcyclic ==
    ASSUME CallInv, EdgesMirror, Acyclic, NEW output, RuleCommits(output)
    PROVE  Acyclic'
<1> DEFINE n == Top.node
           reads == Top.dependencies_read
<1>1. n \in NodeId /\ reads \subseteq NodeId
  BY TopType DEF CallInv, TypeOK, RuleCommits, Running, EvaluateFrame
<1>2. \A d \in reads : d # n /\ ~HasPath(dependents, n, d)
  <2>1. Refusals(n, reads, output) = {}
    BY DEF RuleCommits
  <2>2. CommitErrors(n, reads) = {}
    BY <2>1 DEF Refusals
  <2> QED BY <2>2 DEF CommitErrors
<1>3. active_dependencies' = [active_dependencies EXCEPT ![n] = reads]
  BY DEF RuleCommits
<1> HIDE DEF n, reads
<1>4. \A m \in NodeId : active_dependencies'[m] = IF m = n THEN reads
                                                   ELSE active_dependencies[m]
  BY <1>3 DEF CallInv, TypeOK, GraphTypeOK
<1> SUFFICES ASSUME NEW S \in (SUBSET NodeId) \ {{}},
                    \A m \in S : active_dependencies'[m] \cap S # {}
             PROVE  FALSE
  BY DEF Acyclic
<1>5. n \in S
  BY <1>4 DEF Acyclic
<1> DEFINE T == {m \in S : ~HasPath(dependents, n, m)}
<1>6. T # {}
  BY <1>2, <1>4, <1>5
<1>7. ASSUME NEW m \in T
      PROVE  active_dependencies[m] \cap T # {}
  <2>1. m # n
    BY <1>1, <1>7, PathStart
  <2>2. PICK e \in S : e \in active_dependencies[m]
    BY <1>4, <1>7, <2>1
  <2>3. m \in dependents[e]
    BY <2>2 DEF EdgesMirror
  <2>4. ~HasPath(dependents, n, e)
    BY <1>1, <1>7, <2>3, PathStep
  <2> QED BY <2>2, <2>4
<1>8. T \in (SUBSET NodeId) \ {{}}
  BY <1>6
<1> HIDE DEF T
<1> QED BY <1>7, <1>8 DEF Acyclic

LEMMA StepKeepsAcyclic ==
    ASSUME CallInv, EdgesMirror, Acyclic, [Next]_vars
    PROVE  Acyclic'
<1>1. ASSUME UNCHANGED active_dependencies PROVE Acyclic'
  BY <1>1 DEF Acyclic
<1>2. ASSUME NEW id \in NodeId, RemoveNode(id) PROVE Acyclic'
  <2>1. \A n \in NodeId : active_dependencies'[n] \subseteq active_dependencies[n]
    BY <1>2 DEF RemoveNode
  <2> QED BY <2>1 DEF Acyclic
<1>3. CASE Request
  BY <1>1, <1>2, <1>3
     DEF Request, AddSource, AddDerived, SetSourceValue, MarkChanged, ReadValue, UpdateNode,
         graphVars
<1>4. CASE Continue
  BY <1>1, <1>4, CommitKeepsAcyclic
     DEF Continue, ValidateDependency, DependencyValidated, ValidationRecomputes,
         ValidationSettles, ValidationFails, RuleReads, RuleObserves, RuleFails, RulePanics,
         RuleUnwinds, RuleRefused, Abandon, ReturnToCaller, graphVars
<1> QED BY <1>1, <1>3, <1>4 DEF Next, vars, graphVars

\* The committed dependencies are free of cycles after every evaluation, whatever handles
\* the rules hold of each other and whatever they read: has_path is check enough.
THEOREM NoCycles == Spec => []Acyclic
<1>1. Init => Acyclic
  <2> SUFFICES ASSUME Init, NEW S \in (SUBSET NodeId) \ {{}}
               PROVE  \E n \in S : active_dependencies[n] \cap S = {}
    BY DEF Acyclic
  <2>1. S # {} /\ S \subseteq NodeId
    OBVIOUS
  <2>2. \E n : n \in S
    BY <2>1
  <2> QED BY <2>1, <2>2 DEF Init
<1>2. CallInv /\ EdgesMirror /\ Acyclic /\ [Next]_vars => Acyclic'
  BY StepKeepsAcyclic
<1> QED BY <1>1, <1>2, CallsWellFormed, EdgesAgree, PTL DEF Spec
-----------------------------------------------------------------------------
(***************************************************************************)
(* evaluation_stack, the field of the graph that cycle detection looks at, *)
(* and the frames of the recursion, which it follows through every way in  *)
(* which an evaluation can begin and end; and the old values that the      *)
(* frames keep, which hold because of it.                                  *)
(***************************************************************************)
\* How many callbacks run in the first frames of a stack.
Count(fs, i) == Cardinality(Evaluations(fs, i))

LEMMA CountType ==
    ASSUME NEW fs, NEW i \in Nat
    PROVE  IsFiniteSet(Evaluations(fs, i)) /\ Count(fs, i) \in Nat
<1>1. IsFiniteSet(1..i)
  BY FS_Interval
<1>2. Evaluations(fs, i) \subseteq 1..i
  BY DEF Evaluations
<1>3. IsFiniteSet(Evaluations(fs, i))
  BY <1>1, <1>2, FS_Subset
<1> QED BY <1>3, FS_CardinalityType DEF Count

\* One frame more counts if its callback runs.
LEMMA CountStep ==
    ASSUME NEW fs, NEW i \in Nat \ {0}
    PROVE  Count(fs, i) = IF fs[i].op = "evaluate" THEN Count(fs, i - 1) + 1
                                                   ELSE Count(fs, i - 1)
<1> DEFINE S == Evaluations(fs, i - 1)
<1>1. i - 1 \in Nat /\ IsFiniteSet(S) /\ i \notin S
  BY CountType DEF Evaluations
<1>2. CASE fs[i].op = "evaluate"
  <2>1. Evaluations(fs, i) = S \cup {i}
    BY <1>2 DEF Evaluations
  <2>2. Cardinality(S \cup {i}) = Cardinality(S) + 1
    BY <1>1, FS_AddElement
  <2> QED BY <1>2, <2>1, <2>2 DEF Count
<1>3. CASE fs[i].op # "evaluate"
  <2>1. Evaluations(fs, i) = S
    BY <1>3 DEF Evaluations
  <2> QED BY <1>3, <2>1 DEF Count
<1> QED BY <1>2, <1>3

LEMMA CountGrows ==
    ASSUME NEW fs, NEW i \in Nat, NEW j \in Nat, i <= j
    PROVE  Count(fs, i) <= Count(fs, j)
<1>1. Evaluations(fs, i) \in SUBSET Evaluations(fs, j)
  BY DEF Evaluations
<1> QED BY <1>1, CountType, FS_Subset DEF Count

LEMMA CountPositive ==
    ASSUME NEW fs, NEW k \in Nat, NEW i \in Evaluations(fs, k)
    PROVE  i \in 1..k /\ Count(fs, i) \in 1..Count(fs, k)
<1>1. i \in 1..k /\ fs[i].op = "evaluate"
  BY DEF Evaluations
<1>2. Count(fs, i) = Count(fs, i - 1) + 1
  BY <1>1, CountStep
<1>3. Count(fs, i - 1) \in Nat /\ Count(fs, i) \in Nat /\ Count(fs, k) \in Nat
  BY <1>1, CountType
<1>4. Count(fs, i) <= Count(fs, k)
  BY <1>1, CountGrows
<1> QED BY <1>1, <1>2, <1>3, <1>4

\* Only the functions that the frames belong to count.
LEMMA CountSame ==
    ASSUME NEW fs, NEW gs, NEW k \in Nat, \A j \in 1..k : gs[j].op = fs[j].op
    PROVE  /\ Evaluations(gs, k) = Evaluations(fs, k)
           /\ \A i \in 0..k : Count(gs, i) = Count(fs, i)
<1>1. \A i \in 0..k : Evaluations(gs, i) = Evaluations(fs, i)
  BY DEF Evaluations
<1> QED BY <1>1 DEF Count

-----------------------------------------------------------------------------
(***************************************************************************)
(* A stack of nodes that mirrors a stack of frames.                        *)
(***************************************************************************)
Mirrors(st, fs) ==
    /\ Len(st) = Count(fs, Len(fs))
    /\ \A i \in Evaluations(fs, Len(fs)) : st[Count(fs, i)] = fs[i].node

Distinct(st) == \A i, j \in DOMAIN st : st[i] = st[j] => i = j

LEMMA DistinctFront ==
    ASSUME NEW st \in Seq(NodeId), st # <<>>, Distinct(st)
    PROVE  Distinct(Front(st))
<1>1. /\ Front(st) \in Seq(NodeId) /\ Len(Front(st)) = Len(st) - 1 /\ Len(st) \in Nat \ {0}
      /\ \A i \in 1..(Len(st) - 1) : Front(st)[i] = st[i]
  BY FrontType, FrontElements
<1> DEFINE ft == Front(st)
<1>2. DOMAIN st = 1..Len(st) /\ DOMAIN ft = 1..(Len(st) - 1)
  BY <1>1
<1> HIDE DEF ft
<1> QED BY <1>1, <1>2 DEF Distinct, ft

LEMMA DistinctAppend ==
    ASSUME NEW st \in Seq(NodeId), NEW n \in NodeId, n \notin Range(st), Distinct(st)
    PROVE  Distinct(Append(st, n))
<1> DEFINE at == Append(st, n)
<1>1. /\ Len(at) = Len(st) + 1 /\ Len(st) \in Nat /\ at \in Seq(NodeId)
      /\ \A i \in 1..Len(st) : at[i] = st[i]
      /\ at[Len(st) + 1] = n
  BY AppendElements
<1>2. DOMAIN st = 1..Len(st) /\ DOMAIN at = 1..(Len(st) + 1)
  BY <1>1
<1>3. \A i \in 1..Len(st) : st[i] # n
  BY <1>2 DEF Range
<1> HIDE DEF at
<1>4. SUFFICES ASSUME NEW i \in 1..(Len(st) + 1), NEW j \in 1..(Len(st) + 1), at[i] = at[j]
               PROVE  i = j
  BY <1>2 DEF Distinct, at
<1>5. CASE i \in 1..Len(st) /\ j \in 1..Len(st)
  BY <1>1, <1>2, <1>4, <1>5 DEF Distinct
<1>6. CASE i = Len(st) + 1 \/ j = Len(st) + 1
  BY <1>1, <1>3, <1>4, <1>6
<1> QED BY <1>1, <1>5, <1>6

\* A frame of a validation comes on top.
LEMMA PushValidation ==
    ASSUME NEW st \in Seq(NodeId), NEW fs \in Seq(Frame), NEW f \in Frame,
           f.op # "evaluate", Mirrors(st, fs)
    PROVE  Mirrors(st, Append(fs, f))
<1> DEFINE gs == Append(fs, f)
           k == Len(fs)
<1>1. /\ Len(gs) = k + 1 /\ k \in Nat
      /\ \A i \in 1..k : gs[i] = fs[i]
      /\ gs[k + 1] = f
  BY AppendElements
<1> HIDE DEF gs, k
<1>2. /\ Evaluations(gs, k) = Evaluations(fs, k)
      /\ \A i \in 0..k : Count(gs, i) = Count(fs, i)
  BY <1>1, CountSame
<1>3. Count(gs, k + 1) = Count(gs, k) /\ Evaluations(gs, k + 1) = Evaluations(gs, k)
  BY <1>1, CountStep DEF Evaluations
<1>4. ASSUME NEW i \in Evaluations(fs, k)
      PROVE  st[Count(gs, i)] = gs[i].node
  <2>1. i \in 1..k
    BY DEF Evaluations
  <2> QED BY <1>1, <1>2, <2>1 DEF Mirrors, k
<1>5. Len(st) = Count(gs, k + 1)
  BY <1>1, <1>2, <1>3 DEF Mirrors, k
<1>6. Mirrors(st, gs)
  BY <1>1, <1>2, <1>3, <1>4, <1>5 DEF Mirrors
<1> QED BY <1>6 DEF gs

\* A callback begins.
LEMMA PushEvaluation ==
    ASSUME NEW st \in Seq(NodeId), NEW fs \in Seq(Frame), NEW f \in Frame,
           f.op = "evaluate", f.node \in NodeId, Mirrors(st, fs)
    PROVE  Mirrors(Append(st, f.node), Append(fs, f))
<1> DEFINE gs == Append(fs, f)
           k == Len(fs)
           at == Append(st, f.node)
<1>1. /\ Len(gs) = k + 1 /\ k \in Nat
      /\ \A i \in 1..k : gs[i] = fs[i]
      /\ gs[k + 1] = f
  BY AppendElements
<1>2. /\ Len(at) = Len(st) + 1 /\ Len(st) \in Nat
      /\ \A i \in 1..Len(st) : at[i] = st[i]
      /\ at[Len(st) + 1] = f.node
  BY AppendElements
<1> HIDE DEF gs, k, at
<1>3. /\ Evaluations(gs, k) = Evaluations(fs, k)
      /\ \A i \in 0..k : Count(gs, i) = Count(fs, i)
  BY <1>1, CountSame
<1>4. /\ Count(gs, k + 1) = Count(fs, k) + 1
      /\ Evaluations(gs, k + 1) = Evaluations(fs, k) \cup {k + 1}
  BY <1>1, <1>3, CountStep DEF Evaluations
<1>5. Len(st) = Count(fs, k)
  BY DEF Mirrors, k
<1>6. ASSUME NEW i \in Evaluations(fs, k)
      PROVE  at[Count(gs, i)] = gs[i].node
  <2>1. i \in 1..k /\ Count(fs, i) \in 1..Count(fs, k)
    BY <1>1, CountPositive
  <2>2. st[Count(fs, i)] = fs[i].node
    BY DEF Mirrors, k
  <2> QED BY <1>1, <1>2, <1>3, <1>5, <2>1, <2>2
<1>7. at[Count(gs, k + 1)] = gs[k + 1].node
  BY <1>1, <1>2, <1>4, <1>5
<1> QED BY <1>1, <1>2, <1>4, <1>5, <1>6, <1>7 DEF Mirrors, gs, k, at

\* A frame of a validation goes.
LEMMA PopValidation ==
    ASSUME NEW st \in Seq(NodeId), NEW fs \in Seq(Frame), fs # <<>>,
           Last(fs).op # "evaluate", Mirrors(st, fs)
    PROVE  Mirrors(st, Front(fs))
<1> DEFINE gs == Front(fs)
           k == Len(fs)
<1>1. /\ Len(gs) = k - 1 /\ k \in Nat \ {0} /\ k - 1 \in Nat
      /\ \A i \in 1..(k - 1) : gs[i] = fs[i]
      /\ Last(fs) = fs[k]
  BY FrontElements DEF Last
<1> HIDE DEF gs, k
<1>2. /\ Evaluations(gs, k - 1) = Evaluations(fs, k - 1)
      /\ \A i \in 0..(k - 1) : Count(gs, i) = Count(fs, i)
  BY <1>1, CountSame
<1>3. Count(fs, k) = Count(fs, k - 1)
  BY <1>1, CountStep
<1>4. ASSUME NEW i \in Evaluations(fs, k - 1)
      PROVE  st[Count(gs, i)] = gs[i].node
  <2>1. i \in 1..(k - 1) /\ i \in Evaluations(fs, k)
    BY <1>1 DEF Evaluations
  <2> QED BY <1>1, <1>2, <2>1 DEF Mirrors, k
<1> QED BY <1>1, <1>2, <1>3, <1>4 DEF Mirrors, gs, k

\* A callback ends: its node was on top.
LEMMA PopEvaluation ==
    ASSUME NEW st \in Seq(NodeId), NEW fs \in Seq(Frame), fs # <<>>,
           Last(fs).op = "evaluate", Mirrors(st, fs)
    PROVE  st # <<>> /\ Mirrors(Front(st), Front(fs))
<1> DEFINE gs == Front(fs)
           k == Len(fs)
           ft == Front(st)
<1>1. /\ Len(gs) = k - 1 /\ k \in Nat \ {0} /\ k - 1 \in Nat
      /\ \A i \in 1..(k - 1) : gs[i] = fs[i]
      /\ Last(fs) = fs[k]
  BY FrontElements DEF Last
<1> HIDE DEF gs, k
<1>2. /\ Evaluations(gs, k - 1) = Evaluations(fs, k - 1)
      /\ \A i \in 0..(k - 1) : Count(gs, i) = Count(fs, i)
  BY <1>1, CountSame
<1>3. Count(fs, k) = Count(fs, k - 1) + 1 /\ Count(fs, k - 1) \in Nat
  BY <1>1, CountStep, CountType
<1>4. Len(st) = Count(fs, k)
  BY DEF Mirrors, k
<1>5. st # <<>>
  BY <1>3, <1>4
<1>6. /\ Len(ft) = Len(st) - 1
      /\ \A i \in 1..(Len(st) - 1) : ft[i] = st[i]
  BY <1>5, FrontElements
<1> HIDE DEF ft
<1>7. ASSUME NEW i \in Evaluations(fs, k - 1)
      PROVE  ft[Count(gs, i)] = gs[i].node
  <2>1. i \in 1..(k - 1) /\ Count(fs, i) \in 1..Count(fs, k - 1)
    BY <1>1, CountPositive
  <2>2. i \in Evaluations(fs, k)
    BY <1>1 DEF Evaluations
  <2>3. st[Count(fs, i)] = fs[i].node
    BY <2>2 DEF Mirrors, k
  <2> QED BY <1>1, <1>2, <1>3, <1>4, <1>6, <2>1, <2>3
<1>8. Len(ft) = Count(gs, k - 1)
  BY <1>1, <1>2, <1>3, <1>4, <1>6
<1>9. Mirrors(ft, gs)
  BY <1>1, <1>2, <1>7, <1>8 DEF Mirrors
<1> QED BY <1>5, <1>9 DEF gs, ft

\* The frame on top changes, but not its function or its node.
LEMMA ReplaceTop ==
    ASSUME NEW st \in Seq(NodeId), NEW fs \in Seq(Frame), fs # <<>>, NEW g \in Frame,
           g.op = Last(fs).op, g.node = Last(fs).node, Mirrors(st, fs)
    PROVE  Mirrors(st, Append(Front(fs), g))
<1> DEFINE gs == Append(Front(fs), g)
           k == Len(fs)
<1>1. /\ Len(gs) = k /\ k \in Nat \ {0}
      /\ \A i \in 1..(k - 1) : gs[i] = fs[i]
      /\ gs[k] = g /\ Last(fs) = fs[k]
  BY ReplaceElements DEF Last
<1> HIDE DEF gs, k
<1>2. \A i \in 1..k : gs[i].op = fs[i].op /\ gs[i].node = fs[i].node
  BY <1>1
<1>3. /\ Evaluations(gs, k) = Evaluations(fs, k)
      /\ \A i \in 0..k : Count(gs, i) = Count(fs, i)
  <2>1. k \in Nat
    BY <1>1
  <2>2. \A j \in 1..k : gs[j].op = fs[j].op
    BY <1>2
  <2> QED BY <2>1, <2>2, CountSame
<1>4. ASSUME NEW i \in Evaluations(fs, k)
      PROVE  st[Count(gs, i)] = gs[i].node
  <2>1. i \in 1..k
    BY DEF Evaluations
  <2> QED BY <1>1, <1>2, <1>3, <2>1 DEF Mirrors, k
<1>5. Len(st) = Count(gs, k)
  BY <1>1, <1>3 DEF Mirrors, k
<1>6. Mirrors(st, gs)
  BY <1>1, <1>3, <1>4, <1>5 DEF Mirrors
<1> QED BY <1>6 DEF gs

-----------------------------------------------------------------------------
(***************************************************************************)
(* The steps.                                                              *)
(***************************************************************************)
StackInv == Mirrors(evaluation_stack, frames) /\ Distinct(evaluation_stack)

LEMMA StackInvSays == StackInv <=> EvaluationStackMirrorsFrames
BY DEF StackInv, Mirrors, Distinct, Count, EvaluationStackMirrorsFrames

\* The recursion is entered with fs waiting: it answers, or pushes one frame, and a node
\* together with that of a callback.  The cycle check keeps the nodes apart.
LEMMA EnterMirrorsFrames ==
    ASSUME GraphTypeOK, CallTypeOK, NEW h \in Handle, NEW fs \in Seq(Frame), Enters(h, fs),
           Mirrors(evaluation_stack, fs), Distinct(evaluation_stack)
    PROVE  StackInv'
<1>1. evaluation_stack \in Seq(NodeId)
  BY DEF CallTypeOK
<1>2. ASSUME NEW o, Answer(o, fs) PROVE StackInv'
  BY <1>2 DEF Answer, StackInv, Mirrors, Distinct
<1>3. ASSUME h \in NodeId, kind[h] = "Derived", Recompute(h, fs) PROVE StackInv'
  <2>1. CASE h \notin Range(evaluation_stack)
    <3> DEFINE f == [op |-> "evaluate", node |-> h, old_value |-> value[h],
                     dependencies_read |-> {}, seen |-> [g \in Handle |-> None],
                     reading |-> None]
    <3>1. f \in Frame /\ f.op = "evaluate" /\ f.node = h
      BY <1>3 DEF Frame, EvaluateFrame, GraphTypeOK
    <3>2. frames' = Append(fs, f) /\ evaluation_stack' = Append(evaluation_stack, h)
      BY <1>3, <2>1 DEF Recompute, CallRule
    <3> HIDE DEF f
    <3>3. Mirrors(Append(evaluation_stack, h), Append(fs, f))
      BY <1>1, <1>3, <3>1, PushEvaluation
    <3>4. Distinct(Append(evaluation_stack, h))
      BY <1>1, <1>3, <2>1, DistinctAppend
    <3> QED BY <3>2, <3>3, <3>4 DEF StackInv
  <2> QED BY <1>2, <1>3, <2>1 DEF Recompute
<1>4. ASSUME h \in NodeId, kind[h] = "Derived", ValidateDerived(h, fs) PROVE StackInv'
  <2> DEFINE f == [op |-> "validate", node |-> h, todo |-> active_dependencies[h],
                   dependency_changed |-> FALSE]
  <2>1. f \in Frame /\ f.op # "evaluate"
    BY <1>4 DEF Frame, ValidateFrame, GraphTypeOK
  <2>2. CASE frames' = Append(fs, f) /\ UNCHANGED evaluation_stack
    <3> HIDE DEF f
    <3>1. Mirrors(evaluation_stack, Append(fs, f))
      BY <1>1, <2>1, PushValidation
    <3> QED BY <2>2, <3>1 DEF StackInv
  <2> QED BY <1>2, <1>3, <1>4, <2>2 DEF ValidateDerived
<1>5. ASSUME ValidateForRead(h, fs) PROVE StackInv'
  <2>1. h \in Live => kind[h] \in {"Source", "Derived"} /\ h \in NodeId
    BY DEF Live, GraphTypeOK
  <2> QED BY <1>2, <1>4, <1>5, <2>1 DEF ValidateForRead
<1> QED BY <1>2, <1>3, <1>4, <1>5 DEF Enters

LEMMA RequestKeepsStack ==
    ASSUME CallInv, StackInv, Request
    PROVE  StackInv'
<1>1. GraphTypeOK /\ CallTypeOK
  BY DEF CallInv, TypeOK
<1>2. UNCHANGED callVars => StackInv'
  BY DEF callVars, StackInv, Mirrors, Distinct
<1>3. Idle => Mirrors(evaluation_stack, <<>>) /\ Distinct(evaluation_stack) /\ <<>> \in Seq(Frame)
  BY DEF StackInv, CallInv, IdleOK
<1>4. ASSUME NEW h \in Handle, ReadValue(h) PROVE StackInv'
  <2>1. Idle /\ Enters(h, <<>>)
    BY <1>4 DEF ReadValue, Enters
  <2> QED BY <1>1, <1>3, <2>1, EnterMirrorsFrames
<1>5. ASSUME NEW h \in Handle, UpdateNode(h) PROVE StackInv'
  <2>1. HandleError(h) \in Error /\ "NotDerived" \in Error
    BY DEF HandleError, Error
  <2>2. h \in Live => h \in NodeId /\ kind[h] \in {"Source", "Derived"}
    BY <1>1 DEF Live, GraphTypeOK
  <2>3. Idle /\ Enters(h, <<>>)
    BY <1>5, <2>1, <2>2 DEF UpdateNode, Enters
  <2> QED BY <1>1, <1>3, <2>3, EnterMirrorsFrames
<1> QED BY <1>2, <1>4, <1>5
        DEF Request, AddSource, AddDerived, SetSourceValue, MarkChanged, RemoveNode

LEMMA ContinueKeepsStack ==
    ASSUME CallInv, StackInv, Continue
    PROVE  StackInv'
<1>1. GraphTypeOK /\ CallTypeOK /\ frames \in Seq(Frame) /\ evaluation_stack \in Seq(NodeId)
  BY DEF CallInv, TypeOK, CallTypeOK
<1>2. frames # <<>> => /\ Front(frames) \in Seq(Frame)
                       /\ Top.op = "validate" => Top \in ValidateFrame
                       /\ Top.op = "evaluate" => Top \in EvaluateFrame
  BY <1>1, TopType
\* What comes on top of the stack is a frame, since the types are kept.
<1>0. ASSUME frames # <<>>, NEW g, frames' = Append(Front(frames), g) PROVE g \in Frame
  <2>1. CallInv'
    BY ContinueKeepsCallInv
  <2>2. frames' \in Seq(Frame) /\ Front(frames) \in Seq(Frame)
    BY <1>2, <1>0, <2>1 DEF CallInv, TypeOK, CallTypeOK
  <2>3. Len(frames') = Len(Front(frames)) + 1 /\ frames'[Len(frames')] = g
    BY <1>0, <2>2
  <2> QED BY <2>2, <2>3
\* The frame on top goes on, and may enter the recursion.
<1>3. ASSUME frames # <<>>, NEW g \in Frame, g.op = Top.op, g.node = Top.node
      PROVE  /\ Append(Front(frames), g) \in Seq(Frame)
             /\ Mirrors(evaluation_stack, Append(Front(frames), g))
  BY <1>1, <1>2, <1>3, AppendElements, ReplaceTop DEF Top, StackInv
<1>4. ASSUME frames # <<>>, NEW g \in Frame, g.op = Top.op, g.node = Top.node,
             frames' = Append(Front(frames), g), UNCHANGED evaluation_stack
      PROVE  StackInv'
  BY <1>3, <1>4 DEF StackInv
\* A validation is over.
<1>5. ASSUME frames # <<>>, Top.op = "validate"
      PROVE  Mirrors(evaluation_stack, Front(frames))
  BY <1>1, <1>5, PopValidation DEF Top, StackInv
\* A callback is over.
<1>6. ASSUME frames # <<>>, Top.op = "evaluate", frames' = Front(frames),
             evaluation_stack' = Front(evaluation_stack)
      PROVE  StackInv'
  <2>1. evaluation_stack # <<>> /\ Mirrors(Front(evaluation_stack), Front(frames))
    BY <1>1, <1>6, PopEvaluation DEF Top, StackInv
  <2>2. Distinct(Front(evaluation_stack))
    BY <1>1, <2>1, DistinctFront DEF StackInv
  <2> QED BY <1>6, <2>1, <2>2 DEF StackInv
<1>7. ASSUME ValidateDependency PROVE StackInv'
  <2>1. PICK d \in Top.todo :
           ValidateForRead(d, Append(Front(frames), [Top EXCEPT !.todo = @ \ {d}]))
    BY <1>7 DEF ValidateDependency
  <2> DEFINE g == [Top EXCEPT !.todo = @ \ {d}]
             fs == Append(Front(frames), g)
  <2>2. frames # <<>> /\ Top.op = "validate" /\ Top \in ValidateFrame
    BY <1>2, <1>7 DEF ValidateDependency, Running
  <2>3. g \in Frame /\ g.node = Top.node /\ g.op = Top.op /\ d \in Handle
    BY <2>2 DEF Frame, ValidateFrame, Handle
  <2>4. Enters(d, fs)
    BY <2>1 DEF Enters
  <2> HIDE DEF g
  <2>5. fs \in Seq(Frame) /\ Mirrors(evaluation_stack, fs)
    BY <1>3, <2>2, <2>3
  <2> QED BY <1>1, <2>3, <2>4, <2>5, EnterMirrorsFrames DEF StackInv
<1>8. ASSUME DependencyValidated PROVE StackInv'
  <2> DEFINE g == [Top EXCEPT !.dependency_changed = @ \/ returning.value_changed]
  <2>1. frames # <<>> /\ Top \in ValidateFrame /\ Top.op = "validate"
    BY <1>2, <1>8 DEF DependencyValidated, Delivering
  <2>2. g.node = Top.node /\ g.op = Top.op
    BY <2>1 DEF ValidateFrame
  <2>3. frames' = Append(Front(frames), g) /\ UNCHANGED evaluation_stack
    BY <1>8 DEF DependencyValidated
  <2> HIDE DEF g
  <2>4. g \in Frame
    BY <1>0, <2>1, <2>3
  <2> QED BY <1>4, <2>1, <2>2, <2>3, <2>4
<1>9. ASSUME ValidationRecomputes PROVE StackInv'
  <2>1. /\ frames # <<>> /\ Top.op = "validate" /\ Top \in ValidateFrame
        /\ Recompute(Top.node, Front(frames))
    BY <1>2, <1>9 DEF ValidationRecomputes, Running
  <2>2. kind[Top.node] = "Derived" /\ Top.node \in NodeId /\ Top.node \in Handle
    <3>1. Len(frames) \in DOMAIN frames
      BY <1>1, <2>1, FrontElements
    <3> QED BY <2>1, <3>1 DEF CallInv, FramesLinked, WaitsFor, Top, Last, ValidateFrame, Handle
  <2>3. Enters(Top.node, Front(frames))
    BY <2>1, <2>2 DEF Enters
  <2> QED BY <1>1, <1>2, <1>5, <2>1, <2>2, <2>3, EnterMirrorsFrames DEF StackInv
<1>10. ASSUME ValidationSettles \/ ValidationFails PROVE StackInv'
  <2>1. /\ frames # <<>> /\ Top.op = "validate"
        /\ frames' = Front(frames) /\ UNCHANGED evaluation_stack
    BY <1>10 DEF ValidationSettles, ValidationFails, Running, Delivering, Answer
  <2> QED BY <1>5, <2>1 DEF StackInv
<1>11. ASSUME NEW h \in Handle, RuleReads(h) PROVE StackInv'
  <2> DEFINE g == [Top EXCEPT !.reading = h]
             fs == Append(Front(frames), g)
  <2>1. frames # <<>> /\ Top.op = "evaluate" /\ Top \in EvaluateFrame
    BY <1>2, <1>11 DEF RuleReads, Running
  <2>2. g \in Frame /\ g.node = Top.node /\ g.op = Top.op
    BY <2>1 DEF Frame, EvaluateFrame
  <2>3. Enters(h, fs)
    <3>1. "SelfDependency" \in Error
      BY DEF Error
    <3> QED BY <1>11, <3>1 DEF RuleReads, Enters
  <2> HIDE DEF g
  <2>4. fs \in Seq(Frame) /\ Mirrors(evaluation_stack, fs)
    BY <1>3, <2>1, <2>2
  <2> QED BY <1>1, <2>3, <2>4, EnterMirrorsFrames DEF StackInv
<1>12. ASSUME RuleObserves PROVE StackInv'
  <2>1. frames # <<>> /\ Top.op = "evaluate" /\ Top \in EvaluateFrame
    BY <1>2, <1>12 DEF RuleObserves, Delivering
  <2>2. PICK g : /\ frames' = Append(Front(frames), g) /\ g.op = Top.op /\ g.node = Top.node
                 /\ UNCHANGED evaluation_stack
    BY <1>12, <2>1 DEF RuleObserves, EvaluateFrame
  <2>3. g \in Frame
    BY <1>0, <2>1, <2>2
  <2> QED BY <1>4, <2>1, <2>2, <2>3
<1>13. ASSUME NEW o, frames # <<>>, Top.op = "evaluate", Abandon(o) PROVE StackInv'
  BY <1>6, <1>13 DEF Abandon
<1>14. ASSUME NEW e \in Error, RuleFails(e) PROVE StackInv'
  BY <1>13, <1>14 DEF RuleFails, Running
<1>15. ASSUME RulePanics \/ RuleUnwinds PROVE StackInv'
  BY <1>13, <1>15 DEF RulePanics, RuleUnwinds, Running, Delivering
<1>16. ASSUME NEW output \in Storage \cup {None}, RuleRefused(output) PROVE StackInv'
  BY <1>13, <1>16 DEF RuleRefused, Running
<1>17. ASSUME NEW output \in Storage \cup {None}, RuleCommits(output) PROVE StackInv'
  <2>1. /\ frames # <<>> /\ Top.op = "evaluate" /\ frames' = Front(frames)
        /\ evaluation_stack' = Front(evaluation_stack)
    BY <1>17 DEF RuleCommits, Running
  <2> QED BY <1>6, <2>1
<1>18. ASSUME ReturnToCaller PROVE StackInv'
  BY <1>18 DEF ReturnToCaller, StackInv, Mirrors, Distinct
<1> QED BY <1>7, <1>8, <1>9, <1>10, <1>11, <1>12, <1>14, <1>15, <1>16, <1>17, <1>18 DEF Continue

-----------------------------------------------------------------------------
(***************************************************************************)
(* What the frames remember of the caches.  A value is stored at the end   *)
(* of a callback only, and no other callback runs for the same node then.  *)
(***************************************************************************)
HoldsCache(f) == f.op = "evaluate" => f.old_value = value[f.node]

HoldCaches(fs) == \A i \in DOMAIN fs : HoldsCache(fs[i])

LEMMA HoldCachesSays == HoldCaches(frames) <=> OldValueStillCached
BY DEF HoldCaches, HoldsCache, OldValueStillCached

LEMMA PushHoldsCaches ==
    ASSUME NEW fs \in Seq(Frame), NEW f \in Frame, HoldCaches(fs), HoldsCache(f)
    PROVE  HoldCaches(Append(fs, f))
<1> DEFINE gs == Append(fs, f)
<1>1. /\ Len(gs) = Len(fs) + 1 /\ Len(fs) \in Nat /\ gs \in Seq(Frame)
      /\ \A i \in 1..Len(fs) : gs[i] = fs[i]
      /\ gs[Len(fs) + 1] = f
  BY AppendElements
<1>2. DOMAIN fs = 1..Len(fs) /\ DOMAIN gs = 1..(Len(fs) + 1)
  BY <1>1
<1> HIDE DEF gs
<1>3. ASSUME NEW i \in DOMAIN gs PROVE HoldsCache(gs[i])
  <2>1. i \in 1..Len(fs) \/ i = Len(fs) + 1
    BY <1>1, <1>2
  <2> QED BY <1>1, <1>2, <2>1 DEF HoldCaches
<1> QED BY <1>3 DEF HoldCaches, gs

LEMMA PopHoldsCaches ==
    ASSUME NEW fs \in Seq(Frame), fs # <<>>, HoldCaches(fs)
    PROVE  HoldCaches(Front(fs)) /\ HoldsCache(Last(fs))
<1> DEFINE gs == Front(fs)
<1>1. /\ Len(gs) = Len(fs) - 1 /\ Len(fs) \in Nat \ {0} /\ gs \in Seq(Frame)
      /\ \A i \in 1..(Len(fs) - 1) : gs[i] = fs[i]
  BY FrontElements, FrontType
<1>2. DOMAIN fs = 1..Len(fs) /\ DOMAIN gs = 1..(Len(fs) - 1)
  BY <1>1
<1>3. Last(fs) = fs[Len(fs)] /\ Len(fs) \in DOMAIN fs
  BY <1>1, <1>2 DEF Last
<1> HIDE DEF gs
<1>4. \A i \in DOMAIN gs : i \in DOMAIN fs /\ gs[i] = fs[i]
  BY <1>1, <1>2
<1> QED BY <1>3, <1>4 DEF HoldCaches, gs

\* The frame on top goes on.
LEMMA ReplaceHoldsCaches ==
    ASSUME NEW fs \in Seq(Frame), fs # <<>>, HoldCaches(fs), NEW g \in Frame,
           g.op = Last(fs).op, g.node = Last(fs).node,
           g.op = "evaluate" => g.old_value = Last(fs).old_value
    PROVE  HoldCaches(Append(Front(fs), g))
<1>1. HoldCaches(Front(fs)) /\ HoldsCache(g) /\ Front(fs) \in Seq(Frame)
  BY PopHoldsCaches, FrontType DEF HoldsCache
<1> QED BY <1>1, PushHoldsCaches

\* A callback begins with the cache of its node.
LEMMA EnterHoldsCaches ==
    ASSUME GraphTypeOK, CallTypeOK, NEW h \in Handle, NEW fs \in Seq(Frame), Enters(h, fs),
           HoldCaches(fs), UNCHANGED value
    PROVE  HoldCaches(frames)'
<1>1. ASSUME frames' = fs PROVE HoldCaches(frames)'
  BY <1>1 DEF HoldCaches, HoldsCache
<1>2. ASSUME NEW f \in Frame, HoldsCache(f), frames' = Append(fs, f) PROVE HoldCaches(frames)'
  <2>1. HoldCaches(Append(fs, f))
    BY <1>2, PushHoldsCaches
  <2> QED BY <1>2, <2>1 DEF HoldCaches, HoldsCache
<1>3. ASSUME NEW o, Answer(o, fs) PROVE HoldCaches(frames)'
  BY <1>1, <1>3 DEF Answer
<1>4. ASSUME h \in NodeId, Recompute(h, fs) PROVE HoldCaches(frames)'
  <2> DEFINE f == [op |-> "evaluate", node |-> h, old_value |-> value[h],
                   dependencies_read |-> {}, seen |-> [g \in Handle |-> None],
                   reading |-> None]
  <2>1. f \in Frame /\ HoldsCache(f)
    BY <1>4 DEF Frame, EvaluateFrame, GraphTypeOK, HoldsCache
  <2>2. frames' = Append(fs, f) \/ \E o : Answer(o, fs)
    BY <1>4 DEF Recompute, CallRule
  <2> HIDE DEF f
  <2> QED BY <1>2, <1>3, <2>1, <2>2
<1>5. ASSUME h \in NodeId, ValidateDerived(h, fs) PROVE HoldCaches(frames)'
  <2> DEFINE f == [op |-> "validate", node |-> h, todo |-> active_dependencies[h],
                   dependency_changed |-> FALSE]
  <2>1. f \in Frame /\ HoldsCache(f)
    BY <1>5 DEF Frame, ValidateFrame, GraphTypeOK, HoldsCache
  <2>2. frames' = Append(fs, f) => HoldCaches(frames)'
    <3> HIDE DEF f
    <3> QED BY <1>2, <2>1
  <2> QED BY <1>3, <1>4, <1>5, <2>2 DEF ValidateDerived
<1>6. ASSUME ValidateForRead(h, fs) PROVE HoldCaches(frames)'
  BY <1>3, <1>5, <1>6 DEF ValidateForRead, Live
<1> QED BY <1>3, <1>4, <1>5, <1>6 DEF Enters

\* No two callbacks run for the same node.
LEMMA EvaluatedOnce ==
    ASSUME StackInv, frames \in Seq(Frame),
           NEW i \in Evaluations(frames, Len(frames)), NEW j \in Evaluations(frames, Len(frames)),
           frames[i].node = frames[j].node
    PROVE  i = j
<1> DEFINE k == Len(frames)
<1>1. k \in Nat
  OBVIOUS
<1> HIDE DEF k
<1>2. /\ i \in 1..k /\ Count(frames, i) \in 1..Count(frames, k)
      /\ j \in 1..k /\ Count(frames, j) \in 1..Count(frames, k)
  BY <1>1, CountPositive DEF k
<1>3. Count(frames, i) = Count(frames, j)
  <2>1. evaluation_stack[Count(frames, i)] = evaluation_stack[Count(frames, j)]
    BY DEF StackInv, Mirrors, k
  <2>2. Len(evaluation_stack) = Count(frames, k)
    BY DEF StackInv, Mirrors, k
  <2>3. Count(frames, i) \in 1..Len(evaluation_stack) /\ Count(frames, j) \in 1..Len(evaluation_stack)
    BY <1>2, <2>2
  <2>4. \A a, b \in 1..Len(evaluation_stack) : evaluation_stack[a] = evaluation_stack[b] => a = b
    BY <2>2 DEF StackInv, Distinct
  <2> QED BY <2>1, <2>3, <2>4
<1>4. ASSUME NEW a \in Evaluations(frames, k), NEW b \in Evaluations(frames, k), a < b
      PROVE  Count(frames, a) < Count(frames, b)
  <2>1. a \in 1..k /\ b \in 1..k /\ a \in Nat /\ b - 1 \in Nat /\ a <= b - 1
        /\ frames[b].op = "evaluate"
    BY <1>1, <1>4 DEF Evaluations
  <2>2. Count(frames, a) <= Count(frames, b - 1) /\ Count(frames, b) = Count(frames, b - 1) + 1
    BY <2>1, CountGrows, CountStep
  <2>3. Count(frames, a) \in Nat /\ Count(frames, b - 1) \in Nat
    BY <2>1, CountType
  <2> QED BY <2>2, <2>3
<1>5. Count(frames, i) \in Nat
  BY <1>2, CountType
<1>6. i < j \/ j < i \/ i = j
  BY <1>2
<1> QED BY <1>3, <1>4, <1>5, <1>6 DEF k

\* A callback that waits is not that of the node that is committed.
LEMMA CommitHoldsCaches ==
    ASSUME CallInv, StackInv, HoldCaches(frames), NEW output, RuleCommits(output)
    PROVE  HoldCaches(frames)'
<1> DEFINE fs == Front(frames)
           k == Len(frames)
<1>1. /\ frames # <<>> /\ frames \in Seq(Frame) /\ Top.op = "evaluate"
      /\ frames' = fs /\ value' = [value EXCEPT ![Top.node] = output]
  BY DEF CallInv, TypeOK, CallTypeOK, RuleCommits, Running
<1>2. /\ Len(fs) = k - 1 /\ k \in Nat \ {0} /\ fs \in Seq(Frame)
      /\ \A i \in 1..(k - 1) : fs[i] = frames[i]
      /\ Top = frames[k]
  BY <1>1, FrontElements, FrontType DEF Top, Last
<1>3. DOMAIN fs = 1..(k - 1) /\ DOMAIN frames = 1..k
  BY <1>1, <1>2
<1> HIDE DEF fs, k
<1>4. ASSUME NEW i \in DOMAIN fs, fs[i].op = "evaluate"
      PROVE  fs[i].old_value = value'[fs[i].node]
  <2>1. i \in 1..k /\ i # k /\ fs[i] = frames[i] /\ k \in 1..k
    BY <1>2, <1>3
  <2>2. i \in Evaluations(frames, k) /\ k \in Evaluations(frames, k)
    BY <1>1, <1>2, <1>4, <2>1 DEF Evaluations
  <2>3. frames[i].node # Top.node
    BY <1>1, <1>2, <2>1, <2>2, EvaluatedOnce DEF k
  <2>4. fs[i].node \in NodeId
    BY <1>2, <1>3 DEF Frame, ValidateFrame, EvaluateFrame
  <2>5. value'[fs[i].node] = value[fs[i].node]
    BY <1>1, <2>1, <2>3, <2>4 DEF CallInv, TypeOK, GraphTypeOK
  <2>6. fs[i].old_value = value[fs[i].node]
    BY <1>3, <1>4, <2>1 DEF HoldCaches, HoldsCache
  <2> QED BY <2>5, <2>6
<1> QED BY <1>1, <1>4 DEF HoldCaches, HoldsCache

LEMMA RequestHoldsCaches ==
    ASSUME CallInv, Request
    PROVE  HoldCaches(frames)'
<1>1. GraphTypeOK /\ CallTypeOK
  BY DEF CallInv, TypeOK
<1>2. Idle => frames = <<>> /\ HoldCaches(<<>>) /\ <<>> \in Seq(Frame)
  BY DEF CallInv, IdleOK, HoldCaches
<1>3. ASSUME Idle, UNCHANGED callVars PROVE HoldCaches(frames)'
  BY <1>2, <1>3 DEF callVars, HoldCaches
<1>4. ASSUME NEW h \in Handle, ReadValue(h) PROVE HoldCaches(frames)'
  <2>1. Idle /\ Enters(h, <<>>) /\ UNCHANGED value
    BY <1>4 DEF ReadValue, Enters, graphVars
  <2> QED BY <1>1, <1>2, <2>1, EnterHoldsCaches
<1>5. ASSUME NEW h \in Handle, UpdateNode(h) PROVE HoldCaches(frames)'
  <2>1. HandleError(h) \in Error /\ "NotDerived" \in Error
    BY DEF HandleError, Error
  <2>2. h \in Live => h \in NodeId /\ kind[h] \in {"Source", "Derived"}
    BY <1>1 DEF Live, GraphTypeOK
  <2>3. Idle /\ Enters(h, <<>>) /\ UNCHANGED value
    BY <1>5, <2>1, <2>2 DEF UpdateNode, Enters, graphVars
  <2> QED BY <1>1, <1>2, <2>3, EnterHoldsCaches
<1> QED BY <1>3, <1>4, <1>5
        DEF Request, AddSource, AddDerived, SetSourceValue, MarkChanged, RemoveNode

LEMMA ContinueHoldsCaches ==
    ASSUME CallInv, StackInv, HoldCaches(frames), Continue
    PROVE  HoldCaches(frames)'
<1>1. GraphTypeOK /\ CallTypeOK /\ frames \in Seq(Frame)
  BY DEF CallInv, TypeOK, CallTypeOK
<1>2. frames # <<>> => /\ Front(frames) \in Seq(Frame) /\ HoldCaches(Front(frames))
                       /\ Top.op = "validate" => Top \in ValidateFrame
                       /\ Top.op = "evaluate" => Top \in EvaluateFrame
  BY <1>1, TopType, PopHoldsCaches
\* The frame on top goes on, and may enter the recursion.
<1>3. ASSUME frames # <<>>, NEW g \in Frame, g.op = Top.op, g.node = Top.node,
             g.op = "evaluate" => g.old_value = Top.old_value
      PROVE  /\ Append(Front(frames), g) \in Seq(Frame)
             /\ HoldCaches(Append(Front(frames), g))
  BY <1>1, <1>2, <1>3, AppendElements, ReplaceHoldsCaches DEF Top
<1>4. ASSUME NEW fs, HoldCaches(fs), frames' = fs, UNCHANGED value PROVE HoldCaches(frames)'
  BY <1>4 DEF HoldCaches, HoldsCache
<1>5. ASSUME frames # <<>>, frames' = Front(frames), UNCHANGED value PROVE HoldCaches(frames)'
  BY <1>2, <1>4, <1>5
<1>6. ASSUME frames # <<>>, NEW g, frames' = Append(Front(frames), g) PROVE g \in Frame
  <2>1. CallInv'
    BY ContinueKeepsCallInv
  <2>2. frames' \in Seq(Frame) /\ Front(frames) \in Seq(Frame)
    BY <1>2, <1>6, <2>1 DEF CallInv, TypeOK, CallTypeOK
  <2>3. Len(frames') = Len(Front(frames)) + 1 /\ frames'[Len(frames')] = g
    BY <1>6, <2>2
  <2> QED BY <2>2, <2>3
<1>7. ASSUME ValidateDependency PROVE HoldCaches(frames)'
  <2>1. PICK d \in Top.todo :
           ValidateForRead(d, Append(Front(frames), [Top EXCEPT !.todo = @ \ {d}]))
    BY <1>7 DEF ValidateDependency
  <2> DEFINE g == [Top EXCEPT !.todo = @ \ {d}]
             fs == Append(Front(frames), g)
  <2>2. frames # <<>> /\ Top.op = "validate" /\ Top \in ValidateFrame /\ UNCHANGED value
    BY <1>2, <1>7 DEF ValidateDependency, Running, graphVars
  <2>3. g \in Frame /\ g.node = Top.node /\ g.op = Top.op /\ g.op # "evaluate" /\ d \in Handle
    BY <2>2 DEF Frame, ValidateFrame, Handle
  <2>4. Enters(d, fs)
    BY <2>1 DEF Enters
  <2> HIDE DEF g
  <2>5. fs \in Seq(Frame) /\ HoldCaches(fs)
    BY <1>3, <2>2, <2>3
  <2> QED BY <1>1, <2>2, <2>3, <2>4, <2>5, EnterHoldsCaches
<1>8. ASSUME DependencyValidated PROVE HoldCaches(frames)'
  <2>1. frames # <<>> /\ Top \in ValidateFrame /\ Top.op = "validate" /\ UNCHANGED value
    BY <1>2, <1>8 DEF DependencyValidated, Delivering, graphVars
  <2>2. PICK g : /\ frames' = Append(Front(frames), g) /\ g.op = Top.op /\ g.node = Top.node
                 /\ g.op # "evaluate"
    BY <1>8, <2>1 DEF DependencyValidated, ValidateFrame
  <2> QED BY <1>3, <1>4, <1>6, <2>1, <2>2
<1>9. ASSUME ValidationRecomputes PROVE HoldCaches(frames)'
  <2>1. /\ frames # <<>> /\ Top.op = "validate" /\ Top \in ValidateFrame
        /\ Recompute(Top.node, Front(frames)) /\ UNCHANGED value
    BY <1>2, <1>9 DEF ValidationRecomputes, Running, graphVars
  <2>2. kind[Top.node] = "Derived" /\ Top.node \in NodeId /\ Top.node \in Handle
    <3>1. Len(frames) \in DOMAIN frames
      BY <1>1, <2>1, FrontElements
    <3> QED BY <2>1, <3>1 DEF CallInv, FramesLinked, WaitsFor, Top, Last, ValidateFrame, Handle
  <2>3. Enters(Top.node, Front(frames))
    BY <2>1, <2>2 DEF Enters
  <2> QED BY <1>1, <1>2, <2>1, <2>2, <2>3, EnterHoldsCaches
<1>10. ASSUME ValidationSettles \/ ValidationFails PROVE HoldCaches(frames)'
  BY <1>5, <1>10 DEF ValidationSettles, ValidationFails, Running, Delivering, Answer, graphVars
<1>11. ASSUME NEW h \in Handle, RuleReads(h) PROVE HoldCaches(frames)'
  <2> DEFINE g == [Top EXCEPT !.reading = h]
             fs == Append(Front(frames), g)
  <2>1. frames # <<>> /\ Top.op = "evaluate" /\ Top \in EvaluateFrame /\ UNCHANGED value
    BY <1>2, <1>11 DEF RuleReads, Running, graphVars
  <2>2. /\ g \in Frame /\ g.node = Top.node /\ g.op = Top.op
        /\ g.old_value = Top.old_value
    BY <2>1 DEF Frame, EvaluateFrame
  <2>3. Enters(h, fs)
    <3>1. "SelfDependency" \in Error
      BY DEF Error
    <3> QED BY <1>11, <3>1 DEF RuleReads, Enters
  <2> HIDE DEF g
  <2>4. fs \in Seq(Frame) /\ HoldCaches(fs)
    BY <1>3, <2>1, <2>2
  <2> QED BY <1>1, <2>1, <2>3, <2>4, EnterHoldsCaches
<1>12. ASSUME RuleObserves PROVE HoldCaches(frames)'
  <2>1. frames # <<>> /\ Top.op = "evaluate" /\ Top \in EvaluateFrame /\ UNCHANGED value
    BY <1>2, <1>12 DEF RuleObserves, Delivering, graphVars
  <2> DEFINE h == Top.reading
             g == [Top EXCEPT !.reading = None,
                              !.seen = [@ EXCEPT ![h] = Observed(h)],
                              !.dependencies_read = Recorded(@, h, returning)]
  <2>2. frames' = Append(Front(frames), g)
    BY <1>12 DEF RuleObserves
  <2>3. g.op = Top.op /\ g.node = Top.node /\ g.old_value = Top.old_value
    BY <2>1 DEF EvaluateFrame
  <2> HIDE DEF g
  <2>4. g \in Frame
    BY <1>6, <2>1, <2>2
  <2>5. HoldCaches(Append(Front(frames), g))
    BY <1>3, <2>1, <2>3, <2>4
  <2> QED BY <1>4, <2>1, <2>2, <2>5
<1>13. ASSUME NEW o, frames # <<>>, Abandon(o) PROVE HoldCaches(frames)'
  BY <1>5, <1>13 DEF Abandon, graphVars
<1>14. ASSUME NEW e \in Error, RuleFails(e) PROVE HoldCaches(frames)'
  BY <1>13, <1>14 DEF RuleFails, Running
<1>15. ASSUME RulePanics \/ RuleUnwinds PROVE HoldCaches(frames)'
  BY <1>13, <1>15 DEF RulePanics, RuleUnwinds, Running, Delivering
<1>16. ASSUME NEW output \in Storage \cup {None}, RuleRefused(output) PROVE HoldCaches(frames)'
  BY <1>13, <1>16 DEF RuleRefused, Running
<1>17. ASSUME ReturnToCaller PROVE HoldCaches(frames)'
  BY <1>4, <1>17 DEF ReturnToCaller, graphVars
<1> QED BY <1>7, <1>8, <1>9, <1>10, <1>11, <1>12, <1>14, <1>15, <1>16, <1>17, CommitHoldsCaches
        DEF Continue

-----------------------------------------------------------------------------
(***************************************************************************)
(* The theorems.                                                           *)
(***************************************************************************)
\* The stack and the frames fit together in every reachable state.
THEOREM StackKept == Spec => [](CallInv /\ StackInv)
<1>1. Init => StackInv
  <2>1. Count(<<>>, 0) = 0
    BY FS_EmptySet DEF Count, Evaluations
  <2>2. Evaluations(<<>>, 0) = {}
    BY DEF Evaluations
  <2> QED BY <2>1, <2>2 DEF Init, StackInv, Mirrors, Distinct
<1>2. CallInv /\ StackInv /\ [Next]_vars => StackInv'
  <2>1. UNCHANGED vars /\ StackInv => StackInv'
    BY DEF vars, callVars, StackInv, Mirrors, Distinct
  <2> QED BY <2>1, RequestKeepsStack, ContinueKeepsStack DEF Next
<1> QED BY <1>1, <1>2, CallsWellFormed, PTL DEF Spec

\* The stack that cycle detection looks at is that of the callbacks that run, through
\* every error, panic and caught panic, whatever handles the rules hold; so no callback is
\* entered again while it runs, and no node is refused after its evaluation has ended.
THEOREM StackFollowsFrames == Spec => []EvaluationStackMirrorsFrames
BY StackKept, StackInvSays, PTL

\* The value that a callback's output will be compared with is still the cache of its node
\* when the comparison is made, whatever the reads of the callback have evaluated.
THEOREM OldValuesHold == Spec => []OldValueStillCached
<1>1. Init => HoldCaches(frames)
  BY DEF Init, HoldCaches
<1>2. CallInv /\ StackInv /\ HoldCaches(frames) /\ [Next]_vars => HoldCaches(frames)'
  <2>1. UNCHANGED vars /\ HoldCaches(frames) => HoldCaches(frames)'
    BY DEF vars, callVars, graphVars, HoldCaches, HoldsCache
  <2> QED BY <2>1, RequestHoldsCaches, ContinueHoldsCaches DEF Next
<1> QED BY <1>1, <1>2, StackKept, HoldCachesSays, PTL DEF Spec
-----------------------------------------------------------------------------
(***************************************************************************)
(* Induction over a number, without the library's rules (see README): what *)
(* holds up to N is a set, and a set of numbers has a least one.           *)
(***************************************************************************)
\* Induction up to N, over a set of the numbers for which something holds: the prefixes
\* 0..k of the others would be a set without a least member.
LEMMA UpTo ==
    ASSUME NEW N \in Nat, NEW H, 0 \in H, \A k \in 1 .. N : k - 1 \in H => k \in H
    PROVE  0 .. N \subseteq H
<1> DEFINE UpToThose == {0 .. k : k \in (0 .. N) \ H}
           R == StrictSubsetOrdering(0 .. N)
<1> SUFFICES ASSUME (0 .. N) \ H # {} PROVE FALSE
  OBVIOUS
<1>1. IsFiniteSet(0 .. N)
  BY FS_Interval
<1>2. UpToThose \subseteq FiniteSubsetsOf(0 .. N) /\ UpToThose # {}
  BY <1>1, FS_Subset DEF FiniteSubsetsOf
<1>3. PICK P \in UpToThose : \A Q \in UpToThose : <<Q, P>> \notin R
  <2>1. IsWellFoundedOn(R, FiniteSubsetsOf(0 .. N))
    BY FS_StrictSubsetOrderingWellFounded
  <2> HIDE DEF UpToThose, R
  <2> QED BY <1>2, <2>1, WFMin
<1>4. PICK k \in (0 .. N) \ H : P = 0 .. k
  OBVIOUS
<1>5. k \in 1 .. N /\ k - 1 \in (0 .. N) \ H
  OBVIOUS
<1>6. <<0 .. k - 1, 0 .. k>> \in R
  <2>1. 0 .. k - 1 \subseteq 0 .. N /\ 0 .. k \subseteq 0 .. N /\ 0 .. k - 1 \subseteq 0 .. k
    BY <1>5
  <2>2. k \in 0 .. k /\ k \notin 0 .. k - 1
    BY <1>5
  <2> QED BY <2>1, <2>2 DEF StrictSubsetOrdering
<1> QED BY <1>3, <1>4, <1>5, <1>6

\* A function may be defined by recursion up to N: here G computes its value at k from
\* the one at k - 1.
Steps(N, S) == [1 .. N -> [S -> S]]
Follows(f, N, S, a, G) ==
    f \in [0 .. N -> S] /\ f[0] = a /\ \A k \in 1 .. N : f[k] = G[k][f[k - 1]]

LEMMA RecursionUpTo ==
    ASSUME NEW N \in Nat, NEW S, NEW a \in S, NEW G \in Steps(N, S)
    PROVE  \E f : Follows(f, N, S, a, G)
<1> DEFINE Good(n, f) == f[0] = a /\ \A k \in 1 .. n : f[k] = G[k][f[k - 1]]
           H == {n \in 0 .. N : \E f \in [0 .. n -> S] : Good(n, f)}
<1>1. 0 \in H
  <2> DEFINE g == [k \in 0 .. 0 |-> a]
  <2>1. g \in [0 .. 0 -> S] /\ Good(0, g)
    OBVIOUS
  <2> HIDE DEF g
  <2> QED BY <2>1
<1>2. ASSUME NEW n \in 1 .. N, n - 1 \in H PROVE n \in H
  <2>1. PICK f \in [0 .. n - 1 -> S] : Good(n - 1, f)
    BY <1>2
  <2>2. G[n][f[n - 1]] \in S
    BY DEF Steps
  <2> DEFINE g == [k \in 0 .. n |-> IF k = n THEN G[n][f[n - 1]] ELSE f[k]]
  <2>3. g \in [0 .. n -> S]
    BY <2>2
  <2>4. ASSUME NEW k \in 1 .. n PROVE g[k] = G[k][g[k - 1]]
    <3>1. CASE k = n
      BY <3>1
    <3>2. CASE k # n
      <4>1. k \in 1 .. n - 1 /\ k \in 0 .. n /\ k - 1 \in 0 .. n /\ k - 1 # n
        BY <3>2
      <4> QED BY <2>1, <3>2, <4>1
    <3> QED BY <3>1, <3>2
  <2>5. g[0] = a
    BY <2>1
  <2>6. Good(n, g)
    BY <2>4, <2>5
  <2> HIDE DEF g
  <2> QED BY <2>3, <2>6
<1>3. 0 .. N \subseteq H
  <2> HIDE DEF H
  <2> QED BY <1>1, <1>2, UpTo
<1>4. \E f \in [0 .. N -> S] : Good(N, f)
  BY <1>3
<1> QED BY <1>4 DEF Follows
=============================================================================
