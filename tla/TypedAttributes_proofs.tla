----------------------- MODULE TypedAttributes_proofs -----------------------
(***************************************************************************)
(* What the type T of an Attribute<T> is worth, for every set of nodes,    *)
(* values and rules: the node behind the handle holds nothing but values   *)
(* of type T.  The graph stores bytes and type descriptors and no T, and   *)
(* its untyped calls work on the same nodes, so the argument is that the   *)
(* descriptor which a node was created with is the one that every later    *)
(* value of the node is checked against.                                   *)
(*                                                                         *)
(* Then what is written is what is read, for any base and width: the bytes *)
(* of an i64 add up to it again, a byte at a time.  And since readers see  *)
(* no more than the cut-off compares, none of them misses a change.        *)
(***************************************************************************)
EXTENDS TypedAttributes, AttributeGraph_proofs

HandleTypeOK ==
    /\ handle_type \in [NodeId -> AttributeType \cup {None}]
    /\ \A n \in NodeId : handle_type[n] # None => n < next_node_id

\* No node, no value: a new node does not find one.
AbsentEmpty == \A n \in NodeId : kind[n] = "Absent" => value[n] = None

\* A source cannot change its type for it always has a value to compare with, and a
\* derived node's rule is the one whose declared type the handle was made with.
TypesAgree ==
    \A n \in Live : handle_type[n] # None =>
        /\ kind[n] = "Source" => value[n] # None
        /\ kind[n] = "Derived" => ValueType(rule[n]) = handle_type[n]
        /\ value[n] # None => value[n].value_type = handle_type[n]

TypedInv == CallInv /\ NextIdUnused /\ HandleTypeOK /\ AbsentEmpty /\ TypesAgree

\* The typed calls are calls of the graph.
LEMMA TypedNextIsNext ==
    ASSUME HandleTypeOK, [TypedNext]_<<vars, typedVars>>
    PROVE  [Next]_vars
<1>1. ASSUME NEW T \in AttributeType, NEW v \in ValuesOf(T), AddStaticAttribute(T, v)
      PROVE  Next
  <2>1. IntoStorage(T, v) \in Storage
    BY TypedAssumption
  <2> QED BY <1>1, <2>1 DEF AddStaticAttribute, Next, Request
<1>2. ASSUME NEW T \in AttributeType, NEW r \in Rules, AddDynamicAttribute(T, r) PROVE Next
  BY <1>2 DEF AddDynamicAttribute, RuleOfType, Next, Request
<1>3. ASSUME NEW n \in NodeId, handle_type[n] # None, NEW v \in ValuesOf(handle_type[n]),
             SetStatic(n, v)
      PROVE  Next
  <2>1. IntoStorage(handle_type[n], v) \in Storage
    BY <1>3, TypedAssumption DEF HandleTypeOK
  <2> QED BY <1>3, <2>1 DEF SetStatic, Next, Request
<1>4. CASE AddUntyped
  BY <1>4 DEF AddUntyped, Next, Request
<1>5. ASSUME NEW n \in NodeId, NEW storage \in Storage, SetUntyped(n, storage) PROVE Next
  BY <1>5 DEF SetUntyped, Next, Request
<1>6. CASE ReadOrUpdate
  BY <1>6 DEF ReadOrUpdate, Next, Request
<1> QED BY <1>1, <1>2, <1>3, <1>4, <1>5, <1>6 DEF TypedNext

-----------------------------------------------------------------------------
(***************************************************************************)
(* Every step keeps TypedInv.  The graph part first: what the steps of the *)
(* graph do to the value and the rule of a node that has a handle.         *)
(***************************************************************************)
\* A new node finds no handle and no value.
LEMMA NewNodeKeepsTypes ==
    ASSUME TypedInv, next_node_id \in NodeId, NEW k \in {"Source", "Derived"},
           kind' = [kind EXCEPT ![next_node_id] = k], next_node_id' = next_node_id + 1,
           \A n \in NodeId \ {next_node_id} :
               value'[n] = value[n] /\ rule'[n] = rule[n] /\ handle_type'[n] = handle_type[n],
           handle_type' \in [NodeId -> AttributeType \cup {None}],
           k = "Source" => value'[next_node_id] # None,
           k = "Derived" => value'[next_node_id] = value[next_node_id],
           handle_type'[next_node_id] # None =>
               IF k = "Source" THEN value'[next_node_id].value_type = handle_type'[next_node_id]
               ELSE ValueType(rule'[next_node_id]) = handle_type'[next_node_id]
    PROVE  NextIdUnused' /\ HandleTypeOK' /\ AbsentEmpty' /\ TypesAgree'
<1>1. GraphTypeOK /\ \A n \in NodeId : n \in Nat
  BY NodeIdAssumption DEF TypedInv, CallInv, TypeOK
<1>2. \A n \in NodeId : kind'[n] = IF n = next_node_id THEN k ELSE kind[n]
  BY <1>1 DEF GraphTypeOK
<1>3. NextIdUnused'
  BY <1>1, <1>2 DEF TypedInv, NextIdUnused, GraphTypeOK
<1>4. HandleTypeOK'
  BY <1>1 DEF TypedInv, HandleTypeOK, GraphTypeOK
<1>5. kind[next_node_id] = "Absent" /\ value[next_node_id] = None
  BY <1>1 DEF TypedInv, NextIdUnused, AbsentEmpty, GraphTypeOK
<1>6. AbsentEmpty'
  BY <1>2 DEF TypedInv, AbsentEmpty
<1>7. TypesAgree'
  <2> SUFFICES ASSUME NEW n \in Live', handle_type'[n] # None
               PROVE  /\ kind'[n] = "Source" => value'[n] # None
                      /\ kind'[n] = "Derived" => ValueType(rule'[n]) = handle_type'[n]
                      /\ value'[n] # None => value'[n].value_type = handle_type'[n]
    BY DEF TypesAgree
  <2>1. CASE n = next_node_id
    BY <1>2, <1>5, <2>1
  <2>2. CASE n # next_node_id
    <3>1. n \in Live /\ n \in NodeId \ {next_node_id}
      BY <1>2, <2>2 DEF Live
    <3> QED BY <1>2, <3>1 DEF TypedInv, TypesAgree
  <2> QED BY <2>1, <2>2
<1> QED BY <1>3, <1>4, <1>6, <1>7

\* A value is replaced by one of the same type, or by one that the rule declares.
LEMMA NewValueKeepsTypes ==
    ASSUME TypedInv, UNCHANGED <<nodeVars, handle_type>>, NEW id \in Live,
           NEW v \in Storage, value' = [value EXCEPT ![id] = v],
           \/ kind[id] = "Source" /\ v.value_type = value[id].value_type
           \/ kind[id] = "Derived" /\ v.value_type = ValueType(rule[id])
    PROVE  NextIdUnused' /\ HandleTypeOK' /\ AbsentEmpty' /\ TypesAgree'
<1>1. GraphTypeOK /\ UNCHANGED <<kind, rule, next_node_id>> /\ Live' = Live
  BY DEF TypedInv, CallInv, TypeOK, nodeVars, Live
<1>2. \A n \in NodeId : value'[n] = IF n = id THEN v ELSE value[n]
  BY <1>1 DEF GraphTypeOK
<1>3. v # None
  BY ConstantsAssumption
<1>4. NextIdUnused' /\ HandleTypeOK'
  BY <1>1 DEF TypedInv, NextIdUnused, HandleTypeOK
<1>5. AbsentEmpty'
  BY <1>1, <1>2 DEF TypedInv, AbsentEmpty, Live
<1>6. TypesAgree'
  BY <1>1, <1>2, <1>3 DEF TypedInv, TypesAgree, Live
<1> QED BY <1>4, <1>5, <1>6

LEMMA RemovalKeepsTypes ==
    ASSUME TypedInv, NEW id \in NodeId, RemoveNode(id), UNCHANGED handle_type
    PROVE  NextIdUnused' /\ HandleTypeOK' /\ AbsentEmpty' /\ TypesAgree'
<1>1. GraphTypeOK
  BY DEF TypedInv, CallInv, TypeOK
<1>2. /\ \A n \in NodeId : kind'[n] = IF n = id THEN "Absent" ELSE kind[n]
      /\ \A n \in NodeId : value'[n] = IF n = id THEN None ELSE value[n]
      /\ \A n \in NodeId : rule'[n] = IF n = id THEN None ELSE rule[n]
      /\ next_node_id' = next_node_id
  BY <1>1 DEF RemoveNode, GraphTypeOK
<1>3. NextIdUnused' /\ HandleTypeOK' /\ AbsentEmpty'
  BY <1>2 DEF TypedInv, NextIdUnused, HandleTypeOK, AbsentEmpty
<1>4. TypesAgree'
  BY <1>2 DEF TypedInv, TypesAgree, Live
<1> QED BY <1>3, <1>4

\* The top frame, when a callback runs.
LEMMA EvaluatingNode ==
    ASSUME CallInv, frames # <<>>, Top.op = "evaluate"
    PROVE  /\ Len(frames) \in DOMAIN frames /\ Top = frames[Len(frames)]
           /\ Top.node \in NodeId /\ kind[Top.node] = "Derived"
<1>1. Len(frames) \in DOMAIN frames
  BY FrontElements DEF CallInv, TypeOK, CallTypeOK
<1> QED BY <1>1, TopType
        DEF CallInv, TypeOK, FramesLinked, WaitsFor, Top, Last, EvaluateFrame

LEMMA CommitKeepsTypes ==
    ASSUME TypedInv, NEW output \in Storage \cup {None}, RuleCommits(output),
           UNCHANGED handle_type
    PROVE  NextIdUnused' /\ HandleTypeOK' /\ AbsentEmpty' /\ TypesAgree'
<1>1. CallInv /\ GraphTypeOK /\ frames # <<>> /\ Top.op = "evaluate"
  BY DEF TypedInv, CallInv, TypeOK, RuleCommits, Running
<1>2. Top.node \in NodeId /\ kind[Top.node] = "Derived"
  BY <1>1, EvaluatingNode
<1>3. output \in Storage /\ output.value_type = ValueType(rule[Top.node])
  BY DEF RuleCommits, Refusals
<1>4. value' = [value EXCEPT ![Top.node] = output] /\ UNCHANGED nodeVars
  BY DEF RuleCommits
<1> QED BY <1>2, <1>3, <1>4, NewValueKeepsTypes DEF Live

LEMMA StepKeepsTypedInv ==
    ASSUME TypedInv, [TypedNext]_<<vars, typedVars>>
    PROVE  TypedInv'
<1> DEFINE TypesKept == NextIdUnused' /\ HandleTypeOK' /\ AbsentEmpty' /\ TypesAgree'
<1>1. CallInv'
  BY TypedNextIsNext, StepKeepsCallInv DEF TypedInv
<1>2. GraphTypeOK /\ \A n \in Live : n \in NodeId
  BY DEF TypedInv, CallInv, TypeOK, Live
<1>3. ASSUME UNCHANGED <<kind, value, rule, next_node_id, handle_type>> PROVE TypesKept
  BY <1>3 DEF TypedInv, NextIdUnused, HandleTypeOK, AbsentEmpty, TypesAgree, Live
<1>4. ASSUME NEW T \in AttributeType \cup {None}, NEW v \in Storage, AddSource(v),
             T # None => v.value_type = T,
             handle_type' = [handle_type EXCEPT ![next_node_id] = T]
      PROVE  TypesKept
  <2>1. v # None
    BY ConstantsAssumption
  <2>2. \A n \in NodeId : /\ value'[n] = IF n = next_node_id THEN v ELSE value[n]
                          /\ rule'[n] = rule[n]
                          /\ handle_type'[n] = IF n = next_node_id THEN T ELSE handle_type[n]
    BY <1>2, <1>4 DEF AddSource, GraphTypeOK, TypedInv, HandleTypeOK
  <2>3. handle_type' \in [NodeId -> AttributeType \cup {None}]
    BY <1>4 DEF TypedInv, HandleTypeOK
  <2> QED BY <1>4, <2>1, <2>2, <2>3, NewNodeKeepsTypes DEF AddSource
<1>5. ASSUME NEW T \in AttributeType \cup {None}, NEW r \in Rules, AddDerived(r),
             T # None => ValueType(r) = T,
             handle_type' = [handle_type EXCEPT ![next_node_id] = T]
      PROVE  TypesKept
  <2>1. \A n \in NodeId : /\ value'[n] = value[n]
                          /\ rule'[n] = IF n = next_node_id THEN r ELSE rule[n]
                          /\ handle_type'[n] = IF n = next_node_id THEN T ELSE handle_type[n]
    BY <1>2, <1>5 DEF AddDerived, GraphTypeOK, TypedInv, HandleTypeOK
  <2>2. handle_type' \in [NodeId -> AttributeType \cup {None}]
    BY <1>5 DEF TypedInv, HandleTypeOK
  <2> QED BY <1>5, <2>1, <2>2, NewNodeKeepsTypes DEF AddDerived
<1>6. ASSUME NEW id \in NodeId, NEW v \in Storage, SetSourceValue(id, v), UNCHANGED handle_type
      PROVE  TypesKept
  BY <1>6, NewValueKeepsTypes DEF SetSourceValue, Live
\* The calls that make no handle leave the one of the next id at None.
<1>7. next_node_id \in NodeId =>
          handle_type = [handle_type EXCEPT ![next_node_id] = None]
  BY <1>2, NodeIdAssumption DEF TypedInv, HandleTypeOK, GraphTypeOK
<1>8. ASSUME NEW T \in AttributeType, NEW v \in ValuesOf(T), AddStaticAttribute(T, v)
      PROVE  TypesKept
  <2>1. IntoStorage(T, v) \in Storage /\ IntoStorage(T, v).value_type = T
    BY TypedAssumption DEF IntoStorage
  <2> QED BY <1>4, <1>8, <2>1 DEF AddStaticAttribute, NewHandle
<1>9. ASSUME NEW T \in AttributeType, NEW r \in Rules, AddDynamicAttribute(T, r)
      PROVE  TypesKept
  BY <1>5, <1>9 DEF AddDynamicAttribute, RuleOfType, NewHandle
<1>10. ASSUME NEW n \in NodeId, handle_type[n] # None, NEW v \in ValuesOf(handle_type[n]),
              SetStatic(n, v)
       PROVE  TypesKept
  <2>1. IntoStorage(handle_type[n], v) \in Storage
    BY <1>10, TypedAssumption DEF TypedInv, HandleTypeOK
  <2> QED BY <1>6, <1>10, <2>1 DEF SetStatic
<1>11. ASSUME AddUntyped PROVE TypesKept
  <2>1. ASSUME NEW v \in Storage, AddSource(v) PROVE TypesKept
    BY <1>4, <1>7, <1>11, <2>1 DEF AddUntyped, typedVars, AddSource
  <2>2. ASSUME NEW r \in Rules, AddDerived(r) PROVE TypesKept
    BY <1>5, <1>7, <1>11, <2>2 DEF AddUntyped, typedVars, AddDerived
  <2> QED BY <1>11, <2>1, <2>2 DEF AddUntyped
<1>12. ASSUME NEW n \in NodeId, NEW storage \in Storage, SetUntyped(n, storage)
       PROVE  TypesKept
  BY <1>6, <1>12 DEF SetUntyped
<1>13. ASSUME ReadOrUpdate PROVE TypesKept
  <2>1. UNCHANGED handle_type
    BY <1>13 DEF ReadOrUpdate, typedVars
  <2>2. ASSUME NEW id \in NodeId, RemoveNode(id) PROVE TypesKept
    BY <2>1, <2>2, RemovalKeepsTypes
  <2>3. ASSUME NEW output \in Storage \cup {None}, RuleCommits(output) PROVE TypesKept
    BY <2>1, <2>3, CommitKeepsTypes
  <2>4. ASSUME Continue PROVE TypesKept
    BY <1>3, <2>1, <2>3, <2>4
       DEF Continue, ValidateDependency, DependencyValidated, ValidationRecomputes,
           ValidationSettles, ValidationFails, RuleReads, RuleObserves, RuleFails, RulePanics,
           RuleUnwinds, RuleRefused, Abandon, ReturnToCaller, nodeVars, graphVars
  <2> QED BY <1>3, <1>13, <2>1, <2>2, <2>4
          DEF ReadOrUpdate, MarkChanged, ReadValue, UpdateNode, nodeVars, graphVars
<1>14. ASSUME UNCHANGED <<vars, typedVars>> PROVE TypesKept
  BY <1>3, <1>14 DEF vars, graphVars, typedVars
<1>15. TypesKept
  BY <1>8, <1>9, <1>10, <1>11, <1>12, <1>13, <1>14 DEF TypedNext
<1> QED BY <1>1, <1>15 DEF TypedInv

-----------------------------------------------------------------------------
(***************************************************************************)
(* Bytes.                                                                  *)
(***************************************************************************)
LEMMA PowerFacts ==
    /\ Power[0] = 1
    /\ \A k \in 1 .. Width : Power[k] = Base * Power[k - 1]
    /\ \A k \in 0 .. Width : Power[k] \in Nat /\ Power[k] > 0
<1> DEFINE G == [k \in 1 .. Width |-> [x \in Nat |-> Base * x]]
           Step(f) == [k \in 0 .. Width |-> IF k = 0 THEN 1 ELSE Base * f[k - 1]]
<1>1. Base \in Nat /\ Base > 1 /\ Width \in Nat /\ Width > 0
  BY TypedAssumption
<1>2. PICK f \in [0 .. Width -> Nat] : f[0] = 1 /\ \A k \in 1 .. Width : f[k] = G[k][f[k - 1]]
  <2> DEFINE one == 1
             S == Nat
  <2>1. G \in Steps(Width, S) /\ one \in S
    BY <1>1 DEF Steps
  <2>2. \E f : Follows(f, Width, S, one, G)
    <3> HIDE DEF G, S, one
    <3> QED BY <1>1, <2>1, RecursionUpTo
  <2> QED BY <2>2 DEF Follows
<1>3. ASSUME NEW k \in 1 .. Width PROVE f[k - 1] \in Nat /\ f[k] = Base * f[k - 1]
  <2>1. k - 1 \in 0 .. Width /\ G[k] = [x \in Nat |-> Base * x]
    BY <1>1
  <2>2. f[k - 1] \in Nat /\ f[k] = G[k][f[k - 1]]
    BY <1>2, <2>1
  <2> QED BY <2>1, <2>2
<1>4. f = Step(f)
  <2>1. \A k \in 0 .. Width : f[k] = IF k = 0 THEN 1 ELSE Base * f[k - 1]
    BY <1>1, <1>2, <1>3
  <2> QED BY <1>2, <2>1
<1>5. Power = Step(Power)
  <2>1. Power = CHOOSE g : g = Step(g)
    BY DEF Power
  <2> HIDE DEF Step
  <2> QED BY <1>4, <2>1
<1>6. Power[0] = 1 /\ \A k \in 1 .. Width : Power[k] = Base * Power[k - 1]
  <2>1. \A k \in 0 .. Width : Power[k] = IF k = 0 THEN 1 ELSE Base * Power[k - 1]
    BY <1>5
  <2> QED BY <1>1, <2>1
<1>7. \A k \in 0 .. Width : Power[k] \in Nat /\ Power[k] > 0
  <2> DEFINE H == {k \in 0 .. Width : Power[k] \in Nat /\ Power[k] > 0}
  <2>1. 0 \in H
    BY <1>1, <1>6
  <2>2. ASSUME NEW k \in 1 .. Width, k - 1 \in H PROVE k \in H
    <3>1. Power[k] = Base * Power[k - 1]
      BY <1>6
    <3>2. \A x \in Nat : x > 0 => Base * x \in Nat /\ Base * x > 0
      BY <1>1
    <3> QED BY <1>1, <2>2, <3>1, <3>2
  <2>3. 0 .. Width \subseteq H
    <3> HIDE DEF H
    <3> QED BY <1>1, <2>1, <2>2, UpTo
  <2> QED BY <2>3
<1> QED BY <1>6, <1>7

\* The quotient by d, taken apart by b, and one more digit.
LEMMA OneMoreDigit ==
    ASSUME NEW u \in Nat, NEW d \in Nat, d > 0, NEW b \in Nat, b > 0,
           NEW s \in Nat, s < d, NEW m \in Nat, u = s + d * m
    PROVE  LET t == s + ((u \div d) % b) * d IN
           /\ t \in Nat /\ t < b * d
           /\ u = t + (b * d) * (m \div b) /\ m \div b \in Nat
<1>1. u \div d = m
  OBVIOUS
<1> DEFINE r == m % b
           q == m \div b
<1>2. m = b * q + r /\ r \in 0 .. b - 1 /\ q \in Nat
  OBVIOUS
<1> HIDE DEF r, q
<1>3. d * m = (b * d) * q + r * d
  <2>1. d * m = d * (b * q) + d * r
    BY <1>2
  <2>2. d * (b * q) = (b * d) * q
    BY <1>2
  <2> QED BY <1>2, <2>1, <2>2
<1>4. r * d <= (b - 1) * d
  BY <1>2
<1>5. (b - 1) * d = b * d - d
  OBVIOUS
<1>6. r * d \in Nat /\ b * d \in Nat /\ (b * d) * q \in Nat
  BY <1>2
<1>7. s + r * d \in Nat /\ s + r * d < b * d /\ u = (s + r * d) + (b * d) * q
  BY <1>3, <1>4, <1>5, <1>6
<1> QED BY <1>1, <1>2, <1>7 DEF r, q

LEMMA DigitsOfPower ==
    ASSUME NEW u \in 0 .. Power[Width] - 1, NEW bytes,
           \A k \in 1 .. Width : bytes[k] = (u \div Power[k - 1]) % Base
    PROVE  UnsignedOfBytes(bytes) = u
<1> DEFINE G == [k \in 1 .. Width |-> [x \in Int |-> x + bytes[k] * Power[k - 1]]]
           Step(f) == [k \in 0 .. Width |->
                          IF k = 0 THEN 0 ELSE f[k - 1] + bytes[k] * Power[k - 1]]
           sum == CHOOSE f : f = Step(f)
<1>1. Base \in Nat /\ Base > 0 /\ Width \in Nat /\ Width > 0 /\ u \in Nat
  BY TypedAssumption, PowerFacts
<1>2. \A k \in 1 .. Width : /\ k - 1 \in 0 .. Width /\ k \in 0 .. Width
                            /\ Power[k - 1] \in Nat /\ Power[k - 1] > 0
                            /\ bytes[k] \in Int
  BY <1>1, PowerFacts
<1>3. PICK f \in [0 .. Width -> Int] :
          f[0] = 0 /\ \A k \in 1 .. Width : f[k] = G[k][f[k - 1]]
  <2> DEFINE zero == 0
             S == Int
  <2>1. G \in Steps(Width, S) /\ zero \in S
    BY <1>2 DEF Steps
  <2>2. \E f : Follows(f, Width, S, zero, G)
    <3> HIDE DEF G, S, zero
    <3> QED BY <1>1, <2>1, RecursionUpTo
  <2> QED BY <2>2 DEF Follows
<1>4. ASSUME NEW k \in 1 .. Width PROVE f[k] = f[k - 1] + bytes[k] * Power[k - 1]
  <2>1. k - 1 \in 0 .. Width /\ G[k] = [x \in Int |-> x + bytes[k] * Power[k - 1]]
    BY <1>2
  <2>2. f[k - 1] \in Int /\ f[k] = G[k][f[k - 1]]
    BY <1>3, <2>1
  <2> QED BY <2>1, <2>2
<1>5. f = Step(f)
  <2>1. \A k \in 0 .. Width :
            f[k] = IF k = 0 THEN 0 ELSE f[k - 1] + bytes[k] * Power[k - 1]
    BY <1>1, <1>3, <1>4
  <2> QED BY <1>3, <2>1
<1>6. sum = Step(sum)
  <2> HIDE DEF Step
  <2> QED BY <1>5
<1>7. sum[0] = 0 /\ \A k \in 1 .. Width : sum[k] = sum[k - 1] + bytes[k] * Power[k - 1]
  <2>1. \A k \in 0 .. Width :
            sum[k] = IF k = 0 THEN 0 ELSE sum[k - 1] + bytes[k] * Power[k - 1]
    <3> HIDE DEF sum
    <3> QED BY <1>6
  <2> HIDE DEF sum
  <2> QED BY <1>1, <2>1
<1> HIDE DEF sum
\* The first k bytes are u up to a multiple of Power[k].
<1> DEFINE Rest(k, m) == u = sum[k] + Power[k] * m
           H == {k \in 0 .. Width : /\ sum[k] \in Nat /\ sum[k] < Power[k]
                                    /\ \E m \in Nat : Rest(k, m)}
<1>8. 0 \in H
  <2>1. Rest(0, u)
    BY <1>1, <1>7, PowerFacts
  <2>2. sum[0] \in Nat /\ sum[0] < Power[0] /\ 0 \in 0 .. Width
    BY <1>1, <1>7, PowerFacts
  <2> HIDE DEF Rest
  <2> QED BY <1>1, <2>1, <2>2
<1>9. ASSUME NEW k \in 1 .. Width, k - 1 \in H PROVE k \in H
  <2>1. PICK m \in Nat : u = sum[k - 1] + Power[k - 1] * m
    BY <1>9
  <2>2. sum[k - 1] \in Nat /\ sum[k - 1] < Power[k - 1]
    BY <1>9
  <2> DEFINE t == sum[k - 1] + ((u \div Power[k - 1]) % Base) * Power[k - 1]
  <2>3. /\ t \in Nat /\ t < Base * Power[k - 1]
        /\ u = t + (Base * Power[k - 1]) * (m \div Base) /\ m \div Base \in Nat
    <3> HIDE DEF H
    <3> QED BY <1>1, <1>2, <2>1, <2>2, OneMoreDigit
  <2>4. sum[k] = t /\ Power[k] = Base * Power[k - 1]
    BY <1>7, PowerFacts
  <2>5. sum[k] \in Nat /\ sum[k] < Power[k] /\ Rest(k, m \div Base)
    <3> HIDE DEF t
    <3> QED BY <2>3, <2>4
  <2> DEFINE q == m \div Base
  <2>6. q \in Nat /\ k \in 0 .. Width /\ Rest(k, q)
    BY <1>2, <2>3, <2>5
  <2> HIDE DEF Rest, q
  <2>7. \E x \in Nat : Rest(k, x)
    BY <2>6
  <2> QED BY <2>5, <2>6, <2>7
<1>10. Width \in H
  <2>1. 0 .. Width \subseteq H
    <3> HIDE DEF H
    <3> QED BY <1>1, <1>8, <1>9, UpTo
  <2> HIDE DEF H
  <2> QED BY <1>1, <2>1
<1>11. sum[Width] = u
  <2>1. PICK m \in Nat : u = sum[Width] + Power[Width] * m
    BY <1>10
  <2>2. sum[Width] \in Nat /\ Power[Width] \in Nat /\ u < Power[Width]
    BY <1>1, <1>10, PowerFacts
  <2>3. m > 0 => Power[Width] * m >= Power[Width]
    BY <2>2
  <2> QED BY <2>1, <2>2, <2>3
<1> QED BY <1>11 DEF sum, UnsignedOfBytes

LEMMA I64RoundTrip ==
    ASSUME NEW v \in I64
    PROVE  I64Bytes(v) \in Seq(Int) /\ Len(I64Bytes(v)) = Width /\ I64OfBytes(I64Bytes(v)) = v
<1> DEFINE u == v % Power[Width]
           bytes == [k \in 1 .. Width |-> (u \div Power[k - 1]) % Base]
<1>1. Base \in Nat /\ Base > 0 /\ Width \in Nat /\ Width > 0
  BY TypedAssumption
<1>2. Power[Width] \in Nat /\ Power[Width] > 0
  BY <1>1, PowerFacts
<1>3. v \in Int /\ -(Power[Width] \div 2) <= v /\ v <= (Power[Width] \div 2) - 1
  BY <1>2 DEF I64
<1>4. u \in 0 .. Power[Width] - 1 /\ u = IF v < 0 THEN v + Power[Width] ELSE v
  BY <1>2, <1>3
<1> HIDE DEF u
<1>5. I64Bytes(v) = bytes
  BY DEF I64Bytes, u
<1>6. bytes \in Seq(Int) /\ Len(bytes) = Width
  <2>1. \A k \in 1 .. Width : (u \div Power[k - 1]) % Base \in Int
    BY <1>1, <1>4, PowerFacts
  <2> QED BY <1>1, <2>1
<1>7. UnsignedOfBytes(bytes) = u
  <2>1. \A k \in 1 .. Width : bytes[k] = (u \div Power[k - 1]) % Base
    OBVIOUS
  <2> HIDE DEF bytes
  <2> QED BY <1>4, <2>1, DigitsOfPower
<1>8. I64OfBytes(bytes) = v
  <2>1. u \in I64 <=> v >= 0
    BY <1>2, <1>3, <1>4 DEF I64
  <2> HIDE DEF bytes
  <2> QED BY <1>2, <1>3, <1>4, <1>7, <2>1 DEF I64OfBytes
<1> QED BY <1>5, <1>6, <1>8

\* from_storage gives back what into_storage was given.
LEMMA RoundTrip ==
    ASSUME NEW T \in AttributeType, NEW v \in AllValues(T)
    PROVE  Decoded(T, IntoStorage(T, v)) = [value |-> v, error |-> None]
<1>1. FromStorage(T, IntoStorage(T, v)) = v
  <2>1. CASE T = "bool"
    <3> DEFINE storage == IntoStorage("bool", v)
    <3>1. v \in BOOLEAN
      BY <2>1 DEF AllValues
    <3>2. storage.value_type = "bool" /\ storage.bytes = <<IF v THEN 1 ELSE 0>>
      BY DEF IntoStorage
    <3>3. Len(storage.bytes) = 1 /\ storage.bytes[1] = IF v THEN 1 ELSE 0
      BY <3>2
    <3>4. storage.bytes[1] # 0 <=> v
      BY <3>1, <3>3
    <3>5. FromStorage("bool", storage) = (storage.bytes[1] # 0)
      BY <3>2, <3>3, Zenon DEF FromStorage
    <3> HIDE DEF storage
    <3>6. (storage.bytes[1] # 0) = v
      BY <3>1, <3>4
    <3> QED BY <2>1, <3>5, <3>6 DEF storage
  <2>2. CASE T = "i64"
    <3>1. v \in I64
      BY <2>2 DEF AllValues
    <3> QED BY <2>2, <3>1, I64RoundTrip DEF FromStorage, IntoStorage
  <2>3. CASE T = "String"
    <3>1. v \in Seq(Char)
      BY <2>3 DEF AllValues
    <3>2. \A k \in DOMAIN v : v[k] \in Char
      BY <3>1
    <3> QED BY <2>3, <3>2 DEF FromStorage, IntoStorage
  <2> QED BY <2>1, <2>2, <2>3 DEF AttributeType
<1>2. v # None
  BY TypedAssumption
<1>3. IntoStorage(T, v).value_type = T
  BY DEF IntoStorage
<1> QED BY <1>1, <1>2, <1>3 DEF Decoded

-----------------------------------------------------------------------------
(***************************************************************************)
(* What was written through a handle.                                      *)
(***************************************************************************)
\* A value written through a handle is what the cache of its source holds, encoded: no
\* other call writes there, and none makes a node of another kind with the id.
WrittenInv ==
    /\ written = [n \in NodeId |-> written[n]]
    /\ \A n \in NodeId : written[n] # None => n < next_node_id
    /\ \A n \in Live : written[n] # None =>
          /\ kind[n] = "Source" /\ handle_type[n] \in AttributeType
          /\ written[n] \in AllValues(handle_type[n])
          /\ value[n] = IntoStorage(handle_type[n], written[n])

LEMMA WrittenKept ==
    ASSUME WrittenInv, written' = written, GraphTypeOK,
           next_node_id' \in Nat, next_node_id <= next_node_id',
           \A n \in NodeId : n \in Live' /\ n < next_node_id =>
               /\ n \in Live
               /\ kind'[n] = kind[n] /\ handle_type'[n] = handle_type[n]
               /\ kind[n] = "Source" => value'[n] = value[n]
    PROVE  WrittenInv'
<1>1. \A n \in NodeId : n \in Nat
  BY NodeIdAssumption
<1>2. next_node_id \in Nat
  BY DEF GraphTypeOK
<1>3. \A n \in NodeId : written'[n] # None => n < next_node_id'
  BY <1>1, <1>2 DEF WrittenInv
<1>4. ASSUME NEW n \in Live', written'[n] # None
      PROVE  /\ kind'[n] = "Source" /\ handle_type'[n] \in AttributeType
             /\ written'[n] \in AllValues(handle_type'[n])
             /\ value'[n] = IntoStorage(handle_type'[n], written'[n])
  <2>1. n \in NodeId /\ n < next_node_id
    BY <1>4 DEF Live, WrittenInv
  <2>2. /\ n \in Live /\ kind'[n] = kind[n] /\ handle_type'[n] = handle_type[n]
        /\ kind[n] = "Source" => value'[n] = value[n]
    BY <2>1
  <2> QED BY <1>4, <2>2 DEF WrittenInv
<1> QED BY <1>3, <1>4 DEF WrittenInv

\* The value of one source is replaced, through its handle (v) or not (None).
LEMMA WrittenAt ==
    ASSUME WrittenInv, GraphTypeOK, NEW id \in NodeId, NEW v,
           written' = [written EXCEPT ![id] = v],
           next_node_id' \in Nat, next_node_id <= next_node_id', id < next_node_id',
           \A n \in NodeId \ {id} : /\ kind'[n] = kind[n] /\ handle_type'[n] = handle_type[n]
                                    /\ value'[n] = value[n],
           v # None =>
               /\ kind'[id] = "Source" /\ handle_type'[id] \in AttributeType
               /\ v \in AllValues(handle_type'[id])
               /\ value'[id] = IntoStorage(handle_type'[id], v)
    PROVE  WrittenInv'
<1>1. \A n \in NodeId : n \in Nat
  BY NodeIdAssumption
<1>2. next_node_id \in Nat
  BY DEF GraphTypeOK
<1>3. \A n \in NodeId : written'[n] = IF n = id THEN v ELSE written[n]
  BY DEF WrittenInv
<1>4. written' = [n \in NodeId |-> written'[n]]
  BY DEF WrittenInv
<1>5. \A n \in NodeId : written'[n] # None => n < next_node_id'
  BY <1>1, <1>2, <1>3 DEF WrittenInv
<1>6. ASSUME NEW n \in Live', written'[n] # None
      PROVE  /\ kind'[n] = "Source" /\ handle_type'[n] \in AttributeType
             /\ written'[n] \in AllValues(handle_type'[n])
             /\ value'[n] = IntoStorage(handle_type'[n], written'[n])
  <2>1. CASE n = id
    BY <1>3, <1>6, <2>1
  <2>2. CASE n # id
    <3>1. n \in Live /\ n \in NodeId \ {id}
      BY <2>2 DEF Live
    <3> QED BY <1>3, <1>6, <3>1 DEF WrittenInv
  <2> QED BY <2>1, <2>2
<1> QED BY <1>4, <1>5, <1>6 DEF WrittenInv

LEMMA StepKeepsWritten ==
    ASSUME TypedInv, WrittenInv, [TypedNext]_<<vars, typedVars>>
    PROVE  WrittenInv'
<1>1. GraphTypeOK /\ (\A n \in NodeId : n \in Nat) /\ next_node_id \in Nat
  BY NodeIdAssumption DEF TypedInv, CallInv, TypeOK, GraphTypeOK
<1>2. ASSUME UNCHANGED <<kind, value, next_node_id, handle_type, written>> PROVE WrittenInv'
  BY <1>2 DEF WrittenInv, Live
<1>3. ASSUME NEW T \in AttributeType, NEW v \in ValuesOf(T), AddStaticAttribute(T, v)
      PROVE  WrittenInv'
  <2>1. v \in AllValues(T)
    BY TypedAssumption
  <2>2. /\ next_node_id \in NodeId /\ next_node_id' = next_node_id + 1
        /\ written' = [written EXCEPT ![next_node_id] = v]
    BY <1>3 DEF AddStaticAttribute, AddSource
  <2>3. /\ \A n \in NodeId : kind'[n] = IF n = next_node_id THEN "Source" ELSE kind[n]
        /\ \A n \in NodeId :
              value'[n] = IF n = next_node_id THEN IntoStorage(T, v) ELSE value[n]
        /\ \A n \in NodeId : handle_type'[n] = IF n = next_node_id THEN T ELSE handle_type[n]
    BY <1>1, <1>3
       DEF AddStaticAttribute, AddSource, NewHandle, TypedInv, HandleTypeOK, GraphTypeOK
  <2> DEFINE id == next_node_id
  <2>4. /\ next_node_id' \in Nat /\ next_node_id <= next_node_id' /\ id < next_node_id'
        /\ kind'[id] = "Source" /\ handle_type'[id] \in AttributeType
        /\ v \in AllValues(handle_type'[id]) /\ value'[id] = IntoStorage(handle_type'[id], v)
    BY <1>1, <2>1, <2>2, <2>3
  <2>5. \A m \in NodeId \ {id} : /\ kind'[m] = kind[m] /\ handle_type'[m] = handle_type[m]
                                /\ value'[m] = value[m]
    BY <2>3
  <2>6. id \in NodeId /\ written' = [written EXCEPT ![id] = v]
    BY <2>2
  <2> HIDE DEF id
  <2> QED BY <1>1, <2>4, <2>5, <2>6, WrittenAt
<1>4. ASSUME NEW n \in NodeId, handle_type[n] # None, NEW v \in ValuesOf(handle_type[n]),
             SetStatic(n, v)
      PROVE  WrittenInv'
  <2>1. handle_type[n] \in AttributeType /\ n < next_node_id
    BY <1>4 DEF TypedInv, HandleTypeOK
  <2>2. v \in AllValues(handle_type[n])
    BY <2>1, TypedAssumption
  <2>3. UNCHANGED <<kind, next_node_id, handle_type>> /\ kind[n] = "Source"
    BY <1>4 DEF SetStatic, SetSourceValue, nodeVars
  <2>4. \A m \in NodeId :
            value'[m] = IF m = n THEN IntoStorage(handle_type[n], v) ELSE value[m]
    BY <1>1, <1>4 DEF SetStatic, SetSourceValue, GraphTypeOK
  <2>5. written' = [written EXCEPT ![n] = v]
    BY <1>4 DEF SetStatic
  <2>6. /\ next_node_id' \in Nat /\ next_node_id <= next_node_id' /\ n < next_node_id'
        /\ kind'[n] = "Source" /\ handle_type'[n] \in AttributeType
        /\ v \in AllValues(handle_type'[n]) /\ value'[n] = IntoStorage(handle_type'[n], v)
    BY <1>1, <2>1, <2>2, <2>3, <2>4
  <2>7. \A m \in NodeId \ {n} : /\ kind'[m] = kind[m] /\ handle_type'[m] = handle_type[m]
                               /\ value'[m] = value[m]
    BY <2>3, <2>4
  <2> QED BY <1>1, <2>5, <2>6, <2>7, WrittenAt
<1>5. ASSUME NEW n \in NodeId, NEW storage \in Storage, SetUntyped(n, storage)
      PROVE  WrittenInv'
  <2>1. UNCHANGED <<kind, next_node_id, handle_type>> /\ kind[n] = "Source"
    BY <1>5 DEF SetUntyped, SetSourceValue, nodeVars
  <2>2. n < next_node_id
    <3>1. n \in Nat /\ ~(n >= next_node_id)
      BY <1>1, <2>1 DEF TypedInv, NextIdUnused
    <3> QED BY <1>1, <3>1
  <2>3. \A m \in NodeId \ {n} : value'[m] = value[m]
    BY <1>1, <1>5 DEF SetUntyped, SetSourceValue, GraphTypeOK
  <2>4. written' = [written EXCEPT ![n] = None]
    BY <1>5 DEF SetUntyped
  <2>5. /\ next_node_id' \in Nat /\ next_node_id <= next_node_id' /\ n < next_node_id'
        /\ \A m \in NodeId \ {n} : /\ kind'[m] = kind[m] /\ handle_type'[m] = handle_type[m]
                                  /\ value'[m] = value[m]
    BY <1>1, <2>1, <2>2, <2>3
  <2> DEFINE v == None
  <2>6. written' = [written EXCEPT ![n] = v] /\ v = None
    BY <2>4
  <2> HIDE DEF v
  <2> QED BY <1>1, <2>5, <2>6, WrittenAt
\* What does not write through a handle.
<1>6. ASSUME NEW v \in Storage, AddSource(v), UNCHANGED typedVars PROVE WrittenInv'
  <2>1. \A n \in NodeId : n < next_node_id => kind'[n] = kind[n] /\ value'[n] = value[n]
    BY <1>1, <1>6 DEF AddSource, GraphTypeOK
  <2>2. next_node_id' = next_node_id + 1 /\ written' = written /\ handle_type' = handle_type
    BY <1>6 DEF AddSource, typedVars
  <2> QED BY <1>1, <2>1, <2>2, WrittenKept DEF Live
<1>7. ASSUME NEW r \in Rules, AddDerived(r), written' = written,
             \A n \in NodeId : n < next_node_id => handle_type'[n] = handle_type[n]
      PROVE  WrittenInv'
  <2>1. \A n \in NodeId : n < next_node_id => kind'[n] = kind[n] /\ value'[n] = value[n]
    BY <1>1, <1>7 DEF AddDerived, GraphTypeOK
  <2>2. next_node_id' = next_node_id + 1
    BY <1>7 DEF AddDerived
  <2> QED BY <1>1, <1>7, <2>1, <2>2, WrittenKept DEF Live
<1>8. ASSUME NEW T \in AttributeType, NEW r \in Rules, AddDynamicAttribute(T, r)
      PROVE  WrittenInv'
  <2>1. \A n \in NodeId : n < next_node_id => handle_type'[n] = handle_type[n]
    BY <1>1, <1>8
       DEF AddDynamicAttribute, RuleOfType, NewHandle, TypedInv, HandleTypeOK
  <2> QED BY <1>7, <1>8, <2>1 DEF AddDynamicAttribute, RuleOfType
<1>9. ASSUME AddUntyped PROVE WrittenInv'
  BY <1>6, <1>7, <1>9 DEF AddUntyped, typedVars
<1>10. ASSUME ReadOrUpdate PROVE WrittenInv'
  <2>1. UNCHANGED <<handle_type, written>>
    BY <1>10 DEF ReadOrUpdate, typedVars
  <2>2. ASSUME NEW id \in NodeId, RemoveNode(id) PROVE WrittenInv'
    <3>1. /\ \A n \in NodeId : kind'[n] = IF n = id THEN "Absent" ELSE kind[n]
          /\ \A n \in NodeId \ {id} : value'[n] = value[n]
          /\ next_node_id' = next_node_id
      BY <1>1, <2>2 DEF RemoveNode, GraphTypeOK
    <3> QED BY <1>1, <2>1, <3>1, WrittenKept DEF Live
  <2>3. ASSUME NEW output \in Storage \cup {None}, RuleCommits(output) PROVE WrittenInv'
    <3>1. kind[Top.node] = "Derived"
      BY <2>3, EvaluatingNode DEF RuleCommits, Running, TypedInv
    <3>2. /\ UNCHANGED <<kind, next_node_id>>
          /\ \A n \in NodeId \ {Top.node} : value'[n] = value[n]
      BY <1>1, <2>3 DEF RuleCommits, nodeVars, GraphTypeOK
    <3> QED BY <1>1, <2>1, <3>1, <3>2, WrittenKept DEF Live
  <2>4. ASSUME Continue PROVE WrittenInv'
    BY <1>2, <2>1, <2>3, <2>4
       DEF Continue, ValidateDependency, DependencyValidated, ValidationRecomputes,
           ValidationSettles, ValidationFails, RuleReads, RuleObserves, RuleFails, RulePanics,
           RuleUnwinds, RuleRefused, Abandon, ReturnToCaller, nodeVars, graphVars
  <2> QED BY <1>2, <1>10, <2>1, <2>2, <2>4
          DEF ReadOrUpdate, MarkChanged, ReadValue, UpdateNode, nodeVars, graphVars
<1>11. ASSUME UNCHANGED <<vars, typedVars>> PROVE WrittenInv'
  BY <1>2, <1>11 DEF vars, graphVars, typedVars
<1> QED BY <1>3, <1>4, <1>5, <1>8, <1>9, <1>10, <1>11 DEF TypedNext

LEMMA TypedInvariant == TypedSpec => [](TypedInv /\ WrittenInv)
<1>1. TypedInit => TypedInv /\ WrittenInv
  BY InitCallInv DEF TypedInit, Init, TypedInv, NextIdUnused, HandleTypeOK, AbsentEmpty,
                     TypesAgree, WrittenInv, Live
<1>2. TypedInv /\ WrittenInv /\ [TypedNext]_<<vars, typedVars>> => (TypedInv /\ WrittenInv)'
  BY StepKeepsTypedInv, StepKeepsWritten
<1> QED BY <1>1, <1>2, PTL DEF TypedSpec

\* Through whatever untyped writes, recomputations and refused outputs its node has gone,
\* the value behind a handle Attribute<T> is one of type T.
THEOREM HandlesTyped == TypedSpec => []HandlesKeepTheirType
<1>1. TypedInv => HandlesKeepTheirType
  BY DEF TypedInv, TypesAgree, HandlesKeepTheirType
<1> QED BY <1>1, TypedInvariant, PTL

\* A value written through a handle is the one that is read through it, until another is
\* written to the source: whatever is evaluated, refused or removed in between.
THEOREM WritesComeBack == TypedSpec => []WritesReadBack
<1>1. TypedInv /\ WrittenInv => WritesReadBack
  BY RoundTrip DEF TypedInv, HandleTypeOK, WrittenInv, WritesReadBack, Live
<1> QED BY <1>1, TypedInvariant, PTL

-----------------------------------------------------------------------------
(***************************************************************************)
(* The cut-off: a comparison of storages stands for the comparison of what *)
(* every reader decodes from them.                                         *)
(***************************************************************************)
LEMMA UnchangedForReaders ==
    ASSUME NEW new \in Storage, NEW old \in Storage \cup {None}, NEW T \in AttributeType,
           View(T, old) # View(T, new)
    PROVE  MeaningfullyChanged(new, old)
<1> SUFFICES ASSUME ~MeaningfullyChanged(new, old) PROVE View(T, new) = View(T, old)
  OBVIOUS
<1>1. new # None /\ old # None /\ new.value_type = old.value_type /\ new.bytes = old.bytes
  BY ConstantsAssumption DEF MeaningfullyChanged
<1>2. FromStorage(T, new) = FromStorage(T, old)
  BY <1>1 DEF FromStorage
<1> QED BY <1>1, <1>2 DEF View

LEMMA StepReachesReaders ==
    ASSUME TypedInv, OldValueStillCached, [Next]_vars, NEW n \in Live, NEW T \in AttributeType,
           n \in Live', View(T, value[n]) # View(T, value'[n]), NEW d \in dependents'[n]
    PROVE  state'[d] = "Dirty"
<1>1. GraphTypeOK /\ n \in NodeId /\ value[n] # value'[n]
  BY DEF TypedInv, CallInv, TypeOK, Live
<1>2. GraphTypeOK'
  BY StepKeepsCallInv DEF TypedInv, CallInv, TypeOK
<1>3. d \in NodeId
  BY <1>1, <1>2 DEF GraphTypeOK
<1>4. \A s, id : d \in dependents'[id] => StatesAfterMarkChanged(dependents', s, id)[d] = "Dirty"
  BY <1>3 DEF StatesAfterMarkChanged
<1>5. ASSUME NEW v \in Storage, AddSource(v) PROVE FALSE
  <2>1. next_node_id # n
    BY <1>1, <1>5 DEF TypedInv, NextIdUnused, Live, GraphTypeOK
  <2> QED BY <1>1, <1>5, <2>1 DEF AddSource, GraphTypeOK
<1>6. ASSUME NEW id \in NodeId, NEW v \in Storage, SetSourceValue(id, v)
      PROVE  state'[d] = "Dirty"
  <2>1. id = n /\ value'[n] = v
    BY <1>1, <1>6 DEF SetSourceValue, GraphTypeOK
  <2>2. MeaningfullyChanged(v, value[n])
    BY <1>1, <2>1, UnchangedForReaders DEF GraphTypeOK
  <2> QED BY <1>4, <1>6, <2>1, <2>2 DEF SetSourceValue
<1>7. ASSUME NEW id \in NodeId, RemoveNode(id) PROVE FALSE
  <2>1. n # id
    BY <1>1, <1>7 DEF RemoveNode, Live, GraphTypeOK
  <2> QED BY <1>1, <1>7, <2>1 DEF RemoveNode, GraphTypeOK
<1>8. ASSUME NEW output \in Storage \cup {None}, RuleCommits(output)
      PROVE  state'[d] = "Dirty"
  <2>1. n = Top.node /\ value'[n] = output
    BY <1>1, <1>8 DEF RuleCommits, GraphTypeOK
  <2>2. Top.old_value = value[n]
    BY <1>8, <2>1, EvaluatingNode DEF RuleCommits, Running, TypedInv, OldValueStillCached
  <2>3. output \in Storage
    BY <1>8 DEF RuleCommits, Refusals
  <2>4. MeaningfullyChanged(output, Top.old_value)
    BY <1>1, <2>1, <2>2, <2>3, UnchangedForReaders DEF GraphTypeOK
  <2> QED BY <1>4, <1>8, <2>1, <2>4 DEF RuleCommits
<1>9. value' # value
  BY <1>1
<1> QED
  BY <1>5, <1>6, <1>7, <1>8, <1>9
     DEF Next, Request, Continue, AddDerived, MarkChanged, ReadValue, UpdateNode,
         ValidateDependency, DependencyValidated, ValidationRecomputes,
         ValidationSettles, ValidationFails, RuleReads, RuleObserves, RuleFails, RulePanics,
         RuleUnwinds, RuleRefused, Abandon, ReturnToCaller, nodeVars, graphVars, vars

\* A cut-off as unchanged cuts off no reader: when the value that a reader of some type
\* decodes is another one, the direct dependents of the node are Dirty.
THEOREM ChangesAreRead == TypedSpec => ChangesReachReaders
<1> DEFINE Reach == \A n \in Live : \A T \in AttributeType :
                        n \in Live' /\ View(T, value[n]) # View(T, value'[n]) =>
                            \A d \in dependents'[n] : state'[d] = "Dirty"
<1>1. TypedInv /\ [TypedNext]_<<vars, typedVars>> => [Next]_vars
  BY TypedNextIsNext DEF TypedInv
<1>2. TypedInv /\ OldValueStillCached /\ [Next]_vars => Reach
  BY StepReachesReaders
<1>3. TypedInit => Init
  BY DEF TypedInit
<1>4. TypedSpec => Spec
  BY <1>1, <1>3, TypedInvariant, PTL DEF TypedSpec, Spec
<1> QED BY <1>1, <1>2, <1>4, TypedInvariant, OldValuesHold, PTL DEF TypedSpec, ChangesReachReaders
=============================================================================
