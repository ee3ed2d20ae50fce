-------------------------- MODULE TypedAttributes --------------------------
(***************************************************************************)
(* The typed calls of an AttributeGraph (graph.rs, attribute.rs) beside    *)
(* the untyped ones they are made of.  A handle Attribute<T> is only made  *)
(* when its node is; the T is in no place of the graph but in the handles, *)
(* so `handle_type` is theirs.  What a typed read answers is the cached    *)
(* value at its return, decoded.                                           *)
(***************************************************************************)
EXTENDS AttributeGraph

CONSTANTS
    Base, Width,        \* see Values
    ValuesOf(_),        \* the values of a type that an application writes
    Attributes(_)       \* the typed handles, <<node, type>>, that a rule body holds

INSTANCE Values

\* What is written through a handle has its type, and what is encoded is one of the
\* ValueStorage values.
ASSUME TypedAssumption ==
    /\ Base \in Nat /\ Base > 1 /\ Width \in Nat /\ Width > 0
    /\ \A T \in AttributeType :
          /\ None \notin AllValues(T)
          /\ \A v \in ValuesOf(T) : v \in AllValues(T) /\ IntoStorage(T, v) \in Storage

VARIABLES
    handle_type,        \* T of the handles that were given out for a node
    written             \* history: the value last written through a handle

typedVars == <<handle_type, written>>

TypedInit ==
    /\ Init
    /\ handle_type = [n \in NodeId |-> None]
    /\ written = [n \in NodeId |-> None]

\* StaticAttribute::new, DynamicAttribute::new
NewHandle(T) == handle_type' = [handle_type EXCEPT ![next_node_id] = T]

AddStaticAttribute(T, v) ==
    /\ AddSource(IntoStorage(T, v))
    /\ NewHandle(T)
    /\ written' = [written EXCEPT ![next_node_id] = v]

\* Mutant: the declared type of the rule is taken on trust.
RuleOfAnyType(T, r) == AddDerived(r) /\ NewHandle(T)

\* A rule of another type is refused with RuleValueTypeMismatch.
RuleOfType(T, r) == ValueType(r) = T /\ AddDerived(r) /\ NewHandle(T)

HandlesExist(r) == \A a \in Attributes(r) : handle_type[a[1]] = a[2]

AddDynamicAttribute(T, r) ==
    /\ HandlesExist(r)
    /\ RuleOfType(T, r)
    /\ UNCHANGED written

SetStatic(n, v) ==
    /\ handle_type[n] # None
    /\ SetSourceValue(n, IntoStorage(handle_type[n], v))
    /\ written' = [written EXCEPT ![n] = v]
    /\ UNCHANGED handle_type

\* The untyped calls work on the same nodes.
AddUntyped ==
    /\ \/ \E v \in Storage : AddSource(v)
       \/ \E r \in Rules : HandlesExist(r) /\ AddDerived(r)
    /\ UNCHANGED typedVars

SetUntyped(n, storage) ==
    /\ SetSourceValue(n, storage)
    /\ written' = [written EXCEPT ![n] = None]
    /\ UNCHANGED handle_type

\* read and update_dynamic are read_value and update_node of the handle's id.
ReadOrUpdate ==
    /\ \/ \E h \in Handle : ReadValue(h)
       \/ \E h \in Handle : UpdateNode(h)
       \/ \E n \in NodeId : MarkChanged(n)
       \/ \E n \in NodeId : RemoveNode(n)
       \/ Continue
    /\ UNCHANGED typedVars

TypedNext ==
    \/ \E T \in AttributeType : \E v \in ValuesOf(T) : AddStaticAttribute(T, v)
    \/ \E T \in AttributeType, r \in Rules : AddDynamicAttribute(T, r)
    \/ \E n \in NodeId : handle_type[n] # None /\ \E v \in ValuesOf(handle_type[n]) : SetStatic(n, v)
    \/ AddUntyped
    \/ \E n \in NodeId, storage \in Storage : SetUntyped(n, storage)
    \/ ReadOrUpdate

TypedSpec == TypedInit /\ [][TypedNext]_<<vars, typedVars>>
-----------------------------------------------------------------------------
(***************************************************************************)
(* Properties.                                                             *)
(***************************************************************************)
\* Through whatever untyped writes, recomputations and refused outputs a node has gone,
\* a handle never meets a value of another type: the only error that decoding can give
\* is ValueDecodeFailed.
HandlesKeepTheirType ==
    \A n \in Live : handle_type[n] # None /\ value[n] # None =>
        value[n].value_type = handle_type[n]

\* A value written through a handle is the one that is read through it.
WritesReadBack ==
    \A n \in Live : written[n] # None =>
        Decoded(handle_type[n], value[n]) = [value |-> written[n], error |-> None]

View(T, storage) == IF storage = None THEN None ELSE FromStorage(T, storage)

\* What is cut off as unchanged is unchanged for every reader: when a node stays and the
\* value that its readers decode is another one, its direct dependents are Dirty.
ChangesReachReaders ==
    [][\A n \in Live : \A T \in AttributeType :
          n \in Live' /\ View(T, value[n]) # View(T, value'[n]) =>
              \A d \in dependents'[n] : state'[d] = "Dirty"]_<<vars, typedVars>>
=============================================================================
