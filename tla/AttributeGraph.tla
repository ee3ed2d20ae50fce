--------------------------- MODULE AttributeGraph ---------------------------
(***************************************************************************)
(* One AttributeGraph (src/src/graph.rs) and the code that calls it.       *)
(*                                                                         *)
(* A call of read_value or update_node runs Rust code that recurses:       *)
(* validating a node validates its dependencies, recomputing it hands      *)
(* control to a callback of the application, and the callback reads other  *)
(* nodes through its EvaluationContext, which validates those.  Between    *)
(* any two of these steps the graph is in a state that some other frame of *)
(* the recursion will look at again, so the recursion is spelt out: the    *)
(* call stack is the variable `frames`, one step is what the top frame     *)
(* does until it calls or returns, and `returning` is the result on its    *)
(* way to the frame below.  What a callback does at each step is any       *)
(* choice the constants allow, so its code is not fixed.                   *)
(*                                                                         *)
(* Nodes are created outside any construction scope here: subgraphs own    *)
(* nodes, they do not take part in evaluation.                             *)
(***************************************************************************)
EXTENDS DependencyGraph, Sequences, SequencesExt

CONSTANTS
    Foreign,            \* a node handle of some other graph
    None,               \* Rust's None
    Storage,            \* the ValueStorage values in use
    Rules,              \* the rule bodies an application installs
    SourceValues(_),    \* values a source created with this id may start with
    DerivedRules(_),    \* rules a derived node created with this id may get
    ValueType(_),       \* the output type a rule's descriptor declares
    Handles(_),         \* the node handles a rule body holds
    Reads(_, _),        \* handles a rule may read next, given what it has seen
    Returns(_, _),      \* outputs it may return with; None: it sets no output
    Fails(_, _),        \* errors it may return
    Panics(_, _),       \* whether it may panic
    Catches(_, _)       \* whether it may catch the panic of a read and go on

Handle == NodeId \cup {Foreign}

Error == {"GraphMismatch", "MissingNode", "MissingValue", "MissingOutput",
          "NotDerived", "SelfDependency", "CycleDetected",
          "ValueTypeMismatch", "ValueDecodeFailed"}

VARIABLES
    \* the node map, a field at a time ("Absent": no node with this id)
    kind, state, value, rule, active_dependencies,
    \* the rest of the graph
    dependents, pending_edges, next_node_id, evaluation_stack,
    \* the call in progress: what was called, the frames below it, and the
    \* result the last frame to return has left for the next
    call, frames, returning,
    \* history: the values the committed evaluation of a node had read
    consumed

nodeVars == <<kind, rule, next_node_id>>
graphVars == <<kind, state, value, rule, active_dependencies, dependents,
               pending_edges, next_node_id, consumed>>
callVars == <<evaluation_stack, call, frames, returning>>
vars == <<graphVars, callVars>>
-----------------------------------------------------------------------------
(***************************************************************************)
(* Values, results and frames.                                             *)
(***************************************************************************)
\* Mutant: the bytes are not compared.
ChangedInType(new, old) ==
    \/ old = None
    \/ new.value_type # old.value_type
    \/ "AlwaysChanged" \in {new.comparison, old.comparison}

MeaningfullyChanged(new, old) ==
    \/ old = None
    \/ new.value_type # old.value_type
    \/ "AlwaysChanged" \in {new.comparison, old.comparison}
    \/ new.bytes # old.bytes

Ok(value_changed) == [status |-> "ok", value_changed |-> value_changed, error |-> None]
Err(e) == [status |-> "error", value_changed |-> FALSE, error |-> e]
Panicked == [status |-> "panic", value_changed |-> FALSE, error |-> None]
Outcome == {Ok(b) : b \in BOOLEAN} \cup {Err(e) : e \in Error} \cup {Panicked}

\* What a rule got from one `context.read`: a value, an error, or a panic that it caught.
Observation ==
    [value : Storage, error : {None}] \cup [value : {None}, error : Error \cup {"Panic"}]

\* validate_derived_node, in the loop over the dependencies of a MaybeDirty node.
ValidateFrame == [op : {"validate"}, node : NodeId,
                  todo : SUBSET NodeId, dependency_changed : BOOLEAN]

\* recompute_derived_node, in the callback, with its EvaluationContext; what has been
\* recorded as a dependency has been seen.
EvaluateFrame ==
    {f \in [op : {"evaluate"}, node : NodeId, old_value : Storage \cup {None},
            dependencies_read : SUBSET NodeId,
            seen : [Handle -> Observation \cup {None}],
            reading : Handle \cup {None}] :
        \A d \in f.dependencies_read : f.seen[d] # None}

Frame == ValidateFrame \cup EvaluateFrame

Call == [op : {"read", "update"}, node : Handle]

\* None and Foreign are nothing else, a ValueStorage is its three fields, and nodes are
\* created with values and rules that exist.
ASSUME ConstantsAssumption ==
    /\ Foreign \notin NodeId
    /\ None \notin Storage /\ None \notin Rules /\ None \notin Handle
    /\ None \notin Call /\ None \notin Outcome /\ None \notin Observation
    /\ \A s \in Storage :
          /\ s = [value_type |-> s.value_type, bytes |-> s.bytes,
                  comparison |-> s.comparison]
          /\ s.comparison \in {"Bytewise", "AlwaysChanged"}
    /\ \A n \in NodeId : SourceValues(n) \subseteq Storage
    /\ \A n \in NodeId : DerivedRules(n) \subseteq Rules

Live == {n \in NodeId : kind[n] # "Absent"}
Idle == call = None
Top == Last(frames)
Running(op) == frames # <<>> /\ Top.op = op /\ returning = None
Delivering(op) == frames # <<>> /\ Top.op = op /\ returning # None

GraphTypeOK ==
    /\ kind \in [NodeId -> {"Absent", "Source", "Derived"}]
    /\ state \in [NodeId -> NodeState \cup {"Absent"}]
    /\ value \in [NodeId -> Storage \cup {None}]
    /\ rule \in [NodeId -> Rules \cup {None}]
    /\ active_dependencies \in [NodeId -> SUBSET NodeId]
    /\ dependents \in [NodeId -> SUBSET NodeId]
    /\ pending_edges \in SUBSET (NodeId \X NodeId)
    /\ next_node_id \in Nat
    /\ consumed \in [NodeId -> [NodeId -> Storage \cup {None}]]

CallTypeOK ==
    /\ evaluation_stack \in Seq(NodeId)
    /\ call \in Call \cup {None}
    /\ frames \in Seq(Frame)
    /\ returning \in Outcome \cup {None}

TypeOK == GraphTypeOK /\ CallTypeOK

Init ==
    /\ kind = [n \in NodeId |-> "Absent"]
    /\ state = [n \in NodeId |-> "Absent"]
    /\ value = [n \in NodeId |-> None]
    /\ rule = [n \in NodeId |-> None]
    /\ active_dependencies = [n \in NodeId |-> {}]
    /\ dependents = [n \in NodeId |-> {}]
    /\ pending_edges = {}
    /\ next_node_id = 0
    /\ evaluation_stack = <<>>
    /\ call = None
    /\ frames = <<>>
    /\ returning = None
    /\ consumed = [n \in NodeId |-> [d \in NodeId |-> None]]
-----------------------------------------------------------------------------
(***************************************************************************)
(* Calls that do not evaluate anything: they run to completion in one      *)
(* step.  A call refused with an error changes nothing and is no step; so  *)
(* does the panic of an exhausted id space (next_node_id \notin NodeId).   *)
(***************************************************************************)
AddSource(v) ==
    /\ Idle
    /\ next_node_id \in NodeId
    /\ v \in SourceValues(next_node_id)
    /\ kind' = [kind EXCEPT ![next_node_id] = "Source"]
    /\ state' = [state EXCEPT ![next_node_id] = "Clean"]
    /\ value' = [value EXCEPT ![next_node_id] = v]
    /\ next_node_id' = next_node_id + 1
    /\ UNCHANGED <<rule, active_dependencies, dependents, pending_edges, consumed, callVars>>

AddDerived(r) ==
    /\ Idle
    /\ next_node_id \in NodeId
    /\ r \in DerivedRules(next_node_id)
    /\ kind' = [kind EXCEPT ![next_node_id] = "Derived"]
    /\ state' = [state EXCEPT ![next_node_id] = "Dirty"]
    /\ rule' = [rule EXCEPT ![next_node_id] = r]
    /\ next_node_id' = next_node_id + 1
    /\ UNCHANGED <<value, active_dependencies, dependents, pending_edges, consumed, callVars>>

SetSourceValue(id, v) ==
    /\ Idle
    /\ kind[id] = "Source"
    /\ v.value_type = value[id].value_type
    /\ value' = [value EXCEPT ![id] = v]
    /\ LET clean == [state EXCEPT ![id] = "Clean"] IN
       IF MeaningfullyChanged(v, value[id])
       THEN /\ state' = StatesAfterMarkChanged(dependents, clean, id)
            /\ pending_edges' = PendingAfterMarkChanged(dependents, pending_edges, id)
       ELSE state' = clean /\ UNCHANGED pending_edges
    /\ UNCHANGED <<nodeVars, active_dependencies, dependents, consumed, callVars>>

\* The public mark_changed: the host says that a value changed behind the graph's back.
MarkChanged(id) ==
    /\ Idle
    /\ id \in Live
    /\ state' = StatesAfterMarkChanged(dependents, state, id)
    /\ pending_edges' = PendingAfterMarkChanged(dependents, pending_edges, id)
    /\ UNCHANGED <<nodeVars, value, active_dependencies, dependents, consumed, callVars>>

RemoveNode(id) ==
    /\ Idle
    /\ id \in Live
    /\ kind' = [kind EXCEPT ![id] = "Absent"]
    /\ state' = [StatesAfterMarkChanged(dependents, state, id) EXCEPT ![id] = "Absent"]
    /\ value' = [value EXCEPT ![id] = None]
    /\ rule' = [rule EXCEPT ![id] = None]
    /\ consumed' = [consumed EXCEPT ![id] = [d \in NodeId |-> None]]
    /\ active_dependencies' =
          [n \in NodeId |-> IF n = id THEN {}
                            ELSE IF n \in dependents[id] THEN active_dependencies[n] \ {id}
                            ELSE active_dependencies[n]]
    /\ dependents' =
          [n \in NodeId |-> IF n = id THEN {}
                            ELSE IF n \in active_dependencies[id] THEN dependents[n] \ {id}
                            ELSE dependents[n]]
    /\ pending_edges' = {e \in PendingAfterMarkChanged(dependents, pending_edges, id) :
                            id \notin {e[1], e[2]}}
    /\ UNCHANGED <<next_node_id, callVars>>
-----------------------------------------------------------------------------
(***************************************************************************)
(* The recursion.  Each operator below says what the code does up to its   *)
(* next call or return, fs being the frames that wait below it.            *)
(***************************************************************************)
Answer(outcome, fs) ==
    /\ returning' = outcome
    /\ frames' = fs
    /\ UNCHANGED evaluation_stack

CallRule(n, fs) ==
    /\ evaluation_stack' = Append(evaluation_stack, n)
    /\ frames' = Append(fs, [op |-> "evaluate", node |-> n, old_value |-> value[n],
                             dependencies_read |-> {},
                             seen |-> [h \in Handle |-> None], reading |-> None])
    /\ returning' = None

\* Mutant: no cycle detection.
RecomputeUnchecked(n, fs) == CallRule(n, fs)

\* recompute_derived_node, up to the callback.
Recompute(n, fs) ==
    IF n \in Range(evaluation_stack)
    THEN Answer(Err("CycleDetected"), fs)
    ELSE CallRule(n, fs)

\* Mutant: a MaybeDirty cache is good enough.
ValidateDirtyOnly(n, fs) ==
    IF state[n] \in {"Clean", "MaybeDirty"} /\ value[n] # None
    THEN Answer(Ok(FALSE), fs)
    ELSE Recompute(n, fs)

\* validate_derived_node, up to the loop over the dependencies.
ValidateDerived(n, fs) ==
    IF state[n] = "Clean" /\ value[n] # None
    THEN Answer(Ok(FALSE), fs)
    ELSE IF state[n] = "Dirty" \/ value[n] = None
    THEN Recompute(n, fs)
    ELSE /\ frames' = Append(fs, [op |-> "validate", node |-> n,
                                  todo |-> active_dependencies[n],
                                  dependency_changed |-> FALSE])
         /\ returning' = None
         /\ UNCHANGED evaluation_stack

\* ensure_node
HandleError(h) == IF h = Foreign THEN "GraphMismatch" ELSE "MissingNode"

\* validate_node_for_read
ValidateForRead(h, fs) ==
    IF h \notin Live THEN Answer(Err(HandleError(h)), fs)
    ELSE IF kind[h] = "Source" THEN Answer(Ok(FALSE), fs)
    ELSE ValidateDerived(h, fs)

ReadValue(h) ==
    /\ Idle
    /\ call' = [op |-> "read", node |-> h]
    /\ ValidateForRead(h, <<>>)
    /\ UNCHANGED graphVars

UpdateNode(h) ==
    /\ Idle
    /\ call' = [op |-> "update", node |-> h]
    /\ IF h \notin Live THEN Answer(Err(HandleError(h)), <<>>)
       ELSE IF kind[h] = "Source" THEN Answer(Err("NotDerived"), <<>>)
       ELSE ValidateDerived(h, <<>>)
    /\ UNCHANGED graphVars

\* The caller gets the result: for read_value this includes cached_value.
ReturnToCaller ==
    /\ frames = <<>> /\ returning # None
    /\ call' = None
    /\ returning' = None
    /\ UNCHANGED <<graphVars, evaluation_stack, frames>>
-----------------------------------------------------------------------------
(***************************************************************************)
(* A frame of validate_derived_node: the dependencies the node had when    *)
(* the loop began, in the order of their ids.                              *)
(***************************************************************************)
\* Mutant: the loop does not move on.
ValidateDependencyForever ==
    /\ Running("validate")
    /\ \E d \in Top.todo : ValidateForRead(d, frames)
    /\ UNCHANGED <<graphVars, call>>

ValidateDependency ==
    /\ Running("validate")
    /\ \E d \in Top.todo :
          /\ \A e \in Top.todo : d <= e
          /\ ValidateForRead(d, Append(Front(frames), [Top EXCEPT !.todo = @ \ {d}]))
    /\ UNCHANGED <<graphVars, call>>

\* Mutant: only the last dependency counts.
LastDependencyCounts ==
    /\ Delivering("validate")
    /\ returning.status = "ok"
    /\ returning' = None
    /\ frames' = Append(Front(frames), [Top EXCEPT !.dependency_changed =
                                                        returning.value_changed])
    /\ UNCHANGED <<graphVars, evaluation_stack, call>>

DependencyValidated ==
    /\ Delivering("validate")
    /\ returning.status = "ok"
    /\ returning' = None
    /\ frames' = Append(Front(frames), [Top EXCEPT !.dependency_changed =
                                                        @ \/ returning.value_changed])
    /\ UNCHANGED <<graphVars, evaluation_stack, call>>

ValidationRecomputes ==
    /\ Running("validate")
    /\ Top.todo = {} /\ Top.dependency_changed
    /\ Recompute(Top.node, Front(frames))
    /\ UNCHANGED <<graphVars, call>>

\* mark_clean, then mark_unchanged.
ValidationSettles ==
    /\ Running("validate")
    /\ Top.todo = {} /\ ~Top.dependency_changed
    /\ LET n == Top.node
           clean == [state EXCEPT ![n] = "Clean"]
           pending == {e \in pending_edges : e[2] # n}
       IN /\ state' = StatesAfterMarkUnchanged(dependents, clean, pending, n)
          /\ pending_edges' = PendingAfterMarkUnchanged(dependents, clean, pending, n)
    /\ Answer(Ok(FALSE), Front(frames))
    /\ UNCHANGED <<nodeVars, value, active_dependencies, dependents, consumed, call>>

\* `?` in the loop, and an unwinding panic.
ValidationFails ==
    /\ Delivering("validate")
    /\ returning.status # "ok"
    /\ Answer(returning, Front(frames))
    /\ UNCHANGED <<graphVars, call>>
-----------------------------------------------------------------------------
(***************************************************************************)
(* A frame of recompute_derived_node: the callback runs.                   *)
(***************************************************************************)
\* EvaluationContext::read
RuleReads(h) ==
    /\ Running("evaluate")
    /\ h \in Handles(rule[Top.node]) \cap Reads(rule[Top.node], Top.seen)
    /\ LET reading == Append(Front(frames), [Top EXCEPT !.reading = h]) IN
       IF h = Top.node THEN Answer(Err("SelfDependency"), reading)
                       ELSE ValidateForRead(h, reading)
    /\ UNCHANGED <<graphVars, call>>

\* Mutant: the dependency is recorded before it is validated.
RecordedAnyway(reads, h, outcome) == reads \cup {h}

\* Mutant: one dependency is kept.
RecordedLast(reads, h, outcome) == IF outcome.status = "ok" THEN {h} ELSE reads

\* A dependency is recorded once it has been validated, and only then.
Recorded(reads, h, outcome) == IF outcome.status = "ok" THEN reads \cup {h} ELSE reads

\* What the callback gets from its read of h.
Observed(h) ==
    IF returning.status = "panic" THEN [value |-> None, error |-> "Panic"]
    ELSE IF returning.status = "error" THEN [value |-> None, error |-> returning.error]
    ELSE IF value[h] = None THEN [value |-> None, error |-> "MissingValue"]
    ELSE [value |-> value[h], error |-> None]

\* The read returns to the callback, or its panic is caught there (catch_unwind).
RuleObserves ==
    /\ Delivering("evaluate")
    /\ returning.status = "panic" => Catches(rule[Top.node], Top.seen)
    /\ returning' = None
    /\ LET h == Top.reading
       IN frames' = Append(Front(frames),
                      [Top EXCEPT !.reading = None,
                                  !.seen = [@ EXCEPT ![h] = Observed(h)],
                                  !.dependencies_read = Recorded(@, h, returning)])
    /\ UNCHANGED <<graphVars, evaluation_stack, call>>

\* Mutant: `?` and an unwind leave the node on evaluation_stack.
AbandonOnStack(outcome) == Answer(outcome, Front(frames)) /\ UNCHANGED <<graphVars, call>>

\* The evaluation ends without a commit: the frame is gone, the node keeps its
\* cache, its dependencies and its state.
Abandon(outcome) ==
    /\ returning' = outcome
    /\ frames' = Front(frames)
    /\ evaluation_stack' = Front(evaluation_stack)
    /\ UNCHANGED <<graphVars, call>>

RuleFails(e) ==
    /\ Running("evaluate")
    /\ e \in Fails(rule[Top.node], Top.seen)
    /\ Abandon(Err(e))

RulePanics ==
    /\ Running("evaluate")
    /\ Panics(rule[Top.node], Top.seen)
    /\ Abandon(Panicked)

\* The panic of a nested callback unwinds through this one, which does not catch it.
RuleUnwinds ==
    /\ Delivering("evaluate")
    /\ returning.status = "panic"
    /\ Abandon(Panicked)

\* Mutant: has_path is not consulted.
CommitErrorsNoPath(n, reads) ==
    {"MissingNode" : d \in reads \ Live} \cup {"SelfDependency" : d \in reads \cap {n}}

\* The checks of commit_dependencies; it visits the dependencies in hash order, so
\* any of the errors that apply may be the one returned.
CommitErrors(n, reads) ==
    {"MissingNode" : d \in reads \ Live}
        \cup {"SelfDependency" : d \in reads \cap {n}}
        \cup {"CycleDetected" : d \in {d \in reads \ {n} : HasPath(dependents, n, d)}}

Refusals(n, reads, output) ==
    IF output = None THEN {"MissingOutput"}
    ELSE IF output.value_type # ValueType(rule[n]) THEN {"ValueTypeMismatch"}
    ELSE CommitErrors(n, reads)

RuleRefused(output) ==
    /\ Running("evaluate")
    /\ output \in Returns(rule[Top.node], Top.seen)
    /\ \E e \in Refusals(Top.node, Top.dependencies_read, output) : Abandon(Err(e))

\* Mutant: the edges that are no longer read stay on the dependency's side.
DependentsKept(n, reads) ==
    [d \in NodeId |-> IF d \in reads THEN dependents[d] \cup {n} ELSE dependents[d]]

DependentsAfterCommit(n, reads) ==
    [d \in NodeId |->
        IF d \in active_dependencies[n] \ reads THEN dependents[d] \ {n}
        ELSE IF d \in reads \ active_dependencies[n] THEN dependents[d] \cup {n}
        ELSE dependents[d]]

\* commit_dependencies (a dependency that is no longer read loses its pending edge
\* with all the others into n), the new cache, then mark_changed or mark_unchanged.
RuleCommits(output) ==
    /\ Running("evaluate")
    /\ output \in Returns(rule[Top.node], Top.seen)
    /\ Refusals(Top.node, Top.dependencies_read, output) = {}
    /\ LET n == Top.node
           reads == Top.dependencies_read
           changed == MeaningfullyChanged(output, Top.old_value)
           new_dependents == DependentsAfterCommit(n, reads)
           clean == [state EXCEPT ![n] = "Clean"]
           pending == {e \in pending_edges : e[2] # n}
       IN /\ active_dependencies' = [active_dependencies EXCEPT ![n] = reads]
          /\ dependents' = new_dependents
          /\ value' = [value EXCEPT ![n] = output]
          /\ consumed' = [consumed EXCEPT ![n] =
                             [d \in NodeId |-> IF d \in reads THEN Top.seen[d].value ELSE None]]
          /\ IF changed
             THEN /\ state' = StatesAfterMarkChanged(new_dependents, clean, n)
                  /\ pending_edges' = PendingAfterMarkChanged(dependents', pending, n)
             ELSE /\ state' = StatesAfterMarkUnchanged(new_dependents, clean, pending, n)
                  /\ pending_edges' = PendingAfterMarkUnchanged(new_dependents, clean, pending, n)
          /\ returning' = Ok(changed)
    /\ frames' = Front(frames)
    /\ evaluation_stack' = Front(evaluation_stack)
    /\ UNCHANGED <<nodeVars, call>>
-----------------------------------------------------------------------------
Request ==
    \/ \E v \in Storage : AddSource(v)
    \/ \E r \in Rules : AddDerived(r)
    \/ \E id \in NodeId, v \in Storage : SetSourceValue(id, v)
    \/ \E id \in NodeId : MarkChanged(id)
    \/ \E id \in NodeId : RemoveNode(id)
    \/ \E h \in Handle : ReadValue(h)
    \/ \E h \in Handle : UpdateNode(h)

Continue ==
    \/ ValidateDependency
    \/ DependencyValidated
    \/ ValidationRecomputes
    \/ ValidationSettles
    \/ ValidationFails
    \/ \E h \in Handle : RuleReads(h)
    \/ RuleObserves
    \/ \E e \in Error : RuleFails(e)
    \/ RulePanics
    \/ RuleUnwinds
    \/ \E output \in Storage \cup {None} : RuleRefused(output)
    \/ \E output \in Storage \cup {None} : RuleCommits(output)
    \/ ReturnToCaller

Next == Request \/ Continue

Spec == Init /\ [][Next]_vars

(***************************************************************************)
(* The code is sequential: a call that has begun goes on, as long as the   *)
(* callbacks do (nothing forces the application to call the graph).        *)
(***************************************************************************)
FairSpec == Spec /\ WF_vars(Continue)
=============================================================================
