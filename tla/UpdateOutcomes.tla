--------------------------- MODULE UpdateOutcomes ---------------------------
(***************************************************************************)
(* The UpdateOutcome that update_node returns (graph.rs, dependency.rs),   *)
(* beside the calls of an AttributeGraph.  Every evaluation makes one, the *)
(* nested ones too; only that of the node which the caller asked for gets  *)
(* to the caller.                                                          *)
(***************************************************************************)
EXTENDS GraphProperties

VARIABLES
    outcome,    \* what the update in progress returns, if it returns
    before      \* history: what its node had when it was called

outcomeVars == <<outcome, before>>

\* UpdateOutcome::default
NothingNew == [added |-> {}, removed |-> {}, retained |-> {},
               value_changed |-> FALSE, dirtied_dependents |-> {}]

DependencyChanges(n, reads) ==
    [added |-> reads \ active_dependencies[n], removed |-> active_dependencies[n] \ reads,
     retained |-> active_dependencies[n] \cap reads]

\* The end of recompute_derived_node.
CommitOutcome(n, reads, changed) ==
    LET dependencies == DependencyChanges(n, reads)
    IN [added |-> dependencies.added, removed |-> dependencies.removed,
        retained |-> dependencies.retained,
        value_changed |-> changed,
        dirtied_dependents |-> IF changed THEN dependents[n] ELSE {}]

OutcomeInit == Init /\ outcome = None /\ before = None

UpdateBegins(h) ==
    /\ UpdateNode(h)
    /\ outcome' = NothingNew
    /\ before' = IF h \in Live
                 THEN [dependencies |-> active_dependencies[h], value |-> value[h]] ELSE None

\* Mutant: the last evaluation to end is reported, whichever node it was of.
OutcomeOfLatest == call.op = "update"

\* The evaluation of the node that the caller asked for; read_value has no use for its
\* outcome, and neither has validate_node_for_read for that of a nested evaluation.
OutcomeOfCall == call.op = "update" /\ Len(frames) = 1

Commits(output) ==
    /\ RuleCommits(output)
    /\ outcome' = IF OutcomeOfCall
                  THEN CommitOutcome(Top.node, Top.dependencies_read, returning'.value_changed)
                  ELSE outcome
    /\ UNCHANGED before

UpdateEnds == ReturnToCaller /\ outcome' = None /\ before' = None

\* The steps that make no outcome.
Elsewhere ==
    /\ \/ \E v \in Storage : AddSource(v)
       \/ \E r \in Rules : AddDerived(r)
       \/ \E id \in NodeId, v \in Storage : SetSourceValue(id, v)
       \/ \E id \in NodeId : MarkChanged(id)
       \/ \E id \in NodeId : RemoveNode(id)
       \/ \E h \in Handle : ReadValue(h)
       \/ ValidateDependency
       \/ DependencyValidated
       \/ ValidationRecomputes
       \/ ValidationSettles
       \/ ValidationFails
       \/ \E h \in Handle : RuleReads(h)
       \/ RuleObserves
       \/ \E e \in Error : RuleFails(e)
       \/ RulePanics
       \/ RuleUnwinds
       \/ \E output \in Storage \cup {None} : RuleRefused(output)
    /\ UNCHANGED outcomeVars

OutcomeNext ==
    \/ \E h \in Handle : UpdateBegins(h)
    \/ \E output \in Storage \cup {None} : Commits(output)
    \/ UpdateEnds
    \/ Elsewhere

OutcomeSpec == OutcomeInit /\ [][OutcomeNext]_<<vars, outcomeVars>>
-----------------------------------------------------------------------------
\* Where rules hold handles of older nodes only, an outcome is the difference that the
\* whole call made to the node it was asked for, not the one of the last step and not that
\* of a nested evaluation: the change sets lead from the dependencies before the call to
\* those after it, value_changed says whether a reader has to look again, and every
\* dependent it names, or all of them if the value changed, is Dirty when the caller gets
\* to see it.  (A rule with a newer handle can have the node evaluated twice in one call,
\* and the outcome is that of the latest.)
OutcomeTellsTheDifference ==
    frames = <<>> /\ returning # None /\ returning.status = "ok" /\ call.op = "update" =>
        LET n == call.node IN
        /\ outcome.added \cap before.dependencies = {}
        /\ outcome.removed \subseteq before.dependencies
        /\ active_dependencies[n] = (before.dependencies \ outcome.removed) \cup outcome.added
        /\ outcome.retained \in {{}, before.dependencies \cap active_dependencies[n]}
        /\ IF outcome.value_changed THEN MeaningfullyChanged(value[n], before.value)
                                    ELSE value[n].bytes = before.value.bytes
        /\ outcome.dirtied_dependents = IF outcome.value_changed THEN dependents[n] ELSE {}
        /\ \A d \in outcome.dirtied_dependents : state[d] = "Dirty"
=============================================================================
