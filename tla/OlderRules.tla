----------------------------- MODULE OlderRules -----------------------------
(***************************************************************************)
(* Rules for the instances about regions: a rule may read any older nodes  *)
(* or none of them, every value counts as changed, and no rule fails of    *)
(* itself.  What the regions do depends on the edges and the states only,  *)
(* which take all their shapes this way.                                   *)
(***************************************************************************)
CONSTANTS NodeId, None, Sources
LOCAL INSTANCE Integers

Always == [value_type |-> "token", bytes |-> 0, comparison |-> "AlwaysChanged"]
Older(n) == {h \in NodeId : h < n}

MCStorage == {Always}
MCSourceValues(n) == IF n \in Sources THEN {Always} ELSE {}
MCDerivedRules(n) == IF n \in Sources THEN {} ELSE {Older(n)}
MCRules == {Older(n) : n \in NodeId}
MCValueType(r) == "token"
MCHandles(r) == r
MCReads(r, seen) == {h \in r : seen[h] = None}
MCReturns(r, seen) == {Always}
MCFails(r, seen) == {e \in {"MissingNode"} : \E h \in r : seen[h] # None /\ seen[h].error = e}
MCPanics(r, seen) == FALSE
MCCatches(r, seen) == FALSE
=============================================================================
