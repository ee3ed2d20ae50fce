--------------------------- MODULE MCDiffSession ---------------------------
(***************************************************************************)
(* A source and a rule that may or may not read it, under regions.  The    *)
(* source is a node to depend on: its value goes by mark_changed only.     *)
(* The rule's node is labelled before the first capture and again before   *)
(* the second, the second region before the second only.                   *)
(***************************************************************************)
EXTENDS Rendering

CONSTANTS Sources, Labelled

Plain(b) == [value_type |-> "i64", bytes |-> b, comparison |-> "Bytewise"]

Unit == [value_type |-> "unit", bytes |-> 0, comparison |-> "Bytewise"]

MCStorage == {Unit, Plain(0), Plain(1)}
MCSourceValues(n) == IF n \in Sources THEN {Unit} ELSE {}
MCRules == {[reads |-> {h \in NodeId : h < n}] : n \in NodeId}
MCDerivedRules(n) == IF n \in Sources THEN {} ELSE {[reads |-> {h \in NodeId : h < n}]}
MCValueType(r) == "i64"
MCHandles(r) == r.reads
MCReads(r, seen) == {h \in r.reads : seen[h] = None}
MCReturns(r, seen) ==
    {IF \A h \in r.reads : seen[h] = None THEN Plain(0) ELSE Plain(1)}
MCFails(r, seen) == {}
MCPanics(r, seen) == FALSE
MCCatches(r, seen) == FALSE
MCNodeLabels(n, captures) ==
    IF n \notin Labelled THEN {} ELSE IF captures = 0 THEN {"before"} ELSE {"after"}
MCSubgraphLabels(s, captures) == IF s \in Labelled /\ captures = 1 THEN {"region"} ELSE {}
=============================================================================
