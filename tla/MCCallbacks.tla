---------------------------- MODULE MCCallbacks ----------------------------
(***************************************************************************)
(* AttributeGraph with callbacks that may do anything: a rule is the set   *)
(* of handles it holds, it reads any of them in any order, and may at any  *)
(* point return any output, set none, fail or panic.                       *)
(***************************************************************************)
EXTENDS GraphProperties

CONSTANTS
    Sources,        \* the ids that become sources
    HandlesAt(_)    \* the handles of the rule installed at an id

Plain(b) == [value_type |-> "i64", bytes |-> b, comparison |-> "Bytewise"]
AllOlder(n) == {h \in NodeId : h < n}
Weave(n) == CASE n = 1 -> {0} [] n = 2 -> {0, 1} [] n = 3 -> {1, 2} [] OTHER -> {}
Crossed(n) == CASE n = 1 -> {0} [] n = 2 -> {0, 3} [] n = 3 -> {1, 2} [] OTHER -> {}
AnyHandle(n) == Handle

MCStorage == {Plain(0), Plain(1)}

MCSourceValues(n) == IF n \in Sources THEN {Plain(0)} ELSE {}
MCDerivedRules(n) == IF n \in Sources THEN {} ELSE {[handles |-> HandlesAt(n)]}
MCRules == {[handles |-> H] : H \in SUBSET Handle}
MCValueType(r) == "i64"
MCHandles(r) == r.handles
HasRead(seen) == {h \in Handle : seen[h] # None}
MCReads(r, seen) == r.handles \ HasRead(seen)
TwoReads(r, seen) == {h \in MCReads(r, seen) : Cardinality(HasRead(seen)) < 2}
MCReturns(r, seen) == Storage \cup {None}
ReturnsAfterRead(r, seen) == {v \in Storage : HasRead(seen) # {}}
MCFails(r, seen) == {"ValueDecodeFailed"}
FailsAfterRead(r, seen) == {e \in MCFails(r, seen) : HasRead(seen) # {}}
MCPanics(r, seen) == TRUE
MCCatches(r, seen) == TRUE
Never(r, seen) == FALSE

\* A rule that reads with `?` and ends when a read has failed.
Unfailed(seen) == \A h \in HasRead(seen) : seen[h].error = None
ReadsUnfailed(r, seen) == {h \in MCReads(r, seen) : Unfailed(seen)}
ReturnsUnfailed(r, seen) == {v \in ReturnsAfterRead(r, seen) : Unfailed(seen)}
=============================================================================
