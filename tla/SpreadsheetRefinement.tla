----------------------- MODULE SpreadsheetRefinement -----------------------
(***************************************************************************)
(* AttributeGraph keeps the promise of Spreadsheet.                        *)
(***************************************************************************)
EXTENDS GraphProperties

\* There are finitely many ids (they are 64-bit numbers), and None is neither a cell nor
\* an answer nor the name of an error.
ASSUME PromiseAssumption ==
    /\ IsFiniteSet(NodeId)
    /\ None \notin [kind : {"Source"}, holds : Storage] \cup [kind : {"Derived"}, holds : Rules]
    /\ None \notin [value : {None}, error : {"refused"}]
    /\ None \notin Error \cup {"Panic", "panic", "refused"}

Content(n) == CASE kind[n] = "Absent" -> None
                [] kind[n] = "Source" -> [kind |-> "Source", holds |-> value[n]]
                [] kind[n] = "Derived" -> [kind |-> "Derived", holds |-> rule[n]]

Cells == [n \in NodeId |-> Content(n)]

CallRequest == IF call = None THEN None ELSE call.node

\* The value read_value returns (cached_value), once validation has answered.
CallAnswer ==
    IF frames # <<>> \/ returning = None THEN None
    ELSE IF returning.status = "ok" THEN [value |-> value[call.node], error |-> None]
    ELSE [value |-> None, error |-> "refused"]

Promise == INSTANCE Spreadsheet WITH
    content <- Cells,
    request <- CallRequest,
    answer <- CallAnswer

-----------------------------------------------------------------------------
\* What a callback of r may have seen.
Views(r) ==
    {[h \in Handle |-> IF h \in Handles(r) THEN seen[h] ELSE None] :
        seen \in [Handles(r) -> Observation \cup {None}]}

\* The promise is about rules that, at every point, read one more handle or end, and that
\* have nothing but one output to give when they give one.
Deterministic(r) ==
    /\ Handles(r) \subseteq Handle
    /\ \A seen \in Views(r) :
          LET next == Handles(r) \cap Reads(r, seen)
          IN /\ \A h \in next : seen[h] = None /\ next = {h}
             /\ Panics(r, seen) => next = {}
             /\ Returns(r, seen) # {} =>
                   /\ next = {} /\ Fails(r, seen) = {} /\ ~Panics(r, seen)
                   /\ \E output \in Storage \cup {None} : Returns(r, seen) = {output}

\* A rule with a fallback returns an output although a read of it has failed: the edge to
\* the node that failed is not recorded, and the output outlives the failure.
NoFallback(r) ==
    \A seen \in Views(r) : Returns(r, seen) # {} =>
        \A h \in Handles(r) : seen[h] # None => seen[h].error = None

SoundRules == OlderHandles /\ \A r \in Rules : Deterministic(r) /\ NoFallback(r)

-----------------------------------------------------------------------------
\* Every read and every update of a node ends with the value that calculating the
\* node from scratch would give, or is refused, and no step of the machinery (dirty
\* marking, nested evaluation, failures, panics, retries) changes a source or a rule.
ReadsAreFresh == Promise!Spec

\* The table of node states in README.md: "Clean: the cache is current".  A Clean
\* node caches what calculating it from scratch would give, also in mid-call.
CleanIsFresh ==
    \A n \in NodeId : state[n] = "Clean" => Promise!Calculated(n) = Promise!Value(value[n])
=============================================================================
