---------------------------- MODULE Spreadsheet ----------------------------
(***************************************************************************)
(* What an attribute graph promises its consumer (README.md, "What it      *)
(* returns"): cells that hold a value or a rule, and requests answered     *)
(* with the value that calculating the cell from scratch gives now, or     *)
(* refused.  There is no cache, no edge and no dirty state here, and       *)
(* nothing but the consumer's own writes ever changes a cell.              *)
(*                                                                         *)
(* Rules are deterministic here: at every point a rule reads one more      *)
(* handle, or ends in one way.                                             *)
(***************************************************************************)
EXTENDS Naturals, FiniteSets

CONSTANTS NodeId, Foreign, None, Storage, Rules, SourceValues(_), DerivedRules(_),
          ValueType(_), Handles(_), Reads(_, _), Returns(_, _), Fails(_, _), Panics(_, _)

VARIABLES
    content,        \* the value of a source cell, the rule of a derived one, or None
    next_node_id,
    request,        \* what the consumer has asked for and not been given yet
    answer          \* the answer about to be given

vars == <<content, next_node_id, request, answer>>

Handle == NodeId \cup {Foreign}
Live == {n \in NodeId : content[n] # None}
Source(v) == [kind |-> "Source", holds |-> v]
Derived(r) == [kind |-> "Derived", holds |-> r]
IsSource(n) == content[n].kind = "Source"

-----------------------------------------------------------------------------
(***************************************************************************)
(* Calculating a cell from scratch.  The calculations are functions of     *)
(* their data alone, by recursion on functions (an operator that recurs    *)
(* cannot be proved about).                                                *)
(***************************************************************************)
Value(v) == [value |-> v, error |-> None]
Failure(e) == [value |-> None, error |-> e]

NothingSeen == [h \in Handle |-> None]

\* A rule goes on until it panics or has met the panic of a cell that it read.
Stopped(r, seen) ==
    Panics(r, seen) \/ \E h \in Handle : seen[h] # None /\ seen[h].error = "panic"

\* What it has seen after one more read, `results` being what the cells calculate to.
SeeNext(r, results, seen) ==
    LET next == Handles(r) \cap Reads(r, seen)
    IN IF Stopped(r, seen) \/ next = {} THEN seen
       ELSE LET h == CHOOSE h \in next : TRUE IN [seen EXCEPT ![h] = results[h]]

\* No rule reads a handle twice.
MaxReads == Cardinality(Handle)

SeenAtEnd(r, results) ==
    LET seen[k \in 0 .. MaxReads] ==
            IF k = 0 THEN NothingSeen ELSE SeeNext(r, results, seen[k - 1])
    IN seen[MaxReads]

Outcome(r, seen) ==
    LET output == CHOOSE v \in Returns(r, seen) : TRUE
    IN IF Stopped(r, seen) THEN Failure("panic")
       ELSE IF Fails(r, seen) # {} THEN Failure(CHOOSE e \in Fails(r, seen) : TRUE)
       ELSE IF output = None THEN Failure("MissingOutput")
       ELSE IF output.value_type # ValueType(r) THEN Failure("ValueTypeMismatch")
       ELSE Value(output)

\* What h calculates to, `result` being what the cells that its rule reads calculate to.
ResultOf(h, cells, result) ==
    IF h = Foreign THEN Failure("GraphMismatch")
    ELSE IF cells[h] = None THEN Failure("MissingNode")
    ELSE IF cells[h].kind = "Source" THEN Value(cells[h].holds)
    ELSE Outcome(cells[h].holds, SeenAtEnd(cells[h].holds, result))

Results(cells) == LET result[h \in Handle] == ResultOf(h, cells, result) IN result

Calculated(h) == Results(content)[h]

-----------------------------------------------------------------------------
Refused == Failure("refused")

Init ==
    /\ content = [n \in NodeId |-> None]
    /\ next_node_id = 0
    /\ request = None
    /\ answer = None

Create(cell) ==
    /\ request = None
    /\ content' = [content EXCEPT ![next_node_id] = cell]
    /\ next_node_id' = next_node_id + 1
    /\ UNCHANGED <<request, answer>>

Write(n, v) ==
    /\ request = None
    /\ n \in Live /\ IsSource(n)
    /\ content' = [content EXCEPT ![n] = Source(v)]
    /\ UNCHANGED <<next_node_id, request, answer>>

Remove(n) ==
    /\ request = None
    /\ n \in Live
    /\ content' = [content EXCEPT ![n] = None]
    /\ UNCHANGED <<next_node_id, request, answer>>

\* The answers a request for h may get: the fresh value, or a refusal.
Answers(h) ==
    {Refused} \cup (IF Calculated(h).error = None THEN {Calculated(h)} ELSE {})

Ask(h) ==
    /\ request = None
    /\ request' = h
    /\ answer' \in {None} \cup Answers(h)
    /\ UNCHANGED <<content, next_node_id>>

Work ==
    /\ request # None /\ answer = None
    /\ answer' \in Answers(request)
    /\ UNCHANGED <<content, next_node_id, request>>

Reply ==
    /\ answer # None
    /\ request' = None
    /\ answer' = None
    /\ UNCHANGED <<content, next_node_id>>

Next ==
    \/ next_node_id \in NodeId /\ \E v \in SourceValues(next_node_id) : Create(Source(v))
    \/ next_node_id \in NodeId /\ \E r \in DerivedRules(next_node_id) : Create(Derived(r))
    \/ \E n \in NodeId, v \in Storage : Write(n, v)
    \/ \E n \in NodeId : Remove(n)
    \/ \E h \in Handle : Ask(h)
    \/ Work
    \/ Reply

Spec == Init /\ [][Next]_vars
=============================================================================
