--------------------------- MODULE MCSpreadsheet ---------------------------
(***************************************************************************)
(* Deterministic rules, after those of the repository's tests: a rule is   *)
(* an operation and its arguments, read in order.                          *)
(*   min      the smaller input (a cap: often unchanged when one changes)  *)
(*   max      the larger input                                            *)
(*   switch   reads the second input only while the first is 1             *)
(*   always   its input, with ValueComparison::AlwaysChanged               *)
(*   faulty   its second input, but while the first is 0 it returns an     *)
(*            error, sets no output, panics or outputs another type        *)
(*   orElse   its input, or 0 if reading it failed: `context.read(..)      *)
(*            .unwrap_or(..)`                                              *)
(***************************************************************************)
EXTENDS SpreadsheetRefinement

CONSTANTS Sources, RulesAt(_)

Plain(b) == [value_type |-> "i64", bytes |-> b, comparison |-> "Bytewise"]
Always(b) == [value_type |-> "token", bytes |-> b, comparison |-> "AlwaysChanged"]
Wrong == [value_type |-> "bool", bytes |-> 0, comparison |-> "Bytewise"]
MCStorage == {Plain(0), Plain(1), Always(0), Always(1), Wrong}

Rule(op, args) == [op |-> op, args |-> args, fault |-> "none"]
Faulty(fault, args) == [op |-> "faulty", args |-> args, fault |-> fault]

MCSourceValues(n) == IF n \in Sources THEN {IF n = 1 THEN Always(0) ELSE Plain(0)} ELSE {}
MCDerivedRules(n) == IF n \in Sources THEN {} ELSE RulesAt(n)
MCRules == UNION {MCDerivedRules(n) : n \in NodeId}
MCValueType(r) == IF r.op = "always" THEN "token" ELSE "i64"
MCHandles(r) == Range(r.args)

Bytes(r, seen, i) == seen[r.args[i]].value.bytes
Seen(r, seen, i) == seen[r.args[i]] # None /\ seen[r.args[i]].error = None
FaultyNow(r, seen) == r.op = "faulty" /\ Seen(r, seen, 1) /\ Bytes(r, seen, 1) = 0

MCReads(r, seen) ==
    {r.args[i] : i \in {i \in DOMAIN r.args :
        /\ seen[r.args[i]] = None
        /\ \A j \in 1..(i - 1) : Seen(r, seen, j)
        /\ r.op = "switch" /\ i = 2 => Bytes(r, seen, 1) = 1
        /\ ~FaultyNow(r, seen)}}

Errors(r, seen) == {seen[h].error : h \in {h \in Range(r.args) : seen[h] # None}} \ {None}

MCFails(r, seen) ==
    IF r.op = "orElse" THEN {}
    ELSE Errors(r, seen) \cup
         (IF FaultyNow(r, seen) /\ r.fault = "error" THEN {"ValueDecodeFailed"} ELSE {})

MCPanics(r, seen) == FaultyNow(r, seen) /\ r.fault = "panic"
MCCatches(r, seen) == FALSE

Output(r, seen) ==
    CASE r.op = "min" -> Plain(IF Bytes(r, seen, 1) <= Bytes(r, seen, 2)
                               THEN Bytes(r, seen, 1) ELSE Bytes(r, seen, 2))
      [] r.op = "max" -> Plain(IF Bytes(r, seen, 1) >= Bytes(r, seen, 2)
                               THEN Bytes(r, seen, 1) ELSE Bytes(r, seen, 2))
      [] r.op = "switch" -> IF Bytes(r, seen, 1) = 1 THEN Plain(Bytes(r, seen, 2)) ELSE Plain(0)
      [] r.op = "always" -> Always(Bytes(r, seen, 1))
      [] r.op = "orElse" -> IF Seen(r, seen, 1) THEN Plain(Bytes(r, seen, 1)) ELSE Plain(0)
      [] r.op = "faulty" -> IF ~FaultyNow(r, seen) THEN Plain(Bytes(r, seen, 2))
                            ELSE IF r.fault = "omit" THEN None ELSE Wrong

MCReturns(r, seen) ==
    IF MCReads(r, seen) # {} \/ MCFails(r, seen) # {} \/ MCPanics(r, seen)
    THEN {} ELSE {Output(r, seen)}

\* The rules are as the promise wants them, but for those with a fallback.
ASSUME RulesAssumption ==
    \A r \in Rules : Deterministic(r) /\ (r.op = "orElse" \/ NoFallback(r))

-----------------------------------------------------------------------------
\* Two sources, one of them compared with AlwaysChanged; a cell that does not always
\* read both, a cell on it that may fail in each way, and one that joins the two.
Layers(n) ==
    CASE n = 2 -> {Rule("min", <<0, 1>>), Rule("switch", <<0, 1>>)}
      [] n = 3 -> {Rule("always", <<2>>)}
                    \cup {Faulty(f, <<0, 2>>) : f \in {"error", "type"}}
      [] n = 4 -> {Rule("min", <<2, 3>>)}
      [] OTHER -> {}

\* A rule (at 2) that holds the handle of a node created after its own (3), and one
\* (at 4) that reads both.
NewerHandle(n) ==
    CASE n = 2 -> {Rule("min", <<3, 1>>)}
      [] n = 3 -> {Rule("min", <<0, 0>>)}
      [] n = 4 -> {Rule("max", <<2, 3>>)}
      [] OTHER -> {}

\* A rule (at 2) that replaces a failure of its input (at 1) by a default.
Fallback(n) ==
    CASE n = 1 -> {Faulty("error", <<0, 0>>)}
      [] n = 2 -> {Rule("orElse", <<1>>)}
      [] OTHER -> {}
=============================================================================
