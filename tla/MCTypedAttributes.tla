------------------------- MODULE MCTypedAttributes -------------------------
(***************************************************************************)
(* A source of any type and any bytes, and rules that pass it on along a   *)
(* chain: a typed one decodes its input and encodes it again, an untyped   *)
(* one hands over the storage as it is, of the declared type or not; what  *)
(* nothing reads is typed.                                                 *)
(***************************************************************************)
EXTENDS TypedAttributes

\* No byte, one of the least, the next and the greatest, and two of the least or greatest.
ShortBytes == {<<>>} \cup {<<b>> : b \in {0, 1, Base - 1}}
LongBytes == [1 .. 2 -> {0, Base - 1}]

MCValuesOf(T) ==
    CASE T = "bool" -> BOOLEAN
      [] T = "i64" -> {v \in I64 : I64Bytes(v) \in LongBytes}
      [] T = "String" -> {<<>>} \cup {<<c>> : c \in Char}

MCStorage ==
    [value_type : {"bool", "String"}, bytes : ShortBytes, comparison : {"Bytewise"}]
    \cup [value_type : {"i64"}, bytes : {<<>>} \cup LongBytes, comparison : {"Bytewise"}]
    \cup [value_type : {"String"}, bytes : {<<>>, <<0>>}, comparison : {"AlwaysChanged"}]

MCRules == [input : NodeId, output : AttributeType, typed : BOOLEAN]
MCSourceValues(n) == IF n = 0 THEN MCStorage ELSE {}
MCDerivedRules(n) == {r \in MCRules : n = r.input + 1 /\ (n = 2 => r.typed)}
MCValueType(r) == r.output
MCHandles(r) == {r.input}
MCAttributes(r) == IF r.typed THEN {<<r.input, r.output>>} ELSE {}
MCReads(r, seen) == {h \in {r.input} : seen[h] = None}

\* read_attribute, with `?`
Got(r, seen) ==
    IF seen[r.input] = None THEN [value |-> None, error |-> "MissingOutput"]
    ELSE IF seen[r.input].error # None THEN seen[r.input]
    ELSE IF r.typed THEN Decoded(r.output, seen[r.input].value)
    ELSE seen[r.input]

MCReturns(r, seen) ==
    IF seen[r.input] = None \/ Got(r, seen).error # None THEN {}
    ELSE {IF r.typed THEN IntoStorage(r.output, Got(r, seen).value) ELSE seen[r.input].value}
MCFails(r, seen) == IF seen[r.input] = None THEN {} ELSE {Got(r, seen).error} \ {None}
MCPanics(r, seen) == FALSE
MCCatches(r, seen) == FALSE
=============================================================================
