------------------------------- MODULE Values -------------------------------
(***************************************************************************)
(* The values of the typed layer and the bytes they are stored as          *)
(* (src/src/value.rs, attribute.rs).  A ValueStorage is a record of its    *)
(* type descriptor, its bytes and its comparison.  A byte has Base values  *)
(* instead of 256 and an i64 has Width of them instead of 8; of UTF-8 only *)
(* the characters of one byte are there, the lower half, and a byte of the *)
(* upper half is malformed.                                                *)
(***************************************************************************)
EXTENDS Integers, Sequences

CONSTANTS Base, Width, None

Byte == 0 .. Base - 1
Char == 0 .. (Base \div 2) - 1

\* How many values k bytes have (a function, for tlapm knows nothing of ^).
Power[k \in 0 .. Width] == IF k = 0 THEN 1 ELSE Base * Power[k - 1]
I64 == -(Power[Width] \div 2) .. (Power[Width] \div 2) - 1

\* The types that implement AttributeValue, by the names of their descriptors, and the
\* values that they have.
AttributeType == {"bool", "i64", "String"}
AllValues(T) == CASE T = "bool" -> BOOLEAN [] T = "i64" -> I64 [] T = "String" -> Seq(Char)

-----------------------------------------------------------------------------
\* i64::to_ne_bytes, two's complement.
I64Bytes(v) == [k \in 1 .. Width |-> ((v % Power[Width]) \div Power[k - 1]) % Base]

\* i64::from_ne_bytes up to the sign; mutant: the sign is forgotten.
UnsignedOfBytes(bytes) ==
    LET sum[k \in 0 .. Width] == IF k = 0 THEN 0 ELSE sum[k - 1] + bytes[k] * Power[k - 1]
    IN sum[Width]

I64OfBytes(bytes) ==
    LET u == UnsignedOfBytes(bytes)
    IN IF u \in I64 THEN u ELSE u - Power[Width]

\* AttributeValue::into_storage
IntoStorage(T, v) ==
    [value_type |-> T, comparison |-> "Bytewise",
     bytes |-> CASE T = "bool" -> <<IF v THEN 1 ELSE 0>>
                 [] T = "i64" -> I64Bytes(v)
                 [] T = "String" -> v]

\* AttributeValue::from_storage; None: the storage holds no T.
FromStorage(T, storage) ==
    LET bytes == storage.bytes IN
    IF storage.value_type # T THEN None
    ELSE CASE T = "bool" -> IF Len(bytes) = 1 THEN bytes[1] # 0 ELSE None
           [] T = "i64" -> IF Len(bytes) = Width THEN I64OfBytes(bytes) ELSE None
           [] T = "String" -> IF \A k \in DOMAIN bytes : bytes[k] \in Char THEN bytes ELSE None

\* decode_attribute_value
Decoded(T, storage) ==
    IF storage.value_type # T THEN [value |-> None, error |-> "ValueTypeMismatch"]
    ELSE IF FromStorage(T, storage) = None THEN [value |-> None, error |-> "ValueDecodeFailed"]
    ELSE [value |-> FromStorage(T, storage), error |-> None]
=============================================================================
