SPECIFICATION Spec
CONSTANTS
    Thread = {t1, t2, t3}
    MaxId = 5
    MaxNodes = 1
    None = None
INVARIANTS
    TypeOK
    GraphIdsUnique
    ForeignHandlesRefused
