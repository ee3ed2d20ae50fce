SPECIFICATION Spec
CONSTANTS
    NodeId = {0, 1, 2, 3}
    None = None
INVARIANTS
    TypeOK
    MarksAsSpecified
    VisitedOnce
    PathAsSpecified
    OrderIsTopological
    StalenessKept
