SPECIFICATION Spec
CONSTANTS
    NodeId = {0, 1, 2, 3}
    Foreign = Foreign
    None = None
    Sources = {0}
    HandlesAt <- Crossed
    Storage <- MCStorage
    Rules <- MCRules
    SourceValues <- MCSourceValues
    DerivedRules <- MCDerivedRules
    ValueType <- MCValueType
    Handles <- MCHandles
    Reads <- MCReads
    Returns <- ReturnsAfterRead
    Fails <- MCFails
    Panics <- Never
    Catches <- Never
INVARIANTS
    EdgesMirror
    Acyclic
    StaleEdgesPending
    SuccessLeavesNodeClean
