SPECIFICATION FairSpec
CONSTANTS
    NodeId = {0, 1, 2}
    Foreign = Foreign
    None = None
    Sources = {0}
    HandlesAt <- AnyHandle
    Storage <- MCStorage
    Rules <- MCRules
    SourceValues <- MCSourceValues
    DerivedRules <- MCDerivedRules
    ValueType <- MCValueType
    Handles <- MCHandles
    Reads <- TwoReads
    Returns <- MCReturns
    Fails <- MCFails
    Panics <- MCPanics
    Catches <- MCCatches
INVARIANTS
    TypeOK
    EvaluationStackMirrorsFrames
    OldValueStillCached
PROPERTIES
    CallsReturn
