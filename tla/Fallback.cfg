SPECIFICATION Spec
CONSTANTS
    NodeId = {0, 1, 2}
    Foreign = Foreign
    None = None
    Sources = {0}
    RulesAt <- Fallback
    Storage <- MCStorage
    Rules <- MCRules
    SourceValues <- MCSourceValues
    DerivedRules <- MCDerivedRules
    ValueType <- MCValueType
    Handles <- MCHandles
    Reads <- MCReads
    Returns <- MCReturns
    Fails <- MCFails
    Panics <- MCPanics
    Catches <- MCCatches
INVARIANT CleanIsFresh
