SPECIFICATION OutcomeSpec
CONSTANTS
    NodeId = {0, 1, 2, 3, 4}
    Foreign = Foreign
    None = None
    Sources = {0, 1}
    RulesAt <- Layers
    Storage <- MCStorage
    Rules <- MCRules
    SourceValues <- MCSourceValues
    DerivedRules <- MCDerivedRules
    ValueType <- MCValueType
    Handles <- MCHandles
    Reads <- MCReads
    Returns <- MCReturns
    Fails <- MCFails
    Panics <- MCPanics
    Catches <- MCCatches
INVARIANTS
    CleanIsFresh
    OutcomeTellsTheDifference
PROPERTY
    ReadsAreFresh
