SPECIFICATION SubgraphSpec
CONSTANTS
    NodeId = {0, 1}
    SubgraphId = {0, 1, 2}
    MaxDepth = 3
    Foreign = Foreign
    None = None
    Sources = {0}
    Storage <- MCStorage
    Rules <- MCRules
    SourceValues <- MCSourceValues
    DerivedRules <- MCDerivedRules
    ValueType <- MCValueType
    Handles <- MCHandles
    Reads <- MCReads
    Returns <- MCReturns
    Fails <- MCFails
    Panics <- MCPanics
    Catches <- MCCatches
INVARIANTS
    SubgraphTypeOK
    OwnershipMirror
    OpenScopesExist
    RollbackNeverRefused
