SPECIFICATION LifetimeSpec
CONSTANTS
    NodeId = {0, 1, 2}
    SubgraphId = {0, 1}
    MaxDepth = 1
    Body = {0, 1}
    Foreign = Foreign
    None = None
    Sources = {0}
    Storage <- MCStorage
    Rules <- MCRules
    SourceValues <- MCSourceValues
    DerivedRules <- MCDerivedRules
    ValueType <- MCValueType
    Handles <- MCHandles
    Reads <- MCReads
    Returns <- MCReturns
    Fails <- MCFails
    Panics <- MCPanics
    Catches <- MCCatches
INVARIANTS
    SurvivorsInvalidated
    RulesOwnedOnce

PROPERTIES
    DestroyedAfterDetachment
    RemovedRulesDestroyed
CHECK_DEADLOCK FALSE
