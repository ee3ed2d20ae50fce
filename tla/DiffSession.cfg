SPECIFICATION SessionSpec
CONSTANTS
    NodeId = {0, 1}
    SubgraphId = {0, 1}
    MaxDepth = 1
    MaxCaptures = 2
    Foreign = Foreign
    None = None
    Sources = {0}
    Labelled = {1}
    NodeLabels <- MCNodeLabels
    SubgraphLabels <- MCSubgraphLabels
    Storage <- MCStorage
    Rules <- MCRules
    SourceValues <- MCSourceValues
    DerivedRules <- MCDerivedRules
    ValueType <- MCValueType
    Handles <- MCHandles
    Reads <- MCReads
    Returns <- MCReturns
    Fails <- MCFails
    Panics <- MCPanics
    Catches <- MCCatches
INVARIANTS
    DiffLeadsToNextSnapshot
    DiffIsConsistent
    TimelineIsDrawn
    NamesAreLatest
CHECK_DEADLOCK FALSE
