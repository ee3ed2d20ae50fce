SPECIFICATION TypedSpec
CONSTANTS
    NodeId = {0, 1, 2}
    Base = 4
    Width = 2
    Foreign = Foreign
    None = None
    ValuesOf <- MCValuesOf
    Attributes <- MCAttributes
    Storage <- MCStorage
    Rules <- MCRules
    SourceValues <- MCSourceValues
    DerivedRules <- MCDerivedRules
    ValueType <- MCValueType
    Handles <- MCHandles
    Reads <- MCReads
    Returns <- MCReturns
    Fails <- MCFails
    Panics <- MCPanics
    Catches <- MCCatches
INVARIANTS
    HandlesKeepTheirType
    WritesReadBack
PROPERTIES
    ChangesReachReaders
