SPECIFICATION Spec
CONSTANTS
    NodeId = {0, 1, 2, 3}
    Foreign = Foreign
    None = None
    Sources = {0}
    HandlesAt <- Weave
    Storage <- MCStorage
    Rules <- MCRules
    SourceValues <- MCSourceValues
    DerivedRules <- MCDerivedRules
    ValueType <- MCValueType
    Handles <- MCHandles
    Reads <- ReadsUnfailed
    Returns <- ReturnsUnfailed
    Fails <- FailsAfterRead
    Panics <- Never
    Catches <- Never
INVARIANTS
    CleanIsCurrent
    EvaluationReadsStayCurrent
    EvaluatingNodeIsDirty
PROPERTIES
    DirtyNeedsEvaluation
