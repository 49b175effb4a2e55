SPECIFICATION TransferSpec
CONSTANTS
    Transfer <- MCTransfer
    Kind <- MCKind
    Content <- MCContent
    Size <- MCSize
    Chunk <- MCChunk
    Needs <- MCNeeds
    Plans <- MCPlans
    MaxRuns = 2
    MaxErrors = 1
INVARIANTS
    HandsOnComplete
    CompleteOnce
    ReportsKeepUp
PROPERTY
    TransferEnds
CHECK_DEADLOCK FALSE
