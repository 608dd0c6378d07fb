SPECIFICATION Spec
CONSTANTS
    Batches <- AllBatches
    Providers <- AllProviders
    Replies <- SomeReplies
    garbled = garbled
    MaxAttempts = 2
    MaxRawRows = 8
    RowsPerChunk = 2
    MaxFindings = 2
INVARIANTS
    EachFindingOnce
    RiskCovers
    AgreementIsEarned
PROPERTIES
    HeardIsKept
CHECK_DEADLOCK FALSE
