CONSTANTS
    Ids <- MCIds
    StrideId = "stride"
    StartTime <- MCStartTime
    Duration <- MCDuration
    BufferSize = 3
    BlockGaps = {1, 2, 16}
    MaxTime = 20
    Precision = 100
    MintId = "mint"
    MintStartEpoch = 2
    ReductionPeriodInEpochs = 2
    ReductionFactor = 50
    GenesisEpochProvisions = 20050
    Proportions <- MCProportions
    MintsBondDenom = TRUE
SPECIFICATION MintSpec
INVARIANT BufferWindowAfterDeadlines
CHECK_DEADLOCK FALSE
