CONSTANTS
    Ids <- MCIds
    StrideId = "stride"
    StartTime <- MCStartTime
    Duration <- MCDuration
    BufferSize = 3
    BlockGaps = {1, 2, 16}
    MaxTime = 44
    Precision = 100
    MintId = "mint"
    MintStartEpoch = 2
    ReductionPeriodInEpochs = 2
    ReductionFactor = 50
    GenesisEpochProvisions = 20050
    Proportions <- MCProportions
    MintsBondDenom = TRUE
SPECIFICATION MintSpec
INVARIANTS EpochGrid TrackerInStep TimeoutBeforeBufferWindow
    MintSchedule MintedIsDistributed
PROPERTY EveryEpochStarts
CHECK_DEADLOCK FALSE
