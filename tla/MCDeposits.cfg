CONSTANTS
    Precision = 10
    Zones = {1}
    Ids = {1, 2, 3, 4, 5}
    StakeAmounts = {3}
    WalletBalance = 6
    RewardAmounts = {1}
    RewardBudget = 1
    MinRedemptionRate = 9
    MaxRedemptionRate = 12
    RedemptionRateInterval = 1
    DepositInterval = 1
    DelegateInterval = 2
    EpochCycle = 2
    MaxStakeICACallsPerEpoch = 1
    MaxPackets = 2
    SendFailures = TRUE
    SetWithdrawAddress = SetWithdrawAddress
SPECIFICATION Spec
INVARIANTS TypeOK QueueAccounted ValueConserved StakedBalAccounted PacketsMatchRecords DelegatedOnceUnlessAckLost
PROPERTIES RedemptionRateNeverFalls ImplementsLifecycle
