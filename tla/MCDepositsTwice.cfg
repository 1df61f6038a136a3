CONSTANTS
    Precision = 10
    Zones = {1}
    Ids = {1, 2, 3, 4, 5}
    StakeAmounts = {3}
    WalletBalance = 6
    RewardAmounts = {1}
    RewardBudget = 1
    MinRedemptionRate = 9
    MaxRedemptionRate = 15
    RedemptionRateInterval = 1
    DepositInterval = 1
    DelegateInterval = 1
    EpochCycle = 1
    MaxStakeICACallsPerEpoch = 2
    MaxPackets = 3
    SendFailures = FALSE
    SetWithdrawAddress = SetWithdrawAddress
SPECIFICATION Spec
INVARIANT NeverDelegatedTwice
