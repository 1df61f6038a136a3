SPECIFICATION FairSpec
CONSTANTS
    Precision = 4
    Zones = {1}
    Users = {u1}
    Eurs = {e1, e2, e3, e4}
    RedeemAmounts = {1}
    InitialStake = 1
    InitialDeposits = 1
    RewardBudget = 0
    MinRedemptionRate = 3
    MaxRedemptionRate = 7
    UnbondingFrequency = 1
    DayCycle = 1
    UnbondingPeriod = 1
    MaxLag = 1
    MaxPackets = 2
    MaxLostDelegation = 1
PROPERTIES
    RedemptionsGetClaimable
    ImplementsLifecycle
