SPECIFICATION Spec
CONSTANTS
    Precision = 4
    Zones = {1}
    Users = {u1, u2}
    Eurs = {e1, e2, e3}
    RedeemAmounts = {1}
    InitialStake = 1
    InitialDeposits = 1
    RewardBudget = 1
    MinRedemptionRate = 3
    MaxRedemptionRate = 7
    UnbondingFrequency = 1
    DayCycle = 1
    UnbondingPeriod = 1
    MaxLag = 0
    MaxPackets = 2
    MaxLostDelegation = 1
INVARIANTS
    TypeOK
    EscrowAccounted
    StakedBalAccounted
    RedemptionAcctAccounted
    DepositsNotSwept
    PaidAtMostOnce
    UsersAccounted
    PacketsMatchRecords
SYMMETRY UserSymmetry
