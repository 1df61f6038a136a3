CONSTANTS
    Precision = 10
    Identifiers = {"s", "s2"}
    Extends <- MCExtends
    Users = {u1, u2}
    GenesisWeight <- MCGenesisWeight
    Weights <- MCBothSigns
    GenesisBalance <- MCGenesisBalance
    StartDelays = {0, 1}
    Deposits = {1}
    MaxChanges = 3
    InitialPeriod = 1
    AirdropDuration = 1
    MaxTime = 2
    NoRecord = NoRecord
SYMMETRY UserSymmetry
SPECIFICATION Spec
INVARIANTS TypeOK ClaimedOncePerRound PoolOfRound GrantsArePaid SharesAtMostWhole
CHECK_DEADLOCK FALSE
