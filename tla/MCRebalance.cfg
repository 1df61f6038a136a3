SPECIFICATION Spec
CONSTANTS
    Precision = 10
    Addresses = {1, 2, 3, 4}
    Weights = {}
    Uint64 = 8
    InitialValidators <- MCUnbalanced
    DepositAmounts = {3}
    UnbondAmounts = {}
    SafetyNumValidators = 4
    SafetyMaxSlashPercent = 50
    PrecisionErrorThreshold = 1
    NumRebalance = {1, 2}
    SlashFactors = {}
    Changes = 1
    Slashes = 0
    Requests = 0
    Epochs = 1
    MaxPackets = 2
    MaxResponses = 0
PROPERTY RebalanceMovesTowardTarget
CHECK_DEADLOCK FALSE
