SPECIFICATION Spec
CONSTANTS
    Precision = 10
    Addresses = {1, 2, 3}
    Weights = {0}
    Uint64 = 7
    InitialValidators <- MCValidators
    DepositAmounts = {1}
    UnbondAmounts = {4}
    SafetyNumValidators = 3
    SafetyMaxSlashPercent = 50
    PrecisionErrorThreshold = 1
    NumRebalance = {1}
    SlashFactors = {5}
    Changes = 2
    Slashes = 1
    Requests = 1
    Epochs = 1
    MaxPackets = 2
    MaxResponses = 1
INVARIANTS
    StakedBalIsSum
    DelegationNeverNegative
    SplitsAddUp
    HaltsOnlyOnOverflow
    CallbackAtMostOnce
    BooksMatchHost
    AckNotStuck
PROPERTY SlashesAreReal
CHECK_DEADLOCK FALSE
