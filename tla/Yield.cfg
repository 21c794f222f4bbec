SPECIFICATION Spec
CONSTANTS
    Depositors = {d1, d2}
    Purse = 3
    Amounts = {1, 3}
    Rates = {0, 2}
    UserCaps = {2}
    ExitFees = {0}
    Treasuries = {owner, safe}
    Owner = owner
    VIRTUAL_OFFSET = 1
    PRECISION = 2
    RateScale = 2
    FeeScale = 2
    MAX_APY_CAP_BPS = 2
    MAX_EXIT_FEE_BPS = 1
    DEFAULT_EXIT_FEE_BPS = 1
    APY_TIMELOCK = 1
    NoRate = NoRate
    MaxSequence = 2
    MaxSettings = 1
    People = {"ann", "ben"}
    Savers = {"ann"}
    Start = 2
    MinIdle = 1
    Moves = {1}
    PageSize = 9
    MaxLedger = 3
    MaxEvents = 2
    MaxApi = 1
    MaxFaults = 1
INVARIANTS
    VaultBalances
    LedgerFollowsChain
PROPERTIES
    RateIsHonest
    BackendGoesOn
CHECK_DEADLOCK FALSE
