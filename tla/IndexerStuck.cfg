SPECIFICATION Spec
CONSTANTS
    Depositors = {d1}
    Purse = 1
    Amounts = {1}
    Rates = {0, 2}
    UserCaps = {3}
    ExitFees = {0}
    Treasuries = {owner, safe}
    Owner = owner
    VIRTUAL_OFFSET = 1
    PRECISION = 2
    RateScale = 2
    FeeScale = 2
    MAX_APY_CAP_BPS = 2
    MAX_EXIT_FEE_BPS = 1
    DEFAULT_EXIT_FEE_BPS = 1
    APY_TIMELOCK = 1
    NoRate = NoRate
    MaxSequence = 0
    MaxSettings = 0
    People = {"ann", "ben"}
    Savers = {"ann"}
    Start = 2
    MinIdle = 3
    Moves = {1}
    PageSize = 9
    MaxLedger = 3
    MaxEvents = 2
    MaxApi = 0
    MaxFaults = 0
PROPERTIES
    EventsAreCached
CHECK_DEADLOCK FALSE
