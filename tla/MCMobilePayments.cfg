SPECIFICATION Spec
CONSTANTS
    Names = {n1}
    Addresses = {acc1}
    Flagged = {n1}
    Federated = {f1}
    NoOne = NoOne
    Amounts = {m1}
    NoAmount = NoAmount
    MaxSends = 2
    MaxEdits = 2
    Payments = {p1, p2}
    FriendPayments = {p2}
    PrivatePayments = {}
    NoPayment = NoPayment
    MaxLoads = 3
    MaxPosts = 2
    Count = 3
    Selected = {1, 3}
    Found = {2, 3}
    PageSize = 1
    OverlapLoads = FALSE
    MaxLoadings = 5
    Codes <- MCCodes
    NoCode = NoCode
    Networks = {na, nb}
    FundAmounts = {m1}
    NoFunds = NoFunds
    Claims = {t1, t2}
    NoClaim = NoClaim
    BadClaim = BadClaim
    OverlapPolls = FALSE
    FetchRetries = 1
    MaxQuotes = 2
    MaxFails = 1
    Files <- MCFiles
    NoFile = NoFile
    SlowReads = FALSE
    MaxBatchPosts = 2
    Sales = {s1}
    NoSale = NoSale
    MaxScreens = 5
INVARIANTS
    PaysWhatWasMeant
    ScreensFollow
PROPERTIES
    WorkEnds
CHECK_DEADLOCK FALSE
