SPECIFICATION FairSpec
CONSTANTS
    Workers = {w1, w2}
    NoWorker = NoWorker
    Rows = {1, 2}
    BatchOf <- OneBatch
    MaxAttempts = 2
    ClaimSize = 2
    ChunkSize = 2
    UseRedis = FALSE
    Pid <- SamePid
    Preloaded = TRUE
    TimelyLeases = TRUE
    HookStatuses = {}
    MaxFaults = 1
    MaxHooks = 0
INVARIANTS
    CountersMatchRows
    RowsAreWorkedOnce
PROPERTIES
    EveryBatchSettles
