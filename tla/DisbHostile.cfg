SPECIFICATION Spec
CONSTANTS
    Workers = {w1, w2}
    NoWorker = NoWorker
    Rows = {1}
    BatchOf <- OneBatch
    MaxAttempts = 2
    ClaimSize = 1
    ChunkSize = 1
    UseRedis = TRUE
    Pid <- SamePid
    Preloaded = FALSE
    TimelyLeases = FALSE
    HookStatuses = {"PENDING"}
    MaxFaults = 1
    MaxHooks = 1
SYMMETRY WorkerSymmetry
INVARIANTS
    PaidAtMostOnce
    ShownMeansAccepted
PROPERTIES
    SettledIsFinal
