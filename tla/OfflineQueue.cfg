SPECIFICATION FairQueueSpec
CONSTANTS
    Txs = {t1, t2}
    MaxRetries = 3
    MaxKills = 1
    Overlaps = FALSE
INVARIANTS
    NothingLost
    SentOnce
PROPERTIES
    QueueDrains
