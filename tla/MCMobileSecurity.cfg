SPECIFICATION Spec
CONSTANTS
    Keys = {k1, k2}
    Tokens = {t1, t2}
    NoToken = NoToken
    OverlapSets = FALSE
    MaxSets = 2
    MaxRotations = 3
    Phrases = {p1, p2}
    NoPhrase = NoPhrase
    MaxAccounts = 2
    MaxJobs = 4
    SlowStorage = FALSE
    Handles = {h1, h2}
    BadHandle = BadHandle
    NoHandle = NoHandle
    MaxTyped = 3
    MaxLaunches = 2
    Versions <- MCVersions
    Entries <- MCEntries
    OnZaps <- MCOnZaps
    ChunkSize = 2
    MaxQueuedReports = 2
    HostileCrashes = FALSE
    MaxLaunched = 3
    MaxToasts = 4
    MaxCrashes = 4
    MaxPinAttempts = 2
    EarlyPresses = FALSE
    OverlapPins = FALSE
    MaxMounts = 2
    MaxPays = 2
    Sessions = {s1, s2}
    NoSession = NoSession
    Usernames = {u1, u2, u3}
    NoName = NoName
    MaxRecents = 2
    OverlapResolves = FALSE
    MaxFetches = 3
INVARIANTS
    PhoneRemembers
PROPERTIES
    UserIsProved
    ShellIsRight
    RotationIsInvisible
    WorkEnds
CHECK_DEADLOCK FALSE
