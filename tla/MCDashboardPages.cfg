SPECIFICATION Spec
CONSTANTS
    u1 = u1
    u2 = u2
    Files <- MCFiles
    OverlapDrops = FALSE
    MaxUploads = 2
    NoFile = NoFile
    ApyInputs = {26}
    BaseInputs = {6}
    UtilizationInputs = {0}
    MultiplierInputs = {500}
    MaxTicks = 1
    MaxSubmits = 2
    SeedRows <- MCSeed
    ServerRows <- MCServer
    AuditPageSize = 1
    MaxFetches = 2
    MaxVisits = 2
    MaxChanges = 1
    Users <- MCUsers
    FeedRows <- MCFeed
    FeedPageSizes = {1}
    OverlapSearch = FALSE
    NoUser = NoUser
    Short = Short
    Targets <- MCUsers
    NoTarget = NoTarget
    MaxDrawers = 3
    Queries = {q1, q2}
    NoData = NoData
    MaxVersion = 1
    MaxPolls = 3
    Alerts = {a1, a2}
    MaxEdits = 2
    MaxTimers = 2
INVARIANTS
    ActsAsReviewed
    ShownIsCurrent
PROPERTIES
    AnswersConverge
    WorkEnds
CHECK_DEADLOCK FALSE
