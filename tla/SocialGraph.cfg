SPECIFICATION GraphSpec
CONSTANTS
    Users = {u1, u2, u3}
    MAX_FRIENDS = 1
    MaxEvents = 3
INVARIANTS
    Unambiguous
    CountIsExact
    LogDeterminesGraph
PROPERTIES
    FriendshipNeedsConsent
CHECK_DEADLOCK FALSE
