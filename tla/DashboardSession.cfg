SPECIFICATION SessionSpec
CONSTANTS
    PageCalls = {r1, r2}
    MaxIssued = 2
INVARIANTS
    TokensRotateOnce
    SessionIsTheUsers
PROPERTIES
    CallsSettle
