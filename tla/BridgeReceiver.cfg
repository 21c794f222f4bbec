SPECIFICATION Spec
CONSTANTS
    Accounts = {a1, a2, rec}
    Receiver = rec
    None = None
    Amounts = {1}
    MaxSupply = 2
    Hashes = {h1, h2}
    Seqs = {s1, s2}
    MaxStray = 1
INVARIANTS
    SupplyIsExact
    CreditedOnce
PROPERTIES
    PausedMeansStill
    DropsAreAuthorised
