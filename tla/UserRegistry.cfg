SPECIFICATION Spec
CONSTANTS
    Accounts = {a1, a2}
    Names = {n1, n2}
    Dids = {d1, d2}
    Tokens = {t1, t2}
    Amounts = {1, 2}
    None = None
    MaxRegs = 3
SYMMETRY Symmetry
INVARIANTS
    NamesAgree
    DidsAgree
    RefundedAtMostPaid
    EscrowCoversDeposits
