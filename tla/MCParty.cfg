SPECIFICATION Spec
CONSTANTS
    Accounts = {a1, a2, a3, a4}
    Threads = {t1}
    Seats = 2
    MaxOps = 4
    MaxFaults = 1
SYMMETRY Perms
INVARIANTS
    ForgottenNeedsCause
    MatchedOnce
    MatchedHaveApplied
CHECK_DEADLOCK FALSE
