SPECIFICATION Spec
CONSTANTS
    Users = {u1, u2}
    Threads = {t1, t2}
    Goals = {1, 2}
    Max = 1
    MaxCorrect = 2
    MaxDay = 2
    MaxOps = 3
SYMMETRY Perms
INVARIANTS
    SecondNeedsExcuse
    MarkedIsPaid
    GoalsAreReached
    PrizesBounded
PROPERTY
    ClaimsAreLimited
CHECK_DEADLOCK FALSE
