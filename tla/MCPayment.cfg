SPECIFICATION Spec
CONSTANTS
    Threads = {t1, t2}
    FishOrders = {f1, f2}
    CardOrders = {c1}
    GoldOrders = {g1}
    FishReceipts = {}
    CardReceipts = {b1}
    MaxFaults = 1
SYMMETRY Perms
INVARIANTS
    SucceededStays
    CreditsNeedFaults
    SettledIsBooked
    SharesAreEarned
    StatisticsBounded
CHECK_DEADLOCK FALSE
