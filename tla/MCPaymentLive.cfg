SPECIFICATION FairSpec
CONSTANTS
    Threads = {t1, t2}
    FishOrders = {f1}
    CardOrders = {c1}
    GoldOrders = {g1}
    FishReceipts = {}
    CardReceipts = {}
    MaxFaults = 1
PROPERTIES
    VerifiedGetsCredited
CHECK_DEADLOCK FALSE
