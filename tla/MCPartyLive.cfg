SPECIFICATION LiveSpec
CONSTANTS
    Accounts = {a1, a2}
    Threads = {t1}
    Seats = 2
    MaxOps = 3
    MaxFaults = 1
PROPERTIES
    QueueIsRead
    TablesFill
CHECK_DEADLOCK FALSE
