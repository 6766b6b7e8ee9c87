SPECIFICATION Spec
CONSTANTS
    Accounts = {a1, a2, a3, a4}
    Threads = {t1}
    Seats = 2
    MaxOps = 4
    MaxFaults = 0
SYMMETRY Perms
INVARIANTS
    WaitersNotForgotten
CHECK_DEADLOCK FALSE
