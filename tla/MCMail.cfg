SPECIFICATION Spec
CONSTANTS
    Users = {u1, u2}
    Threads = {t1, t2}
    Fee = 1
    Keep = 0
    Warheads <- MCWarheads
    StartCoin = 1
    MaxClock = 1
    MaxOps = 4
SYMMETRY Perms
INVARIANTS
    ClaimsBounded
    ListedIsWhole
    PostageBounded
CHECK_DEADLOCK FALSE
