SPECIFICATION Spec
CONSTANTS
    Users = {u1, u2, u3}
    Threads = {t1, t2}
    Limit = 0
    MaxClock = 1
    MaxOps = 3
SYMMETRY Perms
INVARIANTS
    FriendsBounded
    RequestsBounded
    MutualUnlessMarred
CHECK_DEADLOCK FALSE
