SPECIFICATION Spec
CONSTANTS
    Threads = {t1, t2}
    MaxLock = 1
    DayLock = 1
    MaxOps = 3
    Offered = {"fish", "fishWeb", "hallWeb", "hallAgain",
               "fishName", "hallName"}
SYMMETRY Perms
INVARIANTS
    UsersBounded
    PresentsBounded
    SessionsExpire
    CurrentIsSound
    PoolReleased
CHECK_DEADLOCK FALSE
