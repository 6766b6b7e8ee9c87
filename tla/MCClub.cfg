SPECIFICATION Spec
CONSTANTS
    Accounts = {a1, a2, a3}
    Nobody = Nobody
    Threads = {t1, t2}
    MaxClub = 2
    MaxOwn = 1
    MaxManagers = 1
    MaxOps = 3
SYMMETRY Perms
INVARIANTS
    MembershipAgrees
    NothingLeftBehind
    OneOwner
    DecisionsInOrder
    ManagersBounded
PROPERTY
    ClubsAreLimited
CHECK_DEADLOCK FALSE
