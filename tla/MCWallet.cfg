SPECIFICATION Spec
CONSTANTS
    Requests = {r1, r2}
    Items <- MCItems
    Nums = {0, 1}
    Courses <- MCCourses
    Goods <- MCGoods
    Prices <- MCPrices
    Doors <- MCDoors
    Passwords = {p1}
    Start <- MCStart
    StartGoods <- MCStartGoods
    MaxDebit = 1
    MaxOps = 3
SYMMETRY Perms
INVARIANTS
    TypeOK
    TransfersSound
    OverdraftBounded
    VipLevelSound
CHECK_DEADLOCK FALSE
