SPECIFICATION BenefitSpec
CONSTANTS
    Takers = {r1, r2}
    SaveTimes = 2
    BenefitCoin = 1
    MaxDay = 1
    MaxTokens = 2
    MaxInfos = 3
SYMMETRY Perms
INVARIANTS
    BenefitTypeOK
    DailyOvershootBounded
    TokenOvershootBounded
CHECK_DEADLOCK FALSE
