\* FixedPricePSM: trades at one while the oracle moves in and out of its bounds.
SPECIFICATION MCSpec
CONSTANTS
    Actors = {"governor", "guardian", "admin", "controller"}
    roleMembers <- MCRoles
    AdminRoles = {"PSM_ADMIN_ROLE"}
    MAX_RATE_LIMIT_PER_SECOND = 1
    RateLimits = {1}
    BufferCaps = {5}
    Amounts = {1, 2, 4}
    MaxTime = 2
    BASIS_POINTS_GRANULARITY = 10
    MAX_FEE = 3
    ONE = 2
    isPriceBound = TRUE
    isFixedPrice = TRUE
    Prices = {1, 2}
    Fees = {0, 3, 4}
    Thresholds = {0, 1}
    Bounds = {0, 8, 12}
    PublicFei = 1
    PublicUnderlying = 4
INVARIANTS
    FeiBacked
