\* The base contract: the oracle price moves between one half, one and one and a
\* half; a fee of 1 is a tenth, 4 is above the maximum.
SPECIFICATION MCSpec
CONSTANTS
    Actors = {"governor", "guardian", "admin", "controller"}
    roleMembers <- MCRoles
    AdminRoles = {"PSM_ADMIN_ROLE"}
    MAX_RATE_LIMIT_PER_SECOND = 1
    RateLimits = {1}
    BufferCaps = {3}
    Amounts = {1, 2, 4}
    MaxTime = 2
    BASIS_POINTS_GRANULARITY = 10
    MAX_FEE = 3
    ONE = 2
    isPriceBound = FALSE
    isFixedPrice = FALSE
    Prices = {1, 2, 3}
    Fees = {0, 1, 4}
    Thresholds = {0, 1}
    Bounds = {0}
    PublicFei = 1
    PublicUnderlying = 4
INVARIANTS
    MaxMintReachable
    NetRedemptionBounded
PROPERTIES
    PublicNeverGains
    MintsAreCharged
CONSTRAINTS Trading NarrowWindow
VIEW View
