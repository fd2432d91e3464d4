\* 112-bit values are cut at 3, so that the shared cap and the maxima can exceed them; the
\* timestamp outgrows its 32 bits at the last second.  TribeMinter.sol has 0 for the maximum
\* rate, which binds nothing in it: there the 2 is the largest rate that this supply allows.
SPECIFICATION MCSpec
CONSTANTS
    governor = governor
    guardian = guardian
    adder = adder
    m1 = m1
    m2 = m2
    Actors = {governor, guardian, adder, m1, m2}
    roleMembers <- MCRoles
    AdminRoles = {"GOVERNOR"}
    MAX_RATE_LIMIT_PER_SECOND = 2
    RateLimits = {1}
    BufferCaps = {2, 3}
    Amounts = {1, 2}
    MaxTime = 3
    Minters = {m1, m2}
    UINT32 = 3
    UINT112 = 3
    ONE_YEAR = 2
    BASIS_POINTS_GRANULARITY = 2
    Inflations = {1}
    TribeHolders = {"others"}
    Lockers = {}
    TribeSupplies = {2}
    MaxTribe = 3
    stabilizer = "stabilizer"
    duration = 2
    Readings <- MCReadings
    Thresholds = {1}
INVARIANTS
    AddressWindowBounded
    WindowBounded
    MintMaxAvailable
    InflationBounded
    ShortfallLasts
    DueCallCovered
PROPERTIES
    ImplementsBucket
SYMMETRY Symmetry
CONSTRAINT StillMinting
