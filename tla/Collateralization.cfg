\* The oracle has prices in halves, so that the division of each token rounds.  The cache has
\* tenths for basis points, and a guardian that may act every second time unit.
SPECIFICATION MCSpec
CONSTANTS
    Actors = {"governor", "guardian", "oracleGuardian"}
    roleMembers <- MCRoles
    AdminRoles = {"GOVERNOR"}
    Tokens = {"t1", "t2"}
    NoToken = "none"
    Oracles = {"o1", "o2"}
    NoOracle = "none"
    Deposits = {"d1", "d2", "d3"}
    ONE = 2
    Readings <- MCReadings
    oracleGuardian = "oracleGuardian"
    frequency = 2
    Granularity = 10
    Thresholds = {3, 5}
    Durations = {0, 2}
    PCVs = {0, 2, 3, 4, 6}
    FEIs = {2, 3}
    Equities <- MCEquities
    Sources <- MCSources
    MaxTime = 5
INVARIANTS
    CountsEachDepositOnce
    GuardianDriftBounded
