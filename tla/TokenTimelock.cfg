\* Quadratic locks with a cliff.
SPECIFICATION MCSpec
SYMMETRY DelegateeSymmetry
CONSTANTS
    d1 = d1
    d2 = d2
    Actors = {"beneficiary", "admin"}
    NoAddress = "none"
    Quadratic = TRUE
    Duration = 3
    cliffSeconds = 1
    StartTimes = {0, 2}
    clawbackAdmin = "none"
    Governors = {}
    Delegatees = {d1, d2}
    Amounts = {1, 2, 4}
    MaxReceived = 6
    MaxTime = 4
INVARIANTS
    VestedOnly
    DelegatedIsHeld
PROPERTIES
    ClawbackLeavesVested
