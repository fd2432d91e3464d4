\* In the first situation: one pool and two users, with a lock of one block and a multiplier of one and
\* a half, for which two halves of a deposit weigh less than the whole.
SPECIFICATION MCSpec
CONSTANTS
    Actors = {"admin"}
    roleMembers <- AdminOnly
    AdminRoles = {"TRIBAL_CHIEF_ADMIN_ROLE"}
    Users = {u1, u2}
    SCALE_FACTOR = 2
    ACC_TRIBE_PRECISION = 2
    LockLengths = {1}
    Multipliers = {3}
    AllocPoints = {1}
    BlockRewards = {}
    Amounts = {1, 2}
    InitialBlockReward = 1
    Funding = 2
    Wallet = 2
    sync = "sync"
    timelock = "timelock"
    rewards <- TwoRewards
    timestamps <- TwoTimestamps
    Scheduled <- OneChange
    MaxPools = 1
    MaxDeposits = 2
    MaxBlock = 3
    MaxRoundings = 2
    MaxWeight = 4
SYMMETRY UserSymmetry
CONSTRAINT OneStaker
INVARIANTS
    StakesHeld
    StakeReturnable
    RewardsCovered
    AllocPointsSum
    RewardsInStep
PROPERTIES
    LockedStaysPut
