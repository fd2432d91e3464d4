SPECIFICATION MCSpec
CONSTANTS
    Actors <- MCActors
    roleMembers <- NoRoles
    AdminRoles = {}
    Admins = {"alpha", "FeiDAO"}
    NoAdmin = "none"
    FirstAdmin = "alpha"
    alpha = "alpha"
    FirstGuardian = "none"
    MINIMUM_DELAY = 1
    MAXIMUM_DELAY = 2
    GRACE_PERIOD = 1
    Delays = {1, 2}
    Payloads = {"upgrade"}
    VoteTables <- MovingVotes
    Bundles <- OneBundle
    quorumVotes = 2
    proposalThreshold = 1
    proposalMaxOperations = 2
    votingDelay = 0
    votingPeriod = 2
    MaxProposals = 2
    Successors = {"FeiDAO"}
    GuardianEtas = {4}
    MaxTimestamp = 6
    MaxQueued = 2
CONSTRAINTS BoundedQueue QuietVote
INVARIANTS
    OneLiveProposal
    NoVoteCountsTwice
    QueuePassedVote
    QueuedIsHeld
PROPERTIES
    StateNeverGoesBack
CHECK_DEADLOCK FALSE
