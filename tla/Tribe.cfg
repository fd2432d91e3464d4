\* Two holders over four blocks; in the last one block numbers are too large for a checkpoint.
SPECIFICATION TribeSpec
CONSTANTS
    Accounts = {"a", "b"}
    NoAddress = "none"
    Spenders = {"spender"}
    Treasury = "a"
    FirstMinter = "minter"
    Minters = {"minter", "successor"}
    InitialSupply = 1
    UINT96 = 3
    UINT32 = 4
    Infinite = 9
    Amounts = {1, 3}
    Approvals = {1, 3, 9}
    MaxBlock = 4
    MaxNonce = 0
    Deadlines = {2}
CONSTRAINT LittlePaperwork
INVARIANTS
    VotesFollowBalances
PROPERTIES
    ImplementsVoteHistory

