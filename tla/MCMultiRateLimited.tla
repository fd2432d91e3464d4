-------------------------- MODULE MCMultiRateLimited --------------------------
(***************************************************************************)
(* Five contracts that inherit RateLimited.                                *)
(*  - The global minter with two interchangeable minters; one actor holds  *)
(*    each administrative role.                                            *)
(*  - A contract that does anything with its buffer, and has rates and     *)
(*    caps below, at and above what a window of time earns.                *)
(*  - The TRIBE minter, called by governance, over a treasury that may be  *)
(*    excluded from the supply and other holders.                          *)
(*  - The TRIBE minter of a stabilizer, which is its admin.                *)
(*  - A contract that mints FEI, or drips it, once per period.             *)
(* A year is two seconds; half of what circulates may be issued in it.     *)
(***************************************************************************)
EXTENDS MultiRateLimited, TribeReserveStabilizer, TLC

CONSTANTS governor, guardian, adder, m1, m2

MCRoles == [role \in TribeRoles |->
    CASE role = "GOVERNOR"        -> {governor}
      [] role = "GUARDIAN"        -> {guardian}
      [] role = "ADD_MINTER_ROLE" -> {adder}
      [] OTHER                    -> {}]

MinterRoles == [role \in TribeRoles |->
    CASE role = "GOVERNOR"          -> {governor}
      [] role = "TRIBE_MINTER_ROLE" -> {stabilizer}
      [] OTHER                      -> {}]

TimedRoles == [role \in TribeRoles |-> IF role = "GOVERNOR" THEN {governor} ELSE {}]

MCReadings == {[ratio |-> 1, valid |-> TRUE], [ratio |-> 2, valid |-> TRUE], [ratio |-> 1, valid |-> FALSE]}

Symmetry == Permutations({m1, m2})

VARIABLE contract

AnyUse == INSTANCE RateLimited WITH
    AdminRoles <- {"GOVERNOR", "ADD_MINTER_ROLE"}, RateLimits <- 0..3, BufferCaps <- {0, 1, 3, 4},
    MaxTime <- 5

Minter == INSTANCE TribeMinter WITH
    Actors <- {governor}, roleMembers <- MinterRoles, AdminRoles <- {}, Amounts <- {2}, MaxTime <- 4,
    TribeHolders <- {"treasury", "others"}, Lockers <- {"treasury"}, TribeSupplies <- {4}, MaxTribe <- 8

VARIABLES
    kind, owner, timerStart, period, mintAmount, incentiveAmount, isFeiMinter, ready, settled

timedVars == <<kind, owner, timerStart, period, mintAmount, incentiveAmount, isFeiMinter, ready, settled>>

Timed == INSTANCE TimedMinter WITH
    Actors <- {governor, adder}, roleMembers <- TimedRoles, AdminRoles <- {},
    MAX_RATE_LIMIT_PER_SECOND <- 20, RateLimits <- {4}, BufferCaps <- {9}, Amounts <- {}, MaxTime <- 5,
    MIN_MINT_FREQUENCY <- 2, MAX_MINT_FREQUENCY <- 2, Frequencies <- {1, 2},
    MintAmounts <- {0, 4}, Incentives <- {0, 5}, PerSecondLimits <- {2},
    startTime <- timerStart, duration <- period

ASSUME Timed!TimedMinterAssumption

DueCallCovered == Timed!DueCallCovered

Exchange == INSTANCE TribeReserveStabilizer WITH
    Actors <- {governor, stabilizer}, roleMembers <- MinterRoles, AdminRoles <- {"TRIBE_MINTER_ROLE"},
    Amounts <- {1}, MaxTime <- 5

NoMultiLimit ==
    /\ rateLimitPerAddress = [m \in Minters |-> NoData]
    /\ addressHeadroom = [m \in Minters |-> 0]
    /\ individualMaxRateLimitPerSecond = 0 /\ individualMaxBufferCap = 0

NoTribe ==
    /\ annualMaxInflationBasisPoints = 0
    /\ excluded = [tribeTreasury |-> "none", tribeRewardsDripper |-> "none"]
    /\ tribeBalance = <<>> /\ totalSupply = 0 /\ isTribeMinter = FALSE
    /\ yearStart = 0 /\ yearMinted = 0 /\ yearCap = 0

NoCountdown ==
    /\ startTime = 0 /\ exchangePaused = FALSE /\ collateralizationThreshold = 0
    /\ reading = [ratio |-> 2, valid |-> TRUE]
    /\ shortfallSince = 0 /\ missedReset = FALSE /\ lastExchange = NoExchange

NoTimer ==
    /\ kind = "none" /\ owner = "none" /\ timerStart = 0 /\ period = 0 /\ mintAmount = 0
    /\ incentiveAmount = 0 /\ isFeiMinter = FALSE /\ ready = FALSE /\ settled = FALSE

MCInit ==
    \/ contract = "global minter" /\ MultiInit /\ NoTribe /\ NoCountdown /\ NoTimer
    \/ contract = "any use" /\ AnyUse!RLInit /\ NoMultiLimit /\ NoTribe /\ NoCountdown /\ NoTimer
    \/ contract = "TRIBE minter"
        /\ Minter!TribeMinterInit /\ CoreRefInit /\ NoMultiLimit /\ NoCountdown /\ NoTimer
    \/ contract = "stabilizer" /\ Exchange!StabilizerInit /\ NoMultiLimit /\ NoTimer
    \/ contract = "timed minter"
        /\ Timed!TimedMinterInit /\ CoreRefInit /\ NoMultiLimit /\ NoTribe /\ NoCountdown

MCNext ==
    /\ contract' = contract
    /\ \/ contract = "global minter" /\ MultiNext /\ UNCHANGED <<tribeMinterVars, stabilizerVars, timedVars>>
       \/ contract = "any use" /\ AnyUse!RLNext /\ UNCHANGED <<mintVars, tribeMinterVars, stabilizerVars, timedVars>>
       \/ contract = "TRIBE minter" /\ Minter!TribeMinterNext /\ UNCHANGED <<mintVars, stabilizerVars, timedVars>>
       \/ contract = "stabilizer" /\ Exchange!StabilizerNext /\ UNCHANGED <<mintVars, timedVars>>
       \/ contract = "timed minter" /\ Timed!TimedMinterNext /\ UNCHANGED <<mintVars, tribeMinterVars, stabilizerVars>>

MCSpec == MCInit /\ [][MCNext]_<<vars, contract, tribeMinterVars, stabilizerVars, timedVars>>

\* Bound: what comes after TRIBE has got another minter, a pause of the minter (which stops
\* nothing in it) or, under the stabilizer, another year of observation is left out; and for the
\* timed minter what comes after a pause, a change around it that stops the calls, or a setting
\* made too late for two more periods.
StillMinting ==
    /\ contract \in {"TRIBE minter", "stabilizer"} => isTribeMinter /\ ~paused
    /\ contract = "stabilizer" => yearStart = 1
    /\ contract = "timed minter" => ready /\ ~paused /\ (settled \/ now <= 3)
=============================================================================
