------------------------------ MODULE TimedMinter ------------------------------
(***************************************************************************)
(* The contracts that anybody, or an owner, may call once per period:      *)
(* fei/minter/FeiTimedMinter.sol ("timed", and with no amount to mint      *)
(* keeper/CollateralizationOracleKeeper.sol), OwnableTimedMinter.sol       *)
(* ("owned"), PCVEquityMinter.sol ("equity") and                           *)
(* pcv/utils/PCVDripController.sol ("drip").  A call restarts the timer,   *)
(* pays the caller's incentive and then mints the amount, both from the    *)
(* buffer of the inherited rate limit.                                     *)
(***************************************************************************)
EXTENDS RateLimited

CONSTANTS
    MIN_MINT_FREQUENCY, MAX_MINT_FREQUENCY,
    Frequencies,    \* the periods asked for, in seconds, some outside these two
    MintAmounts,    \* the amounts of FEI to mint
    Incentives,     \* the amounts of FEI for the caller
    PerSecondLimits \* the limits given to the equity minter's constructor

\* An amount of FEI counts wei: where it is not 0 it exceeds the square of any period, and
\* what it is worth per second exceeds the period.
TimedMinterAssumption ==
    /\ MIN_MINT_FREQUENCY \in Nat \ {0} /\ MAX_MINT_FREQUENCY \in Nat
    /\ Frequencies \subseteq Nat
    /\ MintAmounts \subseteq Nat /\ Incentives \subseteq Nat /\ PerSecondLimits \subseteq Nat
    /\ \A f \in Frequencies, a \in MintAmounts \cup Incentives : a = 0 \/ a >= f * f
    /\ \A f \in Frequencies, r \in PerSecondLimits : r >= f

VARIABLES
    kind, owner,
    startTime, duration,    \* Timed
    mintAmount,             \* 0 for a drip, which mints nothing but the incentive
    incentiveAmount,
    isFeiMinter,            \* Core.isMinter(address(this))
    ready,                  \* nothing else that the call calls reverts: see SurroundingsMove
    settled                 \* history: see call

timedVars == <<kind, owner, startTime, duration, mintAmount, incentiveAmount, isFeiMinter, ready, settled>>

isTimeEnded == now - startTime >= duration

\* The cap of the buffer that the constructors ask for, and a mutation of it.
amountOnly(amount, incentive) == amount
mintingBufferCap(amount, incentive) == amount + incentive

-----------------------------------------------------------------------------
\* The constructors; the two bounds of the frequency hold from the first setFrequency on.
\* The equity minter is given a limit per second in place of an amount.
TimedMinterInit ==
    /\ kind \in {"timed", "owned", "equity", "drip"}
    /\ owner \in Actors
    /\ now = 1 /\ startTime = now
    /\ duration \in Frequencies \ {0}
    /\ mintAmount \in IF kind = "drip" THEN {0} ELSE MintAmounts
    /\ incentiveAmount \in IF kind = "owned" THEN {0} ELSE Incentives
    /\ \E perSecond \in PerSecondLimits :
          bufferCap = mintingBufferCap(IF kind = "equity" THEN perSecond * duration ELSE mintAmount, incentiveAmount)
    /\ rateLimitPerSecond = bufferCap \div duration
    /\ rateLimitPerSecond <= MAX_RATE_LIMIT_PER_SECOND
    /\ lastBufferUsedTime = now /\ bufferStored = bufferCap /\ windowHeadroom = bufferCap
    /\ doPartialAction = (kind # "drip")
    /\ isFeiMinter \in BOOLEAN /\ ready \in BOOLEAN
    /\ settled = TRUE

\* What the two depletions of a call take, in turn.  Without the minter role the incentive
\* is skipped and minting reverts.
incentivePaid == usedAmount(incentiveAmount)

amountMinted ==
    IF doPartialAction THEN min(mintAmount, buffer - incentivePaid) ELSE mintAmount

limitAllows ==
    /\ buffer # 0 /\ incentivePaid <= buffer
    /\ mintAmount # 0 => buffer # incentivePaid /\ amountMinted <= buffer - incentivePaid

\* The limit is what the constructor would make it, or more.
limitFits ==
    /\ rateLimitPerSecond >= bufferCap \div duration
    /\ bufferCap >= incentiveAmount + IF kind = "equity" THEN duration * duration ELSE mintAmount

\* FeiTimedMinter.mint and PCVDripController.drip.  History: settled records that the limit
\* fitted when the timer was last started and that no setter has been called since.
call(caller) ==
    /\ kind = "owned" => caller = owner
    /\ ~paused /\ isTimeEnded /\ ready
    /\ startTime' = now
    /\ \/ isFeiMinter /\ limitAllows /\ depleteBuffer(incentivePaid + amountMinted)
       \/ ~isFeiMinter /\ mintAmount = 0 /\ UNCHANGED rateLimitVars
    /\ settled' = limitFits
    /\ UNCHANGED <<kind, owner, duration, mintAmount, incentiveAmount, isFeiMinter, ready, coreRefVars>>

-----------------------------------------------------------------------------
setFrequency(caller, frequency) ==
    /\ onlyGovernorOrAdmin(caller)
    /\ kind # "drip"
    /\ frequency \in MIN_MINT_FREQUENCY..MAX_MINT_FREQUENCY
    /\ duration' = frequency
    /\ settled' = FALSE
    /\ UNCHANGED <<kind, owner, startTime, mintAmount, incentiveAmount, isFeiMinter, ready>>

\* Of no consequence for the equity minter, which overrides mintAmount.
setMintAmount(caller, amount) ==
    /\ onlyGovernorOrAdmin(caller)
    /\ kind \in {"timed", "owned"}
    /\ mintAmount' = amount
    /\ settled' = FALSE
    /\ UNCHANGED <<kind, owner, startTime, duration, incentiveAmount, isFeiMinter, ready>>

setIncentiveAmount(caller, amount) ==
    /\ isGovernor(caller)
    /\ incentiveAmount' = amount
    /\ settled' = FALSE
    /\ UNCHANGED <<kind, owner, startTime, duration, mintAmount, isFeiMinter, ready>>

\* Ownable, and Core granting or revoking the role.
transferOwnership(caller, newOwner) ==
    /\ kind = "owned" /\ caller = owner
    /\ owner' = newOwner
    /\ UNCHANGED <<kind, startTime, duration, mintAmount, incentiveAmount, isFeiMinter, ready, settled>>

setMinterRole(caller) ==
    /\ isGovernor(caller)
    /\ isFeiMinter' = ~isFeiMinter
    /\ UNCHANGED <<kind, owner, startTime, duration, mintAmount, incentiveAmount, ready, settled>>

\* Everything around the contract, some of it chosen by setTarget, setSource, setDripAmount,
\* setCollateralizationOracle and setAPRBasisPoints: whether FEI is paused, whether the
\* target is short enough of funds to be dripped to and the source can pay, whether the
\* hook after a mint goes through, and what the equity is, from which that minter's amount follows.
SurroundingsMove ==
    /\ ready' \in BOOLEAN
    /\ mintAmount' \in IF kind = "equity" THEN MintAmounts ELSE {mintAmount}
    /\ UNCHANGED <<kind, owner, startTime, duration, incentiveAmount, isFeiMinter, settled>>

Configure(caller) ==
    \/ \E f \in Frequencies : setFrequency(caller, f)
    \/ \E a \in MintAmounts : setMintAmount(caller, a)
    \/ \E a \in Incentives : setIncentiveAmount(caller, a)
    \/ \E a \in Actors : transferOwnership(caller, a)
    \/ setMinterRole(caller)

TimedMinterNext ==
    \/ \E caller \in Actors :
        \/ call(caller)
        \/ Configure(caller) /\ UNCHANGED <<rateLimitVars, coreRefVars>>
        \/ /\ RateLimitGovernance(caller)
           /\ settled' = FALSE
           /\ UNCHANGED <<kind, owner, startTime, duration, mintAmount, incentiveAmount, isFeiMinter, ready>>
           /\ UNCHANGED coreRefVars
        \/ CoreRefStep(caller) /\ UNCHANGED <<rateLimitVars, timedVars>>
    \/ SurroundingsMove /\ UNCHANGED <<rateLimitVars, coreRefVars>>
    \/ \E t \in 1..MaxTime : AdvanceTime(t) /\ UNCHANGED <<timedVars, coreRefVars>>

TimedMinterSpec ==
    TimedMinterInit /\ CoreRefInit /\ [][TimedMinterNext]_<<rateLimitVars, coreRefVars, timedVars>>

-----------------------------------------------------------------------------
\* The limit never keeps a call from being made when it is due, whether earlier calls were made
\* on time, late, in part or not at all: with a limit of the size the constructor gives it,
\* rounded down as it is, the buffer has always recovered enough for the incentive and some of
\* the amount.  Only a drip, which is paid in full or not at all, may have to wait for one
\* second longer (mint, drip, _incentivize, _depleteBuffer).
DueCallCovered ==
    /\ settled
    /\ isFeiMinter
    /\ mintAmount + incentiveAmount # 0
    /\ now - startTime >= duration + IF kind = "drip" THEN 1 ELSE 0
    => limitAllows

\* Why: the timer has not been started before the buffer was last used, and the rate makes
\* up for the whole cap but for less than one period's seconds.
RefilledWhenDue ==
    settled => limitFits /\ lastBufferUsedTime <= startTime
=============================================================================
