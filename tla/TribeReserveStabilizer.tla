------------------------ MODULE TribeReserveStabilizer ------------------------
(***************************************************************************)
(* tribe/stabilizer/TribeReserveStabilizer.sol over the TRIBE minter whose *)
(* contract admin it is: when the protocol has been reported as under-     *)
(* collateralized for a while, FEI is exchanged for newly issued TRIBE.    *)
(* Anybody starts the countdown, resets it, and exchanges.                 *)
(*                                                                         *)
(* The FEI that is burned and the price are left out: the TRIBE paid for   *)
(* it is any amount.                                                       *)
(***************************************************************************)
EXTENDS TribeMinter

CONSTANTS
    stabilizer,     \* its address
    duration,       \* Timed.duration: no function changes it
    Readings,       \* what the collateralization oracle may read, valid or not
    Thresholds      \* what governance chooses from

ASSUME StabilizerAssumption == duration \in Nat \ {0}

VARIABLES
    startTime,                  \* Timed.startTime, 0 when no countdown runs
    exchangePaused,             \* its pause flag
    reading,                    \* collateralizationOracle.read()
    collateralizationThreshold,
    \* History: since when the shortfall has lasted without a second in between, and whether
    \* a countdown has gone on through a second that belonged to no shortfall.
    shortfallSince, missedReset,
    lastExchange                \* History: how that was at the last exchange

stabilizerVars ==
    <<startTime, exchangePaused, reading, collateralizationThreshold, shortfallSince, missedReset, lastExchange>>

isCollateralizationBelowThreshold == reading.valid /\ reading.ratio <= collateralizationThreshold

timeSinceStart == IF startTime = 0 THEN 0 ELSE min(now - startTime, duration)

isTimeEnded == duration - timeSinceStart = 0

NoExchange == [shortfall |-> 0, missed |-> TRUE]

StabilizerInit ==
    /\ TribeMinterInit
    /\ CoreRefInit
    /\ startTime = 0
    /\ exchangePaused = FALSE
    /\ reading \in Readings
    /\ collateralizationThreshold \in Thresholds
    /\ shortfallSince = now
    /\ missedReset = FALSE
    /\ lastExchange = NoExchange

-----------------------------------------------------------------------------
startOracleDelayCountdown ==
    /\ isCollateralizationBelowThreshold
    /\ startTime = 0
    /\ startTime' = now
    /\ UNCHANGED <<exchangePaused, reading, collateralizationThreshold, shortfallSince, missedReset, lastExchange>>

\* Mutation: the countdown goes on.
resetOracleDelayCountdownOnly ==
    /\ ~isCollateralizationBelowThreshold
    /\ startTime # 0
    /\ missedReset' = FALSE
    /\ UNCHANGED <<startTime, exchangePaused, reading, collateralizationThreshold, shortfallSince, lastExchange>>

resetOracleDelayCountdown ==
    /\ ~isCollateralizationBelowThreshold
    /\ startTime # 0
    /\ startTime' = 0
    /\ missedReset' = FALSE
    /\ UNCHANGED <<exchangePaused, reading, collateralizationThreshold, shortfallSince, lastExchange>>

\* exchangeFei of both contracts: the call to the minter reverts the rest when it fails.
exchangeFei(to, amountOut) ==
    /\ isTimeEnded
    /\ isCollateralizationBelowThreshold
    /\ ~exchangePaused
    /\ mintTribe(stabilizer, to, amountOut)
    /\ lastExchange' = [shortfall |-> now - shortfallSince, missed |-> missedReset]
    /\ UNCHANGED <<startTime, exchangePaused, reading, collateralizationThreshold, shortfallSince, missedReset>>

setCollateralizationThreshold(caller, threshold) ==
    /\ isGovernor(caller)
    /\ collateralizationThreshold' = threshold
    /\ UNCHANGED <<startTime, exchangePaused, reading, shortfallSince, missedReset, lastExchange>>

\* The oracle moves, becomes invalid, or is replaced (setCollateralizationOracle).
ReadingMoves ==
    /\ reading' \in Readings \ {reading}
    /\ UNCHANGED <<startTime, exchangePaused, collateralizationThreshold, shortfallSince, missedReset, lastExchange>>

\* pause and unpause of the stabilizer.
setExchangePaused(caller, flag) ==
    /\ onlyGuardianOrGovernor(caller)
    /\ exchangePaused = ~flag
    /\ exchangePaused' = flag
    /\ UNCHANGED <<startTime, reading, collateralizationThreshold, shortfallSince, missedReset, lastExchange>>

TimePasses(t) ==
    /\ AdvanceTime(t)
    /\ shortfallSince' = IF isCollateralizationBelowThreshold THEN shortfallSince ELSE t
    /\ missedReset' = (missedReset \/ (startTime # 0 /\ ~isCollateralizationBelowThreshold))
    /\ UNCHANGED <<startTime, exchangePaused, reading, collateralizationThreshold, lastExchange>>

StabilizerStep ==
    \/ startOracleDelayCountdown
    \/ resetOracleDelayCountdown
    \/ ReadingMoves
    \/ \E caller \in Actors :
        \/ \E threshold \in Thresholds : setCollateralizationThreshold(caller, threshold)
        \/ \E flag \in BOOLEAN : setExchangePaused(caller, flag)

StabilizerNext ==
    \/ TribeMinterStep /\ UNCHANGED <<stabilizerVars, coreRefVars>>
    \/ StabilizerStep /\ UNCHANGED <<rateLimitVars, tribeMinterVars, coreRefVars>>
    \/ \E to \in TribeHolders, amountOut \in Amounts \cup {0} :
        /\ totalSupply + amountOut <= MaxTribe
        /\ exchangeFei(to, amountOut) /\ UNCHANGED coreRefVars
    \/ \E t \in 1..MaxTime : TimePasses(t) /\ UNCHANGED <<tribeMinterVars, coreRefVars>>
    \/ \E caller \in Actors :
        CoreRefStep(caller) /\ UNCHANGED <<rateLimitVars, tribeMinterVars, stabilizerVars>>

stabilizerSystemVars == <<rateLimitVars, coreRefVars, tribeMinterVars, stabilizerVars>>

StabilizerSpec == StabilizerInit /\ [][StabilizerNext]_stabilizerSystemVars

-----------------------------------------------------------------------------
\* TRIBE is issued against FEI only in a shortfall that has lasted for the whole countdown
\* without a second in between, as long as nobody misses to reset a countdown that goes on
\* after a recovery; then, and only then, a later dip may open the exchange at once
\* (startOracleDelayCountdown, resetOracleDelayCountdown, exchangeFei).
ShortfallLasts == lastExchange.missed \/ lastExchange.shortfall >= duration
=============================================================================
