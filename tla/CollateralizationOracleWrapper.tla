-------------------- MODULE CollateralizationOracleWrapper --------------------
(***************************************************************************)
(* oracle/collateralization/CollateralizationOracleWrapper.sol, which      *)
(* caches what a CollateralizationOracle reads, and                        *)
(* CollateralizationOracleGuardian.sol, which holds the oracle admin role  *)
(* and lets a guardian write the cache within bounds.  The oracle behind   *)
(* the cache is what its interface promises: two values and a validity,    *)
(* which change at any time.  Wrapper and guardian contract are one state  *)
(* machine, since the second only acts through the first.                  *)
(***************************************************************************)
EXTENDS CoreRef

CONSTANTS
    oracleGuardian,     \* the address of the CollateralizationOracleGuardian
    frequency,          \* the duration of the guardian's timer, never changed
    Granularity,        \* BASIS_POINTS_GRANULARITY
    Thresholds,         \* the deviation thresholds governance asks for
    Durations,          \* the validity durations governance asks for
    PCVs, FEIs,         \* what may be cached as PCV and as circulating FEI
    Equities,           \* what governance may cache as equity
    Sources,            \* what the CollateralizationOracle may read
    MaxTime             \* bound: the last block timestamp explored

ASSUME WrapperAssumption ==
    /\ oracleGuardian \in Actors
    /\ frequency \in Nat \ {0}
    /\ Granularity \in Nat \ {0}
    /\ Thresholds \subseteq Nat /\ Durations \subseteq Nat
    /\ PCVs \subseteq Nat /\ FEIs \subseteq Nat
    /\ Sources \subseteq [pcv : Nat, fei : Nat, valid : BOOLEAN]
    /\ Equities \subseteq Int
    /\ MaxTime \in Nat

VARIABLES
    now,                \* block.timestamp
    initialized,        \* collateralizationOracle # address(0)
    source,             \* what the CollateralizationOracle behind the cache reads
    startTime, duration,
    cached,             \* the cached values
    deviationThresholdBasisPoints,
    readPauseOverride,
    guardianStartTime, guardianThreshold,   \* the state of the guardian contract
    base                \* history: what was cached, and when, before the guardian was on its own

settings == <<duration, deviationThresholdBasisPoints, readPauseOverride, guardianThreshold>>
cacheVars == <<startTime, cached>>
historyVars == <<guardianStartTime, base>>
wrapperVars == <<now, initialized, source, settings, cacheVars, historyVars, coreRefVars>>

-----------------------------------------------------------------------------
\* Timed: a timer that was never started has not ended.
ended(start, length) == start # 0 /\ now - start >= length

isOutdated == ended(startTime, duration)

readNotPaused == readPauseOverride \/ ~paused

\* What pcvStats and read report: the cache, and whether it is valid.
pcvStats == cached

validityStatus == readNotPaused /\ ~isOutdated

abs(n) == IF n < 0 THEN -n ELSE n

\* In basis points of the newer value, rounded down; it reverts when that is zero.
deviation(old, new) == (abs(new - old) * Granularity) \div new

exceedsThreshold(old, new) == deviation(old, new) > deviationThresholdBasisPoints

\* The first deviation is computed before the second, and suffices when it is large.
deviated ==
    /\ source.pcv # 0
    /\ \/ exceedsThreshold(cached.pcv, source.pcv)
       \/ source.fei # 0 /\ exceedsThreshold(cached.fei, source.fei)

deviationReverts ==
    \/ source.pcv = 0
    \/ source.fei = 0 /\ ~exceedsThreshold(cached.pcv, source.pcv)

-----------------------------------------------------------------------------
\* The two contracts as deployed, before initialize; the timer of the guardian contract
\* starts with it.
WrapperInit ==
    /\ now = 1
    /\ initialized = FALSE
    /\ source \in Sources
    /\ startTime = 0 /\ duration \in Durations \ {0}
    /\ cached = [pcv |-> 0, fei |-> 0, equity |-> 0]
    /\ deviationThresholdBasisPoints = 0
    /\ readPauseOverride = FALSE
    /\ guardianStartTime = now
    /\ guardianThreshold \in {t \in Thresholds : t <= Granularity}
    /\ CoreRefInit
    /\ base = [pcv |-> 0, fei |-> 0, since |-> now]

initialize(newDuration, newThreshold) ==
    /\ ~initialized
    /\ newDuration # 0
    /\ initialized' = TRUE
    /\ duration' = newDuration
    /\ deviationThresholdBasisPoints' = newThreshold
    /\ contractAdminRole' = "ORACLE_ADMIN_ROLE"
    /\ UNCHANGED <<now, source, readPauseOverride, guardianThreshold, cacheVars, historyVars, paused>>

setCollateralizationOracle(caller, newSource) ==
    /\ isGovernor(caller)
    /\ initialized' = TRUE
    /\ source' = newSource
    /\ UNCHANGED <<now, settings, cacheVars, historyVars, coreRefVars>>

setDeviationThresholdBasisPoints(caller, newThreshold) ==
    /\ onlyGovernorOrAdmin(caller)
    /\ newThreshold \in 1..Granularity
    /\ deviationThresholdBasisPoints' = newThreshold
    /\ UNCHANGED <<now, initialized, source, duration, readPauseOverride, guardianThreshold, cacheVars,
                   historyVars, coreRefVars>>

setValidityDuration(caller, newDuration) ==
    /\ onlyGovernorOrAdmin(caller)
    /\ newDuration # 0
    /\ duration' = newDuration
    /\ UNCHANGED <<now, initialized, source, deviationThresholdBasisPoints, readPauseOverride, guardianThreshold,
                   cacheVars, historyVars, coreRefVars>>

setReadPauseOverride(caller, newReadPauseOverride) ==
    /\ onlyGuardianOrGovernor(caller)
    /\ readPauseOverride' = newReadPauseOverride
    /\ UNCHANGED <<now, initialized, source, duration, deviationThresholdBasisPoints, guardianThreshold, cacheVars,
                   historyVars, coreRefVars>>

\* _setCache, which starts the validity of the new values.
writeCache(pcv, fei, equity) ==
    /\ cached' = [pcv |-> pcv, fei |-> fei, equity |-> equity]
    /\ startTime' = now

\* History: from here on, unless somebody else writes, the guardian is on its own.
startOver(pcv, fei) == base' = [pcv |-> pcv, fei |-> fei, since |-> now]

setCache(caller, pcv, fei, equity) ==
    /\ onlyGovernorOrAdmin(caller)
    /\ writeCache(pcv, fei, equity) /\ startOver(pcv, fei)
    /\ UNCHANGED <<now, initialized, source, settings, guardianStartTime, coreRefVars>>

\* _update: the deviation is not computed, and cannot revert, when the time is up.
refresh ==
    /\ ~paused
    /\ initialized
    /\ isOutdated \/ ~deviationReverts
    /\ source.valid
    /\ writeCache(source.pcv, source.fei, source.pcv - source.fei) /\ startOver(source.pcv, source.fei)
    /\ UNCHANGED <<now, initialized, source, settings, guardianStartTime, coreRefVars>>

update == refresh

updateIfOutdated ==
    /\ isOutdated \/ deviated
    /\ refresh

-----------------------------------------------------------------------------
\* The checks of CollateralizationOracleGuardian.setCache on the values it is given.
acceptable(pcv, fei) ==
    /\ pcv # 0 /\ deviation(cached.pcv, pcv) <= guardianThreshold
    /\ fei # 0 /\ deviation(cached.fei, fei) <= guardianThreshold

\* Mutation: the timer is started when it is checked, not when the cache is written.
guardianSetCacheKeepsTimer(caller, pcv, fei) ==
    /\ onlyGuardianOrGovernor(caller)
    /\ ended(guardianStartTime, frequency)
    /\ acceptable(pcv, fei)
    /\ onlyGovernorOrAdmin(oracleGuardian)
    /\ writeCache(pcv, fei, pcv - fei)
    /\ UNCHANGED <<now, initialized, source, settings, historyVars, coreRefVars>>

guardianSetCache(caller, pcv, fei) ==
    /\ onlyGuardianOrGovernor(caller)
    /\ ended(guardianStartTime, frequency)
    /\ acceptable(pcv, fei)
    /\ onlyGovernorOrAdmin(oracleGuardian)
    /\ writeCache(pcv, fei, pcv - fei)
    /\ guardianStartTime' = now
    /\ UNCHANGED <<now, initialized, source, settings, base, coreRefVars>>

setGuardianThreshold(caller, newThreshold) ==
    /\ isGovernor(caller)
    /\ newThreshold <= Granularity
    /\ guardianThreshold' = newThreshold
    /\ startOver(cached.pcv, cached.fei)
    /\ UNCHANGED <<now, initialized, source, duration, deviationThresholdBasisPoints, readPauseOverride, cacheVars,
                   guardianStartTime, coreRefVars>>

-----------------------------------------------------------------------------
\* What pcvStats sums up moves: the deposits, and the feeds, which may stop being valid.
SourceChanges ==
    /\ source' \in Sources
    /\ UNCHANGED <<now, initialized, settings, cacheVars, historyVars, coreRefVars>>

AdvanceTime ==
    /\ now < MaxTime
    /\ now' = now + 1
    /\ UNCHANGED <<initialized, source, settings, cacheVars, historyVars, coreRefVars>>

WrapperNext ==
    \/ \E d \in Durations, t \in Thresholds : initialize(d, t)
    \/ \E caller \in Actors :
        \/ \E s \in Sources : setCollateralizationOracle(caller, s)
        \/ \E t \in Thresholds :
            \/ setDeviationThresholdBasisPoints(caller, t)
            \/ setGuardianThreshold(caller, t)
        \/ \E d \in Durations : setValidityDuration(caller, d)
        \/ \E b \in BOOLEAN : setReadPauseOverride(caller, b)
        \/ \E pcv \in PCVs, fei \in FEIs :
            \/ \E equity \in Equities : setCache(caller, pcv, fei, equity)
            \/ guardianSetCache(caller, pcv, fei)
        \/ CoreRefStep(caller) /\ UNCHANGED <<now, initialized, source, settings, cacheVars, historyVars>>
    \/ update
    \/ updateIfOutdated
    \/ SourceChanges
    \/ AdvanceTime

WrapperSpec == WrapperInit /\ [][WrapperNext]_wrapperVars

-----------------------------------------------------------------------------
\* b ^ n, by its recursion.
power(b, n) ==
    LET p[k \in Nat] == IF k = 0 THEN 1 ELSE b * p[k - 1]
    IN  p[n]

\* What k moves, each by a deviation of at most the threshold, can make of a value.  A
\* deviation is taken of the new value and rounded down.
Within(threshold, old, new, k) ==
    LET up == Granularity - threshold - 1
        down == Granularity + threshold + 1
    IN  /\ up > 0 => new * power(up, k) <= old * power(Granularity, k)
        /\ old * power(Granularity, k) <= new * power(down, k)

\* The periods of its timer the guardian has begun since it is on its own.
periods == 1 + (now - base.since) \div frequency

\* However often and in whatever order a guardian, pauses and time alternate, it moves a
\* cached value in k periods by no more than k single moves do, up or down, between two
\* writes by a reading or by governance (afterTime, setCache of both contracts).
GuardianDriftBounded ==
    /\ Within(guardianThreshold, base.pcv, cached.pcv, periods)
    /\ Within(guardianThreshold, base.fei, cached.fei, periods)

\* What CollateralizationOracleGuardian.sol:26 and :34 say of the bound: a move changes a
\* value by at most the threshold, relative to the value before the move.
MovesRelativeToCurrent ==
    LET WithinCurrent(old, new) ==
            new * power(Granularity, periods) <= old * power(Granularity + guardianThreshold + 1, periods)
    IN  WithinCurrent(base.pcv, cached.pcv) /\ WithinCurrent(base.fei, cached.fei)

-----------------------------------------------------------------------------
\* The types of the variables the bound is about.
WrapperTypeOK ==
    /\ now \in Nat
    /\ source \in Sources
    /\ cached.pcv \in Nat /\ cached.fei \in Nat
    /\ base.pcv \in Nat /\ base.fei \in Nat /\ base.since \in Nat
    /\ guardianStartTime \in Nat
    /\ guardianThreshold \in 0..Granularity

\* The periods that had begun when the guardian last wrote: no move belongs to a later one.
periodsUsed ==
    IF guardianStartTime >= base.since THEN 1 + (guardianStartTime - base.since) \div frequency ELSE 0

\* The inductive strengthening: the bound holds with the periods the guardian has used, and
\* each of its moves uses one more, because its timer lets a whole period pass between two.
WrapperInv ==
    /\ WrapperTypeOK
    /\ base.since <= now /\ guardianStartTime <= now
    /\ Within(guardianThreshold, base.pcv, cached.pcv, periodsUsed)
    /\ Within(guardianThreshold, base.fei, cached.fei, periodsUsed)
=============================================================================
