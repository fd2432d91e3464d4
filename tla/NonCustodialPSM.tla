--------------------------- MODULE NonCustodialPSM ---------------------------
(***************************************************************************)
(* peg/NonCustodialPSM.sol: a peg stability module that keeps its reserves *)
(* in a PCV deposit and mints through the global rate-limited minter.  Its *)
(* inherited rate limit is on redemptions: they deplete it, mints          *)
(* replenish it.  The FEI it was paid is handed out before new FEI is      *)
(* minted; new FEI spends the minter's two buffers.                        *)
(*                                                                         *)
(* As in PegStabilityModule.tla, everybody outside the protocol is one     *)
(* holder and minAmountOut is left out.                                    *)
(***************************************************************************)
EXTENDS RateLimited, Constants

CONSTANTS
    psm,                        \* the address of this module, one of the minters
    Minters, UINT32, UINT112,   \* see MultiRateLimited.tla
    MINTER_MAX_RATE,            \* MAX_RATE_LIMIT_PER_SECOND of the global minter
    MinterRates, MinterCaps,    \* what governance asks for there
    MAX_FEE, ONE, Prices, Fees, PublicFei, PublicUnderlying,
    Deposits                    \* the PCV deposits that hold the underlying token

\* What the proofs take for granted of the constants.
NonCustodialAssumption ==
    /\ psm \in Minters
    /\ BASIS_POINTS_GRANULARITY \in Nat \ {0}
    /\ MAX_FEE \in 0..BASIS_POINTS_GRANULARITY
    /\ ONE \in Nat \ {0}
    /\ Prices \subseteq Nat \ {0}
    /\ Fees \subseteq Nat
    /\ PublicFei \in Nat /\ PublicUnderlying \in Nat

VARIABLES
    \* The state of the global minter.
    minterRate, minterUsedTime, minterCap, minterStored, minterWindow, minterPaused, minterAdminRole,
    rateLimitPerAddress, individualMaxRateLimitPerSecond, individualMaxBufferCap, addressHeadroom,
    \* The state of this module.
    oraclePrice,        \* what readOracle() returns; 0 when no oracle is valid
    mintFeeBasisPoints, redeemFeeBasisPoints, mintPaused, redeemPaused,
    pcvDeposit,
    isMinterKnown,      \* rateLimitedMinter is the global minter, not one that does not know this module
    feiBalance,         \* FEI held by the module
    depositBalance,     \* underlying held by each deposit
    publicFei, publicUnderlying,
    netHeadroom         \* history: see OpenWindow

\* Neither of the two allows partial actions: they share that flag here.
Minter == INSTANCE MultiRateLimited WITH
    MAX_RATE_LIMIT_PER_SECOND <- MINTER_MAX_RATE, RateLimits <- MinterRates, BufferCaps <- MinterCaps,
    rateLimitPerSecond <- minterRate, lastBufferUsedTime <- minterUsedTime, bufferCap <- minterCap,
    bufferStored <- minterStored, windowHeadroom <- minterWindow,
    paused <- minterPaused, contractAdminRole <- minterAdminRole

minterState == <<minterRate, minterUsedTime, minterCap, minterStored, minterWindow, minterPaused, minterAdminRole,
    rateLimitPerAddress, individualMaxRateLimitPerSecond, individualMaxBufferCap, addressHeadroom>>
switches == <<mintFeeBasisPoints, redeemFeeBasisPoints, mintPaused, redeemPaused, pcvDeposit, isMinterKnown>>
funds == <<feiBalance, depositBalance, publicFei, publicUnderlying>>
redemptionVars == <<rateLimitVars, coreRefVars>>
nonCustodialVars == <<redemptionVars, minterState, oraclePrice, switches, funds, netHeadroom>>

-----------------------------------------------------------------------------
getMintAmountOut(amountIn) ==
    (oraclePrice * amountIn * (BASIS_POINTS_GRANULARITY - mintFeeBasisPoints)) \div (BASIS_POINTS_GRANULARITY * ONE)

\* The fee is rounded before the division by the price.
getRedeemAmountOut(amountFeiIn) ==
    (((amountFeiIn * (BASIS_POINTS_GRANULARITY - redeemFeeBasisPoints)) \div BASIS_POINTS_GRANULARITY) * ONE)
        \div oraclePrice

NonCustodialInit ==
    /\ RateLimitInit /\ CoreRefInit
    /\ ~doPartialAction
    /\ Minter!MultiInit
    /\ oraclePrice \in Prices
    /\ mintFeeBasisPoints \in {f \in Fees : f <= MAX_FEE}
    /\ redeemFeeBasisPoints \in {f \in Fees : f <= MAX_FEE}
    /\ mintPaused = FALSE /\ redeemPaused = FALSE
    /\ pcvDeposit \in Deposits
    /\ isMinterKnown = TRUE
    /\ feiBalance = 0
    /\ depositBalance = [d \in Deposits |-> 0]
    /\ publicFei = PublicFei /\ publicUnderlying = PublicUnderlying
    /\ netHeadroom = bufferCap

\* Mutation: the limit is charged with what is paid out, less the fee.
redeemChargesOut(amountFeiIn) ==
    LET amountOut == getRedeemAmountOut(amountFeiIn)
    IN  /\ ~paused /\ ~redeemPaused
        /\ oraclePrice # 0
        /\ depleteBuffer(amountOut)
        /\ amountFeiIn <= publicFei
        /\ amountOut <= depositBalance[pcvDeposit]
        /\ publicFei' = publicFei - amountFeiIn
        /\ feiBalance' = feiBalance + amountFeiIn
        /\ depositBalance' = [depositBalance EXCEPT ![pcvDeposit] = @ - amountOut]
        /\ publicUnderlying' = publicUnderlying + amountOut
        /\ netHeadroom' = netHeadroom - amountFeiIn
        /\ UNCHANGED <<coreRefVars, minterState, oraclePrice, switches>>

\* The FEI is kept, not burned; the deposit pays.
redeem(amountFeiIn) ==
    LET amountOut == getRedeemAmountOut(amountFeiIn)
    IN  /\ ~paused /\ ~redeemPaused
        /\ depleteBuffer(amountFeiIn)
        /\ oraclePrice # 0
        /\ amountFeiIn <= publicFei
        /\ amountOut <= depositBalance[pcvDeposit]
        /\ publicFei' = publicFei - amountFeiIn
        /\ feiBalance' = feiBalance + amountFeiIn
        /\ depositBalance' = [depositBalance EXCEPT ![pcvDeposit] = @ - amountOut]
        /\ publicUnderlying' = publicUnderlying + amountOut
        /\ netHeadroom' = netHeadroom - amountFeiIn
        /\ UNCHANGED <<coreRefVars, minterState, oraclePrice, switches>>

\* The call that mints what the module does not hold.
mintRest(amountFeiToMint) ==
    IF amountFeiToMint = 0
    THEN UNCHANGED minterState
    ELSE /\ isMinterKnown
         /\ Minter!mint(psm, amountFeiToMint)

mint(amountIn) ==
    LET amountFeiOut        == getMintAmountOut(amountIn)
        amountFeiToTransfer == min(feiBalance, amountFeiOut)
    IN  /\ ~paused /\ ~mintPaused
        /\ oraclePrice # 0
        /\ amountIn <= publicUnderlying
        /\ publicUnderlying' = publicUnderlying - amountIn
        /\ depositBalance' = [depositBalance EXCEPT ![pcvDeposit] = @ + amountIn]
        /\ feiBalance' = feiBalance - amountFeiToTransfer
        /\ publicFei' = publicFei + amountFeiOut
        /\ mintRest(amountFeiOut - amountFeiToTransfer)
        /\ replenishBuffer(amountFeiOut)
        /\ netHeadroom' = netHeadroom + amountFeiOut
        /\ UNCHANGED <<coreRefVars, oraclePrice, switches>>

\* Anybody may transfer FEI to the module without calling it.  Underlying sent to it is
\* of no use to any trade and left out.
transferFei(amount) ==
    /\ amount <= publicFei
    /\ publicFei' = publicFei - amount
    /\ feiBalance' = feiBalance + amount
    /\ UNCHANGED <<redemptionVars, minterState, oraclePrice, switches, depositBalance, publicUnderlying, netHeadroom>>

\* withdrawERC20 of the FEI it holds, to an address of the protocol.
withdrawFei(caller, amount) ==
    /\ hasRole("PCV_CONTROLLER", caller)
    /\ amount <= feiBalance
    /\ feiBalance' = feiBalance - amount
    /\ UNCHANGED <<redemptionVars, minterState, oraclePrice, switches, depositBalance, publicFei, publicUnderlying,
                   netHeadroom>>

-----------------------------------------------------------------------------
setFee(caller, fee) ==
    /\ hasAnyOfTwoRoles("GOVERNOR", "PARAMETER_ADMIN", caller)
    /\ fee <= MAX_FEE
    /\ \/ mintFeeBasisPoints' = fee /\ UNCHANGED redeemFeeBasisPoints
       \/ redeemFeeBasisPoints' = fee /\ UNCHANGED mintFeeBasisPoints
    /\ UNCHANGED <<mintPaused, redeemPaused, pcvDeposit, isMinterKnown>>

\* pauseMint, unpauseMint, pauseRedeem and unpauseRedeem succeed in any state.
setTradePaused(caller, flag) ==
    /\ onlyGuardianOrGovernor(caller)
    /\ \/ mintPaused' = flag /\ UNCHANGED redeemPaused
       \/ redeemPaused' = flag /\ UNCHANGED mintPaused
    /\ UNCHANGED <<mintFeeBasisPoints, redeemFeeBasisPoints, pcvDeposit, isMinterKnown>>

\* What the old deposit holds stays there.
setPCVDeposit(caller, newTarget) ==
    /\ hasAnyOfTwoRoles("GOVERNOR", "PSM_ADMIN_ROLE", caller)
    /\ pcvDeposit' = newTarget
    /\ UNCHANGED <<mintFeeBasisPoints, redeemFeeBasisPoints, mintPaused, redeemPaused, isMinterKnown>>

setGlobalRateLimitedMinter(caller, known) ==
    /\ hasAnyOfTwoRoles("GOVERNOR", "PSM_ADMIN_ROLE", caller)
    /\ isMinterKnown' = known
    /\ UNCHANGED <<mintFeeBasisPoints, redeemFeeBasisPoints, mintPaused, redeemPaused, pcvDeposit>>

Configure(caller) ==
    \/ \E fee \in Fees : setFee(caller, fee)
    \/ \E flag \in BOOLEAN : setTradePaused(caller, flag) \/ setGlobalRateLimitedMinter(caller, flag)
    \/ \E d \in Deposits : setPCVDeposit(caller, d)

OracleMoves ==
    /\ oraclePrice' \in (Prices \cup {0}) \ {oraclePrice}
    /\ UNCHANGED <<redemptionVars, minterState, switches, funds, netHeadroom>>

\* The minter's other callers.  Governance moves this module's registration; another minter,
\* whose own limit and FEI are not followed here, takes from the shared buffer.
MinterStep ==
    /\ \/ \E caller \in Actors, m \in Minters : Minter!Registration(caller, m)
       \/ /\ ~minterPaused
          /\ \E amount \in Amounts : Minter!depleteBuffer(amount)
          /\ UNCHANGED <<minterPaused, minterAdminRole, rateLimitPerAddress, individualMaxRateLimitPerSecond,
                         individualMaxBufferCap, addressHeadroom>>
    /\ UNCHANGED <<rateLimitState, windowHeadroom, coreRefVars, oraclePrice, switches, funds, netHeadroom>>

\* Time passes for both limits.
Advance(t) ==
    /\ AdvanceTime(t)
    /\ Minter!MultiAdvance(t)
    /\ netHeadroom' = netHeadroom + rateLimitPerSecond * (t - now)
    /\ UNCHANGED <<coreRefVars, oraclePrice, switches, funds>>

\* History only: an observer opens a window on the trades.  netHeadroom is what may still
\* be redeemed in that window, net of what is minted in it: the cap at its start, plus
\* what the rate is worth, plus all FEI handed out since, less all FEI taken in.
OpenWindow ==
    /\ netHeadroom' = bufferCap
    /\ UNCHANGED <<redemptionVars, minterState, oraclePrice, switches, funds>>

NonCustodialNext ==
    \/ \E amount \in Amounts :
        \/ mint(amount)
        \/ redeem(amount)
        \/ transferFei(amount)
        \/ \E caller \in Actors : withdrawFei(caller, amount)
    \/ \E caller \in Actors :
        \/ Configure(caller) /\ UNCHANGED <<redemptionVars, minterState, oraclePrice, funds, netHeadroom>>
        \/ /\ RateLimitGovernance(caller) /\ UNCHANGED coreRefVars
           /\ UNCHANGED <<minterState, oraclePrice, switches, funds, netHeadroom>>
        \/ /\ CoreRefStep(caller) /\ UNCHANGED rateLimitVars
           /\ UNCHANGED <<minterState, oraclePrice, switches, funds, netHeadroom>>
    \/ OracleMoves
    \/ MinterStep
    \/ \E t \in 1..MaxTime : Advance(t)
    \/ OpenWindow

NonCustodialSpec == NonCustodialInit /\ [][NonCustodialNext]_nonCustodialVars

-----------------------------------------------------------------------------
\* In any window of time the FEI redeemed exceeds the FEI minted by at most the cap at
\* its start and what the rate is worth, however mints and redemptions alternate, at
\* whatever price and fee, and however governance moves the limit: trading back and forth
\* does not buy capacity (redeem, mint).
NetRedemptionBounded == netHeadroom >= 0

\* The inductive strengthening: the window covers the buffer.
NetCoversBuffer == buffer <= netHeadroom
=============================================================================
