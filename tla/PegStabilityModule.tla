-------------------------- MODULE PegStabilityModule --------------------------
(***************************************************************************)
(* peg/PegStabilityModule.sol and its two descendants PriceBoundPSM.sol    *)
(* and FixedPricePSM.sol: FEI is minted for an underlying token and        *)
(* redeemed for it, at the oracle price or at one to one.  FEI that the    *)
(* module holds is handed out before new FEI is minted, and only the new   *)
(* part is charged on the inherited rate limit.                            *)
(*                                                                         *)
(* Everybody outside the protocol is one holder, "the public": what it     *)
(* holds is all a sequence of trades can change.  A caller's minAmountOut  *)
(* can only turn a call into a revert, so it is left out.                  *)
(***************************************************************************)
EXTENDS RateLimited, Constants

CONSTANTS
    MAX_FEE,                    \* 300 in the code, in basis points
    ONE,                        \* the base of Decimal.D256, 10^18 in the code
    isPriceBound,               \* the contract is a PriceBoundPSM
    isFixedPrice,               \* the contract is a FixedPricePSM (a PriceBoundPSM too)
    Prices,                     \* values readOracle() may return, as multiples of 1/ONE
    Fees, Thresholds, Bounds,   \* what governance chooses from
    PublicFei, PublicUnderlying \* what the public starts out with

ASSUME PSMAssumption ==
    /\ BASIS_POINTS_GRANULARITY \in Nat \ {0}
    /\ MAX_FEE \in 0..BASIS_POINTS_GRANULARITY
    /\ ONE \in Nat \ {0}
    /\ isPriceBound \in BOOLEAN /\ isFixedPrice \in BOOLEAN
    /\ isFixedPrice => isPriceBound
    /\ Prices \subseteq Nat \ {0}
    /\ Fees \subseteq Nat /\ Thresholds \subseteq Nat /\ Bounds \subseteq Nat
    /\ PublicFei \in Nat /\ PublicUnderlying \in Nat

VARIABLES
    oraclePrice,        \* what readOracle() returns; 0 when no oracle is valid
    mintFeeBasisPoints, redeemFeeBasisPoints, reservesThreshold,
    floor, ceiling,     \* PriceBoundPSM only
    mintPaused, redeemPaused,
    feiBalance,         \* FEI held by the module
    balance,            \* underlying held by the module
    publicFei, publicUnderlying

settings == <<mintFeeBasisPoints, redeemFeeBasisPoints, reservesThreshold, floor, ceiling, mintPaused, redeemPaused>>
holdings == <<feiBalance, balance, publicFei, publicUnderlying>>
vars == <<rateLimitVars, coreRefVars, oraclePrice, settings, holdings>>

\* No call but those of RateLimited moves the rate limit.
limitUnchanged == UNCHANGED <<rateLimitVars, coreRefVars>>

-----------------------------------------------------------------------------
\* PriceBoundPSM._validPrice: strictly between the bounds.
validPrice(price) ==
    isPriceBound => /\ price * BASIS_POINTS_GRANULARITY > floor * ONE
                    /\ price * BASIS_POINTS_GRANULARITY < ceiling * ONE

\* A quote exists: readOracle() does not revert and the price is in range.
quotable == oraclePrice # 0 /\ validPrice(oraclePrice)

\* The price a trade is made at: FixedPricePSM checks the oracle and then uses one.
tradePrice == IF isFixedPrice THEN ONE ELSE oraclePrice

\* What is left of an amount after a fee, before rounding, in basis points.
lessFee(amount, feeBasisPoints) == amount * (BASIS_POINTS_GRANULARITY - feeBasisPoints)

\* Mutation: the fee is added instead of taken.
getMintAmountOutWithFeeAdded(amountIn) ==
    (tradePrice * (amountIn * (BASIS_POINTS_GRANULARITY + mintFeeBasisPoints)))
        \div (BASIS_POINTS_GRANULARITY * ONE)

getMintAmountOut(amountIn) ==
    (tradePrice * lessFee(amountIn, mintFeeBasisPoints)) \div (BASIS_POINTS_GRANULARITY * ONE)

\* Mutation: the price is applied the way a mint applies it.
getRedeemAmountOutAtInverse(amountFeiIn) ==
    ((lessFee(amountFeiIn, redeemFeeBasisPoints) \div BASIS_POINTS_GRANULARITY) * tradePrice) \div ONE

\* The fee is rounded before the division by the price.
getRedeemAmountOut(amountFeiIn) ==
    ((lessFee(amountFeiIn, redeemFeeBasisPoints) \div BASIS_POINTS_GRANULARITY) * ONE) \div tradePrice

getMaxMintAmountOut == feiBalance + buffer

reservesSurplus == balance - reservesThreshold

-----------------------------------------------------------------------------
\* The constructors.  The admin role is PSM_ADMIN_ROLE from the start, and
\* PriceBoundPSM sets the ceiling before the floor.
PSMInit ==
    /\ RateLimitInit
    /\ ~doPartialAction
    /\ paused = FALSE
    /\ contractAdminRole = "PSM_ADMIN_ROLE"
    /\ oraclePrice \in Prices
    /\ mintFeeBasisPoints \in {f \in Fees : f <= MAX_FEE}
    /\ redeemFeeBasisPoints \in {f \in Fees : f <= MAX_FEE}
    /\ reservesThreshold \in Thresholds \ {0}
    /\ IF isPriceBound
       THEN /\ ceiling \in Bounds \ {0}
            /\ floor \in {b \in Bounds \ {0} : b < ceiling}
       ELSE floor = 0 /\ ceiling = 0
    /\ mintPaused = FALSE
    /\ redeemPaused = FALSE
    /\ feiBalance = 0
    /\ balance = 0
    /\ publicFei = PublicFei
    /\ publicUnderlying = PublicUnderlying

\* Mutation: the whole amount is charged on the rate limit, FEI held or not.
mintChargesAll(amountIn) ==
    LET amountFeiOut == getMintAmountOut(amountIn)
        fromHeld     == min(feiBalance, amountFeiOut)
    IN  /\ ~paused /\ ~mintPaused
        /\ quotable
        /\ amountIn <= publicUnderlying
        /\ publicUnderlying' = publicUnderlying - amountIn
        /\ balance' = balance + amountIn
        /\ feiBalance' = feiBalance - fromHeld
        /\ publicFei' = publicFei + amountFeiOut
        /\ IF amountFeiOut > 0 THEN depleteBuffer(amountFeiOut) ELSE UNCHANGED rateLimitVars
        /\ UNCHANGED <<coreRefVars, oraclePrice, settings>>

\* Mutation: new FEI is minted without the rate limit.
mintUncharged(amountIn) ==
    LET amountFeiOut == getMintAmountOut(amountIn)
        fromHeld     == min(feiBalance, amountFeiOut)
    IN  /\ ~paused /\ ~mintPaused
        /\ quotable
        /\ amountIn <= publicUnderlying
        /\ publicUnderlying' = publicUnderlying - amountIn
        /\ balance' = balance + amountIn
        /\ feiBalance' = feiBalance - fromHeld
        /\ publicFei' = publicFei + amountFeiOut
        /\ UNCHANGED <<rateLimitVars, coreRefVars, oraclePrice, settings>>

\* mint and _mint: the quote, the underlying in, the FEI held out, the rest minted.
mint(amountIn) ==
    LET amountFeiOut == getMintAmountOut(amountIn)
        fromHeld     == min(feiBalance, amountFeiOut)
    IN  /\ ~paused /\ ~mintPaused
        /\ quotable
        /\ amountIn <= publicUnderlying
        /\ publicUnderlying' = publicUnderlying - amountIn
        /\ balance' = balance + amountIn
        /\ feiBalance' = feiBalance - fromHeld
        /\ publicFei' = publicFei + amountFeiOut
        /\ IF amountFeiOut > fromHeld
           THEN depleteBuffer(amountFeiOut - fromHeld)
           ELSE UNCHANGED rateLimitVars
        /\ UNCHANGED <<coreRefVars, oraclePrice, settings>>

\* redeem and _redeem: the FEI is kept, not burned.
redeem(amountFeiIn) ==
    LET amountOut == getRedeemAmountOut(amountFeiIn)
    IN  /\ ~paused /\ ~redeemPaused
        /\ quotable
        /\ amountFeiIn <= publicFei
        /\ amountOut <= balance
        /\ publicFei' = publicFei - amountFeiIn
        /\ feiBalance' = feiBalance + amountFeiIn
        /\ balance' = balance - amountOut
        /\ publicUnderlying' = publicUnderlying + amountOut
        /\ UNCHANGED <<oraclePrice, settings>> /\ limitUnchanged

\* allocateSurplus and deposit send the surplus to the surplus target, which is
\* not the public; without a surplus the one reverts and the other does nothing.
allocateSurplus ==
    /\ reservesSurplus > 0
    /\ balance' = balance - reservesSurplus
    /\ UNCHANGED <<feiBalance, publicFei, publicUnderlying, oraclePrice, settings>> /\ limitUnchanged

\* PCVDeposit: withdraw of the underlying, withdrawERC20 of either token, to an
\* address of the protocol.
withdraw(caller, amount) ==
    /\ hasRole("PCV_CONTROLLER", caller)
    /\ amount <= balance
    /\ balance' = balance - amount
    /\ UNCHANGED <<feiBalance, publicFei, publicUnderlying, oraclePrice, settings>> /\ limitUnchanged

withdrawFei(caller, amount) ==
    /\ hasRole("PCV_CONTROLLER", caller)
    /\ amount <= feiBalance
    /\ feiBalance' = feiBalance - amount
    /\ UNCHANGED <<balance, publicFei, publicUnderlying, oraclePrice, settings>> /\ limitUnchanged

\* Anybody may transfer either token to the module without calling it.
transferIn(fei, amount) ==
    /\ IF fei
       THEN /\ amount <= publicFei
            /\ publicFei' = publicFei - amount
            /\ feiBalance' = feiBalance + amount
            /\ UNCHANGED <<balance, publicUnderlying>>
       ELSE /\ amount <= publicUnderlying
            /\ publicUnderlying' = publicUnderlying - amount
            /\ balance' = balance + amount
            /\ UNCHANGED <<feiBalance, publicFei>>
    /\ UNCHANGED <<oraclePrice, settings>> /\ limitUnchanged

OracleMoves ==
    /\ oraclePrice' \in (Prices \cup {0}) \ {oraclePrice}
    /\ UNCHANGED <<settings, holdings>> /\ limitUnchanged

-----------------------------------------------------------------------------
setMintFee(caller, fee) ==
    /\ onlyGovernorOrAdmin(caller)
    /\ fee <= MAX_FEE
    /\ mintFeeBasisPoints' = fee
    /\ UNCHANGED <<redeemFeeBasisPoints, reservesThreshold, floor, ceiling, mintPaused, redeemPaused>>

setRedeemFee(caller, fee) ==
    /\ onlyGovernorOrAdmin(caller)
    /\ fee <= MAX_FEE
    /\ redeemFeeBasisPoints' = fee
    /\ UNCHANGED <<mintFeeBasisPoints, reservesThreshold, floor, ceiling, mintPaused, redeemPaused>>

setReservesThreshold(caller, threshold) ==
    /\ onlyGovernorOrAdmin(caller)
    /\ threshold > 0
    /\ reservesThreshold' = threshold
    /\ UNCHANGED <<mintFeeBasisPoints, redeemFeeBasisPoints, floor, ceiling, mintPaused, redeemPaused>>

setOracleFloorBasisPoints(caller, bound) ==
    /\ isPriceBound
    /\ onlyGovernorOrAdmin(caller)
    /\ bound # 0 /\ bound < ceiling
    /\ floor' = bound
    /\ UNCHANGED <<mintFeeBasisPoints, redeemFeeBasisPoints, reservesThreshold, ceiling, mintPaused, redeemPaused>>

setOracleCeilingBasisPoints(caller, bound) ==
    /\ isPriceBound
    /\ onlyGovernorOrAdmin(caller)
    /\ bound # 0 /\ bound > floor
    /\ ceiling' = bound
    /\ UNCHANGED <<mintFeeBasisPoints, redeemFeeBasisPoints, reservesThreshold, floor, mintPaused, redeemPaused>>

\* pauseMint, unpauseMint, pauseRedeem and unpauseRedeem succeed in any state.
setMintPaused(caller, flag) ==
    /\ isGovernorOrGuardianOrAdmin(caller)
    /\ mintPaused' = flag
    /\ UNCHANGED <<mintFeeBasisPoints, redeemFeeBasisPoints, reservesThreshold, floor, ceiling, redeemPaused>>

setRedeemPaused(caller, flag) ==
    /\ isGovernorOrGuardianOrAdmin(caller)
    /\ redeemPaused' = flag
    /\ UNCHANGED <<mintFeeBasisPoints, redeemFeeBasisPoints, reservesThreshold, floor, ceiling, mintPaused>>

Configure(caller) ==
    \/ \E fee \in Fees : setMintFee(caller, fee) \/ setRedeemFee(caller, fee)
    \/ \E threshold \in Thresholds : setReservesThreshold(caller, threshold)
    \/ \E bound \in Bounds : setOracleFloorBasisPoints(caller, bound) \/ setOracleCeilingBasisPoints(caller, bound)
    \/ \E flag \in BOOLEAN : setMintPaused(caller, flag) \/ setRedeemPaused(caller, flag)

PSMNext ==
    \/ \E amount \in Amounts :
        \/ mint(amount)
        \/ redeem(amount)
        \/ transferIn(TRUE, amount)
        \/ transferIn(FALSE, amount)
        \/ \E caller \in Actors : withdraw(caller, amount) \/ withdrawFei(caller, amount)
    \/ allocateSurplus
    \/ OracleMoves
    \/ \E caller \in Actors :
        \/ Configure(caller) /\ UNCHANGED <<oraclePrice, holdings>> /\ limitUnchanged
        \/ RateLimitGovernance(caller) /\ UNCHANGED <<coreRefVars, oraclePrice, settings, holdings>>
        \/ CoreRefStep(caller) /\ UNCHANGED <<rateLimitVars, oraclePrice, settings, holdings>>
    \/ \E t \in 1..MaxTime : AdvanceTime(t) /\ UNCHANGED <<coreRefVars, oraclePrice, settings, holdings>>

PSMSpec == PSMInit /\ [][PSMNext]_vars

-----------------------------------------------------------------------------
PSMTypeOK ==
    /\ RLTypeOK
    /\ oraclePrice \in Prices \cup {0}
    /\ mintFeeBasisPoints \in 0..MAX_FEE /\ redeemFeeBasisPoints \in 0..MAX_FEE
    /\ reservesThreshold \in Nat \ {0}
    /\ floor \in Nat /\ ceiling \in Nat
    /\ isPriceBound => floor < ceiling
    /\ mintPaused \in BOOLEAN /\ redeemPaused \in BOOLEAN
    /\ feiBalance \in Nat /\ balance \in Nat
    /\ publicFei \in Nat /\ publicUnderlying \in Nat

\* What the public owns, valued at the price of a trade.
publicWealth == tradePrice * publicUnderlying + ONE * publicFei

\* However mints, redemptions, transfers and changes of fees are ordered, a trade
\* never makes the public richer at the price it is made at: both quotes round
\* against the trader (_getMintAmountOut, _getRedeemAmountOut).
PublicNeverGains == [][tradePrice' = tradePrice => publicWealth' <= publicWealth]_vars

\* A module that trades at one to one never has more FEI of its making in
\* circulation than the underlying that the public has paid in, whatever the
\* oracle does, whatever FEI from elsewhere is redeemed (FixedPricePSM).
FeiBacked == isFixedPrice => publicFei + publicUnderlying <= PublicFei + PublicUnderlying

\* Every FEI that comes into existence is charged on the rate limit, and FEI that is
\* merely handed on is not (_mint, RateLimitedMinter._mintFei).
MintsAreCharged ==
    [][publicFei' + feiBalance' > publicFei + feiBalance
        => buffer' = buffer - (publicFei' + feiBalance' - publicFei - feiBalance)]_vars

\* A mint whose quote is at most getMaxMintAmountOut() is never refused by the rate
\* limit, even when the buffer is empty and only held FEI is left.
MaxMintReachable ==
    \A amount \in Amounts :
        /\ quotable /\ ~paused /\ ~mintPaused
        /\ amount <= publicUnderlying
        /\ getMintAmountOut(amount) <= getMaxMintAmountOut
        => ENABLED mint(amount)

=============================================================================
