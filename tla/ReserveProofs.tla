---------------------------- MODULE ReserveProofs ----------------------------
(***************************************************************************)
(* Proofs about the contracts that trade against reserves within a limit.  *)
(* NonCustodialPSM.tla, for every price, fee, cap and rate, any number of  *)
(* deposits and callers, and whatever the global minter does: the limit on *)
(* redemptions bounds what leaves in any window of time, net of what mints *)
(* bring back.  TribeMinter.tla and TribeReserveStabilizer.tla, for every  *)
(* supply, inflation, length of the year and of the countdown: what a year *)
(* can issue, and when TRIBE is issued against FEI.                        *)
(***************************************************************************)
EXTENDS NonCustodialPSM, TribeReserveStabilizer, RateLimitedProofs

\* The types that the bound depends on.
NetTypeOK ==
    /\ RateLimitTypeOK
    /\ doPartialAction = FALSE
    /\ netHeadroom \in Int
    /\ oraclePrice \in Nat
    /\ mintFeeBasisPoints \in 0..MAX_FEE

\* The inductive invariant: as for the limit itself, the window has to cover all that the
\* buffer still lets through.
NetInv == NetTypeOK /\ WindowCoversBuffer /\ NetCoversBuffer

-----------------------------------------------------------------------------
\* A quote for a mint is a natural number (_getMintAmountOut).
LEMMA MintQuoteNat ==
    ASSUME NonCustodialAssumption, NetTypeOK, NEW amountIn \in Nat
    PROVE  getMintAmountOut(amountIn) \in Nat
<1> DEFINE g == BASIS_POINTS_GRANULARITY
<1>1. /\ oraclePrice \in Nat /\ g \in Nat \ {0} /\ ONE \in Nat \ {0}
      /\ g - mintFeeBasisPoints \in Nat
    BY DEF NonCustodialAssumption, NetTypeOK
<1>2. \A x, y \in Nat : x * y \in Nat
    BY SMT
<1>3. \A x, y \in Nat \ {0} : x * y \in Nat \ {0}
    BY SMT
<1>4. \A x \in Nat, y \in Nat \ {0} : x \div y \in Nat
    BY SMT
<1>5. oraclePrice * amountIn * (g - mintFeeBasisPoints) \in Nat
    BY <1>1, <1>2, Zenon
<1>6. g * ONE \in Nat \ {0}
    BY <1>1, <1>3, Zenon
<1> QED BY <1>4, <1>5, <1>6, Zenon DEF getMintAmountOut

\* Without partial actions a depletion takes exactly the amount from the buffer.
LEMMA DepleteExact ==
    ASSUME RateLimitTypeOK, RateLimitAssumption, doPartialAction = FALSE,
           NEW amount \in Nat, depleteBuffer(amount)
    PROVE  buffer' = buffer - amount /\ doPartialAction' = FALSE
<1>1. usedAmount(amount) = amount
    BY DEF usedAmount
<1>2. /\ amount <= buffer /\ bufferStored' = buffer - amount
      /\ now' = now /\ lastBufferUsedTime' = now /\ bufferCap' = bufferCap
      /\ rateLimitPerSecond' = rateLimitPerSecond /\ doPartialAction' = FALSE
    BY <1>1 DEF depleteBuffer
<1>3. buffer \in Nat /\ buffer <= bufferCap /\ bufferCap \in Nat /\ rateLimitPerSecond \in Nat
    BY BufferFacts DEF RateLimitTypeOK, RateLimitAssumption
<1>4. buffer - amount \in Nat
    BY <1>2, <1>3
<1>5. buffer' = min(buffer - amount, bufferCap)
    BY <1>2, <1>3, <1>4, SyncedBuffer
<1> QED BY <1>2, <1>3, <1>5 DEF min

\* A replenishment by any amount gives back at most that amount, and keeps the limit's
\* own invariant (ReplenishStep says that for the amounts of the bucket).
LEMMA ReplenishAtMost ==
    ASSUME RateLimitTypeOK, RateLimitAssumption, WindowCoversBuffer, doPartialAction = FALSE,
           NEW amount \in Nat, replenishBuffer(amount)
    PROVE  /\ RateLimitTypeOK' /\ WindowCoversBuffer' /\ doPartialAction' = FALSE
           /\ buffer' \in Nat /\ buffer' <= buffer + amount
<1>1. /\ buffer \in Nat /\ buffer <= bufferCap /\ bufferCap \in Nat
      /\ rateLimitPerSecond \in 0..MAX_RATE_LIMIT_PER_SECOND /\ rateLimitPerSecond \in Nat
      /\ now \in Nat /\ windowHeadroom \in Int
    BY BufferFacts DEF RateLimitTypeOK, RateLimitAssumption
<1>2. CASE buffer = bufferCap
  <2>1. UNCHANGED rateLimitVars
    BY <1>2 DEF replenishBuffer
  <2>2. RateLimitTypeOK' /\ WindowCoversBuffer'
    BY <2>1, IdleStep
  <2>3. buffer' = buffer /\ doPartialAction' = FALSE
    BY <2>1 DEF buffer, rateLimitVars, rateLimitState
  <2> QED BY <1>1, <2>2, <2>3
<1>3. CASE buffer # bufferCap
  <2> DEFINE given == min(buffer + amount, bufferCap)
  <2>1. /\ bufferStored' = given /\ windowHeadroom' = windowHeadroom + (given - buffer)
        /\ now' = now /\ lastBufferUsedTime' = now /\ bufferCap' = bufferCap
        /\ rateLimitPerSecond' = rateLimitPerSecond /\ doPartialAction' = FALSE
    BY <1>3 DEF replenishBuffer
  <2>2. given \in Nat /\ given <= buffer + amount /\ given <= bufferCap
    BY <1>1 DEF min
  <2> HIDE DEF given
  <2>3. buffer' = min(given, bufferCap)
    BY <1>1, <2>1, <2>2, SyncedBuffer
  <2>4. buffer' = given
    BY <1>1, <2>2, <2>3 DEF min
  <2>5. doPartialAction' \in BOOLEAN
    BY <2>1, Zenon
  <2>6. RateLimitTypeOK'
    BY <1>1, <2>1, <2>2, <2>5 DEF RateLimitTypeOK
  <2>7. WindowCoversBuffer'
    BY <1>1, <2>1, <2>2, <2>4 DEF WindowCoversBuffer
  <2> QED BY <2>1, <2>2, <2>4, <2>6, <2>7
<1> QED BY <1>2, <1>3

\* A call of governance on the limit never enlarges the buffer.
LEMMA GovernanceNeverEnlarges ==
    ASSUME RateLimitTypeOK, RateLimitAssumption, WindowCoversBuffer, doPartialAction = FALSE,
           NEW caller, RateLimitGovernance(caller)
    PROVE  /\ RateLimitTypeOK' /\ WindowCoversBuffer' /\ doPartialAction' = FALSE
           /\ buffer' \in Nat /\ buffer' <= buffer
<1>1. buffer \in Nat /\ buffer <= bufferCap /\ bufferCap \in Nat /\ rateLimitPerSecond \in Nat
    BY BufferFacts DEF RateLimitTypeOK, RateLimitAssumption
<1>2. ASSUME NEW r \in RateLimits, setRateLimitPerSecond(caller, r)
      PROVE  /\ RateLimitTypeOK' /\ WindowCoversBuffer' /\ doPartialAction' = FALSE
             /\ buffer' \in Nat /\ buffer' <= buffer
  <2>1. r \in Nat
    BY DEF RateLimitAssumption
  <2>2. RateLimitTypeOK' /\ WindowCoversBuffer'
    BY <1>2, <2>1, SetRateStep
  <2>3. /\ bufferStored' = buffer /\ now' = now /\ lastBufferUsedTime' = now
        /\ bufferCap' = bufferCap /\ rateLimitPerSecond' = r /\ doPartialAction' = FALSE
    BY <1>2 DEF setRateLimitPerSecond, updateBufferStored
  <2>4. buffer' = min(buffer, bufferCap)
    BY <1>1, <2>1, <2>3, SyncedBuffer
  <2> QED BY <1>1, <2>2, <2>3, <2>4 DEF min
<1>3. ASSUME NEW c \in BufferCaps, setBufferCap(caller, c)
      PROVE  /\ RateLimitTypeOK' /\ WindowCoversBuffer' /\ doPartialAction' = FALSE
             /\ buffer' \in Nat /\ buffer' <= buffer
  <2>1. c \in Nat
    BY DEF RateLimitAssumption
  <2>2. RateLimitTypeOK' /\ WindowCoversBuffer'
    BY <1>3, <2>1, SetCapStep
  <2>3. /\ bufferStored' = buffer /\ now' = now /\ lastBufferUsedTime' = now
        /\ bufferCap' = c /\ rateLimitPerSecond' = rateLimitPerSecond /\ doPartialAction' = FALSE
    BY <1>3 DEF setBufferCap, updateBufferStored
  <2>4. buffer' = min(buffer, c)
    BY <1>1, <2>1, <2>3, SyncedBuffer
  <2> QED BY <1>1, <2>1, <2>2, <2>3, <2>4 DEF min
<1> QED BY <1>2, <1>3 DEF RateLimitGovernance

-----------------------------------------------------------------------------
\* The constructor establishes the invariant: the window starts with the full buffer.
LEMMA InitNetInv ==
    ASSUME NonCustodialAssumption, RateLimitAssumption, RolesAssumption, NonCustodialInit
    PROVE  NetInv
<1>1. IInv
    BY InitIInv DEF NonCustodialInit, RLInit
<1>2. RateLimitTypeOK /\ WindowCoversBuffer
    BY <1>1 DEF IInv, RLTypeOK
<1>3. doPartialAction = FALSE
    BY Zenon DEF NonCustodialInit, RateLimitInit
<1>4. oraclePrice \in Nat /\ mintFeeBasisPoints \in 0..MAX_FEE
    BY DEF NonCustodialInit, NonCustodialAssumption
<1>5. netHeadroom = bufferCap
    BY DEF NonCustodialInit
<1>6. bufferCap \in Nat /\ buffer <= bufferCap
    BY <1>2, BufferFacts DEF RateLimitTypeOK
<1> QED BY <1>2, <1>3, <1>4, <1>5, <1>6 DEF NetInv, NetTypeOK, NetCoversBuffer

\* A redemption takes from the window what it takes from the buffer: what is paid in FEI,
\* fee included, not what is paid out.
LEMMA RedeemStep ==
    ASSUME NonCustodialAssumption, RateLimitAssumption, NetInv, NEW amount \in Nat, redeem(amount)
    PROVE  NetInv'
<1>1. /\ depleteBuffer(amount) /\ netHeadroom' = netHeadroom - amount
      /\ oraclePrice' = oraclePrice /\ mintFeeBasisPoints' = mintFeeBasisPoints
    BY DEF redeem, switches
<1>2. RateLimitTypeOK' /\ WindowCoversBuffer'
    BY <1>1, DepleteStep DEF NetInv, NetTypeOK
<1>3. buffer' = buffer - amount /\ doPartialAction' = FALSE
    BY <1>1, DepleteExact DEF NetInv, NetTypeOK
<1>4. buffer \in Nat /\ netHeadroom \in Int /\ buffer <= netHeadroom
    BY BufferFacts DEF NetInv, NetTypeOK, NetCoversBuffer
<1>5. netHeadroom' \in Int /\ buffer' <= netHeadroom'
    BY <1>1, <1>3, <1>4
<1>6. oraclePrice' \in Nat /\ mintFeeBasisPoints' \in 0..MAX_FEE
    BY <1>1 DEF NetInv, NetTypeOK
<1> QED BY <1>2, <1>3, <1>5, <1>6 DEF NetInv, NetTypeOK, NetCoversBuffer

\* A mint adds to the window all the FEI that it hands out, and to the buffer at most that.
LEMMA MintStep ==
    ASSUME NonCustodialAssumption, RateLimitAssumption, NetInv, NEW amount \in Nat, mint(amount)
    PROVE  NetInv'
<1> DEFINE out == getMintAmountOut(amount)
<1>1. /\ replenishBuffer(out) /\ netHeadroom' = netHeadroom + out
      /\ oraclePrice' = oraclePrice /\ mintFeeBasisPoints' = mintFeeBasisPoints
    BY DEF mint, switches
<1>2. out \in Nat
    BY MintQuoteNat DEF NetInv
<1> HIDE DEF out
<1>3. /\ RateLimitTypeOK' /\ WindowCoversBuffer' /\ doPartialAction' = FALSE
      /\ buffer' \in Nat /\ buffer' <= buffer + out
    BY <1>1, <1>2, ReplenishAtMost DEF NetInv, NetTypeOK
<1>4. buffer \in Nat /\ netHeadroom \in Int /\ buffer <= netHeadroom
    BY BufferFacts DEF NetInv, NetTypeOK, NetCoversBuffer
<1>5. netHeadroom' \in Int /\ buffer' <= netHeadroom'
    BY <1>1, <1>2, <1>3, <1>4
<1>6. oraclePrice' \in Nat /\ mintFeeBasisPoints' \in 0..MAX_FEE
    BY <1>1 DEF NetInv, NetTypeOK
<1> QED BY <1>3, <1>5, <1>6 DEF NetInv, NetTypeOK, NetCoversBuffer

\* Time adds to the window what the rate is worth, and to the buffer at most that.
LEMMA AdvanceNetStep ==
    ASSUME RateLimitAssumption, NetInv, NEW t \in Nat, Advance(t)
    PROVE  NetInv'
<1> DEFINE earned == rateLimitPerSecond * (t - now)
<1>1. /\ AdvanceTime(t) /\ netHeadroom' = netHeadroom + earned
      /\ oraclePrice' = oraclePrice /\ mintFeeBasisPoints' = mintFeeBasisPoints
    BY DEF Advance, switches
<1>2. RateLimitTypeOK' /\ WindowCoversBuffer'
    BY <1>1, AdvanceStep DEF NetInv, NetTypeOK
<1>3. /\ now <= t /\ now' = t /\ UNCHANGED rateLimitState /\ doPartialAction' = FALSE
    BY <1>1 DEF AdvanceTime, rateLimitState, NetInv, NetTypeOK, RateLimitTypeOK
<1>4. earned \in Nat /\ buffer' = min(buffer + earned, bufferCap)
    BY <1>3, AdvanceBuffer DEF NetInv, NetTypeOK
<1> HIDE DEF earned
<1>5. buffer \in Nat /\ bufferCap \in Nat /\ netHeadroom \in Int /\ buffer <= netHeadroom
    BY BufferFacts DEF NetInv, NetTypeOK, NetCoversBuffer, RateLimitTypeOK
<1>6. netHeadroom' \in Int /\ buffer' <= netHeadroom'
    BY <1>1, <1>4, <1>5 DEF min
<1>7. oraclePrice' \in Nat /\ mintFeeBasisPoints' \in 0..MAX_FEE
    BY <1>1 DEF NetInv, NetTypeOK
<1> QED BY <1>2, <1>3, <1>6, <1>7 DEF NetInv, NetTypeOK, NetCoversBuffer

\* Governance on the limit changes no window, and the buffer only downwards.
LEMMA GovernanceNetStep ==
    ASSUME RateLimitAssumption, NetInv, NEW caller, RateLimitGovernance(caller),
           UNCHANGED <<oraclePrice, switches, netHeadroom>>
    PROVE  NetInv'
<1>1. RateLimitTypeOK' /\ WindowCoversBuffer' /\ doPartialAction' = FALSE /\ buffer' \in Nat /\ buffer' <= buffer
    BY GovernanceNeverEnlarges DEF NetInv, NetTypeOK
<1>2. buffer \in Nat /\ netHeadroom \in Int /\ buffer <= netHeadroom
    BY BufferFacts DEF NetInv, NetTypeOK, NetCoversBuffer
<1>3. netHeadroom' = netHeadroom
    OBVIOUS
<1>4. oraclePrice' \in Nat /\ mintFeeBasisPoints' \in 0..MAX_FEE
    BY DEF switches, NetInv, NetTypeOK
<1>6. netHeadroom' \in Int /\ buffer' <= netHeadroom'
    BY <1>1, <1>2, <1>3
<1> QED BY <1>1, <1>4, <1>6 DEF NetInv, NetTypeOK, NetCoversBuffer

\* What governance and other callers do at the global minter takes no time.
LEMMA MinterKeepsTime == ASSUME MinterStep PROVE now' = now
<1>1. ASSUME NEW caller, NEW m, Minter!Registration(caller, m) PROVE now' = now
    BY <1>1, Zenon DEF Minter!Registration, Minter!addAddressAsMinterWithMaxima, Minter!removeAddress,
        Minter!addAddress, Minter!addAddressAsMinter, Minter!updateAddress, Minter!addOnce, Minter!rateLimitVars
<1>2. ASSUME NEW amount, Minter!depleteBuffer(amount) PROVE now' = now
    BY <1>2, Zenon DEF Minter!depleteBuffer
<1> QED BY <1>1, <1>2, Zenon DEF MinterStep

\* Steps that leave the limit alone keep the invariant, if price and fee keep their types
\* and the window is left as it is or starts anew.
LEMMA IdleNetStep ==
    ASSUME RateLimitAssumption, NetInv, UNCHANGED rateLimitVars,
           oraclePrice' \in Nat, mintFeeBasisPoints' \in 0..MAX_FEE,
           netHeadroom' = netHeadroom \/ netHeadroom' = bufferCap
    PROVE  NetInv'
<1>1. RateLimitTypeOK' /\ WindowCoversBuffer'
    BY IdleStep DEF NetInv, NetTypeOK
<1>2. buffer' = buffer /\ doPartialAction' = FALSE
    BY DEF NetInv, NetTypeOK, buffer, rateLimitVars, rateLimitState
<1>3. buffer \in Nat /\ netHeadroom \in Int /\ buffer <= netHeadroom /\ buffer <= bufferCap /\ bufferCap \in Nat
    BY BufferFacts DEF NetInv, NetTypeOK, NetCoversBuffer, RateLimitTypeOK
<1>4. netHeadroom' \in Int /\ buffer' <= netHeadroom'
    BY <1>2, <1>3
<1> QED BY <1>1, <1>2, <1>4 DEF NetInv, NetTypeOK, NetCoversBuffer

-----------------------------------------------------------------------------
\* One step of the module, of the global minter or of time, or none, preserves the
\* invariant.
LEMMA StepNetInv ==
    ASSUME NonCustodialAssumption, RateLimitAssumption, NetInv, [NonCustodialNext]_nonCustodialVars
    PROVE  NetInv'
<1>1. /\ oraclePrice \in Nat /\ mintFeeBasisPoints \in 0..MAX_FEE
    BY DEF NetInv, NetTypeOK
<1>2. ASSUME UNCHANGED rateLimitVars, UNCHANGED <<oraclePrice, mintFeeBasisPoints, netHeadroom>>
      PROVE  NetInv'
    BY <1>1, <1>2, IdleNetStep
<1>3. ASSUME NEW amount \in Amounts, mint(amount) PROVE NetInv'
    BY <1>3, MintStep DEF RateLimitAssumption
<1>4. ASSUME NEW amount \in Amounts, redeem(amount) PROVE NetInv'
    BY <1>4, RedeemStep DEF RateLimitAssumption
<1>5. ASSUME NEW amount \in Amounts, transferFei(amount) PROVE NetInv'
    BY <1>2, <1>5 DEF transferFei, redemptionVars, switches
<1>6. ASSUME NEW caller \in Actors, NEW amount \in Amounts, withdrawFei(caller, amount) PROVE NetInv'
    BY <1>2, <1>6 DEF withdrawFei, redemptionVars, switches
<1>7. ASSUME NEW caller \in Actors, Configure(caller), UNCHANGED <<redemptionVars, oraclePrice, netHeadroom>>
      PROVE  NetInv'
  <2>1. mintFeeBasisPoints' \in 0..MAX_FEE
    <3>1. ASSUME NEW fee \in Fees, setFee(caller, fee) PROVE mintFeeBasisPoints' \in 0..MAX_FEE
        BY <1>1, <3>1 DEF setFee, NonCustodialAssumption
    <3>2. ASSUME NEW flag, setTradePaused(caller, flag) PROVE mintFeeBasisPoints' \in 0..MAX_FEE
        BY <1>1, <3>2 DEF setTradePaused
    <3>3. ASSUME NEW flag, setGlobalRateLimitedMinter(caller, flag) PROVE mintFeeBasisPoints' \in 0..MAX_FEE
        BY <1>1, <3>3 DEF setGlobalRateLimitedMinter
    <3>4. ASSUME NEW d, setPCVDeposit(caller, d) PROVE mintFeeBasisPoints' \in 0..MAX_FEE
        BY <1>1, <3>4 DEF setPCVDeposit
    <3> QED BY <1>7, <3>1, <3>2, <3>3, <3>4, Zenon DEF Configure
  <2>2. UNCHANGED rateLimitVars /\ oraclePrice' = oraclePrice /\ netHeadroom' = netHeadroom
    BY <1>7 DEF redemptionVars
  <2> QED BY <1>1, <2>1, <2>2, IdleNetStep
<1>8. ASSUME NEW caller \in Actors, RateLimitGovernance(caller), UNCHANGED <<oraclePrice, switches, netHeadroom>>
      PROVE  NetInv'
    BY <1>8, GovernanceNetStep
<1>9. ASSUME UNCHANGED rateLimitVars, UNCHANGED <<oraclePrice, switches, netHeadroom>> PROVE NetInv'
    BY <1>2, <1>9 DEF switches
<1>10. ASSUME OracleMoves PROVE NetInv'
  <2>1. oraclePrice' \in Nat
    BY <1>10 DEF OracleMoves, NonCustodialAssumption
  <2>2. UNCHANGED rateLimitVars /\ mintFeeBasisPoints' = mintFeeBasisPoints /\ netHeadroom' = netHeadroom
    BY <1>10 DEF OracleMoves, redemptionVars, switches
  <2> QED BY <1>1, <2>1, <2>2, IdleNetStep
<1>11. ASSUME MinterStep PROVE NetInv'
  <2>1. now' = now
    BY <1>11, MinterKeepsTime
  <2>2. UNCHANGED <<rateLimitState, windowHeadroom, oraclePrice, switches, netHeadroom>>
    BY <1>11, Zenon DEF MinterStep
  <2> QED BY <1>9, <2>1, <2>2 DEF rateLimitVars
<1>12. ASSUME NEW t \in 1..MaxTime, Advance(t) PROVE NetInv'
  <2>1. t \in Nat
    BY DEF RateLimitAssumption
  <2> QED BY <1>12, <2>1, AdvanceNetStep
<1>13. ASSUME OpenWindow PROVE NetInv'
  <2>1. UNCHANGED rateLimitVars /\ oraclePrice' = oraclePrice /\ mintFeeBasisPoints' = mintFeeBasisPoints
        /\ netHeadroom' = bufferCap
    BY <1>13 DEF OpenWindow, redemptionVars, switches
  <2> QED BY <1>1, <2>1, IdleNetStep
<1>14. ASSUME UNCHANGED nonCustodialVars PROVE NetInv'
    BY <1>9, <1>14 DEF nonCustodialVars, redemptionVars
<1> QED BY <1>3, <1>4, <1>5, <1>6, <1>7, <1>8, <1>9, <1>10, <1>11, <1>12, <1>13, <1>14, Zenon DEF NonCustodialNext

\* In no window of time, wherever it starts, does the FEI redeemed exceed the FEI minted by
\* more than the cap at its start and what the rate earned, for every sequence of trades,
\* prices, fees and calls of governance.
THEOREM NonCustodialNetRedemption ==
    NonCustodialAssumption /\ NonCustodialSpec => []NetRedemptionBounded
<1> SUFFICES ASSUME NonCustodialAssumption PROVE NonCustodialSpec => []NetRedemptionBounded
    OBVIOUS
<1>1. NonCustodialInit => NetInv
    BY RateLimitAssumption, RolesAssumption, InitNetInv
<1>2. NetInv /\ [NonCustodialNext]_nonCustodialVars => NetInv'
    BY RateLimitAssumption, StepNetInv
<1>3. NetInv => NetRedemptionBounded
  <2> SUFFICES ASSUME NetInv PROVE NetRedemptionBounded
    OBVIOUS
  <2>1. buffer \in Nat /\ netHeadroom \in Int /\ buffer <= netHeadroom
    BY RateLimitAssumption, BufferFacts DEF NetInv, NetTypeOK, NetCoversBuffer
  <2> QED BY <2>1 DEF NetRedemptionBounded
<1> QED BY <1>1, <1>2, <1>3, PTL DEF NonCustodialSpec

-----------------------------------------------------------------------------
\* Integer division keeps the order of its dividends and rounds down.
LEMMA QuotientFacts ==
    ASSUME NEW n \in Nat, n > 0
    PROVE  /\ \A x \in Nat : x \div n \in Nat /\ n * (x \div n) <= x
           /\ \A x, y \in Nat : x <= y => x \div n <= y \div n
    BY SMT

\* Products of naturals are naturals, keep the order of their factors and distribute.
LEMMA TimesFacts ==
    /\ \A x, y \in Nat : x * y \in Nat
    /\ \A x, y, u \in Nat : x <= y => x * u <= y * u /\ u * x <= u * y
    /\ \A x, y, u \in Nat : (x + y) * u = x * u + y * u
<1>1. \A x, y \in Nat : x * y \in Nat
    BY SMT
<1>2. \A x, y, u \in Nat : x <= y => x * u <= y * u
    BY SMT
<1>3. \A x, y, u \in Nat : x <= y => u * x <= u * y
    BY SMT
<1>4. \A x, y, u \in Nat : (x + y) * u = x * u + y * u
    BY SMT
<1> QED BY <1>1, <1>2, <1>3, <1>4, Zenon

\* A sum within a bound stays there when a part of it shrinks and the bound grows.
LEMMA BoundMoves ==
    \A m, b, b1, c, c1, e, e1 \in Nat :
        m + b <= c + e /\ b1 <= b /\ c <= c1 /\ e <= e1 => m + b1 <= c1 + e1
    BY SMT

-----------------------------------------------------------------------------
Accounts == TribeHolders \cup {self}

MinterTypeOK ==
    /\ now \in Nat /\ lastBufferUsedTime \in Nat /\ lastBufferUsedTime <= now
    /\ bufferCap \in Nat /\ bufferStored \in Nat
    /\ doPartialAction = FALSE
    /\ annualMaxInflationBasisPoints \in Nat
    /\ \A slot \in DOMAIN excluded : excluded[slot] \in TribeHolders \cup {"none"}
    /\ DOMAIN excluded = {"tribeTreasury", "tribeRewardsDripper"}
    /\ tribeBalance \in [Accounts -> Nat]
    /\ totalSupply \in Nat
    /\ yearStart \in Nat /\ yearStart <= now
    /\ yearMinted \in Nat /\ yearCap \in Nat

\* What the largest cap of the year is worth in the time that has passed of it.
earned == (now - yearStart) * (yearCap \div ONE_YEAR)

\* The inductive invariant: InflationBounded alone does not survive a call, because the
\* buffer that is left and the rate at which it fills are spent later.  The rate is always
\* the one that fills the cap in a year, and neither exceeds that of the year's largest cap.
MinterInv ==
    /\ MinterTypeOK
    /\ bufferCap <= yearCap
    /\ rateLimitPerSecond = bufferCap \div ONE_YEAR
    /\ yearMinted + buffer <= yearCap + earned

\* The rates and what was earned are natural numbers, and the rate is within the year's.
LEMMA RateFacts ==
    ASSUME MinterTypeOK, TribeMinterAssumption, bufferCap <= yearCap
    PROVE  /\ bufferCap \div ONE_YEAR \in Nat /\ yearCap \div ONE_YEAR \in Nat
           /\ bufferCap \div ONE_YEAR <= yearCap \div ONE_YEAR
           /\ earned \in Nat
<1>1. ONE_YEAR \in Nat /\ ONE_YEAR > 0 /\ bufferCap \in Nat /\ yearCap \in Nat /\ now - yearStart \in Nat
    BY DEF MinterTypeOK, TribeMinterAssumption
<1>2. /\ bufferCap \div ONE_YEAR \in Nat /\ yearCap \div ONE_YEAR \in Nat
      /\ bufferCap \div ONE_YEAR <= yearCap \div ONE_YEAR
    BY <1>1, QuotientFacts
<1>3. earned \in Nat
    BY <1>1, <1>2, TimesFacts, Zenon DEF earned
<1> QED BY <1>2, <1>3

\* buffer() is a natural number within the cap.
LEMMA MinterBuffer ==
    ASSUME MinterTypeOK, rateLimitPerSecond \in Nat
    PROVE  buffer \in Nat /\ buffer <= bufferCap
<1> DEFINE accrued == rateLimitPerSecond * (now - lastBufferUsedTime)
<1>1. now - lastBufferUsedTime \in Nat /\ bufferStored \in Nat /\ bufferCap \in Nat
    BY DEF MinterTypeOK
<1>2. accrued \in Nat
    BY <1>1, TimesFacts, Zenon
<1> HIDE DEF accrued
<1>3. bufferStored + accrued \in Nat /\ bufferCap \in Nat
    BY <1>1, <1>2
<1>4. /\ min(bufferStored + accrued, bufferCap) \in Nat
      /\ min(bufferStored + accrued, bufferCap) <= bufferCap
    BY <1>3, MinFacts
<1> QED BY <1>4 DEF buffer, accrued

\* After a write of the buffer it holds what was written, within the cap of that moment.
LEMMA WrittenBuffer ==
    ASSUME NEW stored \in Nat, NEW cap \in Nat, NEW r \in Nat, now \in Nat,
           now' = now, lastBufferUsedTime' = now, bufferStored' = stored,
           bufferCap' = cap, rateLimitPerSecond' = r
    PROVE  buffer' = min(stored, cap)
<1>1. stored + r * (now - now) = stored
    BY SMT
<1> QED BY <1>1, Zenon DEF buffer

-----------------------------------------------------------------------------
\* A step that leaves the limit, the year and the clock alone keeps the bound.
LEMMA LimitIdle ==
    ASSUME MinterInv, UNCHANGED <<rateLimitVars, yearVars>>
    PROVE  /\ bufferCap' <= yearCap'
           /\ rateLimitPerSecond' = bufferCap' \div ONE_YEAR
           /\ yearMinted' + buffer' <= yearCap' + earned'
<1>1. UNCHANGED <<now, rateLimitState, yearStart, yearMinted, yearCap>>
    BY DEF rateLimitVars, yearVars
<1>2. buffer' = buffer /\ earned' = earned
    BY <1>1 DEF buffer, earned, rateLimitState
<1> QED BY <1>1, <1>2 DEF MinterInv, rateLimitState

\* What is excluded and held is a number, so that the supply in circulation is one too, and
\* the cap that follows from it when it is not negative.
LEMMA IdealFacts ==
    ASSUME MinterTypeOK, TribeMinterAssumption
    PROVE  /\ tribeCirculatingSupply \in Int
           /\ tribeCirculatingSupply >= 0 => idealBufferCap \in Nat
<1>1. \A account \in TribeHolders \cup {"none", self} : balanceAt(account) \in Nat
    BY DEF balanceAt, MinterTypeOK, Accounts
<1>2. /\ balanceAt(self) \in Nat
      /\ balanceAt(excluded.tribeTreasury) \in Nat
      /\ balanceAt(excluded.tribeRewardsDripper) \in Nat
    BY <1>1 DEF MinterTypeOK
<1>3. lockedTribe \in Nat
    BY <1>2 DEF lockedTribe
<1>4. tribeCirculatingSupply \in Int
    BY <1>3 DEF tribeCirculatingSupply, MinterTypeOK
<1>5. ASSUME tribeCirculatingSupply >= 0 PROVE idealBufferCap \in Nat
  <2>1. tribeCirculatingSupply \in Nat /\ annualMaxInflationBasisPoints \in Nat
    BY <1>4, <1>5 DEF MinterTypeOK
  <2>2. tribeCirculatingSupply * annualMaxInflationBasisPoints \in Nat
    BY <2>1, TimesFacts, Zenon
  <2>3. BASIS_POINTS_GRANULARITY \in Nat /\ BASIS_POINTS_GRANULARITY > 0
    BY DEF TribeMinterAssumption
  <2> QED BY <2>2, <2>3, QuotientFacts, Zenon DEF idealBufferCap
<1> QED BY <1>4, <1>5

\* poke keeps the invariant: the buffer is settled under the old cap before the new one
\* counts, so that it loses what no longer fits and gains nothing.
LEMMA PokeStep ==
    ASSUME MinterInv, TribeMinterAssumption, poke
    PROVE  MinterInv'
<1>1. MinterTypeOK /\ now \in Nat /\ yearCap \in Nat /\ bufferCap \in Nat /\ yearMinted \in Nat
    BY DEF MinterInv, MinterTypeOK
<1>2. /\ tribeCirculatingSupply >= 0
      /\ bufferStored' = buffer /\ lastBufferUsedTime' = now
      /\ bufferCap' = idealBufferCap
      /\ rateLimitPerSecond' = idealBufferCap \div ONE_YEAR
      /\ yearCap' = IF idealBufferCap > yearCap THEN idealBufferCap ELSE yearCap
      /\ UNCHANGED <<now, doPartialAction, tribeMinterState, yearStart, yearMinted>>
    BY DEF poke, updateBufferStored
<1>3. idealBufferCap \in Nat
    BY <1>1, <1>2, IdealFacts
<1>4. /\ bufferCap \div ONE_YEAR \in Nat /\ yearCap \div ONE_YEAR \in Nat /\ earned \in Nat
    BY <1>1, RateFacts DEF MinterInv
<1>5. buffer \in Nat /\ buffer <= bufferCap
    BY <1>1, <1>4, MinterBuffer DEF MinterInv
<1>6. yearCap' \in Nat /\ yearCap <= yearCap' /\ idealBufferCap <= yearCap'
    BY <1>1, <1>2, <1>3
<1>7. MinterTypeOK'
  <2>1. UNCHANGED <<doPartialAction, annualMaxInflationBasisPoints, excluded, tribeBalance, totalSupply, yearStart, yearMinted>>
    BY <1>2, Zenon DEF tribeMinterState
  <2> QED BY <1>1, <1>2, <1>3, <1>5, <1>6, <2>1 DEF MinterTypeOK, Accounts
<1>8. ONE_YEAR \in Nat /\ ONE_YEAR > 0 /\ now - yearStart \in Nat
    BY <1>1 DEF TribeMinterAssumption, MinterTypeOK
<1>9. /\ idealBufferCap \div ONE_YEAR \in Nat
      /\ yearCap' \div ONE_YEAR \in Nat
      /\ yearCap \div ONE_YEAR <= yearCap' \div ONE_YEAR
    BY <1>1, <1>3, <1>6, <1>8, QuotientFacts
<1>10. earned <= earned' /\ earned' \in Nat
  <2>1. (now - yearStart) * (yearCap \div ONE_YEAR) <= (now - yearStart) * (yearCap' \div ONE_YEAR)
    BY <1>4, <1>8, <1>9, TimesFacts, Zenon
  <2>2. (now - yearStart) * (yearCap' \div ONE_YEAR) \in Nat
    BY <1>8, <1>9, TimesFacts, Zenon
  <2>3. earned' = (now - yearStart) * (yearCap' \div ONE_YEAR)
    BY <1>2 DEF earned
  <2> QED BY <2>1, <2>2, <2>3 DEF earned
<1>11. buffer' = min(buffer, idealBufferCap)
    BY <1>1, <1>2, <1>3, <1>5, <1>9, WrittenBuffer
<1>12. buffer' \in Nat /\ buffer' <= buffer
    BY <1>3, <1>5, <1>11, MinFacts
<1>13. yearMinted' + buffer' <= yearCap' + earned'
  <2>1. yearMinted + buffer <= yearCap + earned /\ yearMinted' = yearMinted
    BY <1>2 DEF MinterInv
  <2>2. yearMinted + buffer' <= yearCap' + earned'
    BY <1>1, <1>4, <1>5, <1>6, <1>10, <1>12, <2>1, BoundMoves, Zenon
  <2> QED BY <2>1, <2>2, Zenon
<1> QED BY <1>2, <1>6, <1>7, <1>13 DEF MinterInv

\* mint keeps the invariant: what it hands out leaves the buffer.
LEMMA MintTribeStep ==
    ASSUME MinterInv, TribeMinterAssumption,
           NEW caller, NEW to \in TribeHolders, NEW amount \in Nat, mintTribe(caller, to, amount)
    PROVE  MinterInv'
<1>1. MinterTypeOK /\ now \in Nat /\ bufferCap \in Nat /\ yearMinted \in Nat
    BY DEF MinterInv, MinterTypeOK
<1>2. rateLimitPerSecond \in Nat /\ earned \in Nat
    BY <1>1, RateFacts DEF MinterInv
<1>3. buffer \in Nat /\ buffer <= bufferCap
    BY <1>1, <1>2, MinterBuffer
<1>4. usedAmount(amount) = amount
    BY <1>1 DEF usedAmount, MinterTypeOK
<1>5. /\ amount <= buffer
      /\ bufferStored' = buffer - amount /\ lastBufferUsedTime' = now
      /\ UNCHANGED <<now, rateLimitPerSecond, bufferCap, doPartialAction>>
      /\ yearMinted' = yearMinted + amount
      /\ UNCHANGED <<annualMaxInflationBasisPoints, excluded, isTribeMinter, yearStart, yearCap>>
    BY <1>4 DEF mintTribe, depleteBuffer
<1>6. buffer - amount \in Nat /\ buffer - amount <= bufferCap
    BY <1>1, <1>3, <1>5
<1>7. tribeBalance' \in [Accounts -> Nat] /\ totalSupply' \in Nat
  <2> DEFINE held == min(balanceAt(self), amount)
  <2>1. self \in Accounts /\ to \in Accounts /\ balanceAt(self) = tribeBalance[self]
    BY DEF Accounts, balanceAt, self
  <2>2. balanceAt(self) \in Nat /\ tribeBalance \in [Accounts -> Nat] /\ totalSupply \in Nat
    BY <1>1, <2>1 DEF MinterTypeOK
  <2>3. held \in Nat /\ held <= amount /\ held <= tribeBalance[self]
    BY <2>1, <2>2, MinFacts
  <2>4. /\ tribeBalance' = [tribeBalance EXCEPT ![self] = @ - held, ![to] = @ + amount]
        /\ totalSupply' = totalSupply + (amount - held)
    BY Zenon DEF mintTribe, handOut
  <2> HIDE DEF held
  <2>5. tribeBalance[self] - held \in Nat /\ amount - held \in Nat
    BY <2>1, <2>2, <2>3
  <2> QED BY <2>1, <2>2, <2>4, <2>5
<1>8. MinterTypeOK'
    BY <1>1, <1>5, <1>6, <1>7 DEF MinterTypeOK, Accounts
<1>9. buffer' = buffer - amount
  <2>1. buffer' = min(buffer - amount, bufferCap)
    BY <1>1, <1>2, <1>5, <1>6, WrittenBuffer
  <2> QED BY <1>1, <1>6, <2>1 DEF min
<1>10. yearMinted' + buffer' = yearMinted + buffer
    BY <1>1, <1>3, <1>5, <1>9
<1>11. earned' = earned
    BY <1>5 DEF earned
<1> QED BY <1>5, <1>8, <1>10, <1>11 DEF MinterInv

\* Time keeps the invariant: the buffer fills by no more than the year earns.
LEMMA MinterAdvance ==
    ASSUME MinterInv, TribeMinterAssumption,
           NEW t \in Nat, AdvanceTime(t), UNCHANGED tribeMinterVars
    PROVE  MinterInv'
<1> DEFINE r == rateLimitPerSecond
           y == yearCap \div ONE_YEAR
           accrued == r * (now - lastBufferUsedTime)
<1>1. /\ MinterTypeOK /\ now \in Nat /\ bufferCap \in Nat /\ bufferStored \in Nat
      /\ lastBufferUsedTime \in Nat /\ lastBufferUsedTime <= now
      /\ yearStart \in Nat /\ yearStart <= now /\ yearMinted \in Nat /\ yearCap \in Nat
    BY DEF MinterInv, MinterTypeOK
<1>2. r \in Nat /\ y \in Nat /\ r <= y /\ earned \in Nat
    BY <1>1, RateFacts DEF MinterInv
<1> HIDE DEF r, y
<1>3. now < t /\ now' = t /\ UNCHANGED <<rateLimitState, tribeMinterState, yearStart, yearMinted, yearCap>>
    BY DEF AdvanceTime, tribeMinterVars, yearVars
<1>4. UNCHANGED <<rateLimitPerSecond, lastBufferUsedTime, bufferCap, doPartialAction, bufferStored>>
    BY <1>3 DEF rateLimitState
<1>5. MinterTypeOK'
  <2>1. UNCHANGED <<annualMaxInflationBasisPoints, excluded, tribeBalance, totalSupply>>
    BY <1>3, Zenon DEF tribeMinterState
  <2> QED BY <1>1, <1>3, <1>4, <2>1 DEF MinterTypeOK, Accounts
<1> DEFINE gained == r * (t - now)
<1>6. /\ t - now \in Nat /\ now - yearStart \in Nat
    BY <1>1, <1>3
<1>7. accrued \in Nat /\ gained \in Nat /\ r * (t - lastBufferUsedTime) = accrued + gained
  <2>1. lastBufferUsedTime <= now /\ now <= t
    BY <1>1, <1>3
  <2>2. /\ r * (now - lastBufferUsedTime) \in Nat
        /\ r * (t - now) \in Nat
        /\ r * (t - lastBufferUsedTime) = r * (now - lastBufferUsedTime) + r * (t - now)
    BY <1>1, <1>2, <2>1, AccrualAdds
  <2> QED BY <2>2
<1>8. gained <= (t - now) * y
  <2>1. r * (t - now) <= y * (t - now)
    BY <1>2, <1>6, TimesFacts, Zenon
  <2> QED BY <1>2, <1>6, <2>1
<1>9. (t - now) * y \in Nat
    BY <1>2, <1>6, TimesFacts, Zenon
<1>10. earned' = earned + (t - now) * y
  <2>1. ((now - yearStart) + (t - now)) * y = (now - yearStart) * y + (t - now) * y
    BY <1>2, <1>6, TimesFacts
  <2>2. (now - yearStart) + (t - now) = t - yearStart
    BY <1>1, <1>3
  <2>3. earned' = (t - yearStart) * y /\ earned = (now - yearStart) * y
    BY <1>3, Zenon DEF earned, y
  <2> QED BY <2>1, <2>2, <2>3, Zenon
<1> DEFINE worth == (t - now) * y
<1> HIDE DEF accrued, gained, worth
<1>11. buffer' = min(bufferStored + (accrued + gained), bufferCap)
    BY <1>3, <1>4, <1>7, Zenon DEF buffer, r
<1>12. buffer = min(bufferStored + accrued, bufferCap)
    BY DEF buffer, accrued, r
<1>13. buffer \in Nat /\ buffer' \in Nat /\ buffer' <= buffer + gained
    BY <1>1, <1>7, <1>11, <1>12 DEF min
<1>14. yearMinted + buffer' <= yearCap + earned'
  <2>1. \A m, b, b1, c, e, g, w \in Nat : m + b <= c + e /\ b1 <= b + g /\ g <= w => m + b1 <= c + (e + w)
    BY SMT
  <2>2. gained \in Nat /\ worth \in Nat /\ gained <= worth
    BY <1>7, <1>8, <1>9 DEF worth
  <2>3. yearMinted + buffer <= yearCap + earned
    BY DEF MinterInv
  <2>4. yearMinted + buffer' <= yearCap + (earned + worth)
    BY <1>1, <1>2, <1>13, <2>1, <2>2, <2>3, Zenon
  <2> QED BY <1>10, <2>4, Zenon DEF worth
<1> QED BY <1>3, <1>4, <1>5, <1>14 DEF MinterInv

\* A new year of observation starts with nothing issued and a buffer within its cap.
LEMMA StartYearStep ==
    ASSUME MinterInv, TribeMinterAssumption, StartYear
    PROVE  MinterInv'
<1>1. MinterTypeOK /\ now \in Nat /\ bufferCap \in Nat
    BY DEF MinterInv, MinterTypeOK
<1>2. /\ UNCHANGED <<now, rateLimitPerSecond, lastBufferUsedTime, bufferCap, doPartialAction, bufferStored>>
      /\ yearStart' = now /\ yearMinted' = 0 /\ yearCap' = bufferCap
      /\ UNCHANGED <<annualMaxInflationBasisPoints, excluded, tribeBalance, totalSupply, isTribeMinter>>
    BY DEF StartYear, StartWindow, rateLimitState, tribeMinterState
<1>3. MinterTypeOK'
    BY <1>1, <1>2 DEF MinterTypeOK, Accounts
<1>4. bufferCap \div ONE_YEAR \in Nat /\ rateLimitPerSecond = bufferCap \div ONE_YEAR
    BY <1>1, RateFacts DEF MinterInv
<1>5. buffer \in Nat /\ buffer <= bufferCap
    BY <1>1, <1>4, MinterBuffer
<1>6. buffer' = buffer
    BY <1>2 DEF buffer
<1>7. earned' = 0
  <2>1. (now - now) * (bufferCap \div ONE_YEAR) = 0
    BY <1>1, <1>4
  <2> QED BY <1>2, <2>1, Zenon DEF earned
<1> QED BY <1>1, <1>2, <1>3, <1>4, <1>5, <1>6, <1>7 DEF MinterInv

\* A step that leaves the limit, the clock and the year alone keeps the invariant when what
\* is configured and held keeps its type.
LEMMA MinterIdle ==
    ASSUME MinterInv, UNCHANGED <<rateLimitVars, yearVars>>,
           annualMaxInflationBasisPoints' \in Nat,
           DOMAIN excluded' = DOMAIN excluded,
           \A slot \in DOMAIN excluded : excluded'[slot] \in TribeHolders \cup {"none"},
           tribeBalance' \in [Accounts -> Nat],
           totalSupply' \in Nat
    PROVE  MinterInv'
<1>1. MinterTypeOK
    BY DEF MinterInv
<1>2. UNCHANGED <<now, lastBufferUsedTime, bufferCap, bufferStored, doPartialAction, yearStart, yearMinted, yearCap>>
    BY DEF rateLimitVars, rateLimitState, yearVars
<1>3. MinterTypeOK'
    BY <1>1, <1>2, Zenon DEF MinterTypeOK, Accounts
<1> QED BY <1>3, LimitIdle DEF MinterInv

\* The setters and the moves of TRIBE keep the invariant: none touches the limit.
LEMMA SettingStep ==
    ASSUME MinterInv, TribeMinterAssumption, RateLimitAssumption, NEW caller,
           \/ \E inflation \in Inflations : setAnnualMaxInflationBasisPoints(caller, inflation)
           \/ \E slot \in DOMAIN excluded, account \in Lockers \cup {"none"} :
                 setExcluded(caller, slot, account)
           \/ setMinter(caller)
    PROVE  MinterInv'
<1>1. /\ annualMaxInflationBasisPoints \in Nat
      /\ \A slot \in DOMAIN excluded : excluded[slot] \in TribeHolders \cup {"none"}
      /\ tribeBalance \in [Accounts -> Nat]
      /\ totalSupply \in Nat
    BY DEF MinterInv, MinterTypeOK
<1>2. CASE \E inflation \in Inflations : setAnnualMaxInflationBasisPoints(caller, inflation)
  <2>1. /\ annualMaxInflationBasisPoints' \in Nat
        /\ UNCHANGED <<excluded, tribeBalance, totalSupply, yearVars, rateLimitVars>>
    BY <1>2 DEF setAnnualMaxInflationBasisPoints, TribeMinterAssumption
  <2> QED BY <1>1, <2>1, MinterIdle
<1>3. CASE \E slot \in DOMAIN excluded, account \in Lockers \cup {"none"} :
              setExcluded(caller, slot, account)
  <2>1. PICK slot \in DOMAIN excluded, account \in Lockers \cup {"none"} :
              setExcluded(caller, slot, account)
    BY <1>3
  <2>2. account \in TribeHolders \cup {"none"}
    BY DEF TribeMinterAssumption
  <2>3. /\ excluded' = [excluded EXCEPT ![slot] = account]
        /\ UNCHANGED <<annualMaxInflationBasisPoints, tribeBalance, totalSupply, yearVars, rateLimitVars>>
    BY <2>1, Zenon DEF setExcluded
  <2>4. /\ DOMAIN excluded' = DOMAIN excluded
        /\ \A other \in DOMAIN excluded : excluded'[other] \in TribeHolders \cup {"none"}
    BY <1>1, <2>2, <2>3
  <2> QED BY <1>1, <2>3, <2>4, MinterIdle
<1>4. CASE setMinter(caller)
  <2>1. UNCHANGED <<annualMaxInflationBasisPoints, excluded, tribeBalance, totalSupply, yearVars, rateLimitVars>>
    BY <1>4, Zenon DEF setMinter
  <2> QED BY <1>1, <2>1, MinterIdle
<1> QED BY <1>2, <1>3, <1>4

\* A transfer keeps the invariant.
LEMMA TribeMovesStep ==
    ASSUME MinterInv, RateLimitAssumption,
           NEW from \in TribeHolders, NEW to \in TribeHolders \cup {self}, NEW amount \in Amounts,
           TribeMoves(from, to, amount)
    PROVE  MinterInv'
<1>1. /\ annualMaxInflationBasisPoints \in Nat
      /\ \A slot \in DOMAIN excluded : excluded[slot] \in TribeHolders \cup {"none"}
      /\ tribeBalance \in [Accounts -> Nat]
      /\ totalSupply \in Nat
    BY DEF MinterInv, MinterTypeOK
<1>2. /\ from \in Accounts /\ to \in Accounts /\ amount \in Nat
      /\ from # to /\ amount <= tribeBalance[from]
      /\ tribeBalance' = [tribeBalance EXCEPT ![from] = @ - amount, ![to] = @ + amount]
      /\ UNCHANGED <<annualMaxInflationBasisPoints, excluded, totalSupply, yearVars, rateLimitVars>>
    BY DEF TribeMoves, Accounts, RateLimitAssumption
<1>3. tribeBalance[from] - amount \in Nat
    BY <1>1, <1>2
<1>4. tribeBalance' \in [Accounts -> Nat]
    BY <1>1, <1>2, <1>3
<1> QED BY <1>1, <1>2, <1>4, MinterIdle

\* Every step of the minter keeps the invariant.
LEMMA TribeMinterStepInv ==
    ASSUME MinterInv, TribeMinterAssumption, RateLimitAssumption, TribeMinterStep
    PROVE  MinterInv'
<1>1. CASE poke
    BY <1>1, PokeStep
<1>2. CASE StartYear
    BY <1>2, StartYearStep
<1>3. ASSUME NEW caller \in Actors, NEW amount \in Amounts, NEW to \in TribeHolders, mintTribe(caller, to, amount)
      PROVE  MinterInv'
  <2>1. amount \in Nat
    BY DEF RateLimitAssumption
  <2> QED BY <1>3, <2>1, MintTribeStep
<1>4. ASSUME NEW caller \in Actors,
             \/ \E inflation \in Inflations : setAnnualMaxInflationBasisPoints(caller, inflation)
             \/ \E slot \in DOMAIN excluded, account \in Lockers \cup {"none"} :
                   setExcluded(caller, slot, account)
             \/ setMinter(caller)
      PROVE  MinterInv'
    BY <1>4, SettingStep
<1>5. ASSUME NEW from \in TribeHolders, NEW to \in TribeHolders \cup {self}, NEW amount \in Amounts,
             TribeMoves(from, to, amount)
      PROVE  MinterInv'
    BY <1>5, TribeMovesStep
<1> QED BY <1>1, <1>2, <1>3, <1>4, <1>5, Zenon DEF TribeMinterStep

\* Steps that leave the minter and its limit alone keep the invariant.
LEMMA MinterStutter ==
    ASSUME MinterInv, UNCHANGED <<rateLimitVars, tribeMinterVars>>
    PROVE  MinterInv'
<1>1. UNCHANGED <<rateLimitVars, yearVars, annualMaxInflationBasisPoints, excluded, tribeBalance, totalSupply>>
    BY Zenon DEF tribeMinterVars, tribeMinterState
<1>2. /\ annualMaxInflationBasisPoints \in Nat
      /\ \A slot \in DOMAIN excluded : excluded[slot] \in TribeHolders \cup {"none"}
      /\ tribeBalance \in [Accounts -> Nat]
      /\ totalSupply \in Nat
    BY DEF MinterInv, MinterTypeOK
<1> QED BY <1>1, <1>2, MinterIdle

\* The constructor establishes the invariant: the buffer is full and the year begins.
LEMMA MinterInitInv ==
    ASSUME TribeMinterAssumption, TribeMinterInit
    PROVE  MinterInv
<1> DEFINE product == totalSupply * annualMaxInflationBasisPoints
<1>1. /\ now = 1 /\ lastBufferUsedTime = now
      /\ annualMaxInflationBasisPoints \in Nat
      /\ totalSupply \in Nat
      /\ doPartialAction = FALSE
      /\ yearStart = now /\ yearMinted = 0 /\ yearCap = bufferCap /\ bufferStored = bufferCap
      /\ rateLimitPerSecond = bufferCap \div ONE_YEAR
      /\ bufferCap = product \div BASIS_POINTS_GRANULARITY
    BY DEF TribeMinterInit, TribeMinterAssumption
<1>2. product \in Nat
    BY <1>1, TimesFacts, Zenon
<1> HIDE DEF product
<1>3. bufferCap \in Nat
  <2>1. BASIS_POINTS_GRANULARITY \in Nat /\ BASIS_POINTS_GRANULARITY > 0
    BY DEF TribeMinterAssumption
  <2> QED BY <1>1, <1>2, <2>1, QuotientFacts
<1>4. tribeBalance \in [Accounts -> Nat]
    BY DEF TribeMinterInit, Accounts
<1>5. /\ DOMAIN excluded = {"tribeTreasury", "tribeRewardsDripper"}
      /\ \A slot \in DOMAIN excluded : excluded[slot] \in TribeHolders \cup {"none"}
    BY DEF TribeMinterInit, TribeMinterAssumption
<1>6. MinterTypeOK
    BY <1>1, <1>3, <1>4, <1>5 DEF MinterTypeOK
<1>7. /\ bufferCap \div ONE_YEAR \in Nat /\ yearCap \div ONE_YEAR \in Nat /\ earned \in Nat
    BY <1>1, <1>3, <1>6, RateFacts
<1>8. buffer \in Nat /\ buffer <= bufferCap
    BY <1>1, <1>6, <1>7, MinterBuffer
<1> QED BY <1>1, <1>3, <1>6, <1>7, <1>8 DEF MinterInv

\* Within the year, what was earned is at most the year's largest cap.
LEMMA YearBound ==
    ASSUME TribeMinterAssumption, MinterInv
    PROVE  InflationBounded
<1> SUFFICES ASSUME now - yearStart <= ONE_YEAR PROVE yearMinted <= 2 * yearCap
    BY DEF InflationBounded
<1>1. /\ MinterTypeOK /\ ONE_YEAR \in Nat /\ ONE_YEAR > 0 /\ yearCap \in Nat /\ yearMinted \in Nat
      /\ now - yearStart \in Nat
    BY DEF MinterInv, MinterTypeOK, TribeMinterAssumption
<1>2. /\ bufferCap \div ONE_YEAR \in Nat /\ yearCap \div ONE_YEAR \in Nat /\ earned \in Nat
    BY <1>1, RateFacts DEF MinterInv
<1>3. buffer \in Nat
    BY <1>1, <1>2, MinterBuffer DEF MinterInv
<1>4. ONE_YEAR * (yearCap \div ONE_YEAR) <= yearCap
    BY <1>1, QuotientFacts
<1>5. earned <= ONE_YEAR * (yearCap \div ONE_YEAR)
    BY <1>1, <1>2, TimesFacts, Zenon DEF earned
<1>6. ONE_YEAR * (yearCap \div ONE_YEAR) \in Nat
    BY <1>1, <1>2, TimesFacts, Zenon
<1>7. earned <= yearCap
    BY <1>1, <1>2, <1>4, <1>5, <1>6
<1> QED BY <1>1, <1>2, <1>3, <1>7 DEF MinterInv

-----------------------------------------------------------------------------
\* Whoever calls the TRIBE minter, in any order, and however TRIBE moves between the
\* excluded accounts and the rest: no year sees more than twice its largest cap handed out.
THEOREM TribeMinterInflation == TribeMinterSpec => []InflationBounded
<1>1. TribeMinterInit => MinterInv
    BY TribeMinterAssumption, MinterInitInv
<1>2. MinterInv /\ [TribeMinterNext]_<<rateLimitVars, coreRefVars, tribeMinterVars>> => MinterInv'
  <2> SUFFICES ASSUME MinterInv, [TribeMinterNext]_<<rateLimitVars, coreRefVars, tribeMinterVars>>
               PROVE  MinterInv'
    OBVIOUS
  <2>1. CASE TribeMinterStep
    BY <2>1, TribeMinterAssumption, RateLimitAssumption, TribeMinterStepInv
  <2>2. ASSUME NEW t \in 1..MaxTime, AdvanceTime(t), UNCHANGED tribeMinterVars
        PROVE  MinterInv'
    <3>1. t \in Nat
      BY RateLimitAssumption
    <3> QED BY <2>2, <3>1, TribeMinterAssumption, MinterAdvance
  <2>3. CASE UNCHANGED <<rateLimitVars, tribeMinterVars>>
    BY <2>3, MinterStutter
  <2> QED BY <2>1, <2>2, <2>3, Zenon DEF TribeMinterNext
<1>3. MinterInv => InflationBounded
    BY TribeMinterAssumption, YearBound
<1> QED BY <1>1, <1>2, <1>3, PTL DEF TribeMinterSpec

-----------------------------------------------------------------------------
\* The inductive invariant of the countdown: while nobody has missed a reset, the shortfall
\* is at least as old as the countdown that runs.
CountdownInv ==
    /\ now \in Nat /\ startTime \in Nat /\ shortfallSince \in Nat
    /\ startTime <= now /\ shortfallSince <= now
    /\ missedReset \in BOOLEAN
    /\ startTime = 0 => ~missedReset
    /\ startTime # 0 /\ ~missedReset => shortfallSince <= startTime
    /\ ShortfallLasts

\* An exchange finds the countdown ended, so that a shortfall of its age lasts as long.
LEMMA ExchangeStep ==
    ASSUME CountdownInv, StabilizerAssumption, NEW to, NEW amountOut, exchangeFei(to, amountOut)
    PROVE  CountdownInv'
<1>1. UNCHANGED <<now, startTime, shortfallSince, missedReset>>
    BY DEF exchangeFei, mintTribe, depleteBuffer
<1>2. lastExchange' = [shortfall |-> now - shortfallSince, missed |-> missedReset]
    BY DEF exchangeFei
<1>3. startTime # 0 /\ duration <= now - startTime
    BY DEF exchangeFei, isTimeEnded, timeSinceStart, min, StabilizerAssumption, CountdownInv
<1>4. missedReset \/ now - shortfallSince >= duration
    BY <1>3 DEF CountdownInv, StabilizerAssumption
<1>5. ShortfallLasts'
    BY <1>2, <1>4 DEF ShortfallLasts
<1> QED BY <1>1, <1>5 DEF CountdownInv

\* As time passes, a shortfall that is over starts anew, and a countdown that goes on
\* meanwhile has missed its reset.
LEMMA CountdownAdvance ==
    ASSUME CountdownInv, NEW t \in Nat, TimePasses(t)
    PROVE  CountdownInv'
<1>1. /\ now < t /\ now' = t
      /\ UNCHANGED <<startTime, lastExchange>>
      /\ shortfallSince' = IF isCollateralizationBelowThreshold THEN shortfallSince ELSE t
      /\ missedReset' = (missedReset \/ (startTime # 0 /\ ~isCollateralizationBelowThreshold))
    BY DEF TimePasses, AdvanceTime
<1>2. ShortfallLasts'
    BY <1>1 DEF CountdownInv, ShortfallLasts
<1>3. CASE isCollateralizationBelowThreshold
    BY <1>1, <1>2, <1>3 DEF CountdownInv
<1>4. CASE ~isCollateralizationBelowThreshold
  <2>1. /\ missedReset' \in BOOLEAN
        /\ startTime # 0 => missedReset'
        /\ startTime = 0 => ~missedReset'
    BY <1>1, <1>4, Zenon DEF CountdownInv
  <2>2. UNCHANGED startTime /\ shortfallSince' = t /\ now' = t /\ t \in Nat /\ now < t
    BY <1>1, <1>4
  <2>3. now \in Nat /\ startTime \in Nat /\ startTime <= now
    BY DEF CountdownInv
  <2> QED BY <1>2, <2>1, <2>2, <2>3 DEF CountdownInv
<1> QED BY <1>3, <1>4

\* The other functions of the stabilizer keep the invariant.
LEMMA StabilizerStepInv ==
    ASSUME CountdownInv, StabilizerStep, UNCHANGED now
    PROVE  CountdownInv'
<1>1. CASE startOracleDelayCountdown
    BY <1>1 DEF startOracleDelayCountdown, CountdownInv, ShortfallLasts
<1>2. CASE resetOracleDelayCountdown
  <2>1. ShortfallLasts'
    BY <1>2, Zenon DEF resetOracleDelayCountdown, CountdownInv, ShortfallLasts
  <2>2. startTime' = 0 /\ ~missedReset' /\ missedReset' \in BOOLEAN /\ UNCHANGED <<now, shortfallSince>>
    BY <1>2, Zenon DEF resetOracleDelayCountdown
  <2>3. now \in Nat /\ shortfallSince \in Nat /\ shortfallSince <= now
    BY DEF CountdownInv
  <2> QED BY <2>1, <2>2, <2>3 DEF CountdownInv
<1>3. CASE UNCHANGED <<startTime, shortfallSince, missedReset, lastExchange>>
    BY <1>3 DEF CountdownInv, ShortfallLasts
<1> QED BY <1>1, <1>2, <1>3, Zenon DEF StabilizerStep, ReadingMoves, setCollateralizationThreshold, setExchangePaused

\* TRIBE is issued against FEI only in a shortfall as old as the countdown is long, unless
\* somebody missed to reset a countdown that went on after a recovery.
THEOREM StabilizerShortfall == StabilizerSpec => []ShortfallLasts
<1>1. StabilizerInit => CountdownInv
  <2>1. ASSUME StabilizerInit PROVE ShortfallLasts
    BY <2>1 DEF StabilizerInit, NoExchange, ShortfallLasts
  <2>2. ASSUME StabilizerInit
        PROVE  now = 1 /\ startTime = 0 /\ shortfallSince = now /\ missedReset = FALSE
    BY <2>2, Zenon DEF StabilizerInit, TribeMinterInit
  <2> QED BY <2>1, <2>2 DEF CountdownInv
<1>2. CountdownInv /\ [StabilizerNext]_stabilizerSystemVars => CountdownInv'
  <2> SUFFICES ASSUME CountdownInv, [StabilizerNext]_stabilizerSystemVars PROVE CountdownInv'
    OBVIOUS
  <2>1. ASSUME UNCHANGED stabilizerVars, UNCHANGED now PROVE CountdownInv'
    BY <2>1 DEF stabilizerVars, CountdownInv, ShortfallLasts
  <2>2. ASSUME TribeMinterStep PROVE UNCHANGED now
    BY <2>2 DEF TribeMinterStep, poke, StartYear, StartWindow, mintTribe, depleteBuffer, setExcluded,
       setAnnualMaxInflationBasisPoints, setMinter, TribeMoves, rateLimitVars
  <2>3. ASSUME UNCHANGED rateLimitVars PROVE UNCHANGED now
    BY <2>3 DEF rateLimitVars
  <2>4. CASE TribeMinterStep /\ UNCHANGED <<stabilizerVars, coreRefVars>>
    BY <2>1, <2>2, <2>4
  <2>5. CASE StabilizerStep /\ UNCHANGED <<rateLimitVars, tribeMinterVars, coreRefVars>>
    BY <2>3, <2>5, StabilizerStepInv
  <2>6. ASSUME NEW to \in TribeHolders, NEW amountOut \in Amounts \cup {0}, exchangeFei(to, amountOut)
        PROVE  CountdownInv'
    BY <2>6, StabilizerAssumption, ExchangeStep
  <2>7. ASSUME NEW t \in 1..MaxTime, TimePasses(t) PROVE CountdownInv'
    <3>1. t \in Nat
      BY RateLimitAssumption
    <3> QED BY <2>7, <3>1, CountdownAdvance
  <2>8. CASE UNCHANGED <<rateLimitVars, tribeMinterVars, stabilizerVars>>
    BY <2>1, <2>3, <2>8
  <2> QED BY <2>4, <2>5, <2>6, <2>7, <2>8, Zenon DEF StabilizerNext, stabilizerSystemVars
<1>3. CountdownInv => ShortfallLasts
    BY DEF CountdownInv
<1> QED BY <1>1, <1>2, <1>3, PTL DEF StabilizerSpec
-----------------------------------------------------------------------------
\* The bound of the year holds in the composition too: the exchanges of the stabilizer,
\* however urgent, come out of the same buffer.
THEOREM StabilizerInflation == StabilizerSpec => []InflationBounded
<1>1. StabilizerInit => MinterInv
    BY TribeMinterAssumption, MinterInitInv DEF StabilizerInit
<1>2. MinterInv /\ [StabilizerNext]_stabilizerSystemVars => MinterInv'
  <2> SUFFICES ASSUME MinterInv, [StabilizerNext]_stabilizerSystemVars PROVE MinterInv'
    OBVIOUS
  <2>1. CASE TribeMinterStep
    BY <2>1, TribeMinterAssumption, RateLimitAssumption, TribeMinterStepInv
  <2>2. ASSUME NEW to \in TribeHolders, NEW amountOut \in Amounts \cup {0}, exchangeFei(to, amountOut)
        PROVE  MinterInv'
    <3>1. amountOut \in Nat
      BY RateLimitAssumption
    <3>2. mintTribe(stabilizer, to, amountOut)
      BY <2>2, Zenon DEF exchangeFei
    <3> QED BY <3>1, <3>2, TribeMinterAssumption, MintTribeStep
  <2>3. ASSUME NEW t \in 1..MaxTime, TimePasses(t), UNCHANGED tribeMinterVars
        PROVE  MinterInv'
    <3>1. t \in Nat
      BY RateLimitAssumption
    <3>2. AdvanceTime(t)
      BY <2>3, Zenon DEF TimePasses
    <3> QED BY <2>3, <3>1, <3>2, TribeMinterAssumption, MinterAdvance
  <2>4. CASE UNCHANGED <<rateLimitVars, tribeMinterVars>>
    BY <2>4, MinterStutter
  <2> QED BY <2>1, <2>2, <2>3, <2>4, Zenon DEF StabilizerNext, stabilizerSystemVars
<1>3. MinterInv => InflationBounded
    BY TribeMinterAssumption, YearBound
<1> QED BY <1>1, <1>2, <1>3, PTL DEF StabilizerSpec
=============================================================================
