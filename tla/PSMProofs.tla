------------------------------ MODULE PSMProofs ------------------------------
(***************************************************************************)
(* Proofs about PegStabilityModule.tla for every price, fee, bound and     *)
(* holding: no trade enriches the public at the price it is made at, and   *)
(* the FEI of a fixed price module is backed one to one.                   *)
(***************************************************************************)
EXTENDS PegStabilityModule, RateLimitedProofs

\* Integer division rounds down.
LEMMA DivFacts ==
    ASSUME NEW x \in Nat, NEW y \in Nat, y > 0
    PROVE  x \div y \in Nat /\ y * (x \div y) <= x
    BY SMT

\* The part of an amount that a fee leaves is at most the amount.
LEMMA LessFeeFacts ==
    ASSUME PSMAssumption, NEW a \in Nat, NEW fee \in 0..MAX_FEE
    PROVE  /\ lessFee(a, fee) \in Nat
           /\ lessFee(a, fee) <= a * BASIS_POINTS_GRANULARITY
<1>1. BASIS_POINTS_GRANULARITY \in Nat /\ fee \in Nat /\ fee <= BASIS_POINTS_GRANULARITY
    BY DEF PSMAssumption
<1>2. \A g, f \in Nat : f <= g => a * (g - f) \in Nat /\ a * (g - f) <= a * g
    BY SMT
<1> QED BY <1>1, <1>2, Zenon DEF lessFee

\* A product of naturals with a smaller factor is smaller, and only then.
LEMMA ProductFacts ==
    /\ \A x, y \in Nat : x * y \in Nat
    /\ \A x, y, z \in Nat : x <= y => x * z <= y * z
    /\ \A x, y, z \in Nat : z > 0 /\ x * z <= y * z => x <= y
<1>1. \A x, y \in Nat : x * y \in Nat
    BY SMT
<1>2. \A x, y, z \in Nat : x <= y => x * z <= y * z
    BY SMT
<1>3. \A x, y, z \in Nat : z > 0 /\ x * z <= y * z => x <= y
    BY SMT
<1> QED BY <1>1, <1>2, <1>3

\* The mint quote, as a fact about numbers: what is paid out, in FEI, is worth at most
\* what is paid in, at price p.
LEMMA MintQuoteRoundsDown ==
    ASSUME NEW p \in Nat, NEW l \in Nat, NEW a \in Nat, NEW g \in Nat, NEW one \in Nat,
           g > 0, one > 0, l <= a * g
    PROVE  /\ (p * l) \div (g * one) \in Nat
           /\ one * ((p * l) \div (g * one)) <= p * a
<1> DEFINE q == (p * l) \div (g * one)
<1>1. p * l \in Nat /\ g * one \in Nat /\ g * one > 0
    BY SMT
<1>2. q \in Nat /\ (g * one) * q <= p * l
    BY <1>1, DivFacts, Zenon
<1>3. p * l <= p * (a * g)
    BY SMT
<1> HIDE DEF q
<1>4. (one * q) * g = (g * one) * q /\ (p * a) * g = p * (a * g)
    BY <1>2, SMT
<1>5. one * q \in Nat /\ p * a \in Nat
    BY <1>2, ProductFacts, Zenon
<1>6. (one * q) * g \in Nat /\ (p * a) * g \in Nat /\ p * l \in Nat /\ p * (a * g) \in Nat
    BY <1>1, <1>4, <1>5, ProductFacts, Zenon
<1>7. (one * q) * g <= (p * a) * g
  <2>1. \A x, y, z \in Nat : x <= y /\ y <= z => x <= z
    BY SMT
  <2> QED BY <1>2, <1>3, <1>4, <1>6, <2>1, Zenon
<1>8. one * q <= p * a
    BY <1>5, <1>7, ProductFacts, Zenon
<1> QED BY <1>2, <1>8 DEF q

\* The redemption quote: the underlying paid out is worth at most the FEI paid in.
LEMMA RedeemQuoteRoundsDown ==
    ASSUME NEW p \in Nat, NEW l \in Nat, NEW a \in Nat, NEW g \in Nat, NEW one \in Nat,
           g > 0, p > 0, l <= a * g
    PROVE  /\ ((l \div g) * one) \div p \in Nat
           /\ p * (((l \div g) * one) \div p) <= one * a
<1> DEFINE n == l \div g
           q == (n * one) \div p
<1>1. n \in Nat /\ g * n <= l
    BY DivFacts, Zenon
<1> HIDE DEF n
<1>2. n <= a
    BY <1>1, SMT
<1>3. n * one \in Nat
    BY <1>1, ProductFacts, Zenon
<1>4. q \in Nat /\ p * q <= n * one
    BY <1>3, DivFacts, Zenon
<1> HIDE DEF q
<1>5. n * one <= one * a
    BY <1>1, <1>2, SMT
<1>6. p * q <= one * a
  <2>1. p * q \in Nat /\ one * a \in Nat
    BY <1>4, ProductFacts, Zenon
  <2>2. \A x, y, z \in Nat : x <= y /\ y <= z => x <= z
    BY SMT
  <2> QED BY <1>3, <1>4, <1>5, <2>1, <2>2, Zenon
<1> QED BY <1>4, <1>6 DEF q, n

-----------------------------------------------------------------------------
\* The types of the module's own variables, without those of the rate limit.
TradeTypeOK ==
    /\ oraclePrice \in Prices \cup {0}
    /\ mintFeeBasisPoints \in 0..MAX_FEE /\ redeemFeeBasisPoints \in 0..MAX_FEE
    /\ reservesThreshold \in Nat \ {0}
    /\ floor \in Nat /\ ceiling \in Nat
    /\ isPriceBound => floor < ceiling
    /\ mintPaused \in BOOLEAN /\ redeemPaused \in BOOLEAN
    /\ feiBalance \in Nat /\ balance \in Nat
    /\ publicFei \in Nat /\ publicUnderlying \in Nat

\* The inductive invariant: types, the cover of the rate limit's window, and the
\* backing itself.
PSMInv == RLTypeOK /\ WindowCoversBuffer /\ TradeTypeOK /\ FeiBacked

\* A trade is made at a positive price.
LEMMA TradePriceFacts ==
    ASSUME PSMAssumption, TradeTypeOK
    PROVE  /\ tradePrice \in Nat
           /\ quotable => tradePrice > 0
           /\ isFixedPrice => tradePrice = ONE
    BY DEF PSMAssumption, TradeTypeOK, tradePrice, quotable

\* A mint quotes FEI worth no more than what is paid in.
LEMMA MintQuoteFacts ==
    ASSUME PSMAssumption, TradeTypeOK, NEW a \in Nat
    PROVE  /\ getMintAmountOut(a) \in Nat
           /\ ONE * getMintAmountOut(a) <= tradePrice * a
<1>1. /\ BASIS_POINTS_GRANULARITY \in Nat /\ BASIS_POINTS_GRANULARITY > 0
      /\ ONE \in Nat /\ ONE > 0 /\ mintFeeBasisPoints \in 0..MAX_FEE
    BY DEF PSMAssumption, TradeTypeOK
<1>2. /\ lessFee(a, mintFeeBasisPoints) \in Nat
      /\ lessFee(a, mintFeeBasisPoints) <= a * BASIS_POINTS_GRANULARITY
    BY <1>1, LessFeeFacts
<1>3. tradePrice \in Nat
    BY TradePriceFacts
<1> QED BY <1>1, <1>2, <1>3, MintQuoteRoundsDown, Zenon DEF getMintAmountOut

\* A redemption quotes an underlying worth no more than the FEI given back.
LEMMA RedeemQuoteFacts ==
    ASSUME PSMAssumption, TradeTypeOK, quotable, NEW a \in Nat
    PROVE  /\ getRedeemAmountOut(a) \in Nat
           /\ tradePrice * getRedeemAmountOut(a) <= ONE * a
<1>1. /\ BASIS_POINTS_GRANULARITY \in Nat /\ BASIS_POINTS_GRANULARITY > 0
      /\ ONE \in Nat /\ ONE > 0 /\ redeemFeeBasisPoints \in 0..MAX_FEE
    BY DEF PSMAssumption, TradeTypeOK
<1>2. /\ lessFee(a, redeemFeeBasisPoints) \in Nat
      /\ lessFee(a, redeemFeeBasisPoints) <= a * BASIS_POINTS_GRANULARITY
    BY <1>1, LessFeeFacts
<1>3. tradePrice \in Nat /\ tradePrice > 0
    BY TradePriceFacts
<1> QED BY <1>1, <1>2, <1>3, RedeemQuoteRoundsDown, Zenon DEF getRedeemAmountOut

\* Wealth as a fact about numbers: giving a and receiving b, with q * b <= p * a, does
\* not increase p * u + q * f.
LEMMA ExchangeDoesNotEnrich ==
    /\ \A p, q, u, f, a, b \in Nat : a <= u /\ q * b <= p * a => p * (u - a) + q * (f + b) <= p * u + q * f
    /\ \A q, u, f, a, b \in Nat : q > 0 /\ a <= u /\ q * b <= q * a => (f + b) + (u - a) <= f + u
<1>1. ASSUME NEW p \in Nat, NEW q \in Nat, NEW u \in Nat, NEW f \in Nat, NEW a \in Nat, NEW b \in Nat,
             a <= u, q * b <= p * a
      PROVE  p * (u - a) + q * (f + b) <= p * u + q * f
  <2>1. p * (u - a) = p * u - p * a /\ q * (f + b) = q * f + q * b
    BY SMT
  <2>2. p * u \in Nat /\ p * a \in Nat /\ q * f \in Nat /\ q * b \in Nat
    BY ProductFacts, Zenon
  <2> DEFINE pu == p * u  pa == p * a  qf == q * f  qb == q * b
  <2> HIDE DEF pu, pa, qf, qb
  <2>3. (pu - pa) + (qf + qb) <= pu + qf
    BY <1>1, <2>2, SMT DEF pu, pa, qf, qb
  <2> QED BY <2>1, <2>3, Zenon DEF pu, pa, qf, qb
<1>2. ASSUME NEW q \in Nat, NEW u \in Nat, NEW f \in Nat, NEW a \in Nat, NEW b \in Nat,
             q > 0, a <= u, q * b <= q * a
      PROVE  (f + b) + (u - a) <= f + u
  <2>1. b <= a
    BY <1>2, SMT
  <2> QED BY <1>2, <2>1
<1> QED BY <1>1, <1>2

\* Backing survives a change of holdings that does not increase their sum.
LEMMA BackingStep ==
    ASSUME PSMAssumption, TradeTypeOK, FeiBacked,
           NEW fei \in Nat, NEW underlying \in Nat,
           publicFei' = fei, publicUnderlying' = underlying,
           isFixedPrice => fei + underlying <= publicFei + publicUnderlying
    PROVE  FeiBacked'
<1>1. /\ publicFei \in Nat /\ publicUnderlying \in Nat
      /\ PublicFei \in Nat /\ PublicUnderlying \in Nat
    BY DEF TradeTypeOK, PSMAssumption
<1>2. CASE isFixedPrice
  <2>1. publicFei + publicUnderlying <= PublicFei + PublicUnderlying
    BY <1>2 DEF FeiBacked
  <2>2. fei + underlying <= PublicFei + PublicUnderlying
    BY <1>1, <1>2, <2>1
  <2> QED BY <2>2 DEF FeiBacked
<1>3. CASE ~isFixedPrice
    BY <1>3 DEF FeiBacked
<1> QED BY <1>2, <1>3

\* The settings and the oracle are untouched by a call that moves tokens.
LEMMA SameSettings ==
    ASSUME TradeTypeOK, UNCHANGED <<oraclePrice, settings>>,
           NEW held \in Nat, NEW reserves \in Nat, NEW fei \in Nat, NEW underlying \in Nat,
           feiBalance' = held, balance' = reserves, publicFei' = fei, publicUnderlying' = underlying
    PROVE  TradeTypeOK' /\ tradePrice' = tradePrice
<1>1. UNCHANGED <<oraclePrice, mintFeeBasisPoints, redeemFeeBasisPoints, reservesThreshold,
                  floor, ceiling, mintPaused, redeemPaused>>
    BY DEF settings
<1>2. tradePrice' = tradePrice
    BY <1>1 DEF tradePrice
<1> QED BY <1>1, <1>2, Zenon DEF TradeTypeOK

\* What a contract leaves of its core reference keeps its type.
LEMMA CoreRefIdle ==
    ASSUME CoreRefTypeOK, UNCHANGED coreRefVars
    PROVE  CoreRefTypeOK'
    BY Zenon DEF CoreRefTypeOK, coreRefVars

\* mint keeps the invariant and does not enrich the public.
LEMMA MintStep ==
    ASSUME RateLimitAssumption, PSMAssumption, PSMInv, NEW a \in Nat, mint(a)
    PROVE  PSMInv' /\ publicWealth' <= publicWealth
<1> DEFINE out  == getMintAmountOut(a)
           held == min(feiBalance, out)
<1>1. RateLimitTypeOK /\ CoreRefTypeOK /\ WindowCoversBuffer /\ TradeTypeOK /\ FeiBacked
    BY DEF PSMInv, RLTypeOK
<1>2. /\ feiBalance \in Nat /\ balance \in Nat /\ publicFei \in Nat /\ publicUnderlying \in Nat
      /\ ONE \in Nat /\ ONE > 0
    BY <1>1 DEF TradeTypeOK, PSMAssumption
<1>3. out \in Nat /\ ONE * out <= tradePrice * a
    BY <1>1, MintQuoteFacts
<1>4. /\ a <= publicUnderlying
      /\ publicUnderlying' = publicUnderlying - a
      /\ balance' = balance + a
      /\ feiBalance' = feiBalance - held
      /\ publicFei' = publicFei + out
      /\ UNCHANGED <<oraclePrice, settings>>
      /\ UNCHANGED coreRefVars
    BY DEF mint
<1>5. (depleteBuffer(out - held) /\ out > held) \/ UNCHANGED rateLimitVars
    BY DEF mint
<1> HIDE DEF out
<1>6. held \in Nat /\ held <= feiBalance /\ held <= out /\ out - held \in Nat
    BY <1>2, <1>3 DEF min
<1> HIDE DEF held
<1>7. RateLimitTypeOK' /\ WindowCoversBuffer'
    BY <1>1, <1>5, <1>6, DepleteStep, IdleStep
<1>8. CoreRefTypeOK'
    BY <1>1, <1>4, CoreRefIdle
<1>9. publicUnderlying - a \in Nat /\ balance + a \in Nat /\ feiBalance - held \in Nat /\ publicFei + out \in Nat
    BY <1>2, <1>3, <1>4, <1>6
<1>10. TradeTypeOK' /\ tradePrice' = tradePrice
    BY <1>1, <1>4, <1>9, SameSettings
<1>11. tradePrice \in Nat /\ (isFixedPrice => tradePrice = ONE)
    BY <1>1, TradePriceFacts
<1>12. isFixedPrice => (publicFei + out) + (publicUnderlying - a) <= publicFei + publicUnderlying
  <2> SUFFICES ASSUME isFixedPrice
               PROVE  (publicFei + out) + (publicUnderlying - a) <= publicFei + publicUnderlying
    OBVIOUS
  <2>1. ONE * out <= ONE * a
    BY <1>3, <1>11, Zenon
  <2> QED BY <1>2, <1>3, <1>4, <2>1, ExchangeDoesNotEnrich
<1>13. FeiBacked'
    BY <1>1, <1>4, <1>9, <1>12, BackingStep
<1>14. tradePrice * (publicUnderlying - a) + ONE * (publicFei + out) <= tradePrice * publicUnderlying + ONE * publicFei
    BY <1>2, <1>3, <1>4, <1>11, ExchangeDoesNotEnrich
<1>15. publicWealth' <= publicWealth
    BY <1>4, <1>10, <1>14, Zenon DEF publicWealth
<1> QED BY <1>7, <1>8, <1>10, <1>13, <1>15 DEF PSMInv, RLTypeOK

\* redeem keeps the invariant and does not enrich the public.
LEMMA RedeemStep ==
    ASSUME RateLimitAssumption, PSMAssumption, PSMInv, NEW a \in Nat, redeem(a)
    PROVE  PSMInv' /\ publicWealth' <= publicWealth
<1> DEFINE out == getRedeemAmountOut(a)
<1>1. RateLimitTypeOK /\ CoreRefTypeOK /\ WindowCoversBuffer /\ TradeTypeOK /\ FeiBacked
    BY DEF PSMInv, RLTypeOK
<1>2. /\ feiBalance \in Nat /\ balance \in Nat /\ publicFei \in Nat /\ publicUnderlying \in Nat
      /\ ONE \in Nat /\ ONE > 0
    BY <1>1 DEF TradeTypeOK, PSMAssumption
<1>3. quotable
    BY DEF redeem
<1>4. out \in Nat /\ tradePrice * out <= ONE * a
    BY <1>1, <1>3, RedeemQuoteFacts
<1>5. /\ a <= publicFei /\ out <= balance
      /\ publicFei' = publicFei - a
      /\ feiBalance' = feiBalance + a
      /\ balance' = balance - out
      /\ publicUnderlying' = publicUnderlying + out
      /\ UNCHANGED <<oraclePrice, settings>>
      /\ UNCHANGED rateLimitVars /\ UNCHANGED coreRefVars
    BY DEF redeem, limitUnchanged
<1> HIDE DEF out
<1>6. RateLimitTypeOK' /\ WindowCoversBuffer' /\ CoreRefTypeOK'
    BY <1>1, <1>5, IdleStep, CoreRefIdle
<1>7. publicFei - a \in Nat /\ feiBalance + a \in Nat /\ balance - out \in Nat /\ publicUnderlying + out \in Nat
    BY <1>2, <1>4, <1>5
<1>8. TradeTypeOK' /\ tradePrice' = tradePrice
    BY <1>1, <1>5, <1>7, SameSettings
<1>9. tradePrice \in Nat /\ tradePrice > 0 /\ (isFixedPrice => tradePrice = ONE)
    BY <1>1, <1>3, TradePriceFacts
<1>10. ONE * (publicFei - a) + tradePrice * (publicUnderlying + out) <= ONE * publicFei + tradePrice * publicUnderlying
    BY <1>2, <1>4, <1>5, <1>9, ExchangeDoesNotEnrich
<1>11. publicWealth' = tradePrice * (publicUnderlying + out) + ONE * (publicFei - a)
    BY <1>5, <1>8, Zenon DEF publicWealth
<1>12. publicWealth' <= publicWealth
  <2>1. \A x, y \in Nat : x + y = y + x
    BY SMT
  <2>2. /\ tradePrice * (publicUnderlying + out) \in Nat /\ ONE * (publicFei - a) \in Nat
        /\ tradePrice * publicUnderlying \in Nat /\ ONE * publicFei \in Nat
    BY <1>2, <1>7, <1>9, ProductFacts, Zenon
  <2> QED BY <1>10, <1>11, <2>1, <2>2, Zenon DEF publicWealth
<1>13. isFixedPrice => (publicFei - a) + (publicUnderlying + out) <= publicFei + publicUnderlying
  <2> SUFFICES ASSUME isFixedPrice
               PROVE  (publicFei - a) + (publicUnderlying + out) <= publicFei + publicUnderlying
    OBVIOUS
  <2>1. ONE * out <= ONE * a
    BY <1>4, <1>9, Zenon
  <2>2. (publicUnderlying + out) + (publicFei - a) <= publicUnderlying + publicFei
    BY <1>2, <1>4, <1>5, <2>1, ExchangeDoesNotEnrich
  <2> QED BY <1>2, <1>4, <1>7, <2>2
<1>14. FeiBacked'
    BY <1>1, <1>5, <1>7, <1>13, BackingStep
<1> QED BY <1>6, <1>8, <1>12, <1>14 DEF PSMInv, RLTypeOK

\* Transfers to the module, withdrawals by a PCV controller and the allocation of a
\* surplus take nothing from the module for the public.
LEMMA TransferStep ==
    ASSUME RateLimitAssumption, PSMAssumption, PSMInv, UNCHANGED <<oraclePrice, settings>>, limitUnchanged,
           NEW held \in Nat, NEW reserves \in Nat, NEW fei \in Nat, NEW underlying \in Nat,
           feiBalance' = held, balance' = reserves, publicFei' = fei, publicUnderlying' = underlying,
           fei <= publicFei, underlying <= publicUnderlying
    PROVE  PSMInv' /\ publicWealth' <= publicWealth
<1>1. RateLimitTypeOK /\ CoreRefTypeOK /\ WindowCoversBuffer /\ TradeTypeOK /\ FeiBacked
    BY DEF PSMInv, RLTypeOK
<1>2. publicFei \in Nat /\ publicUnderlying \in Nat /\ ONE \in Nat
    BY <1>1 DEF TradeTypeOK, PSMAssumption
<1>3. RateLimitTypeOK' /\ WindowCoversBuffer' /\ CoreRefTypeOK'
    BY <1>1, IdleStep, CoreRefIdle DEF limitUnchanged
<1>4. TradeTypeOK' /\ tradePrice' = tradePrice
    BY <1>1, SameSettings
<1>5. fei + underlying <= publicFei + publicUnderlying
    BY <1>2
<1>6. FeiBacked'
    BY <1>1, <1>5, BackingStep
<1>7. tradePrice \in Nat
    BY <1>1, TradePriceFacts
<1>8. tradePrice * underlying <= tradePrice * publicUnderlying /\ ONE * fei <= ONE * publicFei
  <2>1. \A p, x, y \in Nat : x <= y => p * x <= p * y
    BY SMT
  <2> QED BY <1>2, <1>7, <2>1, Zenon
<1>9. tradePrice * underlying + ONE * fei <= tradePrice * publicUnderlying + ONE * publicFei
  <2>1. \A w, x, y, z \in Nat : w <= x /\ y <= z => w + y <= x + z
    BY SMT
  <2>2. /\ tradePrice * underlying \in Nat /\ ONE * fei \in Nat
        /\ tradePrice * publicUnderlying \in Nat /\ ONE * publicFei \in Nat
    BY <1>2, <1>7, ProductFacts, Zenon
  <2> QED BY <1>8, <2>1, <2>2, Zenon
<1>10. publicWealth' <= publicWealth
    BY <1>4, <1>9, Zenon DEF publicWealth
<1> QED BY <1>3, <1>4, <1>6, <1>10 DEF PSMInv, RLTypeOK

\* A step that leaves every holding alone keeps the public's wealth at an unchanged
\* price, and the backing.
LEMMA HoldingsIdle ==
    ASSUME PSMAssumption, TradeTypeOK, FeiBacked, UNCHANGED holdings
    PROVE  FeiBacked' /\ (tradePrice' = tradePrice => publicWealth' <= publicWealth)
<1>1. UNCHANGED <<feiBalance, balance, publicFei, publicUnderlying>>
    BY DEF holdings
<1>2. FeiBacked'
    BY <1>1, Zenon DEF FeiBacked
<1>3. ASSUME tradePrice' = tradePrice PROVE publicWealth' <= publicWealth
  <2>1. publicWealth' = publicWealth
    BY <1>1, <1>3, Zenon DEF publicWealth
  <2>2. publicWealth \in Nat
    <3>1. tradePrice \in Nat /\ publicUnderlying \in Nat /\ publicFei \in Nat /\ ONE \in Nat
        BY TradePriceFacts DEF TradeTypeOK, PSMAssumption
    <3>2. tradePrice * publicUnderlying \in Nat /\ ONE * publicFei \in Nat
        BY <3>1, ProductFacts, Zenon
    <3>3. \A x, y \in Nat : x + y \in Nat
        BY SMT
    <3> QED BY <3>2, <3>3, Zenon DEF publicWealth
  <2>3. \A x \in Nat : x <= x
    BY SMT
  <2> QED BY <2>1, <2>2, <2>3, Zenon
<1> QED BY <1>2, <1>3

\* The setters keep fees under the maximum, a positive threshold and ordered bounds.
LEMMA ConfigureStep ==
    ASSUME PSMAssumption, TradeTypeOK, NEW caller, Configure(caller), UNCHANGED <<oraclePrice, holdings>>
    PROVE  TradeTypeOK'
<1> USE DEF TradeTypeOK, holdings
<1>1. MAX_FEE \in Nat /\ Fees \subseteq Nat /\ Thresholds \subseteq Nat /\ Bounds \subseteq Nat
    BY DEF PSMAssumption
<1>2. ASSUME NEW fee \in Fees, setMintFee(caller, fee) PROVE TradeTypeOK'
  <2>1. fee \in 0..MAX_FEE
    BY <1>1, <1>2 DEF setMintFee
  <2> QED BY <1>2, <2>1, Zenon DEF setMintFee
<1>3. ASSUME NEW fee \in Fees, setRedeemFee(caller, fee) PROVE TradeTypeOK'
  <2>1. fee \in 0..MAX_FEE
    BY <1>1, <1>3 DEF setRedeemFee
  <2> QED BY <1>3, <2>1, Zenon DEF setRedeemFee
<1>4. ASSUME NEW threshold \in Thresholds, setReservesThreshold(caller, threshold) PROVE TradeTypeOK'
  <2>1. threshold \in Nat \ {0}
    BY <1>1, <1>4 DEF setReservesThreshold
  <2> QED BY <1>4, <2>1, Zenon DEF setReservesThreshold
<1>5. ASSUME NEW bound \in Bounds, setOracleFloorBasisPoints(caller, bound) PROVE TradeTypeOK'
  <2>1. bound \in Nat /\ bound < ceiling
    BY <1>1, <1>5 DEF setOracleFloorBasisPoints
  <2> QED BY <1>5, <2>1, Zenon DEF setOracleFloorBasisPoints
<1>6. ASSUME NEW bound \in Bounds, setOracleCeilingBasisPoints(caller, bound) PROVE TradeTypeOK'
  <2>1. bound \in Nat /\ floor < bound
    BY <1>1, <1>6 DEF setOracleCeilingBasisPoints
  <2> QED BY <1>6, <2>1, Zenon DEF setOracleCeilingBasisPoints
<1>7. ASSUME NEW flag \in BOOLEAN, setMintPaused(caller, flag) PROVE TradeTypeOK'
    BY <1>7, Zenon DEF setMintPaused
<1>8. ASSUME NEW flag \in BOOLEAN, setRedeemPaused(caller, flag) PROVE TradeTypeOK'
    BY <1>8, Zenon DEF setRedeemPaused
<1> QED BY <1>2, <1>3, <1>4, <1>5, <1>6, <1>7, <1>8, Zenon DEF Configure

\* The calls on the inherited rate limit keep its invariant.
LEMMA LimitGovernanceStep ==
    ASSUME RateLimitAssumption, RateLimitTypeOK, WindowCoversBuffer, NEW caller, RateLimitGovernance(caller)
    PROVE  RateLimitTypeOK' /\ WindowCoversBuffer'
<1>1. CASE \E r \in RateLimits : setRateLimitPerSecond(caller, r)
  <2>1. PICK r \in Nat : setRateLimitPerSecond(caller, r)
    BY <1>1 DEF RateLimitAssumption
  <2> QED BY <2>1, SetRateStep
<1>2. CASE \E c \in BufferCaps : setBufferCap(caller, c)
  <2>1. PICK c \in Nat : setBufferCap(caller, c)
    BY <1>2 DEF RateLimitAssumption
  <2> QED BY <2>1, SetCapStep
<1> QED BY <1>1, <1>2 DEF RateLimitGovernance

-----------------------------------------------------------------------------
\* A step at an unchanged price does not enrich the public (mint and redeem of
\* PegStabilityModule round against the caller).
Gainless == tradePrice' = tradePrice => publicWealth' <= publicWealth

\* The module as it is constructed satisfies its invariant.
LEMMA PSMInitInv == ASSUME RolesAssumption, RateLimitAssumption, PSMAssumption, PSMInit PROVE PSMInv
<1>1. RateLimitTypeOK
  <2>1. doPartialAction \in BOOLEAN
    BY Zenon DEF PSMInit, RateLimitInit
  <2>2. /\ now = 1 /\ lastBufferUsedTime = now /\ bufferCap \in Nat /\ bufferStored = bufferCap
        /\ rateLimitPerSecond \in 0..MAX_RATE_LIMIT_PER_SECOND /\ windowHeadroom = bufferCap
    BY DEF PSMInit, RateLimitInit, RateLimitAssumption
  <2> QED BY <2>1, <2>2 DEF RateLimitTypeOK
<1>2. CoreRefTypeOK
    BY Zenon DEF PSMInit, CoreRefTypeOK, TribeRoles
<1>3. WindowCoversBuffer
    BY <1>1, BufferFacts DEF PSMInit, RateLimitInit, WindowCoversBuffer
<1>4. TradeTypeOK
  <2>1. mintPaused \in BOOLEAN /\ redeemPaused \in BOOLEAN
    BY Zenon DEF PSMInit
  <2>2. /\ mintFeeBasisPoints \in 0..MAX_FEE /\ redeemFeeBasisPoints \in 0..MAX_FEE
        /\ reservesThreshold \in Nat \ {0}
        /\ oraclePrice \in Prices \cup {0}
        /\ feiBalance \in Nat /\ balance \in Nat /\ publicFei \in Nat /\ publicUnderlying \in Nat
    BY DEF PSMInit, PSMAssumption
  <2>3. floor \in Nat /\ ceiling \in Nat /\ (isPriceBound => floor < ceiling)
    <3>1. CASE isPriceBound
      <4>1. ceiling \in Bounds \ {0} /\ floor \in {b \in Bounds \ {0} : b < ceiling}
        BY <3>1, Zenon DEF PSMInit
      <4>2. Bounds \subseteq Nat
        BY Zenon DEF PSMAssumption
      <4> QED BY <4>1, <4>2
    <3>2. CASE ~isPriceBound
      <4>1. floor = 0 /\ ceiling = 0
        BY <3>2, Zenon DEF PSMInit
      <4> QED BY <3>2, <4>1
    <3> QED BY <3>1, <3>2
  <2> QED BY <2>1, <2>2, <2>3 DEF TradeTypeOK
<1>5. FeiBacked
    BY DEF PSMInit, PSMAssumption, FeiBacked
<1> QED BY <1>1, <1>2, <1>3, <1>4, <1>5 DEF PSMInv, RLTypeOK

\* One step of the module, or none, preserves PSMInv and enriches nobody, one case per
\* action.
LEMMA PSMStep ==
    ASSUME RolesAssumption, RateLimitAssumption, PSMAssumption, PSMInv, [PSMNext]_vars
    PROVE  PSMInv' /\ Gainless
<1>1. RateLimitTypeOK /\ CoreRefTypeOK /\ WindowCoversBuffer /\ TradeTypeOK /\ FeiBacked
    BY DEF PSMInv, RLTypeOK
<1>2. /\ feiBalance \in Nat /\ balance \in Nat /\ publicFei \in Nat /\ publicUnderlying \in Nat
    BY <1>1 DEF TradeTypeOK
<1>3. Amounts \subseteq Nat
    BY DEF RateLimitAssumption
<1>4. ASSUME NEW a \in Amounts, mint(a) PROVE PSMInv' /\ Gainless
    BY <1>3, <1>4, MintStep DEF Gainless
<1>5. ASSUME NEW a \in Amounts, redeem(a) PROVE PSMInv' /\ Gainless
    BY <1>3, <1>5, RedeemStep DEF Gainless
<1>6. ASSUME NEW a \in Amounts, transferIn(TRUE, a) PROVE PSMInv' /\ Gainless
  <2>1. /\ a <= publicFei /\ publicFei' = publicFei - a /\ feiBalance' = feiBalance + a
        /\ balance' = balance /\ publicUnderlying' = publicUnderlying
        /\ UNCHANGED <<oraclePrice, settings>> /\ limitUnchanged
    BY <1>6 DEF transferIn
  <2>2. publicFei - a \in Nat /\ feiBalance + a \in Nat /\ publicFei - a <= publicFei
        /\ publicUnderlying <= publicUnderlying
    BY <1>2, <1>3, <2>1
  <2> QED BY <1>2, <2>1, <2>2, TransferStep DEF Gainless
<1>7. ASSUME NEW a \in Amounts, transferIn(FALSE, a) PROVE PSMInv' /\ Gainless
  <2>1. /\ a <= publicUnderlying /\ publicUnderlying' = publicUnderlying - a /\ balance' = balance + a
        /\ feiBalance' = feiBalance /\ publicFei' = publicFei
        /\ UNCHANGED <<oraclePrice, settings>> /\ limitUnchanged
    BY <1>7 DEF transferIn
  <2>2. publicUnderlying - a \in Nat /\ balance + a \in Nat /\ publicUnderlying - a <= publicUnderlying
        /\ publicFei <= publicFei
    BY <1>2, <1>3, <2>1
  <2> QED BY <1>2, <2>1, <2>2, TransferStep DEF Gainless
<1>8. ASSUME NEW a \in Amounts, NEW caller \in Actors, withdraw(caller, a) PROVE PSMInv' /\ Gainless
  <2>1. /\ a <= balance /\ balance' = balance - a
        /\ UNCHANGED <<feiBalance, publicFei, publicUnderlying, oraclePrice, settings>> /\ limitUnchanged
    BY <1>8 DEF withdraw
  <2>2. balance - a \in Nat /\ publicFei <= publicFei /\ publicUnderlying <= publicUnderlying
    BY <1>2, <1>3, <2>1
  <2> QED BY <1>2, <2>1, <2>2, TransferStep DEF Gainless
<1>9. ASSUME NEW a \in Amounts, NEW caller \in Actors, withdrawFei(caller, a) PROVE PSMInv' /\ Gainless
  <2>1. /\ a <= feiBalance /\ feiBalance' = feiBalance - a
        /\ UNCHANGED <<balance, publicFei, publicUnderlying, oraclePrice, settings>> /\ limitUnchanged
    BY <1>9 DEF withdrawFei
  <2>2. feiBalance - a \in Nat /\ publicFei <= publicFei /\ publicUnderlying <= publicUnderlying
    BY <1>2, <1>3, <2>1
  <2> QED BY <1>2, <2>1, <2>2, TransferStep DEF Gainless
<1>10. ASSUME allocateSurplus PROVE PSMInv' /\ Gainless
  <2>1. /\ balance' = balance - (balance - reservesThreshold)
        /\ UNCHANGED <<feiBalance, publicFei, publicUnderlying, oraclePrice, settings>> /\ limitUnchanged
    BY <1>10 DEF allocateSurplus, reservesSurplus
  <2>2. balance - (balance - reservesThreshold) \in Nat
        /\ publicFei <= publicFei /\ publicUnderlying <= publicUnderlying
    BY <1>1, <1>2 DEF TradeTypeOK
  <2> QED BY <1>2, <2>1, <2>2, TransferStep DEF Gainless
<1>11. ASSUME UNCHANGED rateLimitVars PROVE RateLimitTypeOK' /\ WindowCoversBuffer'
    BY <1>1, <1>11, IdleStep
<1>12. ASSUME UNCHANGED coreRefVars PROVE CoreRefTypeOK'
    BY <1>1, <1>12, CoreRefIdle
<1>13. ASSUME UNCHANGED <<oraclePrice, settings, holdings>> PROVE TradeTypeOK'
    BY <1>1, <1>13, Zenon DEF TradeTypeOK, settings, holdings
<1>14. ASSUME OracleMoves PROVE PSMInv' /\ Gainless
  <2>1. UNCHANGED <<settings, holdings>> /\ UNCHANGED rateLimitVars /\ UNCHANGED coreRefVars
    BY <1>14 DEF OracleMoves, limitUnchanged
  <2>2. TradeTypeOK'
    BY <1>1, <1>14, Zenon DEF OracleMoves, TradeTypeOK, settings, holdings
  <2> QED BY <1>1, <1>11, <1>12, <2>1, <2>2, HoldingsIdle DEF PSMInv, RLTypeOK, Gainless
<1>15. ASSUME NEW caller \in Actors, Configure(caller), UNCHANGED <<oraclePrice, holdings>>, limitUnchanged
       PROVE  PSMInv' /\ Gainless
  <2>1. UNCHANGED rateLimitVars /\ UNCHANGED coreRefVars /\ UNCHANGED holdings
    BY <1>15 DEF limitUnchanged
  <2>2. TradeTypeOK'
    BY <1>1, <1>15, ConfigureStep
  <2> QED BY <1>1, <1>11, <1>12, <2>1, <2>2, HoldingsIdle DEF PSMInv, RLTypeOK, Gainless
<1>16. ASSUME NEW caller \in Actors, RateLimitGovernance(caller),
              UNCHANGED <<coreRefVars, oraclePrice, settings, holdings>>
       PROVE  PSMInv' /\ Gainless
  <2>1. UNCHANGED coreRefVars /\ UNCHANGED <<oraclePrice, settings, holdings>> /\ UNCHANGED holdings
    BY <1>16
  <2>2. RateLimitTypeOK' /\ WindowCoversBuffer'
    BY <1>1, <1>16, LimitGovernanceStep
  <2> QED BY <1>1, <1>12, <1>13, <2>1, <2>2, HoldingsIdle DEF PSMInv, RLTypeOK, Gainless
<1>17. ASSUME NEW caller \in Actors, CoreRefStep(caller),
              UNCHANGED <<rateLimitVars, oraclePrice, settings, holdings>>
       PROVE  PSMInv' /\ Gainless
  <2>1. UNCHANGED rateLimitVars /\ UNCHANGED <<oraclePrice, settings, holdings>> /\ UNCHANGED holdings
    BY <1>17
  <2>2. CoreRefTypeOK'
    BY <1>1, <1>17, CoreRefStepType
  <2> QED BY <1>1, <1>11, <1>13, <2>1, <2>2, HoldingsIdle DEF PSMInv, RLTypeOK, Gainless
<1>18. ASSUME NEW t \in 1..MaxTime, AdvanceTime(t), UNCHANGED <<coreRefVars, oraclePrice, settings, holdings>>
       PROVE  PSMInv' /\ Gainless
  <2>1. UNCHANGED coreRefVars /\ UNCHANGED <<oraclePrice, settings, holdings>> /\ UNCHANGED holdings
    BY <1>18
  <2>2. RateLimitTypeOK' /\ WindowCoversBuffer'
    <3>1. t \in Nat
        BY DEF RateLimitAssumption
    <3> QED BY <1>1, <1>18, <3>1, AdvanceStep
  <2> QED BY <1>1, <1>12, <1>13, <2>1, <2>2, HoldingsIdle DEF PSMInv, RLTypeOK, Gainless
<1>19. ASSUME UNCHANGED vars PROVE PSMInv' /\ Gainless
  <2>1. UNCHANGED rateLimitVars /\ UNCHANGED coreRefVars /\ UNCHANGED <<oraclePrice, settings, holdings>>
        /\ UNCHANGED holdings
    BY <1>19 DEF vars
  <2> QED BY <1>1, <1>11, <1>12, <1>13, <2>1, HoldingsIdle DEF PSMInv, RLTypeOK, Gainless
<1> QED BY <1>4, <1>5, <1>6, <1>7, <1>8, <1>9, <1>10, <1>14, <1>15, <1>16, <1>17, <1>18, <1>19, Zenon DEF PSMNext

-----------------------------------------------------------------------------
\* Every variable of a peg stability module stays in its type: fees under the maximum,
\* bounds ordered, no holding negative.
THEOREM PSMTypeCorrect == PSMSpec => []PSMTypeOK
<1>1. PSMInit => PSMInv
    BY RolesAssumption, RateLimitAssumption, PSMAssumption, PSMInitInv
<1>2. PSMInv /\ [PSMNext]_vars => PSMInv'
    BY RolesAssumption, RateLimitAssumption, PSMAssumption, PSMStep
<1>3. PSMInv => PSMTypeOK
    BY Zenon DEF PSMInv, TradeTypeOK, PSMTypeOK
<1> QED BY <1>1, <1>2, <1>3, PTL DEF PSMSpec

\* The FEI a fixed price module has put into circulation is backed one to one by the
\* underlying paid in, for every schedule of fees, bounds, oracle prices and trades.
THEOREM PSMFeiBacked == PSMSpec => []FeiBacked
<1>1. PSMInit => PSMInv
    BY RolesAssumption, RateLimitAssumption, PSMAssumption, PSMInitInv
<1>2. PSMInv /\ [PSMNext]_vars => PSMInv'
    BY RolesAssumption, RateLimitAssumption, PSMAssumption, PSMStep
<1>3. PSMInv => FeiBacked
    BY DEF PSMInv
<1> QED BY <1>1, <1>2, <1>3, PTL DEF PSMSpec

\* No call makes the public richer at the price it is made at, for any price, fee and
\* rounding.
THEOREM PSMPublicNeverGains == PSMSpec => PublicNeverGains
<1>1. PSMInit => PSMInv
    BY RolesAssumption, RateLimitAssumption, PSMAssumption, PSMInitInv
<1>2. PSMInv /\ [PSMNext]_vars => PSMInv' /\ Gainless
    BY RolesAssumption, RateLimitAssumption, PSMAssumption, PSMStep
<1>3. PSMInv /\ [PSMNext]_vars => [tradePrice' = tradePrice => publicWealth' <= publicWealth]_vars
    BY <1>2 DEF Gainless
<1> QED BY <1>1, <1>2, <1>3, PTL DEF PSMSpec, PublicNeverGains

-----------------------------------------------------------------------------
\* What MintsAreCharged says of a step.
Charged ==
    publicFei' + feiBalance' > publicFei + feiBalance
        => buffer' = buffer - (publicFei' + feiBalance' - publicFei - feiBalance)

\* A mint uses the buffer up by what it creates.  That needs a limit that acts in full or
\* not at all: a partial action would be charged with less than is handed out.
LEMMA MintCharged ==
    ASSUME RateLimitAssumption, PSMAssumption, PSMInv, ~doPartialAction, NEW a \in Nat, mint(a)
    PROVE  Charged /\ ~doPartialAction'
<1> DEFINE out  == getMintAmountOut(a)
           held == min(feiBalance, out)
<1>1. RateLimitTypeOK /\ TradeTypeOK
    BY DEF PSMInv, RLTypeOK
<1>2. feiBalance \in Nat /\ publicFei \in Nat
    BY <1>1 DEF TradeTypeOK
<1>3. out \in Nat
    BY <1>1, MintQuoteFacts
<1>4. feiBalance' = feiBalance - held /\ publicFei' = publicFei + out
    BY DEF mint
<1>5. (depleteBuffer(out - held) /\ out > held) \/ (UNCHANGED rateLimitVars /\ ~(out > held))
    BY DEF mint
<1> HIDE DEF out
<1>6. held \in Nat /\ held <= out /\ out - held \in Nat
    BY <1>2, <1>3 DEF min
<1> HIDE DEF held
<1>7. CASE depleteBuffer(out - held)
  <2>1. usedAmount(out - held) = out - held
    BY Zenon DEF usedAmount
  <2>2. /\ out - held <= buffer /\ bufferStored' = buffer - (out - held) /\ lastBufferUsedTime' = now
        /\ now' = now /\ bufferCap' = bufferCap /\ rateLimitPerSecond' = rateLimitPerSecond
        /\ doPartialAction' = doPartialAction
    BY <1>7, <2>1 DEF depleteBuffer
  <2>3. buffer \in Nat /\ buffer <= bufferCap /\ bufferCap \in Nat /\ rateLimitPerSecond \in Nat
    BY <1>1, BufferFacts DEF RateLimitTypeOK, RateLimitAssumption
  <2>4. buffer - (out - held) \in Nat /\ min(buffer - (out - held), bufferCap) = buffer - (out - held)
    BY <1>6, <2>2, <2>3 DEF min
  <2>5. buffer' = buffer - (out - held)
    BY <1>1, <2>2, <2>3, <2>4, SyncedBuffer
  <2> QED BY <1>2, <1>3, <1>4, <1>6, <2>2, <2>3, <2>5 DEF Charged
<1>8. CASE UNCHANGED rateLimitVars /\ ~(out > held)
  <2>1. out = held /\ doPartialAction' = doPartialAction
    BY <1>3, <1>6, <1>8 DEF rateLimitVars, rateLimitState
  <2> QED BY <1>2, <1>3, <1>4, <1>6, <2>1 DEF Charged
<1> QED BY <1>5, <1>7, <1>8

\* No other step creates FEI, and none lets the limit act in part.
LEMMA ChargedStep ==
    ASSUME RolesAssumption, RateLimitAssumption, PSMAssumption, PSMInv, ~doPartialAction, [PSMNext]_vars
    PROVE  Charged /\ ~doPartialAction'
<1>1. feiBalance \in Nat /\ publicFei \in Nat /\ Amounts \subseteq Nat
    BY DEF PSMInv, TradeTypeOK, RateLimitAssumption
<1>3. ASSUME limitUnchanged PROVE UNCHANGED doPartialAction
    BY <1>3 DEF limitUnchanged, rateLimitVars, rateLimitState
<1>4. ASSUME UNCHANGED holdings PROVE UNCHANGED <<publicFei, feiBalance>>
    BY <1>4 DEF holdings
<1>6. ASSUME NEW a \in Amounts, mint(a) PROVE Charged /\ ~doPartialAction'
    BY <1>1, <1>6, MintCharged
<1>7. ASSUME NEW a \in Amounts, redeem(a) PROVE Charged /\ ~doPartialAction'
  <2>1. a <= publicFei /\ publicFei' = publicFei - a /\ feiBalance' = feiBalance + a /\ limitUnchanged
    BY <1>7 DEF redeem
  <2> QED BY <1>1, <1>3, <2>1 DEF Charged
<1>8. ASSUME NEW a \in Amounts, NEW fei \in BOOLEAN, transferIn(fei, a) PROVE Charged /\ ~doPartialAction'
  <2>1. limitUnchanged
    BY <1>8 DEF transferIn
  <2>2. \/ a <= publicFei /\ publicFei' = publicFei - a /\ feiBalance' = feiBalance + a
        \/ UNCHANGED <<publicFei, feiBalance>>
    BY <1>8 DEF transferIn
  <2> QED BY <1>1, <1>3, <2>1, <2>2 DEF Charged
<1>9. ASSUME NEW a \in Amounts, NEW caller, withdraw(caller, a) \/ withdrawFei(caller, a)
      PROVE  Charged /\ ~doPartialAction'
  <2>1. limitUnchanged
    BY <1>9 DEF withdraw, withdrawFei
  <2>2. publicFei' = publicFei /\ (feiBalance' = feiBalance \/ feiBalance' = feiBalance - a)
    BY <1>9 DEF withdraw, withdrawFei
  <2> QED BY <1>1, <1>3, <2>1, <2>2 DEF Charged
<1>10. ASSUME allocateSurplus \/ OracleMoves PROVE Charged /\ ~doPartialAction'
  <2>1. UNCHANGED <<publicFei, feiBalance>> /\ limitUnchanged
    BY <1>4, <1>10 DEF allocateSurplus, OracleMoves
  <2> QED BY <1>1, <1>3, <2>1 DEF Charged
<1>11. ASSUME NEW caller, RateLimitGovernance(caller) PROVE UNCHANGED doPartialAction
    BY <1>11 DEF RateLimitGovernance, setRateLimitPerSecond, setBufferCap
<1>12. ASSUME NEW t, AdvanceTime(t) PROVE UNCHANGED doPartialAction
    BY <1>12 DEF AdvanceTime, rateLimitState
<1>13. ASSUME UNCHANGED rateLimitVars PROVE UNCHANGED doPartialAction
    BY <1>13 DEF rateLimitVars, rateLimitState
<1>14. ASSUME UNCHANGED holdings, UNCHANGED doPartialAction PROVE Charged /\ ~doPartialAction'
    BY <1>1, <1>4, <1>14 DEF Charged
<1>15. ASSUME NEW caller \in Actors,
              \/ Configure(caller) /\ UNCHANGED <<oraclePrice, holdings>> /\ limitUnchanged
              \/ RateLimitGovernance(caller) /\ UNCHANGED <<coreRefVars, oraclePrice, settings, holdings>>
              \/ CoreRefStep(caller) /\ UNCHANGED <<rateLimitVars, oraclePrice, settings, holdings>>
       PROVE  Charged /\ ~doPartialAction'
  <2>1. UNCHANGED holdings /\ UNCHANGED doPartialAction
    BY <1>3, <1>11, <1>13, <1>15
  <2> QED BY <1>14, <2>1
<1>16. ASSUME NEW t, AdvanceTime(t), UNCHANGED <<coreRefVars, oraclePrice, settings, holdings>>
       PROVE  Charged /\ ~doPartialAction'
    BY <1>12, <1>14, <1>16
<1>17. ASSUME UNCHANGED vars PROVE Charged /\ ~doPartialAction'
    BY <1>13, <1>14, <1>17 DEF vars
<1> QED BY <1>6, <1>7, <1>8, <1>9, <1>10, <1>15, <1>16, <1>17, Zenon DEF PSMNext

\* Whatever FEI a module creates is charged on its limit in the same step, for every price,
\* fee, buffer and amount of FEI it holds.
THEOREM PSMMintsAreCharged == PSMSpec => MintsAreCharged
<1>1. PSMInit => PSMInv /\ ~doPartialAction
    BY RolesAssumption, RateLimitAssumption, PSMAssumption, PSMInitInv DEF PSMInit
<1>2. PSMInv /\ ~doPartialAction /\ [PSMNext]_vars => PSMInv' /\ ~doPartialAction' /\ Charged
    BY RolesAssumption, RateLimitAssumption, PSMAssumption, PSMStep, ChargedStep
<1>3. PSMInv /\ ~doPartialAction /\ [PSMNext]_vars
        => [publicFei' + feiBalance' > publicFei + feiBalance
                => buffer' = buffer - (publicFei' + feiBalance' - publicFei - feiBalance)]_vars
    BY <1>2 DEF Charged
<1> QED BY <1>1, <1>2, <1>3, PTL DEF PSMSpec, MintsAreCharged
-----------------------------------------------------------------------------
\* What mint requires of the module, of the caller and, when FEI has to be created, of the
\* rate limit.
MintChecks(amountIn) ==
    LET amountFeiOut == getMintAmountOut(amountIn)
        fromHeld     == min(feiBalance, amountFeiOut)
    IN  /\ ~paused /\ ~mintPaused
        /\ quotable
        /\ amountIn <= publicUnderlying
        /\ amountFeiOut > fromHeld =>
              buffer # 0 /\ usedAmount(amountFeiOut - fromHeld) <= buffer

\* A step that mints passes these checks.
LEMMA MintIsChecked == ASSUME NEW a, mint(a) PROVE MintChecks(a)
<1>1. ASSUME getMintAmountOut(a) > min(feiBalance, getMintAmountOut(a))
      PROVE  depleteBuffer(getMintAmountOut(a) - min(feiBalance, getMintAmountOut(a)))
    BY <1>1 DEF mint
<1> QED BY <1>1 DEF mint, MintChecks, depleteBuffer

\* What is quoted at most getMaxMintAmountOut() can be minted, to the last unit of the held
\* FEI and of the buffer together: MaxMintReachable without its ENABLED, for every amount.
MaxMintPasses ==
    \A amount \in Nat :
        /\ quotable /\ ~paused /\ ~mintPaused
        /\ amount <= publicUnderlying
        /\ getMintAmountOut(amount) <= getMaxMintAmountOut
        => MintChecks(amount)

\* And nothing above it can.
NoMintAboveMax ==
    \A amount \in Nat : MintChecks(amount) => getMintAmountOut(amount) <= getMaxMintAmountOut

\* getMaxMintAmountOut() is exact: a quote is within it exactly when the held FEI and the
\* rate limit let the mint through (PegStabilityModule._mint, getMaxMintAmountOut).
THEOREM PSMMaxMintIsExact == PSMSpec => [](MaxMintPasses /\ NoMintAboveMax)
<1>1. PSMInit => PSMInv /\ ~doPartialAction
    BY RolesAssumption, RateLimitAssumption, PSMAssumption, PSMInitInv DEF PSMInit
<1>2. PSMInv /\ ~doPartialAction /\ [PSMNext]_vars => PSMInv' /\ ~doPartialAction'
    BY RolesAssumption, RateLimitAssumption, PSMAssumption, PSMStep, ChargedStep
<1>3. ASSUME PSMInv, ~doPartialAction PROVE MaxMintPasses /\ NoMintAboveMax
  <2>1. feiBalance \in Nat /\ buffer \in Nat /\ \A a \in Nat : getMintAmountOut(a) \in Nat
    <3>1. TradeTypeOK /\ RateLimitTypeOK
        BY <1>3 DEF PSMInv, RLTypeOK
    <3> QED BY <3>1, RateLimitAssumption, PSMAssumption, BufferFacts, MintQuoteFacts DEF TradeTypeOK
  <2>2. \A a \in Nat : LET out == getMintAmountOut(a)
                           held == min(feiBalance, out)
                       IN  /\ held \in Nat
                           /\ (out > held => buffer # 0 /\ out - held <= buffer)
                                <=> out <= feiBalance + buffer
      BY <2>1 DEF min
  <2> QED BY <1>3, <2>2 DEF MaxMintPasses, NoMintAboveMax, MintChecks, usedAmount, getMaxMintAmountOut
<1> QED BY <1>1, <1>2, <1>3, PTL DEF PSMSpec
=============================================================================
