------------------------- MODULE TokenTimelockProofs -------------------------
(***************************************************************************)
(* Proofs about TokenTimelock.tla for both curves, every duration, cliff,  *)
(* start time, set of delegatees and amounts: nothing is ever paid before  *)
(* it has unlocked, and a clawback leaves exactly what has.                *)
(***************************************************************************)
EXTENDS TokenTimelock, SumProofs, TLAPS

\* Integer division keeps the order of its dividends.
LEMMA DivMonotone ==
    ASSUME NEW x \in Nat, NEW y \in Nat, NEW d \in Nat, d > 0, x <= y
    PROVE  /\ x \div d \in Nat
           /\ x \div d <= y \div d
    BY SMT

\* Products of naturals keep the order of their factors.
LEMMA ProductMonotone ==
    /\ \A x, y \in Nat : x * y \in Nat
    /\ \A x, y, u, v \in Nat : x <= y /\ u <= v => x * u <= y * v
<1>1. \A x, y \in Nat : x * y \in Nat
    BY SMT
<1>2. \A x, y, u \in Nat : x <= y => x * u <= y * u
    BY SMT
<1>3. \A y, u, v \in Nat : u <= v => y * u <= y * v
    BY SMT
<1>4. ASSUME NEW x \in Nat, NEW y \in Nat, NEW u \in Nat, NEW v \in Nat, x <= y, u <= v
      PROVE  x * u <= y * v
  <2>1. x * u <= y * u /\ y * u <= y * v
    BY <1>2, <1>3, <1>4, Zenon
  <2>2. x * u \in Nat /\ y * u \in Nat /\ y * v \in Nat
    BY <1>1, <1>4, Zenon
  <2> QED BY <2>1, <2>2
<1> QED BY <1>1, <1>4, Zenon

\* Neither curve ever goes down, in the balance or in time.
LEMMA ProportionFacts ==
    ASSUME TokenTimelockAssumption,
           NEW b \in Nat, NEW c \in Nat, NEW e \in Nat, NEW f \in Nat, b <= c, e <= f
    PROVE  /\ proportionAvailable(b, e) \in Nat
           /\ proportionAvailable(b, e) <= proportionAvailable(c, f)
<1>1. Duration \in Nat /\ Duration > 0
    BY DEF TokenTimelockAssumption
<1>2. b * e \in Nat /\ c * f \in Nat /\ b * e <= c * f
    BY ProductMonotone, Zenon
<1>3. b * e * e \in Nat /\ c * f * f \in Nat /\ b * e * e <= c * f * f
    BY <1>2, ProductMonotone, Zenon
<1>4. (b * e) \div Duration \in Nat /\ (b * e) \div Duration <= (c * f) \div Duration
    BY <1>1, <1>2, DivMonotone, Zenon
<1>5. /\ (b * e * e) \div Duration \in Nat /\ (c * f * f) \div Duration \in Nat
      /\ (b * e * e) \div Duration <= (c * f * f) \div Duration
  <2>1. c * f * f <= c * f * f
    BY <1>3
  <2> QED BY <1>1, <1>3, <2>1, DivMonotone, Zenon
<1>6. /\ ((b * e * e) \div Duration) \div Duration \in Nat
      /\ ((b * e * e) \div Duration) \div Duration <= ((c * f * f) \div Duration) \div Duration
    BY <1>1, <1>5, DivMonotone, Zenon
<1> QED BY <1>4, <1>6, Zenon DEF proportionAvailable

\* The initial balance that a call works with counts no token twice and misses none that
\* is still there.
LEMMA CaughtUpFacts ==
    ASSUME TTInv
    PROVE  /\ caughtUp \in Nat
           /\ totalToken \in Nat
           /\ caughtUp <= received
           /\ received <= caughtUp + clawed + unlocked
           /\ clawed = 0 /\ unlocked = 0 => caughtUp = received
           /\ initialBalance + totalToken - lastBalance <= caughtUp
    BY DEF TTInv, TTTypeOK, Accounted, caughtUp, totalToken

\* The elapsed time, once the lock has started.
LEMMA ElapsedFacts ==
    ASSUME TokenTimelockAssumption, TTTypeOK, started
    PROVE  timeSinceStart \in Nat
    BY DEF TokenTimelockAssumption, TTTypeOK, started, timeSinceStart

-----------------------------------------------------------------------------
\* What a release or a clawback pays keeps the total paid within what has unlocked.
LEMMA PaymentVested ==
    ASSUME TokenTimelockAssumption, TTInv, started, NEW a \in Nat, a <= availableForRelease
    PROVE  /\ vested \in Nat
           /\ availableForRelease \in Int
           /\ paid + a <= vested
           /\ vested <= proportionAvailable(received, timeSinceStart)
<1>1. timeSinceStart \in Nat
    BY ElapsedFacts DEF TTInv
<1>2. caughtUp \in Nat /\ totalToken \in Nat /\ caughtUp <= received /\ received <= caughtUp + clawed + unlocked
    BY CaughtUpFacts
<1>3. /\ received \in Nat /\ paid \in Nat /\ clawed \in Nat /\ unlocked \in Nat
      /\ received = totalToken + paid + clawed + unlocked
    BY Zenon DEF TTInv, TTTypeOK, Conserved
<1>4. timeSinceStart <= timeSinceStart
    BY <1>1
<1>5. vested \in Nat /\ vested <= proportionAvailable(received, timeSinceStart)
    BY <1>1, <1>2, <1>3, <1>4, ProportionFacts, Zenon DEF vested
<1>6. availableForRelease = vested - (caughtUp - totalToken)
    BY DEF availableForRelease
<1> HIDE DEF vested, caughtUp, totalToken
<1> QED BY <1>2, <1>3, <1>5, <1>6

\* Time passing and tokens arriving only raise what has unlocked.
LEMMA VestedStays ==
    ASSUME TokenTimelockAssumption, TTInv,
           NEW t \in Nat, NEW r \in Nat, now <= t, received <= r,
           now' = t, received' = r, startTime' = startTime, paid' = paid
    PROVE  VestedOnly' /\ PaidAfterCliff'
<1>1. now \in Nat /\ startTime \in Nat /\ received \in Nat /\ paid \in Nat /\ Duration \in Nat
    BY DEF TTInv, TTTypeOK, TokenTimelockAssumption
<1>2. CASE paid = 0
  <2>1. ASSUME started' PROVE proportionAvailable(received', timeSinceStart') \in Nat
    <3>1. timeSinceStart' \in Nat
      BY <1>1, <2>1 DEF started, timeSinceStart
    <3>2. r <= r /\ timeSinceStart' <= timeSinceStart'
      BY <3>1
    <3> QED BY <3>1, <3>2, ProportionFacts, Zenon
  <2>2. paid' = 0
    BY <1>2
  <2> HIDE DEF started, timeSinceStart
  <2>3. VestedOnly'
    BY <2>1, <2>2 DEF VestedOnly, proportionAvailable
  <2> QED BY <2>2, <2>3 DEF PaidAfterCliff
<1>3. CASE paid # 0
  <2>1. started /\ passedCliff
    BY <1>1, <1>3 DEF TTInv, PaidAfterCliff
  <2>2. started'
    BY <1>1, <2>1 DEF started
  <2>3. timeSinceStart \in Nat /\ timeSinceStart' \in Nat /\ timeSinceStart <= timeSinceStart'
    BY <1>1, <2>1 DEF started, timeSinceStart
  <2>4. passedCliff'
    BY <2>1, <2>3 DEF passedCliff, TokenTimelockAssumption
  <2>5. paid <= proportionAvailable(received, timeSinceStart)
    BY <2>1 DEF TTInv, VestedOnly
  <2>6. /\ proportionAvailable(received, timeSinceStart) \in Nat
        /\ proportionAvailable(r, timeSinceStart') \in Nat
        /\ proportionAvailable(received, timeSinceStart) <= proportionAvailable(r, timeSinceStart')
    <3>1. r <= r /\ timeSinceStart' <= timeSinceStart'
      BY <2>3
    <3> QED BY <1>1, <2>3, <3>1, ProportionFacts, Zenon
  <2>7. paid' <= proportionAvailable(received', timeSinceStart')
    <3> DEFINE before == proportionAvailable(received, timeSinceStart)
               after == proportionAvailable(r, timeSinceStart')
    <3>1. before \in Nat /\ after \in Nat /\ before <= after /\ paid <= before
      BY <2>5, <2>6
    <3> HIDE DEF before, after
    <3>2. paid <= after
      BY <1>1, <3>1
    <3> QED BY <3>2 DEF after
  <2> QED BY <2>2, <2>4, <2>7 DEF VestedOnly, PaidAfterCliff
<1> QED BY <1>2, <1>3

-----------------------------------------------------------------------------
\* The constructor establishes the inductive invariant.
LEMMA InitTTInv == ASSUME TokenTimelockAssumption, TTInit PROVE TTInv
<1>1. /\ now = 1 /\ initialBalance = 0 /\ lastBalance = 0 /\ held = 0 /\ totalDelegated = 0
      /\ received = 0 /\ paid = 0 /\ clawed = 0 /\ unlocked = 0 /\ startTime \in Nat
    BY DEF TTInit, TokenTimelockAssumption
<1>2. TTTypeOK
    BY <1>1 DEF TTInit, TTTypeOK
<1>3. DelegateesHold
    BY DEF TTInit, DelegateesHold
<1>4. Accounted /\ Conserved
    BY <1>1 DEF Accounted, Conserved, totalToken
<1>5. paid <= 0 /\ PaidAfterCliff
    BY <1>1 DEF PaidAfterCliff
<1>6. VestedOnly
  <2>1. ASSUME started PROVE paid <= proportionAvailable(received, timeSinceStart)
    <3>1. timeSinceStart \in Nat
      BY <1>2, <2>1, ElapsedFacts
    <3>2. received \in Nat /\ received <= received /\ timeSinceStart <= timeSinceStart
      BY <1>1, <3>1
    <3>3. proportionAvailable(received, timeSinceStart) \in Nat
      BY <3>1, <3>2, ProportionFacts, Zenon
    <3> QED BY <1>1, <3>3
  <2> QED BY <1>5, <2>1 DEF VestedOnly
<1> QED BY <1>2, <1>3, <1>4, <1>5, <1>6 DEF TTInv

\* The two releases.
LEMMA ReleaseStep ==
    ASSUME TokenTimelockAssumption, TTInv, releasable, passedCliff,
           NEW toItself \in BOOLEAN, NEW a \in Nat, a <= availableForRelease, releaseTo(toItself, a)
    PROVE  TTInv'
<1>1. /\ caughtUp \in Nat /\ totalToken \in Nat /\ caughtUp <= received
      /\ received <= caughtUp + clawed + unlocked
    BY CaughtUpFacts
<1>2. started /\ vested \in Nat /\ paid + a <= vested /\ vested <= proportionAvailable(received, timeSinceStart)
    BY PaymentVested DEF releasable
<1>3. /\ startTime' = startTime /\ now' = now /\ received' = received
      /\ clawed' = clawed /\ unlocked' = unlocked /\ totalDelegated' = totalDelegated
      /\ UNCHANGED <<beneficiaries, delegations>>
    BY DEF releaseTo, delegations
<1>4. PICK out \in Nat :
        /\ out <= a /\ out <= held
        /\ initialBalance' = caughtUp /\ lastBalance' = totalToken - out
        /\ held' = held - out /\ paid' = paid + out
  <2>1. held \in Nat /\ paid \in Nat /\ totalToken \in Nat
    BY <1>1 DEF TTInv, TTTypeOK
  <2>2. CASE toItself
    <3>1. initialBalance' = caughtUp /\ lastBalance' = totalToken - 0 /\ held' = held /\ paid' = paid
      BY <2>2, Zenon DEF releaseTo, balanceCheck
    <3>2. 0 \in Nat /\ 0 <= a /\ 0 <= held /\ held' = held - 0 /\ paid' = paid + 0
      BY <2>1, <3>1
    <3> QED BY <3>1, <3>2, Zenon
  <2>3. CASE ~toItself
    <3>1. /\ initialBalance' = caughtUp /\ lastBalance' = totalToken - a /\ a <= held
          /\ held' = held - a /\ paid' = paid + a
      BY <2>3, Zenon DEF releaseTo, balanceCheck
    <3>2. a <= a
      BY <2>1
    <3> QED BY <3>1, <3>2, Zenon
  <2> QED BY <2>2, <2>3, Zenon
<1>5. totalToken' = totalToken - out /\ lastBalance' \in Nat
    BY <1>3, <1>4 DEF totalToken, TTInv, TTTypeOK
<1>6. TTTypeOK'
    BY <1>1, <1>3, <1>4, <1>5 DEF TTInv, TTTypeOK, beneficiaries, delegations
<1>7. DelegateesHold'
    BY <1>3 DEF TTInv, DelegateesHold, delegations
<1> HIDE DEF totalToken, caughtUp, vested
<1>8. Accounted' /\ Conserved'
    BY <1>1, <1>3, <1>4, <1>5 DEF TTInv, TTTypeOK, Accounted, Conserved
<1>9. started' /\ passedCliff' /\ timeSinceStart' = timeSinceStart
    BY <1>2, <1>3 DEF started, passedCliff, timeSinceStart
<1>10. PaidAfterCliff'
    BY <1>9 DEF PaidAfterCliff
<1>11. VestedOnly'
  <2>1. timeSinceStart \in Nat /\ received \in Nat /\ paid \in Nat
    BY <1>2, ElapsedFacts DEF TTInv, TTTypeOK
  <2>2. received <= received /\ timeSinceStart <= timeSinceStart
    BY <2>1
  <2>3. proportionAvailable(received, timeSinceStart) \in Nat
    BY <2>1, <2>2, ProportionFacts, Zenon
  <2> DEFINE limit == proportionAvailable(received, timeSinceStart)
  <2>4. limit \in Nat /\ vested <= limit
    BY <1>2, <2>3
  <2>5. proportionAvailable(received', timeSinceStart') = limit
    BY <1>3, <1>9 DEF proportionAvailable
  <2> HIDE DEF limit
  <2>6. paid' <= limit
    BY <1>2, <1>4, <2>1, <2>4
  <2> QED BY <1>9, <2>5, <2>6 DEF VestedOnly
<1> QED BY <1>6, <1>7, <1>8, <1>10, <1>11 DEF TTInv

\* What a clawback pays to the beneficiary has unlocked.
LEMMA ClawbackShareFacts ==
    ASSUME TokenTimelockAssumption, TTInv, started, passedCliff => releasable
    PROVE  /\ clawbackShare \in Nat
           /\ clawbackShare <= totalToken
           /\ passedCliff => clawbackShare = availableForRelease
           /\ ~passedCliff => clawbackShare = 0 /\ paid = 0
<1>1. /\ caughtUp \in Nat /\ totalToken \in Nat
    BY CaughtUpFacts
<1>2. CASE ~passedCliff
  <2>1. clawbackShare = 0 /\ paid = 0
    BY <1>2 DEF clawbackShare, TTInv, TTTypeOK, PaidAfterCliff
  <2> QED BY <1>1, <1>2, <2>1
<1>3. CASE passedCliff
  <2>1. clawbackShare = availableForRelease /\ availableForRelease >= 0
    BY <1>3 DEF clawbackShare, releasable
  <2>2. 0 \in Nat /\ 0 <= availableForRelease
    BY <2>1
  <2>3. vested \in Nat /\ availableForRelease \in Int
    BY <2>2, PaymentVested, Zenon
  <2>4. vested <= caughtUp
    <3>1. timeSinceStart \in Nat /\ timeSinceStart <= Duration /\ Duration \in Nat /\ Duration > 0
      BY DEF TTInv, TTTypeOK, TokenTimelockAssumption, started, timeSinceStart
    <3>2. caughtUp <= caughtUp
      BY <1>1
    <3>3. proportionAvailable(caughtUp, timeSinceStart) <= proportionAvailable(caughtUp, Duration)
      BY <1>1, <3>1, <3>2, ProportionFacts, Zenon
    <3>4. proportionAvailable(caughtUp, Duration) = caughtUp
      <4>1. \A b, d \in Nat : d > 0 => (b * d) \div d = b /\ b * d \in Nat
        BY SMT
      <4>2. (caughtUp * Duration) \div Duration = caughtUp /\ caughtUp * Duration \in Nat
        BY <1>1, <3>1, <4>1, Zenon
      <4>3. ((caughtUp * Duration) * Duration) \div Duration = caughtUp * Duration
        BY <3>1, <4>1, <4>2, Zenon
      <4> QED BY <4>2, <4>3, Zenon DEF proportionAvailable
    <3> QED BY <3>3, <3>4, Zenon DEF vested
  <2>5. availableForRelease = vested - (caughtUp - totalToken)
    BY DEF availableForRelease
  <2> HIDE DEF vested, caughtUp, totalToken
  <2>6. availableForRelease \in Nat /\ availableForRelease <= totalToken
    BY <1>1, <2>1, <2>3, <2>4, <2>5
  <2> QED BY <1>3, <2>1, <2>6
<1> QED BY <1>2, <1>3

\* A clawback.
LEMMA ClawbackStep ==
    ASSUME TokenTimelockAssumption, TTInv, NEW caller \in Actors, clawback(caller)
    PROVE  TTInv'
<1>1. /\ caughtUp \in Nat /\ totalToken \in Nat /\ caughtUp <= received
      /\ received <= caughtUp + clawed + unlocked
    BY CaughtUpFacts
<1>2. started /\ (passedCliff => releasable) /\ totalToken <= held
    BY DEF clawback
<1>3. /\ clawbackShare \in Nat /\ clawbackShare <= totalToken
      /\ passedCliff => clawbackShare = availableForRelease
      /\ ~passedCliff => clawbackShare = 0 /\ paid = 0
    BY <1>2, ClawbackShareFacts, Zenon
<1>4. /\ initialBalance' = caughtUp /\ lastBalance' = totalToken - totalToken /\ held' = 0
      /\ paid' = paid + clawbackShare /\ clawed' = clawed + (totalToken - clawbackShare)
      /\ startTime' = startTime /\ now' = now /\ received' = received
      /\ unlocked' = unlocked /\ totalDelegated' = totalDelegated
      /\ UNCHANGED <<beneficiaries, delegations>>
    BY DEF clawback, balanceCheck, delegations
<1>5. held = totalToken /\ totalDelegated = 0 /\ lastBalance' = 0 /\ totalToken' = 0
    BY <1>1, <1>2, <1>4 DEF totalToken, TTInv, TTTypeOK
<1> HIDE DEF clawbackShare
<1>6. TTTypeOK'
    BY <1>1, <1>3, <1>4, <1>5 DEF TTInv, TTTypeOK, beneficiaries, delegations
<1>7. DelegateesHold'
    BY <1>4 DEF TTInv, DelegateesHold, delegations
<1> HIDE DEF totalToken, caughtUp
<1>8. Accounted' /\ Conserved'
    BY <1>1, <1>3, <1>4, <1>5 DEF TTInv, TTTypeOK, Accounted, Conserved
<1>9. started' = started /\ passedCliff' = passedCliff /\ timeSinceStart' = timeSinceStart
    BY <1>4 DEF started, passedCliff, timeSinceStart
<1>10. PaidAfterCliff'
  <2>1. CASE passedCliff
    BY <1>2, <1>9, <2>1 DEF PaidAfterCliff
  <2>2. CASE ~passedCliff
    <3>1. paid' = 0
      BY <1>3, <1>4, <2>2
    <3> QED BY <3>1 DEF PaidAfterCliff
  <2> QED BY <2>1, <2>2
<1>11. VestedOnly'
  <2>1. timeSinceStart \in Nat /\ received \in Nat /\ paid \in Nat
    BY <1>2, ElapsedFacts DEF TTInv, TTTypeOK
  <2>2. received <= received /\ timeSinceStart <= timeSinceStart
    BY <2>1
  <2> DEFINE limit == proportionAvailable(received, timeSinceStart)
  <2>3. limit \in Nat
    BY <2>1, <2>2, ProportionFacts, Zenon
  <2>4. proportionAvailable(received', timeSinceStart') = limit
    BY <1>4, <1>9 DEF proportionAvailable
  <2>5. CASE passedCliff
    <3>1. clawbackShare <= availableForRelease
      BY <1>3, <2>5
    <3>2. paid + clawbackShare <= vested /\ vested <= limit /\ vested \in Nat
      BY <1>2, <1>3, <3>1, PaymentVested, Zenon
    <3> HIDE DEF limit, vested
    <3>3. paid' <= limit
      BY <1>3, <1>4, <2>1, <2>3, <3>2
    <3> QED BY <1>2, <1>9, <2>4, <3>3 DEF VestedOnly
  <2>6. CASE ~passedCliff
    <3> HIDE DEF limit
    <3>1. paid' <= limit
      BY <1>3, <1>4, <2>3, <2>6
    <3> QED BY <1>2, <1>9, <2>4, <3>1 DEF VestedOnly
  <2> QED BY <2>5, <2>6
<1> QED BY <1>6, <1>7, <1>8, <1>10, <1>11 DEF TTInv

\* unlockLiquidity, which keeps no account.
LEMMA UnlockStep ==
    ASSUME TokenTimelockAssumption, TTInv, NEW caller \in Actors, unlockLiquidity(caller)
    PROVE  TTInv'
<1>1. /\ totalToken <= held /\ held' = held - totalToken /\ unlocked' = unlocked + totalToken
      /\ now' = now /\ startTime' = startTime /\ initialBalance' = initialBalance
      /\ lastBalance' = lastBalance /\ received' = received /\ paid' = paid /\ clawed' = clawed
      /\ totalDelegated' = totalDelegated /\ UNCHANGED <<beneficiaries, delegations>>
    BY DEF unlockLiquidity, delegations
<1>2. TTTypeOK' /\ Accounted' /\ Conserved'
    BY <1>1 DEF TTInv, TTTypeOK, Accounted, Conserved, totalToken, beneficiaries, delegations
<1>3. DelegateesHold'
    BY <1>1 DEF TTInv, DelegateesHold, delegations
<1>4. now \in Nat /\ received \in Nat /\ now <= now /\ received <= received
    BY DEF TTInv, TTTypeOK
<1>5. VestedOnly' /\ PaidAfterCliff'
    BY <1>1, <1>4, VestedStays, Zenon
<1> QED BY <1>2, <1>3, <1>5 DEF TTInv

\* Tokens that arrive, or come back from a Delegatee with what it was sent: more is held,
\* nothing is paid.
LEMMA ArrivalStep ==
    ASSUME TokenTimelockAssumption, TTInv, NEW n \in Nat,
           totalToken' = totalToken + n, received' = received + n,
           now' = now, startTime' = startTime, initialBalance' = initialBalance,
           lastBalance' = lastBalance, paid' = paid, clawed' = clawed, unlocked' = unlocked
    PROVE  Accounted' /\ Conserved' /\ PaidAfterCliff' /\ VestedOnly'
<1>1. totalToken \in Nat
    BY CaughtUpFacts
<1> HIDE DEF totalToken
<1>2. now \in Nat /\ now <= now /\ received' \in Nat /\ received <= received'
    BY DEF TTInv, TTTypeOK
<1>3. VestedOnly' /\ PaidAfterCliff'
    BY <1>2, VestedStays, Zenon
<1>4. Accounted' /\ Conserved'
    BY <1>1 DEF TTInv, TTTypeOK, Accounted, Conserved
<1> QED BY <1>3, <1>4

\* What a Delegatee brings back is at least what it was lent.
LEMMA ReturnFacts ==
    ASSUME TTInv, NEW d \in Delegatees
    PROVE  returning(d) \in Nat /\ lent(d) \in Nat /\ lent(d) <= returning(d)
    BY DEF TTInv, TTTypeOK, DelegateesHold, returning, lent

\* delegate keeps the invariant, also where the delegatee is lent to a second time.
LEMMA DelegateStep ==
    ASSUME TokenTimelockAssumption, TTInv, NEW caller \in Actors, NEW d \in Delegatees,
           NEW amount \in Nat, delegate(caller, d, amount)
    PROVE  TTInv'
<1>1. returning(d) \in Nat /\ lent(d) \in Nat /\ lent(d) <= returning(d)
    BY ReturnFacts
<1> DEFINE back == returning(d)
           gone == lent(d)
           n == back - gone
<1>2. /\ gone <= totalDelegated /\ amount + gone <= held + back
      /\ delegateContract' = delegateContract \cup {d}
      /\ delegateAmount' = [delegateAmount EXCEPT ![d] = amount + gone]
      /\ delegateBalance' = [delegateBalance EXCEPT ![d] = amount + gone]
      /\ totalDelegated' = totalDelegated - gone + (amount + gone)
      /\ held' = held + back - (amount + gone) /\ received' = received + n
      /\ now' = now /\ startTime' = startTime /\ initialBalance' = initialBalance
      /\ lastBalance' = lastBalance /\ paid' = paid /\ clawed' = clawed /\ unlocked' = unlocked
      /\ UNCHANGED beneficiaries
    BY DEF delegate, outflows
<1>3. back \in Nat /\ gone \in Nat /\ gone <= back
    BY <1>1
<1> HIDE DEF back, gone
<1>4. n \in Nat
    BY <1>3
<1>5. totalToken' = totalToken + n
    BY <1>2, <1>3 DEF totalToken, TTInv, TTTypeOK
<1>6. TTTypeOK'
    BY <1>2, <1>3, <1>4 DEF TTInv, TTTypeOK, beneficiaries
<1>7. DelegateesHold'
    BY <1>2, <1>3 DEF TTInv, TTTypeOK, DelegateesHold
<1>8. Accounted' /\ Conserved' /\ PaidAfterCliff' /\ VestedOnly'
    BY <1>2, <1>4, <1>5, ArrivalStep, Zenon
<1> QED BY <1>6, <1>7, <1>8 DEF TTInv

\* undelegate keeps the invariant.
LEMMA UndelegateStep ==
    ASSUME TokenTimelockAssumption, TTInv, NEW caller \in Actors, NEW d \in Delegatees,
           undelegate(caller, d)
    PROVE  TTInv'
<1>1. returning(d) \in Nat /\ lent(d) \in Nat /\ lent(d) <= returning(d)
    BY ReturnFacts
<1> DEFINE back == returning(d)
           gone == lent(d)
           n == back - gone
<1>2. /\ gone <= totalDelegated
      /\ delegateContract' = delegateContract \ {d}
      /\ delegateAmount' = [delegateAmount EXCEPT ![d] = 0]
      /\ delegateBalance' = [delegateBalance EXCEPT ![d] = 0]
      /\ totalDelegated' = totalDelegated - gone
      /\ held' = held + back /\ received' = received + n
      /\ now' = now /\ startTime' = startTime /\ initialBalance' = initialBalance
      /\ lastBalance' = lastBalance /\ paid' = paid /\ clawed' = clawed /\ unlocked' = unlocked
      /\ UNCHANGED beneficiaries
    BY DEF undelegate, outflows
<1>3. back \in Nat /\ gone \in Nat /\ gone <= back
    BY <1>1
<1> HIDE DEF back, gone
<1>4. n \in Nat
    BY <1>3
<1>5. totalToken' = totalToken + n
    BY <1>2, <1>3 DEF totalToken, TTInv, TTTypeOK
<1>6. TTTypeOK'
    BY <1>2, <1>3, <1>4 DEF TTInv, TTTypeOK, beneficiaries
<1>7. DelegateesHold'
    BY <1>2, <1>3 DEF TTInv, TTTypeOK, DelegateesHold
<1>8. Accounted' /\ Conserved' /\ PaidAfterCliff' /\ VestedOnly'
    BY <1>2, <1>4, <1>5, ArrivalStep, Zenon
<1> QED BY <1>6, <1>7, <1>8 DEF TTInv

\* Transfers to the lock and to a Delegatee.
LEMMA FundStep ==
    ASSUME TokenTimelockAssumption, TTInv, NEW amount \in Nat, Fund(amount)
    PROVE  TTInv'
<1>1. /\ held' = held + amount /\ received' = received + amount
      /\ now' = now /\ startTime' = startTime /\ initialBalance' = initialBalance
      /\ lastBalance' = lastBalance /\ paid' = paid /\ clawed' = clawed /\ unlocked' = unlocked
      /\ totalDelegated' = totalDelegated /\ UNCHANGED <<beneficiaries, delegations>>
    BY DEF Fund, outflows, delegations
<1>2. TTTypeOK' /\ totalToken' = totalToken + amount
    BY <1>1 DEF TTInv, TTTypeOK, totalToken, beneficiaries, delegations
<1>3. DelegateesHold'
    BY <1>1 DEF TTInv, DelegateesHold, delegations
<1>4. Accounted' /\ Conserved' /\ PaidAfterCliff' /\ VestedOnly'
    BY <1>1, <1>2, ArrivalStep, Zenon
<1> QED BY <1>2, <1>3, <1>4 DEF TTInv

\* Tokens sent straight to a Delegatee keep the invariant.
LEMMA FundDelegateeStep ==
    ASSUME TokenTimelockAssumption, TTInv, NEW d \in Delegatees, NEW amount \in Nat,
           FundDelegatee(d, amount)
    PROVE  TTInv'
<1>1. /\ delegateBalance' = [delegateBalance EXCEPT ![d] = @ + amount]
      /\ now' = now /\ startTime' = startTime /\ initialBalance' = initialBalance
      /\ lastBalance' = lastBalance /\ paid' = paid /\ clawed' = clawed /\ unlocked' = unlocked
      /\ held' = held /\ received' = received /\ totalDelegated' = totalDelegated
      /\ delegateContract' = delegateContract /\ delegateAmount' = delegateAmount
      /\ UNCHANGED beneficiaries
    BY DEF FundDelegatee, outflows
<1>2. TTTypeOK' /\ totalToken' = totalToken + 0 /\ received' = received + 0
    BY <1>1 DEF TTInv, TTTypeOK, totalToken, beneficiaries
<1>3. DelegateesHold'
    BY <1>1 DEF TTInv, TTTypeOK, DelegateesHold
<1>4. Accounted' /\ Conserved' /\ PaidAfterCliff' /\ VestedOnly'
    BY <1>1, <1>2, ArrivalStep, Zenon
<1> QED BY <1>2, <1>3, <1>4 DEF TTInv

\* A change of beneficiary, and steps that change nothing.
LEMMA BeneficiaryStep ==
    ASSUME TokenTimelockAssumption, TTInv,
           beneficiary' \in Actors, pendingBeneficiary' \in Actors \cup {NoAddress},
           UNCHANGED <<now, startTime, initialBalance, lastBalance, held, delegations, received, outflows>>
    PROVE  TTInv'
<1>1. /\ now' = now /\ startTime' = startTime /\ initialBalance' = initialBalance
      /\ lastBalance' = lastBalance /\ paid' = paid /\ clawed' = clawed /\ unlocked' = unlocked
      /\ held' = held /\ received' = received /\ totalDelegated' = totalDelegated
      /\ delegateContract' = delegateContract /\ delegateAmount' = delegateAmount
      /\ delegateBalance' = delegateBalance
    BY DEF delegations, outflows
<1>2. TTTypeOK' /\ totalToken' = totalToken + 0 /\ received' = received + 0
    BY <1>1 DEF TTInv, TTTypeOK, totalToken
<1>3. DelegateesHold'
    BY <1>1 DEF TTInv, DelegateesHold
<1>4. Accounted' /\ Conserved' /\ PaidAfterCliff' /\ VestedOnly'
    BY <1>1, <1>2, ArrivalStep, Zenon
<1> QED BY <1>2, <1>3, <1>4 DEF TTInv

\* A later block.
LEMMA TimeStep ==
    ASSUME TokenTimelockAssumption, TTInv, NEW t \in Nat, AdvanceTime(t)
    PROVE  TTInv'
<1>1. /\ now < t /\ now' = t /\ startTime' = startTime /\ initialBalance' = initialBalance
      /\ lastBalance' = lastBalance /\ paid' = paid /\ clawed' = clawed /\ unlocked' = unlocked
      /\ held' = held /\ received' = received /\ totalDelegated' = totalDelegated
      /\ UNCHANGED <<beneficiaries, delegations>>
    BY DEF AdvanceTime, outflows, delegations
<1>2. TTTypeOK' /\ Accounted' /\ Conserved'
    BY <1>1 DEF TTInv, TTTypeOK, Accounted, Conserved, totalToken, beneficiaries, delegations
<1>3. DelegateesHold'
    BY <1>1 DEF TTInv, DelegateesHold, delegations
<1>4. received \in Nat /\ now <= t /\ received <= received
    BY <1>1 DEF TTInv, TTTypeOK
<1>5. VestedOnly' /\ PaidAfterCliff'
    BY <1>1, <1>4, VestedStays, Zenon
<1> QED BY <1>2, <1>3, <1>5 DEF TTInv

\* Every step preserves the inductive invariant, one case per function.
LEMMA NextTTInv ==
    ASSUME TokenTimelockAssumption, TTInv, [TTNext]_ttVars
    PROVE  TTInv'
<1>1. Amounts \subseteq Nat
    BY DEF TokenTimelockAssumption
<1>2. beneficiary \in Actors /\ pendingBeneficiary \in Actors \cup {NoAddress}
    BY DEF TTInv, TTTypeOK
<1>3. CASE UNCHANGED ttVars
  <2>1. /\ UNCHANGED <<now, startTime, initialBalance, lastBalance, held, delegations, received, outflows>>
        /\ beneficiary' = beneficiary /\ pendingBeneficiary' = pendingBeneficiary
    BY <1>3 DEF ttVars, beneficiaries
  <2> QED BY <1>2, <2>1, BeneficiaryStep, Zenon
<1>4. ASSUME NEW caller \in Actors, NEW toItself \in BOOLEAN, NEW amount \in Amounts,
             release(caller, toItself, amount)
      PROVE  TTInv'
  <2>1. /\ amount \in Nat /\ releasable /\ passedCliff /\ amount <= availableForRelease
        /\ releaseTo(toItself, amount)
    BY <1>1, <1>4 DEF release
  <2> QED BY <2>1, ReleaseStep, Zenon
<1>5. ASSUME NEW caller \in Actors, NEW toItself \in BOOLEAN, releaseMax(caller, toItself)
      PROVE  TTInv'
  <2>1. releasable /\ passedCliff /\ releaseTo(toItself, availableForRelease)
    BY <1>5 DEF releaseMax
  <2>2. started /\ availableForRelease >= 0
    BY <2>1 DEF releasable
  <2>3. availableForRelease \in Nat /\ availableForRelease <= availableForRelease
    <3>1. clawbackShare \in Nat /\ clawbackShare = availableForRelease
      BY <2>1, <2>2, ClawbackShareFacts, Zenon
    <3>2. availableForRelease \in Nat
      BY <3>1
    <3> HIDE DEF availableForRelease
    <3> QED BY <3>2
  <2> QED BY <2>1, <2>3, ReleaseStep, Zenon
<1>6. ASSUME NEW caller \in Actors, NEW pending \in Actors \cup {NoAddress},
             setPendingBeneficiary(caller, pending)
      PROVE  TTInv'
  <2>1. /\ UNCHANGED <<now, startTime, initialBalance, lastBalance, held, delegations, received, outflows>>
        /\ beneficiary' \in Actors /\ pendingBeneficiary' \in Actors \cup {NoAddress}
    BY <1>2, <1>6 DEF setPendingBeneficiary
  <2> QED BY <2>1, BeneficiaryStep, Zenon
<1>7. ASSUME NEW caller \in Actors, acceptBeneficiary(caller)
      PROVE  TTInv'
  <2>1. /\ UNCHANGED <<now, startTime, initialBalance, lastBalance, held, delegations, received, outflows>>
        /\ beneficiary' \in Actors /\ pendingBeneficiary' \in Actors \cup {NoAddress}
    BY <1>7 DEF acceptBeneficiary
  <2> QED BY <2>1, BeneficiaryStep, Zenon
<1>8. ASSUME NEW t \in 1..MaxTime, AdvanceTime(t)
      PROVE  TTInv'
  <2>1. t \in Nat
    BY <1>8
  <2> QED BY <1>8, <2>1, TimeStep, Zenon
<1>9. CASE TTNext
    BY <1>1, <1>4, <1>5, <1>6, <1>7, <1>8, <1>9, ClawbackStep, UnlockStep, DelegateStep,
       UndelegateStep, FundStep, FundDelegateeStep, Zenon DEF TTNext
<1> QED BY <1>3, <1>9

-----------------------------------------------------------------------------
\* The first clawback pays out exactly what has unlocked of all that arrived.
LEMMA ClawbackExact ==
    ASSUME TokenTimelockAssumption, TTInv, NEW caller \in Actors, clawback(caller),
           clawed = 0, unlocked = 0
    PROVE  /\ paid' = IF passedCliff THEN proportionAvailable(received, timeSinceStart) ELSE 0
           /\ paid' + clawed' = received
<1>1. started /\ (passedCliff => releasable) /\ paid' = paid + clawbackShare
      /\ clawed' = clawed + (totalToken - clawbackShare)
    BY DEF clawback
<1>2. caughtUp = received /\ totalToken \in Nat
    BY CaughtUpFacts
<1>3. /\ clawbackShare \in Nat
      /\ passedCliff => clawbackShare = availableForRelease
      /\ ~passedCliff => clawbackShare = 0 /\ paid = 0
    BY <1>1, ClawbackShareFacts, Zenon
<1>4. received = totalToken + paid /\ received \in Nat /\ paid \in Nat
    BY <1>2 DEF TTInv, TTTypeOK, Conserved, totalToken
<1>5. paid' + clawed' = received
  <2> HIDE DEF clawbackShare, totalToken
  <2> QED BY <1>1, <1>2, <1>3, <1>4
<1>6. ASSUME passedCliff PROVE paid' = proportionAvailable(received, timeSinceStart)
  <2>1. availableForRelease = vested - (received - totalToken)
    BY <1>2 DEF availableForRelease
  <2>2. vested \in Nat
    <3>1. 0 \in Nat /\ 0 <= availableForRelease
      BY <1>1, <1>6 DEF releasable
    <3> QED BY <1>1, <3>1, PaymentVested, Zenon
  <2> HIDE DEF vested, totalToken, clawbackShare, availableForRelease
  <2>3. paid' = vested
    BY <1>1, <1>2, <1>3, <1>4, <1>6, <2>1, <2>2
  <2> QED BY <1>2, <2>3 DEF vested
<1>7. ASSUME ~passedCliff PROVE paid' = 0
    BY <1>1, <1>3, <1>7
<1> QED BY <1>5, <1>6, <1>7

\* Only a clawback claws back.
LEMMA OnlyClawback ==
    ASSUME TTTypeOK, [TTNext]_ttVars, clawed = 0, clawed' > 0
    PROVE  \E caller \in Actors : clawback(caller)
<1>1. clawed' # clawed
    BY DEF TTTypeOK
<1> QED BY <1>1, Zenon DEF TTNext, ttVars, outflows, release, releaseMax, releaseTo,
       setPendingBeneficiary, acceptBeneficiary, unlockLiquidity, delegate, undelegate, Fund,
       FundDelegatee, AdvanceTime

\* The inductive invariant holds of every reachable state.
THEOREM TokenTimelockInvariant == TTSpec => []TTInv
<1> USE TokenTimelockAssumption
<1>1. TTInit => TTInv
    BY InitTTInv
<1>2. TTInv /\ [TTNext]_ttVars => TTInv'
    BY NextTTInv
<1> QED BY <1>1, <1>2, PTL DEF TTSpec

\* For both curves and every parameter: what was paid never exceeds what has unlocked of
\* the tokens that arrived (release, releaseMax, clawback, unlockLiquidity, delegate,
\* undelegate).
THEOREM TokenTimelockVests == TTSpec => []VestedOnly
<1>1. TTInv => VestedOnly
    BY DEF TTInv
<1> QED BY <1>1, TokenTimelockInvariant, PTL

\* For both curves and every parameter: the first clawback splits all tokens that arrived
\* into what has unlocked, for the beneficiary, and the rest, for the admin (clawback).
THEOREM TokenTimelockClawback == TTSpec => ClawbackLeavesVested
<1> DEFINE Split == clawed = 0 /\ unlocked = 0 /\ clawed' > 0 =>
        /\ paid' = IF passedCliff THEN proportionAvailable(received, timeSinceStart) ELSE 0
        /\ paid' + clawed' = received
<1>1. TTInv /\ [TTNext]_ttVars => [Split]_ttVars
  <2> SUFFICES ASSUME TTInv, [TTNext]_ttVars, clawed = 0, unlocked = 0, clawed' > 0
               PROVE  /\ paid' = IF passedCliff THEN proportionAvailable(received, timeSinceStart) ELSE 0
                      /\ paid' + clawed' = received
    OBVIOUS
  <2>1. TTTypeOK
    BY DEF TTInv
  <2>2. PICK caller \in Actors : clawback(caller)
    BY <2>1, OnlyClawback, Zenon
  <2> QED BY <2>2, TokenTimelockAssumption, ClawbackExact, Zenon
<1>2. [][Split]_ttVars <=> ClawbackLeavesVested
    BY DEF ClawbackLeavesVested
<1> HIDE DEF Split
<1> QED BY <1>1, <1>2, TokenTimelockInvariant, PTL DEF TTSpec

-----------------------------------------------------------------------------
\* What the delegations are said to add up to, and what makes that stay so.
DelegationsAddUp == totalDelegated = SumFunctionOnSet(delegateAmount, Delegatees) /\ CalledBackIsZero

\* A delegation that grows or shrinks moves the sum with it.
LEMMA DelegationChanges ==
    ASSUME TokenTimelockAssumption, NEW g \in [Delegatees -> Nat], NEW d \in Delegatees, NEW a \in Nat
    PROVE  SumFunctionOnSet([g EXCEPT ![d] = a], Delegatees) = SumFunctionOnSet(g, Delegatees) - g[d] + a
<1> DEFINE h == [g EXCEPT ![d] = a]
<1>1. IsFiniteSet(Delegatees)
    BY DEF TokenTimelockAssumption
<1>2. /\ \A x \in Delegatees : g[x] \in Int /\ h[x] \in Int
      /\ \A x \in Delegatees \ {d} : g[x] = h[x]
    OBVIOUS
<1>3. h[d] = a
    OBVIOUS
<1> HIDE DEF h
<1>4. IsChange(Delegatees, g, h, d)
    BY <1>1, <1>2 DEF IsChange
<1>5. SumFunctionOnSet(h, Delegatees) = SumFunctionOnSet(g, Delegatees) - g[d] + h[d]
    BY <1>4, SumChanged
<1> QED BY <1>3, <1>5 DEF h

\* No step breaks the account of the delegations: the sum and the total move together.
LEMMA DelegationsStayAddedUp ==
    ASSUME TokenTimelockAssumption, TTInv, TTInv', DelegationsAddUp, [TTNext]_ttVars
    PROVE  DelegationsAddUp'
<1> DEFINE Sum == SumFunctionOnSet(delegateAmount, Delegatees)
<1>1. Sum \in Int
  <2>1. IsFiniteSet(Delegatees) /\ \A x \in Delegatees : delegateAmount[x] \in Int
    BY DEF TokenTimelockAssumption, TTInv, TTTypeOK
  <2> QED BY <2>1, SumInt
<1>0. delegateAmount \in [Delegatees -> Nat]
    BY DEF TTInv, TTTypeOK
<1>2. ASSUME NEW d \in Delegatees PROVE lent(d) = delegateAmount[d] /\ lent(d) \in Nat
    BY DEF DelegationsAddUp, CalledBackIsZero, lent, TTInv, TTTypeOK
<1>3. ASSUME NEW caller \in Actors, NEW d \in Delegatees, NEW amount \in Amounts, delegate(caller, d, amount)
      PROVE  DelegationsAddUp'
  <2>1. lent(d) = delegateAmount[d] /\ lent(d) \in Nat /\ amount \in Nat
    BY <1>2 DEF TokenTimelockAssumption
  <2>2. /\ delegateContract' = delegateContract \cup {d}
        /\ delegateAmount' = [delegateAmount EXCEPT ![d] = amount + lent(d)]
        /\ totalDelegated' = totalDelegated - lent(d) + (amount + lent(d))
    BY <1>3 DEF delegate
  <2> DEFINE a == amount + lent(d)
  <2>3. a \in Nat
    BY <2>1
  <2>4. SumFunctionOnSet(delegateAmount', Delegatees) = Sum - delegateAmount[d] + a
    <3>1. SumFunctionOnSet([delegateAmount EXCEPT ![d] = a], Delegatees) = Sum - delegateAmount[d] + a
      BY <1>0, <2>3, DelegationChanges, Zenon
    <3> QED BY <2>2, <3>1, Zenon
  <2>5. totalDelegated' = SumFunctionOnSet(delegateAmount', Delegatees)
    <3>1. totalDelegated = Sum
      BY DEF DelegationsAddUp
    <3> HIDE DEF Sum
    <3> QED BY <1>1, <2>1, <2>2, <2>4, <3>1
  <2>6. CalledBackIsZero'
    BY <2>2 DEF DelegationsAddUp, CalledBackIsZero, TTInv, TTTypeOK
  <2> QED BY <2>5, <2>6 DEF DelegationsAddUp
<1>4. ASSUME NEW caller \in Actors, NEW d \in Delegatees, undelegate(caller, d)
      PROVE  DelegationsAddUp'
  <2>1. lent(d) = delegateAmount[d] /\ lent(d) \in Nat
    BY <1>2
  <2>2. /\ delegateContract' = delegateContract \ {d}
        /\ delegateAmount' = [delegateAmount EXCEPT ![d] = 0]
        /\ totalDelegated' = totalDelegated - lent(d)
    BY <1>4 DEF undelegate
  <2>3. SumFunctionOnSet(delegateAmount', Delegatees) = Sum - delegateAmount[d] + 0
    <3>1. 0 \in Nat
      OBVIOUS
    <3>2. SumFunctionOnSet([delegateAmount EXCEPT ![d] = 0], Delegatees) = Sum - delegateAmount[d] + 0
      BY <1>0, <3>1, DelegationChanges, Zenon
    <3> QED BY <2>2, <3>2, Zenon
  <2>4. totalDelegated' = SumFunctionOnSet(delegateAmount', Delegatees)
    <3>1. totalDelegated = Sum
      BY DEF DelegationsAddUp
    <3> HIDE DEF Sum
    <3> QED BY <1>1, <2>1, <2>2, <2>3, <3>1
  <2>5. CalledBackIsZero'
    BY <2>2 DEF DelegationsAddUp, CalledBackIsZero, TTInv, TTTypeOK
  <2> QED BY <2>4, <2>5 DEF DelegationsAddUp
<1>5. ASSUME UNCHANGED <<delegateContract, delegateAmount, totalDelegated>> PROVE DelegationsAddUp'
  <2>1. CalledBackIsZero'
    BY <1>5, Zenon DEF DelegationsAddUp, CalledBackIsZero
  <2> QED BY <1>5, <2>1, Zenon DEF DelegationsAddUp
<1>6. CASE UNCHANGED ttVars
    BY <1>5, <1>6 DEF ttVars, delegations
<1>7. CASE TTNext
  <2>1. ASSUME NEW caller \in Actors, NEW toItself \in BOOLEAN, NEW amount \in Amounts,
               release(caller, toItself, amount)
        PROVE  DelegationsAddUp'
    BY <1>5, <2>1 DEF release, releaseTo, delegations
  <2>2. ASSUME NEW caller \in Actors, NEW toItself \in BOOLEAN, releaseMax(caller, toItself)
        PROVE  DelegationsAddUp'
    BY <1>5, <2>2 DEF releaseMax, releaseTo, delegations
  <2>3. ASSUME NEW caller \in Actors, NEW pending, setPendingBeneficiary(caller, pending)
        PROVE  DelegationsAddUp'
    BY <1>5, <2>3 DEF setPendingBeneficiary, delegations
  <2>4. ASSUME NEW caller \in Actors, acceptBeneficiary(caller) \/ clawback(caller) \/ unlockLiquidity(caller)
        PROVE  DelegationsAddUp'
    BY <1>5, <2>4 DEF acceptBeneficiary, clawback, unlockLiquidity, delegations
  <2>5. ASSUME NEW amount \in Amounts, Fund(amount) PROVE DelegationsAddUp'
    BY <1>5, <2>5 DEF Fund, delegations
  <2>6. ASSUME NEW amount \in Amounts, NEW d \in Delegatees, FundDelegatee(d, amount)
        PROVE  DelegationsAddUp'
    BY <1>5, <2>6 DEF FundDelegatee
  <2>7. ASSUME NEW t \in 1..MaxTime, AdvanceTime(t) PROVE DelegationsAddUp'
    BY <1>5, <2>7 DEF AdvanceTime, delegations
  <2> QED BY <1>3, <1>4, <1>7, <2>1, <2>2, <2>3, <2>4, <2>5, <2>6, <2>7, Zenon DEF TTNext
<1> QED BY <1>6, <1>7

\* Nothing is delegated at the start.
LEMMA InitDelegations == ASSUME TokenTimelockAssumption, TTInit PROVE DelegationsAddUp
<1>1. IsFiniteSet(Delegatees) /\ \A d \in Delegatees : delegateAmount[d] = 0
    BY DEF TokenTimelockAssumption, TTInit
<1>2. SumFunctionOnSet(delegateAmount, Delegatees) = 0
    BY <1>1, SumZero
<1> QED BY <1>1, <1>2 DEF DelegationsAddUp, CalledBackIsZero, TTInit

\* DelegatedIsHeld holds in every lock: what it counts as delegated is the sum of its
\* delegations, and every Delegatee contract holds at least its part.
THEOREM TokenTimelockDelegations == TTSpec => []DelegatedIsHeld
<1>1. TTInit => DelegationsAddUp
    BY InitDelegations, TokenTimelockAssumption
<1>2. TTInv /\ TTInv' /\ DelegationsAddUp /\ [TTNext]_ttVars => DelegationsAddUp'
    BY DelegationsStayAddedUp, TokenTimelockAssumption
<1>3. TTInv /\ DelegationsAddUp => DelegatedIsHeld
  <2>1. ASSUME TTInv PROVE DOMAIN delegateAmount = Delegatees
    BY <2>1 DEF TTInv, TTTypeOK
  <2> QED BY <2>1 DEF DelegationsAddUp, DelegatedIsHeld, SumFunction, TTInv, DelegateesHold
<1> QED BY <1>1, <1>2, <1>3, TokenTimelockInvariant, PTL DEF TTSpec
=============================================================================
