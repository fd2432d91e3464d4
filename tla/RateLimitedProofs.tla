-------------------------- MODULE RateLimitedProofs --------------------------
(***************************************************************************)
(* Proofs about RateLimited.tla for every maximum rate, every set of caps, *)
(* rates and amounts and every horizon: the type invariant, the bound on   *)
(* what any window of time can use, and the implementation of the abstract *)
(* TokenBucket.                                                            *)
(***************************************************************************)
EXTENDS RateLimited, TLAPS

\* Math.min returns one of its arguments and is below both.
LEMMA MinFacts ==
    ASSUME NEW a \in Int, NEW b \in Int
    PROVE  /\ min(a, b) \in Int
           /\ min(a, b) <= a
           /\ min(a, b) <= b
           /\ min(a, b) = a \/ min(a, b) = b
           /\ a \in Nat /\ b \in Nat => min(a, b) \in Nat
    BY DEF min

\* A refill accrues additively over consecutive stretches of time.
LEMMA AccrualAdds ==
    \A r, t0, t1, t2 \in Nat : t0 <= t1 /\ t1 <= t2 =>
        /\ r * (t1 - t0) \in Nat
        /\ r * (t2 - t1) \in Nat
        /\ r * (t2 - t0) = r * (t1 - t0) + r * (t2 - t1)
<1>1. \A x, y \in Nat : x * y \in Nat
    BY SMT
<1> TAKE r, t0, t1, t2 \in Nat
<1> HAVE t0 <= t1 /\ t1 <= t2
<1>2. t1 - t0 \in Nat /\ t2 - t1 \in Nat
    BY SMT
<1>3. r * (t1 - t0) \in Nat /\ r * (t2 - t1) \in Nat
    BY <1>1, <1>2, Zenon
<1>4. r * (t2 - t0) = r * (t1 - t0) + r * (t2 - t1)
    BY SMT
<1> QED BY <1>3, <1>4, Zenon

\* buffer() is a natural number that never exceeds the cap.
LEMMA BufferFacts ==
    ASSUME RateLimitTypeOK, RateLimitAssumption
    PROVE  /\ buffer \in Nat
           /\ buffer <= bufferCap
<1> DEFINE accrued == rateLimitPerSecond * (now - lastBufferUsedTime)
<1>1. accrued \in Nat
  <2>1. MAX_RATE_LIMIT_PER_SECOND \in Nat
    BY DEF RateLimitAssumption
  <2>2. rateLimitPerSecond \in Nat /\ lastBufferUsedTime \in Nat /\ now \in Nat /\ lastBufferUsedTime <= now /\ now <= now
    BY <2>1 DEF RateLimitTypeOK
  <2> QED BY <2>2, AccrualAdds, Zenon
<1> HIDE DEF accrued
<1>2. bufferStored + accrued \in Nat /\ bufferCap \in Nat
    BY <1>1 DEF RateLimitTypeOK
<1>3. /\ min(bufferStored + accrued, bufferCap) \in Nat
      /\ min(bufferStored + accrued, bufferCap) <= bufferCap
    BY <1>2, MinFacts
<1> QED BY <1>3 DEF buffer, accrued

-----------------------------------------------------------------------------


\* The next value of buffer() after a write of bufferStored: the new stored value
\* under the new cap, whatever the rate.
LEMMA SyncedBuffer ==
    ASSUME RateLimitTypeOK, RateLimitAssumption,
           NEW stored \in Nat, NEW cap \in Nat, NEW r \in Nat,
           now' = now, lastBufferUsedTime' = now, bufferStored' = stored,
           bufferCap' = cap, rateLimitPerSecond' = r
    PROVE  buffer' = min(stored, cap)
<1>1. now \in Nat
    BY DEF RateLimitTypeOK
<1>2. stored + r * (now - now) = stored
    BY <1>1, SMT
<1> QED BY <1>2, Zenon DEF buffer

\* While nobody writes, the passing seconds fill buffer() up to the cap.
LEMMA AdvanceBuffer ==
    ASSUME RateLimitTypeOK, RateLimitAssumption,
           NEW t \in Nat, now <= t, now' = t, UNCHANGED rateLimitState
    PROVE  /\ rateLimitPerSecond * (t - now) \in Nat
           /\ buffer' = min(buffer + rateLimitPerSecond * (t - now), bufferCap)
<1> DEFINE before == rateLimitPerSecond * (now - lastBufferUsedTime)
           since  == rateLimitPerSecond * (t - now)
           total  == rateLimitPerSecond * (t - lastBufferUsedTime)
<1>1. /\ rateLimitPerSecond \in Nat /\ lastBufferUsedTime \in Nat /\ now \in Nat
      /\ lastBufferUsedTime <= now /\ bufferStored \in Nat /\ bufferCap \in Nat
    BY DEF RateLimitTypeOK, RateLimitAssumption
<1>2. before \in Nat /\ since \in Nat /\ total = before + since
    BY <1>1, AccrualAdds
<1>3. buffer' = min(bufferStored + total, bufferCap)
    BY DEF buffer, rateLimitState
<1>4. buffer = min(bufferStored + before, bufferCap)
    BY DEF buffer
<1> HIDE DEF before, since, total
<1>5. min(bufferStored + total, bufferCap) = min(min(bufferStored + before, bufferCap) + since, bufferCap)
    BY <1>1, <1>2 DEF min
<1>6. buffer' = min(buffer + since, bufferCap)
    BY <1>3, <1>4, <1>5
<1> QED BY <1>2, <1>6 DEF since

-----------------------------------------------------------------------------
\* The inductive invariant: WindowBounded alone does not survive a depletion; the
\* window has to cover whatever is left in the buffer.
IInv == RLTypeOK /\ WindowCoversBuffer

\* The constructors establish the inductive invariant.
LEMMA InitIInv == ASSUME RolesAssumption, RateLimitAssumption, RLInit PROVE IInv
<1>1. RLTypeOK
  <2>1. CoreRefTypeOK /\ doPartialAction \in BOOLEAN
    BY Zenon DEF RLInit, CoreRefInit, RateLimitInit, CoreRefTypeOK, TribeRoles
  <2>2. now = 1 /\ lastBufferUsedTime = now /\ bufferCap \in Nat /\ bufferStored = bufferCap
        /\ rateLimitPerSecond \in 0..MAX_RATE_LIMIT_PER_SECOND /\ windowHeadroom = bufferCap
    BY DEF RLInit, RateLimitInit, RateLimitAssumption
  <2> QED BY <2>1, <2>2 DEF RLTypeOK, RateLimitTypeOK
<1>2. buffer <= bufferCap /\ windowHeadroom = bufferCap
    BY <1>1, BufferFacts DEF RLTypeOK, RLInit, RateLimitInit
<1> QED BY <1>1, <1>2 DEF IInv, WindowCoversBuffer

\* Every step of the contract on its limit preserves the inductive invariant and is a
\* step of the bucket, one case per function of RateLimited.sol.
LEMMA DepleteStep ==
    ASSUME RateLimitTypeOK, RateLimitAssumption, WindowCoversBuffer,
           NEW amount \in Nat, depleteBuffer(amount)
    PROVE  RateLimitTypeOK' /\ WindowCoversBuffer' /\ Bucket!Next
<1> DEFINE used == usedAmount(amount)
<1>1. /\ now \in Nat /\ bufferCap \in Nat /\ windowHeadroom \in Int
      /\ rateLimitPerSecond \in 0..MAX_RATE_LIMIT_PER_SECOND
      /\ rateLimitPerSecond \in Nat
    BY DEF RateLimitTypeOK, RateLimitAssumption
<1>2. buffer \in Nat /\ buffer <= bufferCap
    BY BufferFacts
<1>3. used \in Nat
    BY <1>2 DEF usedAmount
<1>4. /\ buffer # 0 /\ used <= buffer
      /\ bufferStored' = buffer - used
      /\ windowHeadroom' = windowHeadroom - used
      /\ now' = now /\ lastBufferUsedTime' = now
      /\ bufferCap' = bufferCap /\ rateLimitPerSecond' = rateLimitPerSecond
    BY DEF depleteBuffer
<1>5. doPartialAction' \in BOOLEAN
    BY Zenon DEF depleteBuffer, RateLimitTypeOK
<1> HIDE DEF used
<1>6. buffer - used \in Nat
    BY <1>2, <1>3, <1>4
<1>7. buffer' = min(buffer - used, bufferCap)
    BY <1>1, <1>4, <1>6, SyncedBuffer
<1>8. buffer' = buffer - used
    BY <1>1, <1>2, <1>3, <1>6, <1>7 DEF min
<1>9. RateLimitTypeOK'
    BY <1>1, <1>3, <1>4, <1>5, <1>6 DEF RateLimitTypeOK
<1>10. WindowCoversBuffer'
    BY <1>1, <1>2, <1>3, <1>4, <1>8 DEF WindowCoversBuffer
<1>11. Bucket!Take
    BY <1>2, <1>3, <1>4, <1>8 DEF Bucket!Take
<1> QED BY <1>9, <1>10, <1>11 DEF Bucket!Next

\* _replenishBuffer keeps the invariant and is a step of the bucket.
LEMMA ReplenishStep ==
    ASSUME RateLimitTypeOK, RateLimitAssumption, WindowCoversBuffer,
           NEW amount \in Amounts, amount \in Nat, replenishBuffer(amount)
    PROVE  RateLimitTypeOK' /\ WindowCoversBuffer' /\ [Bucket!Next]_(Bucket!bucketVars)
<1>1. CASE buffer = bufferCap
  <2>1. UNCHANGED rateLimitVars
    BY <1>1 DEF replenishBuffer
  <2>2. RateLimitTypeOK' /\ WindowCoversBuffer'
    BY <2>1, Zenon DEF RateLimitTypeOK, WindowCoversBuffer, buffer, rateLimitVars, rateLimitState
  <2>3. UNCHANGED Bucket!bucketVars
    BY <2>1 DEF Bucket!bucketVars, buffer, rateLimitVars, rateLimitState
  <2> QED BY <2>2, <2>3
<1>2. CASE buffer # bufferCap
  <2> DEFINE given == min(buffer + amount, bufferCap)
  <2>1. /\ now \in Nat /\ bufferCap \in Nat /\ windowHeadroom \in Int
        /\ rateLimitPerSecond \in 0..MAX_RATE_LIMIT_PER_SECOND
        /\ rateLimitPerSecond \in Nat
    BY DEF RateLimitTypeOK, RateLimitAssumption
  <2>2. buffer \in Nat /\ buffer <= bufferCap
    BY BufferFacts
  <2>3. given \in Nat /\ buffer <= given /\ given <= bufferCap
    BY <2>1, <2>2 DEF min
  <2>11. given = Bucket!Least(buffer + amount, bufferCap)
    BY DEF min, Bucket!Least
  <2>4. /\ bufferStored' = given
        /\ windowHeadroom' = windowHeadroom + (given - buffer)
        /\ now' = now /\ lastBufferUsedTime' = now
        /\ bufferCap' = bufferCap /\ rateLimitPerSecond' = rateLimitPerSecond
    BY <1>2 DEF replenishBuffer
  <2>5. doPartialAction' \in BOOLEAN
    BY <1>2, Zenon DEF replenishBuffer, RateLimitTypeOK
  <2> HIDE DEF given
  <2>6. buffer' = min(given, bufferCap)
    BY <2>1, <2>3, <2>4, SyncedBuffer
  <2>7. buffer' = given
    BY <2>1, <2>3, <2>6 DEF min
  <2>8. RateLimitTypeOK'
    BY <2>1, <2>2, <2>3, <2>4, <2>5 DEF RateLimitTypeOK
  <2>9. WindowCoversBuffer'
    BY <2>1, <2>2, <2>3, <2>4, <2>7 DEF WindowCoversBuffer
  <2>10. Bucket!Give
    BY <2>4, <2>7, <2>11, Zenon DEF Bucket!Give
  <2> QED BY <2>8, <2>9, <2>10 DEF Bucket!Next
<1> QED BY <1>1, <1>2

\* _setRateLimitPerSecond keeps the invariant: it settles the buffer at the old rate first.
LEMMA SetRateStep ==
    ASSUME RateLimitTypeOK, RateLimitAssumption, WindowCoversBuffer,
           NEW caller, NEW r \in Nat, setRateLimitPerSecond(caller, r)
    PROVE  RateLimitTypeOK' /\ WindowCoversBuffer' /\ Bucket!Next
<1>1. now \in Nat /\ bufferCap \in Nat /\ windowHeadroom \in Int
    BY DEF RateLimitTypeOK
<1>2. buffer \in Nat /\ buffer <= bufferCap
    BY BufferFacts
<1>3. /\ r <= MAX_RATE_LIMIT_PER_SECOND
      /\ bufferStored' = buffer /\ windowHeadroom' = windowHeadroom
      /\ now' = now /\ lastBufferUsedTime' = now
      /\ bufferCap' = bufferCap /\ rateLimitPerSecond' = r
    BY DEF setRateLimitPerSecond, updateBufferStored
<1>4. doPartialAction' \in BOOLEAN
    BY Zenon DEF setRateLimitPerSecond, RateLimitTypeOK
<1>5. buffer' = min(buffer, bufferCap)
    BY <1>1, <1>2, <1>3, SyncedBuffer
<1>6. buffer' = buffer
    BY <1>1, <1>2, <1>5 DEF min
<1>7. r \in 0..MAX_RATE_LIMIT_PER_SECOND
    BY <1>3 DEF RateLimitAssumption
<1>8. RateLimitTypeOK'
    BY <1>1, <1>2, <1>3, <1>4, <1>7 DEF RateLimitTypeOK
<1>9. WindowCoversBuffer'
    BY <1>3, <1>6 DEF WindowCoversBuffer
<1>10. Bucket!SetRate
    BY <1>3, <1>6 DEF Bucket!SetRate
<1> QED BY <1>8, <1>9, <1>10 DEF Bucket!Next

\* _setBufferCap keeps the invariant: it settles the buffer under the old cap first.
LEMMA SetCapStep ==
    ASSUME RateLimitTypeOK, RateLimitAssumption, WindowCoversBuffer,
           NEW caller, NEW c \in Nat, setBufferCap(caller, c)
    PROVE  RateLimitTypeOK' /\ WindowCoversBuffer' /\ Bucket!Next
<1>1. /\ now \in Nat /\ bufferCap \in Nat /\ windowHeadroom \in Int
      /\ rateLimitPerSecond \in 0..MAX_RATE_LIMIT_PER_SECOND
      /\ rateLimitPerSecond \in Nat
    BY DEF RateLimitTypeOK, RateLimitAssumption
<1>2. buffer \in Nat /\ buffer <= bufferCap
    BY BufferFacts
<1>3. /\ bufferStored' = buffer
      /\ windowHeadroom' = windowHeadroom - (buffer - min(buffer, c))
      /\ now' = now /\ lastBufferUsedTime' = now
      /\ bufferCap' = c /\ rateLimitPerSecond' = rateLimitPerSecond
    BY DEF setBufferCap, updateBufferStored
<1>4. doPartialAction' \in BOOLEAN
    BY Zenon DEF setBufferCap, RateLimitTypeOK
<1>5. buffer' = min(buffer, c)
    BY <1>1, <1>2, <1>3, SyncedBuffer
<1>6. min(buffer, c) \in Nat /\ min(buffer, c) = Bucket!Least(buffer, c)
    BY <1>2 DEF min, Bucket!Least
<1>7. RateLimitTypeOK'
    BY <1>1, <1>2, <1>3, <1>4, <1>6 DEF RateLimitTypeOK
<1>8. WindowCoversBuffer'
    BY <1>1, <1>2, <1>3, <1>5, <1>6 DEF WindowCoversBuffer
<1>9. Bucket!SetCap
    BY <1>1, <1>3, <1>5, <1>6 DEF Bucket!SetCap
<1> QED BY <1>7, <1>8, <1>9 DEF Bucket!Next

\* A passing second keeps the invariant: headroom and buffer grow by the same rate.
LEMMA AdvanceStep ==
    ASSUME RateLimitTypeOK, RateLimitAssumption, WindowCoversBuffer,
           NEW t \in Nat, AdvanceTime(t)
    PROVE  RateLimitTypeOK' /\ WindowCoversBuffer' /\ Bucket!Next
<1> DEFINE since == rateLimitPerSecond * (t - now)
<1>1. /\ now \in Nat /\ bufferCap \in Nat /\ windowHeadroom \in Int
      /\ lastBufferUsedTime \in 0..now
      /\ rateLimitPerSecond \in 0..MAX_RATE_LIMIT_PER_SECOND
      /\ bufferStored \in Nat
    BY DEF RateLimitTypeOK
<1>2. buffer \in Nat /\ buffer <= bufferCap
    BY BufferFacts
<1>3. /\ now < t /\ now' = t
      /\ windowHeadroom' = windowHeadroom + since
      /\ UNCHANGED rateLimitState
    BY DEF AdvanceTime
<1>4. since \in Nat /\ buffer' = min(buffer + since, bufferCap)
    BY <1>1, <1>3, AdvanceBuffer
<1>5. doPartialAction' \in BOOLEAN
    BY Zenon DEF AdvanceTime, rateLimitState, RateLimitTypeOK
<1>6. /\ lastBufferUsedTime' = lastBufferUsedTime /\ bufferCap' = bufferCap
      /\ rateLimitPerSecond' = rateLimitPerSecond /\ bufferStored' = bufferStored
    BY <1>3 DEF rateLimitState
<1>7. Bucket!Fill
  <2>1. min(buffer + since, bufferCap) = Bucket!Least(buffer + since, bufferCap)
    BY DEF min, Bucket!Least
  <2> QED BY <1>3, <1>4, <1>6, <2>1, Zenon DEF Bucket!Fill, since
<1> HIDE DEF since
<1>8. RateLimitTypeOK'
    BY <1>1, <1>3, <1>4, <1>5, <1>6 DEF RateLimitTypeOK
<1>9. WindowCoversBuffer'
    BY <1>1, <1>2, <1>3, <1>4 DEF WindowCoversBuffer, min
<1> QED BY <1>7, <1>8, <1>9 DEF Bucket!Next

\* Starting to watch a window establishes that the buffer covers it.
LEMMA StartWindowStep ==
    ASSUME RateLimitTypeOK, RateLimitAssumption, StartWindow
    PROVE  RateLimitTypeOK' /\ WindowCoversBuffer' /\ UNCHANGED Bucket!bucketVars
<1>1. bufferCap \in Nat /\ buffer <= bufferCap
    BY BufferFacts DEF RateLimitTypeOK
<1>2. windowHeadroom' = bufferCap /\ UNCHANGED <<now, rateLimitPerSecond, lastBufferUsedTime, bufferCap, doPartialAction, bufferStored>>
    BY DEF StartWindow, rateLimitState
<1>3. bufferCap \in Int
    BY <1>1
<1>4. RateLimitTypeOK'
    BY <1>2, <1>3, Zenon DEF RateLimitTypeOK
<1>5. buffer' = buffer
    BY <1>2 DEF buffer
<1>6. UNCHANGED Bucket!bucketVars
    BY <1>2, <1>5 DEF Bucket!bucketVars
<1> QED BY <1>1, <1>2, <1>4, <1>5, <1>6 DEF WindowCoversBuffer

\* Steps of the role and pause functions leave the limit alone.
LEMMA IdleStep ==
    ASSUME RateLimitTypeOK, WindowCoversBuffer, UNCHANGED rateLimitVars
    PROVE  RateLimitTypeOK' /\ WindowCoversBuffer' /\ UNCHANGED Bucket!bucketVars
<1>1. UNCHANGED <<now, rateLimitPerSecond, lastBufferUsedTime, bufferCap, doPartialAction, bufferStored, windowHeadroom>>
    BY DEF rateLimitVars, rateLimitState
<1>2. buffer' = buffer
    BY <1>1 DEF buffer
<1> QED BY <1>1, <1>2, Zenon DEF RateLimitTypeOK, WindowCoversBuffer, Bucket!bucketVars

\* Pausing and the admin role keep their types.
LEMMA CoreRefStepType ==
    ASSUME RolesAssumption, CoreRefTypeOK, NEW caller, CoreRefStep(caller)
    PROVE  CoreRefTypeOK'
    BY Zenon DEF RolesAssumption, CoreRefTypeOK, CoreRefStep, pause, unpause, setContractAdminRole

-----------------------------------------------------------------------------
\* One step of the contract, or none, preserves IInv and is a step of the bucket, or
\* none.
LEMMA StepIInv ==
    ASSUME RolesAssumption, RateLimitAssumption, IInv, [RLNext]_rlVars
    PROVE  IInv' /\ [Bucket!Next]_(Bucket!bucketVars)
<1>1. RateLimitTypeOK /\ CoreRefTypeOK /\ WindowCoversBuffer
    BY DEF IInv, RLTypeOK
<1> SUFFICES CoreRefTypeOK' /\ RateLimitTypeOK' /\ WindowCoversBuffer' /\ [Bucket!Next]_(Bucket!bucketVars)
    BY DEF IInv, RLTypeOK
<1>2. ASSUME UNCHANGED coreRefVars PROVE CoreRefTypeOK'
    BY <1>1, <1>2, Zenon DEF CoreRefTypeOK, coreRefVars
<1>3. ASSUME NEW caller \in Actors, RateLimitGovernance(caller), UNCHANGED coreRefVars
      PROVE  CoreRefTypeOK' /\ RateLimitTypeOK' /\ WindowCoversBuffer' /\ Bucket!Next
  <2>1. CASE \E r \in RateLimits : setRateLimitPerSecond(caller, r)
    <3>1. PICK r \in Nat : setRateLimitPerSecond(caller, r)
        BY <2>1 DEF RateLimitAssumption
    <3> QED BY <1>1, <1>2, <1>3, <3>1, SetRateStep
  <2>2. CASE \E c \in BufferCaps : setBufferCap(caller, c)
    <3>1. PICK c \in Nat : setBufferCap(caller, c)
        BY <2>2 DEF RateLimitAssumption
    <3> QED BY <1>1, <1>2, <1>3, <3>1, SetCapStep
  <2> QED BY <1>3, <2>1, <2>2 DEF RateLimitGovernance
<1>4. ASSUME NEW caller \in Actors, CoreRefStep(caller), UNCHANGED rateLimitVars
      PROVE  CoreRefTypeOK' /\ RateLimitTypeOK' /\ WindowCoversBuffer' /\ UNCHANGED Bucket!bucketVars
    BY <1>1, <1>4, IdleStep, CoreRefStepType
<1>5. ASSUME NEW amount \in Amounts, depleteBuffer(amount), UNCHANGED coreRefVars
      PROVE  CoreRefTypeOK' /\ RateLimitTypeOK' /\ WindowCoversBuffer' /\ Bucket!Next
  <2>1. amount \in Nat
    BY DEF RateLimitAssumption
  <2> QED BY <1>1, <1>2, <1>5, <2>1, DepleteStep
<1>6. ASSUME NEW amount \in Amounts, replenishBuffer(amount), UNCHANGED coreRefVars
      PROVE  CoreRefTypeOK' /\ RateLimitTypeOK' /\ WindowCoversBuffer' /\ [Bucket!Next]_(Bucket!bucketVars)
  <2>1. amount \in Nat
    BY DEF RateLimitAssumption
  <2> QED BY <1>1, <1>2, <1>6, <2>1, ReplenishStep
<1>7. ASSUME NEW t \in 1..MaxTime, AdvanceTime(t), UNCHANGED coreRefVars
      PROVE  CoreRefTypeOK' /\ RateLimitTypeOK' /\ WindowCoversBuffer' /\ Bucket!Next
  <2>1. t \in Nat
    BY DEF RateLimitAssumption
  <2> QED BY <1>1, <1>2, <1>7, <2>1, AdvanceStep
<1>8. ASSUME StartWindow, UNCHANGED coreRefVars
      PROVE  CoreRefTypeOK' /\ RateLimitTypeOK' /\ WindowCoversBuffer' /\ UNCHANGED Bucket!bucketVars
    BY <1>1, <1>2, <1>8, StartWindowStep
<1>9. ASSUME UNCHANGED rlVars
      PROVE  CoreRefTypeOK' /\ RateLimitTypeOK' /\ WindowCoversBuffer' /\ UNCHANGED Bucket!bucketVars
  <2>1. UNCHANGED rateLimitVars /\ UNCHANGED coreRefVars
    BY <1>9 DEF rlVars
  <2> QED BY <1>1, <1>2, <2>1, IdleStep
<1> QED BY <1>3, <1>4, <1>5, <1>6, <1>7, <1>8, <1>9, Zenon DEF RLNext

-----------------------------------------------------------------------------
\* RateLimited.sol keeps every variable in its type: in particular the rate stays
\* under MAX_RATE_LIMIT_PER_SECOND and the last use is never in the future.
THEOREM RateLimitedTypeCorrect == RLSpec => []RLTypeOK
<1>1. RLInit => IInv
    BY RolesAssumption, RateLimitAssumption, InitIInv
<1>2. IInv /\ [RLNext]_rlVars => IInv'
    BY RolesAssumption, RateLimitAssumption, StepIInv
<1>3. IInv => RLTypeOK
    BY DEF IInv
<1> QED BY <1>1, <1>2, <1>3, PTL DEF RLSpec

\* No window of time, however it is placed and whatever governance does to the cap
\* and the rate meanwhile, uses more than the cap at its start plus what the
\* elapsed seconds and the replenishments earned.
THEOREM RateLimitedWindowBounded == RLSpec => []WindowBounded
<1>1. RLInit => IInv
    BY RolesAssumption, RateLimitAssumption, InitIInv
<1>2. IInv /\ [RLNext]_rlVars => IInv'
    BY RolesAssumption, RateLimitAssumption, StepIInv
<1>3. IInv => WindowBounded
  <2> SUFFICES ASSUME IInv PROVE WindowBounded
    OBVIOUS
  <2>1. buffer \in Nat /\ buffer <= windowHeadroom /\ windowHeadroom \in Int
    BY RateLimitAssumption, BufferFacts DEF IInv, RLTypeOK, RateLimitTypeOK, WindowCoversBuffer
  <2> QED BY <2>1 DEF WindowBounded
<1> QED BY <1>1, <1>2, <1>3, PTL DEF RLSpec

\* The lazily reconstructed buffer() of RateLimited.sol implements the bucket that
\* fills second by second.
THEOREM RateLimitedImplementsBucket == RLSpec => ImplementsBucket
<1>1. RLInit => IInv /\ Bucket!Init
  <2> SUFFICES ASSUME RLInit PROVE IInv /\ Bucket!Init
    OBVIOUS
  <2>1. IInv
    BY RolesAssumption, RateLimitAssumption, InitIInv
  <2>2. /\ now \in Nat /\ rateLimitPerSecond \in Nat /\ bufferCap \in Nat
        /\ bufferStored = bufferCap /\ lastBufferUsedTime = now
    BY <2>1, RateLimitAssumption DEF IInv, RLTypeOK, RateLimitTypeOK, RLInit, RateLimitInit
  <2>3. bufferCap + rateLimitPerSecond * (now - now) = bufferCap
    BY <2>2, SMT
  <2>4. buffer = min(bufferCap, bufferCap)
    BY <2>2, <2>3, Zenon DEF buffer
  <2>5. buffer = bufferCap
    BY <2>4 DEF min
  <2> QED BY <2>1, <2>2, <2>5 DEF Bucket!Init
<1>2. IInv /\ [RLNext]_rlVars => IInv' /\ [Bucket!Next]_(Bucket!bucketVars)
    BY RolesAssumption, RateLimitAssumption, StepIInv
<1> QED BY <1>1, <1>2, PTL DEF RLSpec, ImplementsBucket, Bucket!Spec
=============================================================================
