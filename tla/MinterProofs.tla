---------------------------- MODULE MinterProofs -----------------------------
(***************************************************************************)
(* Proofs about the two contracts that mint within a limit per address and *)
(* within a limit per period.  MultiRateLimited.tla, for every number of   *)
(* registered addresses, rates, caps and callers: what an address, and all *)
(* of them together, mint in any window of time is bounded.                *)
(* TimedMinter.tla, for every period, every amount and incentive larger    *)
(* than what the rounding of the rate loses: the limit covers a due call,  *)
(* and bounds what the calls use in any window.                            *)
(***************************************************************************)
EXTENDS MultiRateLimited, TimedMinter, RateLimitedProofs

-----------------------------------------------------------------------------
\* Type correctness of the registered addresses: in particular a stored buffer fits its
\* 112 bits, though it is computed in 256, and no last use is in the future.
MultiTypeOK ==
    /\ RLTypeOK
    /\ rateLimitPerAddress \in [Minters -> RateLimitData]
    /\ \A m \in Minters : rateLimitPerAddress[m].lastBufferUsedTime <= now
    /\ individualMaxRateLimitPerSecond \in Nat /\ individualMaxBufferCap \in Nat
    /\ addressHeadroom \in [Minters -> Int]

\* The inductive invariant: neither window bound survives a mint unless the window covers
\* what is left in the buffer.
MultiInv == MultiTypeOK /\ WindowsCoverBuffers

\* individualBuffer() of an address is a natural number within the cap of the address.
LEMMA IndividualBufferFacts ==
    ASSUME MultiAssumption, MultiTypeOK, NEW m \in Minters
    PROVE  /\ individualBuffer(m) \in uint112
           /\ individualBuffer(m) \in Nat
           /\ individualBuffer(m) <= rateLimitPerAddress[m].bufferCap
<1> DEFINE d == rateLimitPerAddress[m]
           accrued == d.rateLimitPerSecond * (now - d.lastBufferUsedTime)
<1>1. /\ d.rateLimitPerSecond \in Nat /\ d.lastBufferUsedTime \in Nat
      /\ d.bufferStored \in Nat /\ d.bufferCap \in Nat /\ d.bufferCap \in uint112
      /\ d.lastBufferUsedTime <= now /\ now \in Nat
    BY DEF MultiTypeOK, RateLimitData, uint112, MultiAssumption, RLTypeOK, RateLimitTypeOK
<1> HIDE DEF d
<1>2. now <= now
    BY <1>1
<1>3. accrued \in Nat
    BY <1>1, <1>2, AccrualAdds, Zenon
<1> HIDE DEF accrued
<1>4. d.bufferStored + accrued \in Nat
    BY <1>1, <1>3
<1>5. /\ min(d.bufferStored + accrued, d.bufferCap) \in Nat
      /\ min(d.bufferStored + accrued, d.bufferCap) <= d.bufferCap
    BY <1>1, <1>4 DEF min
<1>6. individualBuffer(m) = min(d.bufferStored + accrued, d.bufferCap)
    BY DEF individualBuffer, d, accrued
<1>7. individualBuffer(m) \in uint112
    BY <1>1, <1>5, <1>6 DEF uint112, MultiAssumption
<1> QED BY <1>1, <1>5, <1>6, <1>7 DEF d

\* Writing the data of one address: it holds what is stored under its cap at once, and the
\* other addresses are not affected.
LEMMA AddressWrite ==
    ASSUME MultiAssumption, MultiTypeOK, WindowsCoverBuffers, now' = now,
           NEW m \in Minters, NEW d \in RateLimitData, NEW h \in Int,
           d.lastBufferUsedTime = now \/ d = NoData,
           min(d.bufferStored, d.bufferCap) <= h,
           rateLimitPerAddress' = [rateLimitPerAddress EXCEPT ![m] = d],
           addressHeadroom' = [addressHeadroom EXCEPT ![m] = h]
    PROVE  /\ rateLimitPerAddress' \in [Minters -> RateLimitData]
           /\ \A n \in Minters : rateLimitPerAddress'[n].lastBufferUsedTime <= now'
           /\ addressHeadroom' \in [Minters -> Int]
           /\ \A n \in Minters : individualBuffer(n)' <= addressHeadroom'[n]
<1>1. /\ rateLimitPerAddress \in [Minters -> RateLimitData] /\ addressHeadroom \in [Minters -> Int]
      /\ now \in Nat
    BY DEF MultiTypeOK, RLTypeOK, RateLimitTypeOK
<1>2. /\ d.rateLimitPerSecond \in Nat /\ d.bufferStored \in Nat /\ d.bufferCap \in Nat
      /\ d.lastBufferUsedTime \in Nat
    BY DEF RateLimitData, uint112, MultiAssumption
<1>3. d.lastBufferUsedTime <= now
    BY <1>1 DEF NoData
<1>4. rateLimitPerAddress' \in [Minters -> RateLimitData] /\ addressHeadroom' \in [Minters -> Int]
    BY <1>1
<1>5. rateLimitPerAddress'[m] = d /\ addressHeadroom'[m] = h
    BY <1>1
<1>6. \A n \in Minters : n # m =>
        rateLimitPerAddress'[n] = rateLimitPerAddress[n] /\ addressHeadroom'[n] = addressHeadroom[n]
    BY <1>1
<1>7. d.bufferStored + d.rateLimitPerSecond * (now - d.lastBufferUsedTime) = d.bufferStored
  <2>1. CASE d.lastBufferUsedTime = now
    <3>1. d.rateLimitPerSecond * (now - now) = 0
      BY <1>1, <1>2, SMT
    <3> QED BY <1>2, <2>1, <3>1
  <2>2. CASE d = NoData
    <3>1. d.rateLimitPerSecond = 0
      BY <2>2 DEF NoData
    <3>2. 0 * (now - d.lastBufferUsedTime) = 0
      BY <1>1, <1>2, SMT
    <3> QED BY <1>2, <3>1, <3>2
  <2> QED BY <2>1, <2>2
<1>8. individualBuffer(m)' = min(d.bufferStored, d.bufferCap)
    BY <1>5, <1>7, Zenon DEF individualBuffer
<1>9. ASSUME NEW n \in Minters, n # m PROVE individualBuffer(n)' = individualBuffer(n)
    BY <1>6, <1>9, Zenon DEF individualBuffer
<1>10. \A n \in Minters : individualBuffer(n)' <= addressHeadroom'[n]
    BY <1>5, <1>6, <1>8, <1>9 DEF WindowsCoverBuffers
<1>11. \A n \in Minters : rateLimitPerAddress'[n].lastBufferUsedTime <= now'
    BY <1>3, <1>5, <1>6 DEF MultiTypeOK
<1> QED BY <1>4, <1>10, <1>11

\* What is said of the addresses does not depend on the shared limit.
LEMMA AddressesIdle ==
    ASSUME MultiTypeOK, WindowsCoverBuffers, now' = now, UNCHANGED <<rateLimitPerAddress, addressHeadroom>>
    PROVE  /\ rateLimitPerAddress' \in [Minters -> RateLimitData]
           /\ \A m \in Minters : rateLimitPerAddress'[m].lastBufferUsedTime <= now'
           /\ addressHeadroom' \in [Minters -> Int]
           /\ \A m \in Minters : individualBuffer(m)' <= addressHeadroom'[m]
<1>1. \A m \in Minters : individualBuffer(m)' = individualBuffer(m)
    BY Zenon DEF individualBuffer
<1> QED BY <1>1 DEF MultiTypeOK, WindowsCoverBuffers

\* A call that writes the data of one address and leaves everything else alone keeps the
\* invariant when the window of the address covers what was written.
LEMMA AddressStep ==
    ASSUME MultiAssumption, RateLimitAssumption, MultiInv,
           NEW m \in Minters, NEW d \in RateLimitData, NEW h \in Int,
           d.lastBufferUsedTime = now \/ d = NoData,
           min(d.bufferStored, d.bufferCap) <= h,
           rateLimitPerAddress' = [rateLimitPerAddress EXCEPT ![m] = d],
           addressHeadroom' = [addressHeadroom EXCEPT ![m] = h],
           UNCHANGED <<individualMaxRateLimitPerSecond, individualMaxBufferCap, rateLimitVars, coreRefVars>>
    PROVE  MultiInv'
<1>1. MultiTypeOK /\ WindowsCoverBuffers /\ now' = now
    BY DEF MultiInv, rateLimitVars
<1>2. /\ rateLimitPerAddress' \in [Minters -> RateLimitData]
      /\ \A n \in Minters : rateLimitPerAddress'[n].lastBufferUsedTime <= now'
      /\ addressHeadroom' \in [Minters -> Int]
      /\ \A n \in Minters : individualBuffer(n)' <= addressHeadroom'[n]
    BY <1>1, AddressWrite
<1>3. RateLimitTypeOK' /\ WindowCoversBuffer'
    BY <1>1, IdleStep DEF MultiTypeOK, RLTypeOK, WindowsCoverBuffers
<1>4. CoreRefTypeOK'
    BY <1>1, Zenon DEF CoreRefTypeOK, coreRefVars, MultiTypeOK, RLTypeOK
<1>5. individualMaxRateLimitPerSecond' \in Nat /\ individualMaxBufferCap' \in Nat
    BY <1>1 DEF MultiTypeOK
<1> QED BY <1>2, <1>3, <1>4, <1>5 DEF MultiInv, MultiTypeOK, RLTypeOK, WindowsCoverBuffers

\* What the proofs of the single calls start from: the numbers of one address.
LEMMA AddressFacts ==
    ASSUME MultiAssumption, MultiInv, NEW m \in Minters
    PROVE  /\ now \in Nat /\ addressHeadroom[m] \in Int
           /\ individualBuffer(m) \in uint112 /\ individualBuffer(m) \in Nat
           /\ individualBuffer(m) <= addressHeadroom[m]
           /\ rateLimitPerAddress \in [Minters -> RateLimitData]
           /\ addressHeadroom \in [Minters -> Int]
<1>1. MultiTypeOK /\ \A n \in Minters : individualBuffer(n) <= addressHeadroom[n]
    BY DEF MultiInv, WindowsCoverBuffers
<1>2. now \in Nat /\ rateLimitPerAddress \in [Minters -> RateLimitData] /\ addressHeadroom \in [Minters -> Int]
    BY <1>1 DEF MultiTypeOK, RLTypeOK, RateLimitTypeOK
<1> QED BY <1>1, <1>2, IndividualBufferFacts

\* Registration: the window of the address is credited with the buffer it starts with.
LEMMA AddOnceStep ==
    ASSUME MultiAssumption, RateLimitAssumption, MultiInv,
           NEW m \in Minters, NEW r \in uint112, NEW c \in uint112, addOnce(m, r, c)
    PROVE  MultiInv'
<1> DEFINE d == [lastBufferUsedTime |-> now, bufferCap |-> c, rateLimitPerSecond |-> r, bufferStored |-> c]
           h == addressHeadroom[m] + c
<1>1. c \in Nat
    BY DEF uint112, MultiAssumption
<1>2. d \in RateLimitData /\ d.lastBufferUsedTime = now /\ d.bufferStored = c /\ d.bufferCap = c
    BY AddressFacts DEF addOnce, timestampFits, RateLimitData, MultiAssumption
<1>3. /\ rateLimitPerAddress' = [rateLimitPerAddress EXCEPT ![m] = d]
      /\ addressHeadroom' = [addressHeadroom EXCEPT ![m] = h]
      /\ UNCHANGED <<individualMaxRateLimitPerSecond, individualMaxBufferCap, rateLimitVars, coreRefVars>>
    BY AddressFacts DEF addOnce
<1>4. h \in Int /\ min(c, c) <= h
    BY <1>1, AddressFacts DEF min
<1> HIDE DEF d, h
<1> QED BY <1>2, <1>3, <1>4, AddressStep

\* updateAddress settles the buffer at the old rate and cap, and takes from the window what
\* the new cap cuts off.
LEMMA UpdateAddressStep ==
    ASSUME MultiAssumption, RateLimitAssumption, MultiInv,
           NEW caller, NEW m \in Minters, NEW r \in uint112, NEW c \in uint112, updateAddress(caller, m, r, c)
    PROVE  MultiInv'
<1> DEFINE b == individualBuffer(m)
           d == [lastBufferUsedTime |-> now, bufferCap |-> c, rateLimitPerSecond |-> r, bufferStored |-> b]
           h == addressHeadroom[m] - (b - min(b, c))
<1>1. c \in Nat
    BY DEF uint112, MultiAssumption
<1>2. d \in RateLimitData /\ d.lastBufferUsedTime = now /\ d.bufferStored = b /\ d.bufferCap = c
    BY AddressFacts DEF updateAddress, timestampFits, RateLimitData, MultiAssumption
<1>3. /\ rateLimitPerAddress' = [rateLimitPerAddress EXCEPT ![m] = d]
      /\ addressHeadroom' = [addressHeadroom EXCEPT ![m] = h]
      /\ UNCHANGED <<individualMaxRateLimitPerSecond, individualMaxBufferCap, rateLimitVars, coreRefVars>>
    BY AddressFacts DEF updateAddress
<1>4. h \in Int /\ min(b, c) <= h
    BY <1>1, AddressFacts DEF min
<1> HIDE DEF b, d, h
<1> QED BY <1>2, <1>3, <1>4, AddressStep

\* removeAddress takes what is left in the buffer from the window.
LEMMA RemoveAddressStep ==
    ASSUME MultiAssumption, RateLimitAssumption, MultiInv,
           NEW caller, NEW m \in Minters, removeAddress(caller, m)
    PROVE  MultiInv'
<1> DEFINE h == addressHeadroom[m] - individualBuffer(m)
<1>1. NoData \in RateLimitData /\ NoData.bufferStored = 0 /\ NoData.bufferCap = 0
    BY DEF NoData, RateLimitData, uint112, MultiAssumption
<1>2. /\ rateLimitPerAddress' = [rateLimitPerAddress EXCEPT ![m] = NoData]
      /\ addressHeadroom' = [addressHeadroom EXCEPT ![m] = h]
      /\ UNCHANGED <<individualMaxRateLimitPerSecond, individualMaxBufferCap, rateLimitVars, coreRefVars>>
    BY AddressFacts DEF removeAddress
<1>3. h \in Int /\ min(0, 0) <= h
    BY AddressFacts DEF min
<1> HIDE DEF h
<1> QED BY <1>1, <1>2, <1>3, AddressStep

\* A mint takes the same amount from both buffers and from both windows.
LEMMA MultiMintStep ==
    ASSUME MultiAssumption, RateLimitAssumption, MultiInv,
           NEW m \in Minters, NEW amount \in Nat, mint(m, amount)
    PROVE  MultiInv'
<1> DEFINE left == individualBuffer(m) - amount
           d == [rateLimitPerAddress[m] EXCEPT !.lastBufferUsedTime = now, !.bufferStored = left]
           h == addressHeadroom[m] - amount
<1>1. MultiTypeOK /\ WindowsCoverBuffers
    BY DEF MultiInv
<1>2. amount <= individualBuffer(m) /\ now < UINT32
    BY DEF mint, depleteIndividualBuffer, timestampFits
<1>3. left \in uint112 /\ left \in Nat
    BY <1>2, AddressFacts DEF uint112, MultiAssumption
<1>4. rateLimitPerAddress[m] \in RateLimitData
    BY AddressFacts
<1>5. d \in RateLimitData /\ d.lastBufferUsedTime = now /\ d.bufferStored = left
  <2>1. now \in 0..UINT32 - 1
    BY <1>2, AddressFacts DEF MultiAssumption
  <2> HIDE DEF left
  <2> QED BY <1>3, <1>4, <2>1 DEF RateLimitData
<1>6. rateLimitPerAddress' = [rateLimitPerAddress EXCEPT ![m] = d]
    BY <1>4, AddressFacts DEF mint, depleteIndividualBuffer
<1>7. /\ addressHeadroom' = [addressHeadroom EXCEPT ![m] = h]
      /\ UNCHANGED <<individualMaxRateLimitPerSecond, individualMaxBufferCap, coreRefVars>>
      /\ depleteBuffer(amount)
    BY AddressFacts DEF mint, depleteIndividualBuffer
<1>8. h \in Int /\ left <= h
    BY AddressFacts
<1> HIDE DEF left, d, h
<1>9. d.bufferCap \in Nat
    BY <1>5 DEF RateLimitData, uint112, MultiAssumption
<1>10. min(d.bufferStored, d.bufferCap) <= h
    BY <1>3, <1>5, <1>8, <1>9 DEF min
<1>11. now' = now
    BY <1>7 DEF depleteBuffer
<1>12. /\ rateLimitPerAddress' \in [Minters -> RateLimitData]
       /\ \A n \in Minters : rateLimitPerAddress'[n].lastBufferUsedTime <= now'
       /\ addressHeadroom' \in [Minters -> Int]
       /\ \A n \in Minters : individualBuffer(n)' <= addressHeadroom'[n]
    BY <1>1, <1>5, <1>6, <1>7, <1>8, <1>10, <1>11, AddressWrite
<1>13. RateLimitTypeOK' /\ WindowCoversBuffer'
    BY <1>1, <1>7, DepleteStep DEF MultiTypeOK, RLTypeOK, WindowsCoverBuffers
<1>14. CoreRefTypeOK'
    BY <1>1, <1>7, Zenon DEF CoreRefTypeOK, coreRefVars, MultiTypeOK, RLTypeOK
<1>15. individualMaxRateLimitPerSecond' \in Nat /\ individualMaxBufferCap' \in Nat
    BY <1>1, <1>7 DEF MultiTypeOK
<1> QED BY <1>12, <1>13, <1>14, <1>15 DEF MultiInv, MultiTypeOK, RLTypeOK, WindowsCoverBuffers

\* Time: every window earns what the rate of its address is worth.
LEMMA MultiAdvanceStep ==
    ASSUME MultiAssumption, RateLimitAssumption, MultiInv, NEW t \in Nat, MultiAdvance(t)
    PROVE  MultiInv'
<1>1. MultiTypeOK /\ WindowsCoverBuffers
    BY DEF MultiInv
<1>2. /\ now \in Nat /\ now < t /\ now' = t /\ rateLimitPerAddress' = rateLimitPerAddress
      /\ UNCHANGED <<individualMaxRateLimitPerSecond, individualMaxBufferCap, coreRefVars>>
      /\ addressHeadroom' =
            [m \in Minters |-> addressHeadroom[m] + rateLimitPerAddress[m].rateLimitPerSecond * (t - now)]
    BY <1>1 DEF MultiAdvance, AdvanceTime, multiVars, MultiTypeOK, RLTypeOK, RateLimitTypeOK
<1>3. ASSUME NEW m \in Minters
      PROVE  /\ addressHeadroom'[m] \in Int
             /\ individualBuffer(m)' <= addressHeadroom'[m]
             /\ rateLimitPerAddress'[m].lastBufferUsedTime <= now'
  <2> DEFINE d == rateLimitPerAddress[m]
             before == d.rateLimitPerSecond * (now - d.lastBufferUsedTime)
             since  == d.rateLimitPerSecond * (t - now)
             total  == d.rateLimitPerSecond * (t - d.lastBufferUsedTime)
  <2>1. /\ d.rateLimitPerSecond \in Nat /\ d.lastBufferUsedTime \in Nat
        /\ d.bufferStored \in Nat /\ d.bufferCap \in Nat
        /\ d.lastBufferUsedTime <= now
    BY <1>1 DEF MultiTypeOK, RateLimitData, uint112, MultiAssumption
  <2>2. addressHeadroom'[m] = addressHeadroom[m] + since
    BY <1>2
  <2>3. individualBuffer(m)' = min(d.bufferStored + total, d.bufferCap)
    BY <1>2, Zenon DEF individualBuffer
  <2>4. individualBuffer(m) = min(d.bufferStored + before, d.bufferCap)
    BY DEF individualBuffer
  <2>9. rateLimitPerAddress'[m].lastBufferUsedTime = d.lastBufferUsedTime
    BY <1>2
  <2> HIDE DEF d
  <2>5. before \in Nat /\ since \in Nat /\ total = before + since
    BY <1>2, <2>1, AccrualAdds
  <2> HIDE DEF before, since, total
  <2>6. min(d.bufferStored + total, d.bufferCap) <= min(d.bufferStored + before, d.bufferCap) + since
    BY <2>1, <2>5 DEF min
  <2>7. individualBuffer(m) <= addressHeadroom[m] /\ addressHeadroom[m] \in Int /\ individualBuffer(m) \in Nat
    BY AddressFacts
  <2>8. min(d.bufferStored + total, d.bufferCap) \in Nat
    BY <2>1, <2>5 DEF min
  <2> QED BY <1>2, <2>1, <2>2, <2>3, <2>4, <2>5, <2>6, <2>7, <2>8, <2>9
<1>4. addressHeadroom' \in [Minters -> Int]
    BY <1>2, <1>3
<1>5. RateLimitTypeOK' /\ WindowCoversBuffer'
    BY <1>1, AdvanceStep DEF MultiAdvance, MultiTypeOK, RLTypeOK, WindowsCoverBuffers
<1>6. CoreRefTypeOK'
    BY <1>1, <1>2, Zenon DEF CoreRefTypeOK, coreRefVars, MultiTypeOK, RLTypeOK
<1> QED BY <1>1, <1>2, <1>3, <1>4, <1>5, <1>6 DEF MultiInv, MultiTypeOK, RLTypeOK, WindowsCoverBuffers

\* Windows that open anew hold a full buffer each.
LEMMA MultiWindowStep ==
    ASSUME MultiAssumption, RateLimitAssumption, MultiInv, MultiStartWindow
    PROVE  MultiInv'
<1>1. MultiTypeOK /\ WindowsCoverBuffers
    BY DEF MultiInv
<1>2. /\ now' = now /\ rateLimitPerAddress' = rateLimitPerAddress
      /\ UNCHANGED <<individualMaxRateLimitPerSecond, individualMaxBufferCap, coreRefVars>>
      /\ addressHeadroom' = [m \in Minters |-> rateLimitPerAddress[m].bufferCap]
    BY DEF MultiStartWindow, StartWindow, multiVars
<1>3. ASSUME NEW m \in Minters
      PROVE  rateLimitPerAddress[m].bufferCap \in Int /\ individualBuffer(m)' <= rateLimitPerAddress[m].bufferCap
  <2>1. individualBuffer(m)' = individualBuffer(m)
    BY <1>2, Zenon DEF individualBuffer
  <2>2. rateLimitPerAddress[m].bufferCap \in Int
    BY <1>1 DEF MultiTypeOK, RateLimitData, uint112, MultiAssumption
  <2> QED BY <1>1, <2>1, <2>2, IndividualBufferFacts
<1>4. addressHeadroom' \in [Minters -> Int] /\ \A m \in Minters : individualBuffer(m)' <= addressHeadroom'[m]
    BY <1>2, <1>3
<1>5. RateLimitTypeOK' /\ WindowCoversBuffer'
    BY <1>1, StartWindowStep DEF MultiStartWindow, MultiTypeOK, RLTypeOK, WindowsCoverBuffers
<1>6. CoreRefTypeOK'
    BY <1>1, <1>2, Zenon DEF CoreRefTypeOK, coreRefVars, MultiTypeOK, RLTypeOK
<1> QED BY <1>1, <1>2, <1>4, <1>5, <1>6 DEF MultiInv, MultiTypeOK, RLTypeOK, WindowsCoverBuffers

\* The calls that concern the shared limit, the roles or the maxima leave the addresses
\* alone, and are steps of the shared limit on its own.
LEMMA SharedLimitStep ==
    ASSUME RolesAssumption, RateLimitAssumption, MultiInv, [RLNext]_rlVars, now' = now,
           UNCHANGED <<rateLimitPerAddress, addressHeadroom>>,
           individualMaxRateLimitPerSecond' \in Nat, individualMaxBufferCap' \in Nat
    PROVE  MultiInv'
<1>1. MultiTypeOK /\ WindowsCoverBuffers /\ IInv
    BY DEF MultiInv, MultiTypeOK, WindowsCoverBuffers, IInv
<1>2. IInv'
    BY <1>1, StepIInv
<1>3. /\ rateLimitPerAddress' \in [Minters -> RateLimitData]
      /\ \A m \in Minters : rateLimitPerAddress'[m].lastBufferUsedTime <= now'
      /\ addressHeadroom' \in [Minters -> Int]
      /\ \A m \in Minters : individualBuffer(m)' <= addressHeadroom'[m]
    BY <1>1, AddressesIdle
<1> QED BY <1>2, <1>3 DEF MultiInv, MultiTypeOK, WindowsCoverBuffers, IInv

-----------------------------------------------------------------------------
\* The constructor: no address is registered.
LEMMA InitMultiInv ==
    ASSUME RolesAssumption, RateLimitAssumption, MultiAssumption, MultiInit
    PROVE  MultiInv
<1>1. IInv
    BY InitIInv DEF MultiInit
<1>2. NoData \in RateLimitData /\ NoData.bufferCap = 0 /\ NoData.lastBufferUsedTime = 0
    BY DEF NoData, RateLimitData, uint112, MultiAssumption
<1>3. now \in Nat
    BY <1>1 DEF IInv, RLTypeOK, RateLimitTypeOK
<1>4. /\ rateLimitPerAddress = [m \in Minters |-> NoData]
      /\ addressHeadroom = [m \in Minters |-> 0]
      /\ individualMaxRateLimitPerSecond \in Nat /\ individualMaxBufferCap \in Nat
    BY DEF MultiInit, RateLimitAssumption
<1>5. MultiTypeOK
    BY <1>1, <1>2, <1>3, <1>4 DEF MultiTypeOK, IInv
<1>6. \A m \in Minters : individualBuffer(m) <= addressHeadroom[m]
  <2> TAKE m \in Minters
  <2>1. individualBuffer(m) \in Nat /\ individualBuffer(m) <= rateLimitPerAddress[m].bufferCap
    BY <1>5, IndividualBufferFacts
  <2> QED BY <1>2, <1>4, <2>1
<1> QED BY <1>1, <1>5, <1>6 DEF MultiInv, WindowsCoverBuffers, IInv

\* One step of the minter, or none, keeps the invariant.
LEMMA MultiStep ==
    ASSUME RolesAssumption, RateLimitAssumption, MultiAssumption, MultiInv, [MultiNext]_vars
    PROVE  MultiInv'
<1>1. /\ MultiTypeOK
      /\ individualMaxRateLimitPerSecond \in Nat /\ individualMaxBufferCap \in Nat
    BY DEF MultiInv, MultiTypeOK
<1>2. ASSUME NEW caller \in Actors, RateLimitGovernance(caller), UNCHANGED <<coreRefVars, mintVars>>
      PROVE  MultiInv'
  <2>1. RLNext
    BY <1>2 DEF RLNext
  <2>2. now' = now
    BY <1>2 DEF RateLimitGovernance, setRateLimitPerSecond, setBufferCap
  <2> QED BY <1>1, <1>2, <2>1, <2>2, SharedLimitStep DEF mintVars, multiVars
<1>3. ASSUME NEW caller \in Actors, CoreRefStep(caller), UNCHANGED <<rateLimitVars, mintVars>>
      PROVE  MultiInv'
  <2>1. RLNext
    BY <1>3 DEF RLNext
  <2> QED BY <1>1, <1>3, <2>1, SharedLimitStep DEF mintVars, multiVars, rateLimitVars
<1>4. ASSUME NEW caller \in Actors,
             \/ \E r \in RateLimits : updateMaxRateLimitPerSecond(caller, r)
             \/ \E c \in BufferCaps : updateMaxBufferCap(caller, c)
      PROVE  MultiInv'
  <2>1. /\ UNCHANGED <<rateLimitVars, coreRefVars, rateLimitPerAddress, addressHeadroom>>
        /\ individualMaxRateLimitPerSecond' \in Nat /\ individualMaxBufferCap' \in Nat
    BY <1>1, <1>4 DEF updateMaxRateLimitPerSecond, updateMaxBufferCap, RateLimitAssumption
  <2> QED BY <2>1, SharedLimitStep DEF rlVars, rateLimitVars
<1>5. ASSUME NEW caller \in Actors, NEW m \in Minters, Registration(caller, m)
      PROVE  MultiInv'
  <2>1. ASSUME addAddressAsMinterWithMaxima(caller, m) PROVE MultiInv'
    <3>1. \A x \in Nat : x % UINT112 \in uint112
        BY DEF uint112, MultiAssumption
    <3> QED BY <1>1, <2>1, <3>1, AddOnceStep DEF addAddressAsMinterWithMaxima
  <2>2. ASSUME NEW r \in RateLimits \cap uint112, NEW c \in BufferCaps \cap uint112,
               \/ addAddress(caller, m, r, c)
               \/ addAddressAsMinter(caller, m, r, c)
        PROVE  MultiInv'
    BY <2>2, AddOnceStep DEF addAddress, addAddressAsMinter
  <2>3. ASSUME NEW r \in RateLimits \cap uint112, NEW c \in BufferCaps \cap uint112,
               updateAddress(caller, m, r, c)
        PROVE  MultiInv'
    BY <2>3, UpdateAddressStep
  <2> QED BY <1>5, <2>1, <2>2, <2>3, RemoveAddressStep, Zenon DEF Registration
<1>6. ASSUME NEW m \in Minters, NEW amount \in Amounts, mint(m, amount) PROVE MultiInv'
    BY <1>6, MultiMintStep DEF RateLimitAssumption
<1>7. ASSUME NEW m \in Minters, mintMaxAllowableFei(m) PROVE MultiInv'
  <2>1. individualBuffer(m) \in Nat /\ buffer \in Nat
    BY <1>1, AddressFacts, BufferFacts DEF MultiTypeOK, RLTypeOK
  <2>2. min(individualBuffer(m), buffer) \in Nat
    BY <2>1 DEF min
  <2> QED BY <1>7, <2>2, MultiMintStep DEF mintMaxAllowableFei
<1>8. ASSUME NEW t \in 1..MaxTime, MultiAdvance(t) PROVE MultiInv'
    BY <1>8, MultiAdvanceStep DEF RateLimitAssumption
<1>9. ASSUME UNCHANGED vars PROVE MultiInv'
  <2>1. UNCHANGED <<rateLimitVars, coreRefVars, mintVars>>
    BY <1>9 DEF vars
  <2> QED BY <1>1, <2>1, SharedLimitStep DEF rlVars, rateLimitVars, mintVars, multiVars
<1> QED BY <1>2, <1>3, <1>4, <1>5, <1>6, <1>7, <1>8, <1>9, MultiWindowStep, Zenon DEF MultiNext

-----------------------------------------------------------------------------
\* The invariant of GlobalRateLimitedMinter in every state.
THEOREM MultiInvariant == MultiSpec => []MultiInv
<1>1. MultiInit => MultiInv
    BY RolesAssumption, RateLimitAssumption, MultiAssumption, InitMultiInv
<1>2. MultiInv /\ [MultiNext]_vars => MultiInv'
    BY RolesAssumption, RateLimitAssumption, MultiAssumption, MultiStep
<1> QED BY <1>1, <1>2, PTL DEF MultiSpec

\* No registered address mints more in any window than its own cap at the start, the full
\* buffers it was registered with, and what its rate earned, less what was cut off
\* (_depleteIndividualBuffer, _updateAddress, _addAddress).
THEOREM MultiAddressWindow == MultiSpec => []AddressWindowBounded
<1>1. MultiInv => AddressWindowBounded
  <2> SUFFICES ASSUME MultiInv, NEW m \in Minters PROVE addressHeadroom[m] >= 0
    BY DEF AddressWindowBounded
  <2> QED BY MultiAssumption, AddressFacts
<1> QED BY <1>1, MultiInvariant, PTL

\* All minters together stay within the shared limit, whatever is registered
\* (RateLimited._depleteBuffer as inherited).
THEOREM MultiSharedWindow == MultiSpec => []WindowBounded
<1>1. MultiInv => WindowBounded
  <2> SUFFICES ASSUME MultiInv PROVE WindowBounded
    OBVIOUS
  <2>1. RateLimitTypeOK /\ buffer <= windowHeadroom
    BY DEF MultiInv, MultiTypeOK, RLTypeOK, WindowsCoverBuffers, WindowCoversBuffer
  <2> QED BY <2>1, RateLimitAssumption, BufferFacts DEF WindowBounded, RateLimitTypeOK
<1> QED BY <1>1, MultiInvariant, PTL

\* Partial actions, which the constructor turns off, stay off.
LEMMA NeverPartial ==
    ASSUME [MultiNext]_vars
    PROVE  doPartialAction' = doPartialAction
<1>1. ASSUME NEW caller, RateLimitGovernance(caller) PROVE doPartialAction' = doPartialAction
    BY <1>1 DEF RateLimitGovernance, setRateLimitPerSecond, setBufferCap
<1>2. ASSUME NEW m, NEW amount, mint(m, amount) PROVE doPartialAction' = doPartialAction
    BY <1>2 DEF mint, depleteIndividualBuffer, depleteBuffer
<1>3. ASSUME NEW m, NEW r, NEW c, addOnce(m, r, c) PROVE doPartialAction' = doPartialAction
    BY <1>3 DEF addOnce, rateLimitVars, rateLimitState
<1>4. ASSUME NEW caller, NEW m, Registration(caller, m) PROVE doPartialAction' = doPartialAction
    BY <1>3, <1>4 DEF Registration, addAddressAsMinterWithMaxima, removeAddress, addAddress,
       addAddressAsMinter, updateAddress, rateLimitVars, rateLimitState
<1>5. ASSUME NEW t, MultiAdvance(t) PROVE doPartialAction' = doPartialAction
    BY <1>5 DEF MultiAdvance, AdvanceTime, rateLimitState
<1>6. ASSUME MultiStartWindow PROVE doPartialAction' = doPartialAction
    BY <1>6 DEF MultiStartWindow, StartWindow, rateLimitState
<1>7. ASSUME NEW caller, NEW x, updateMaxRateLimitPerSecond(caller, x) \/ updateMaxBufferCap(caller, x)
      PROVE  doPartialAction' = doPartialAction
    BY <1>7 DEF updateMaxRateLimitPerSecond, updateMaxBufferCap, rateLimitVars, rateLimitState
<1>8. UNCHANGED rateLimitVars => doPartialAction' = doPartialAction
    BY DEF rateLimitVars, rateLimitState
<1>9. UNCHANGED vars => doPartialAction' = doPartialAction
    BY <1>8 DEF vars
<1> QED BY <1>1, <1>2, <1>4, <1>5, <1>6, <1>7, <1>8, <1>9, Zenon DEF MultiNext, mintMaxAllowableFei

\* What mint requires of the module and of both limits.
MintChecks(m, amount) ==
    /\ ~paused
    /\ buffer # 0 /\ usedAmount(amount) <= buffer
    /\ individualBuffer(m) # 0 /\ amount <= individualBuffer(m)
    /\ timestampFits

\* A step that mints passes these checks.
LEMMA MintIsChecked == ASSUME NEW m, NEW amount, mint(m, amount) PROVE MintChecks(m, amount)
BY DEF mint, depleteIndividualBuffer, depleteBuffer, MintChecks

\* What mintMaxAllowableFei asks for passes them while something is left in both buffers:
\* MintMaxAvailable without its ENABLED.
MaxMintPasses ==
    \A m \in Minters :
        individualBuffer(m) # 0 /\ buffer # 0 /\ ~paused /\ timestampFits
            => MintChecks(m, min(individualBuffer(m), buffer))

\* And nothing above it does.
NoMintAboveMax ==
    \A m \in Minters, amount \in Nat :
        MintChecks(m, amount) => amount <= min(individualBuffer(m), buffer)

\* What mintMaxAllowableFei computes is the most that the address can mint at that moment: it
\* is never refused, and one more would be (GlobalRateLimitedMinter.mintMaxAllowableFei).
THEOREM MultiMaxMintIsExact == MultiSpec => [](MaxMintPasses /\ NoMintAboveMax)
<1>1. MultiInit => ~doPartialAction
    BY DEF MultiInit
<1>2. ~doPartialAction /\ [MultiNext]_vars => ~doPartialAction'
    BY NeverPartial
<1>3. ASSUME MultiInv, ~doPartialAction PROVE MaxMintPasses /\ NoMintAboveMax
  <2>1. buffer \in Nat /\ \A m \in Minters : individualBuffer(m) \in Nat
    <3>1. MultiTypeOK /\ RateLimitTypeOK
        BY <1>3 DEF MultiInv, MultiTypeOK, RLTypeOK
    <3> QED BY <3>1, RateLimitAssumption, MultiAssumption, BufferFacts, IndividualBufferFacts
  <2> QED BY <1>3, <2>1 DEF MaxMintPasses, NoMintAboveMax, MintChecks, usedAmount, min
<1> QED BY <1>1, <1>2, <1>3, MultiInvariant, PTL DEF MultiSpec

-----------------------------------------------------------------------------
\* A rate that is a quotient rounded down earns back the dividend but for less than the
\* divisor, and is as large as the divisor when the dividend has its square.
LEMMA RateRounding ==
    ASSUME NEW c \in Nat, NEW d \in Nat, d > 0
    PROVE  /\ c \div d \in Nat
           /\ c < (c \div d) * d + d
           /\ c >= d * d => c \div d >= d
<1>1. c \div d \in Nat /\ c < (c \div d) * d + d
    BY SMT
<1> DEFINE q == c \div d
<1>2. ASSUME c >= d * d PROVE q >= d
  <2>1. q \in Nat /\ c < q * d + d
    BY <1>1
  <2> HIDE DEF q
  <2>2. CASE q < d
    <3>1. q + 1 <= d
      BY <2>1, <2>2
    <3>2. (q + 1) * d <= d * d
      BY <2>1, <3>1, SMT
    <3>3. (q + 1) * d = q * d + d
      BY <2>1, SMT
    <3>4. q * d \in Nat /\ d * d \in Nat
      BY <2>1, SMT
    <3> QED BY <1>2, <2>1, <3>2, <3>3, <3>4
  <2> QED BY <2>1, <2>2
<1> QED BY <1>1, <1>2

\* What a rate earns grows with the rate and with the time.
LEMMA EarnedMore ==
    \A q, r, d, e \in Nat : q <= r /\ d <= e => q * d <= r * e /\ r * e \in Nat /\ q * d \in Nat
<1>1. \A x, y \in Nat : x * y \in Nat
    BY SMT
<1>2. \A q, r, d \in Nat : q <= r => q * d <= r * d
    BY SMT
<1>3. \A r, d, e \in Nat : d <= e => r * d <= r * e
    BY SMT
<1> TAKE q, r, d, e \in Nat
<1> HAVE q <= r /\ d <= e
<1>4. q * d <= r * d /\ r * d <= r * e
    BY <1>2, <1>3
<1>5. q * d \in Nat /\ r * d \in Nat /\ r * e \in Nat
    BY <1>1, Zenon
<1> QED BY <1>4, <1>5

-----------------------------------------------------------------------------
TimedTypeOK ==
    /\ kind \in {"timed", "owned", "equity", "drip"}
    /\ startTime \in Nat /\ startTime <= now
    /\ duration \in Frequencies \ {0}
    /\ mintAmount \in MintAmounts \cup {0}
    /\ kind = "drip" => mintAmount = 0
    /\ incentiveAmount \in Incentives \cup {0}
    /\ doPartialAction = (kind # "drip")

\* The inductive invariant: that of the inherited limit, and what makes it refill in time.
TimedInv == IInv /\ TimedTypeOK /\ RefilledWhenDue

\* The amounts are numbers, 0 or larger than the square of the period.
LEMMA AmountFacts ==
    ASSUME TimedMinterAssumption, TimedTypeOK
    PROVE  /\ duration \in Nat /\ duration > 0 /\ duration * duration \in Nat
           /\ duration * duration >= duration
           /\ mintAmount \in Nat /\ (mintAmount # 0 => mintAmount >= duration * duration)
           /\ incentiveAmount \in Nat /\ (incentiveAmount # 0 => incentiveAmount >= duration * duration)
<1>1. duration \in Frequencies /\ duration \in Nat /\ duration > 0
    BY DEF TimedMinterAssumption, TimedTypeOK
<1>2. duration * duration \in Nat /\ duration * duration >= duration
    BY <1>1, SMT
<1>3. /\ \A a \in MintAmounts : a \in Nat /\ (a # 0 => a >= duration * duration)
      /\ \A a \in Incentives : a \in Nat /\ (a # 0 => a >= duration * duration)
    BY <1>1 DEF TimedMinterAssumption
<1> QED BY <1>1, <1>2, <1>3 DEF TimedTypeOK

\* Once a period has passed the buffer is back at its cap but for less than one unit per
\* second of the period; a second later the rest is there as well.
LEMMA Refilled ==
    ASSUME RateLimitTypeOK, RateLimitAssumption, NEW d \in Nat, d > 0,
           rateLimitPerSecond >= bufferCap \div d, now - lastBufferUsedTime >= d
    PROVE  /\ buffer > bufferCap - d
           /\ bufferCap >= d * d /\ now - lastBufferUsedTime >= d + 1 => buffer = bufferCap
<1> DEFINE q == bufferCap \div d
           e == now - lastBufferUsedTime
           accrued == rateLimitPerSecond * (now - lastBufferUsedTime)
<1>1. /\ rateLimitPerSecond \in Nat /\ lastBufferUsedTime \in Nat /\ now \in Nat
      /\ lastBufferUsedTime <= now /\ bufferStored \in Nat /\ bufferCap \in Nat
    BY DEF RateLimitTypeOK, RateLimitAssumption
<1>2. q \in Nat /\ bufferCap < q * d + d /\ (bufferCap >= d * d => q >= d)
    BY <1>1, RateRounding
<1>3. q <= rateLimitPerSecond /\ d <= e /\ e \in Nat
    BY <1>1, <1>2
<1>4. buffer = min(bufferStored + accrued, bufferCap)
    BY DEF buffer
<1>5. q * d <= accrued /\ accrued \in Nat /\ q * d \in Nat
    BY <1>1, <1>2, <1>3, EarnedMore, Zenon
<1>6. buffer > bufferCap - d
  <2> HIDE DEF q, e, accrued
  <2> QED BY <1>1, <1>2, <1>4, <1>5 DEF min
<1>7. ASSUME bufferCap >= d * d, e >= d + 1 PROVE buffer = bufferCap
  <2>1. d + 1 \in Nat /\ d + 1 <= e
    BY <1>3, <1>7
  <2>2. q * (d + 1) <= accrued
    BY <1>1, <1>2, <1>3, <2>1, EarnedMore, Zenon
  <2>3. q * (d + 1) = q * d + q
    BY <1>2, SMT
  <2>4. q >= d
    BY <1>2, <1>7
  <2> HIDE DEF q, e, accrued
  <2> QED BY <1>1, <1>2, <1>4, <1>5, <2>2, <2>3, <2>4 DEF min
<1> QED BY <1>6, <1>7

\* The limit covers a due call.
LEMMA CoveredWhenDue ==
    ASSUME RateLimitAssumption, TimedMinterAssumption, TimedInv
    PROVE  DueCallCovered
<1> SUFFICES ASSUME settled, isFeiMinter, mintAmount + incentiveAmount # 0,
                    now - startTime >= duration + IF kind = "drip" THEN 1 ELSE 0
             PROVE  limitAllows
    BY DEF DueCallCovered
<1>1. RateLimitTypeOK /\ TimedTypeOK /\ limitFits /\ lastBufferUsedTime <= startTime
    BY DEF TimedInv, IInv, RLTypeOK, RefilledWhenDue
<1>2. /\ duration \in Nat /\ duration > 0 /\ duration * duration \in Nat /\ duration * duration >= duration
      /\ mintAmount \in Nat /\ (mintAmount # 0 => mintAmount >= duration * duration)
      /\ incentiveAmount \in Nat /\ (incentiveAmount # 0 => incentiveAmount >= duration * duration)
    BY <1>1, AmountFacts
<1>3. buffer \in Nat /\ buffer <= bufferCap /\ bufferCap \in Nat
    BY <1>1, BufferFacts DEF RateLimitTypeOK
<1>4. /\ now - lastBufferUsedTime >= duration
      /\ kind = "drip" => now - lastBufferUsedTime >= duration + 1
  <2>1. now \in Nat /\ startTime \in Nat /\ lastBufferUsedTime \in Nat
    BY <1>1 DEF RateLimitTypeOK, TimedTypeOK
  <2> QED BY <1>1, <1>2, <2>1
<1>5. /\ buffer > bufferCap - duration
      /\ bufferCap >= duration * duration /\ kind = "drip" => buffer = bufferCap
    BY <1>1, <1>2, <1>4, Refilled DEF limitFits
<1>6. CASE kind = "drip"
  <2>1. mintAmount = 0 /\ doPartialAction = FALSE /\ bufferCap >= incentiveAmount
    <3>1. mintAmount = 0
      BY <1>1, <1>6, Zenon DEF TimedTypeOK
    <3>2. doPartialAction = FALSE
      BY <1>1, <1>6, Zenon DEF TimedTypeOK
    <3>3. kind # "equity"
      BY <1>6
    <3>4. bufferCap >= incentiveAmount + mintAmount
      BY <1>1, <3>3, Zenon DEF limitFits
    <3> QED BY <1>2, <1>3, <3>1, <3>2, <3>4
  <2>2. incentiveAmount # 0 /\ bufferCap >= duration * duration
    BY <1>2, <1>3, <2>1
  <2>3. buffer = bufferCap /\ incentivePaid = incentiveAmount
    BY <1>5, <1>6, <2>1, <2>2 DEF incentivePaid, usedAmount
  <2> QED BY <1>2, <1>3, <2>1, <2>2, <2>3 DEF limitAllows
<1>7. CASE kind # "drip"
  <2>1. doPartialAction = TRUE
    BY <1>1, <1>7 DEF TimedTypeOK
  <2>2. incentivePaid <= buffer /\ incentivePaid \in Nat /\ incentivePaid <= incentiveAmount
    BY <1>2, <1>3, <2>1 DEF incentivePaid, usedAmount
  <2>3. /\ kind = "equity" => bufferCap >= incentiveAmount + duration * duration
        /\ kind # "equity" => bufferCap >= incentiveAmount + mintAmount
    BY <1>1, Zenon DEF limitFits
  <2>4. buffer # 0
    BY <1>2, <1>3, <1>5, <2>3
  <2>5. ASSUME mintAmount # 0 PROVE buffer # incentivePaid /\ amountMinted <= buffer - incentivePaid
    <3>1. buffer > incentiveAmount
      BY <1>2, <1>3, <1>5, <2>3, <2>5
    <3>2. amountMinted = min(mintAmount, buffer - incentivePaid)
      BY <2>1 DEF amountMinted
    <3> QED BY <1>2, <1>3, <2>2, <3>1, <3>2, MinFacts
  <2> QED BY <2>2, <2>4, <2>5 DEF limitAllows
<1> QED BY <1>6, <1>7
-----------------------------------------------------------------------------
\* The constructors establish the inductive invariant: the limit they compute fits.
LEMMA InitTimed ==
    ASSUME RolesAssumption, RateLimitAssumption, TimedMinterAssumption, TimedMinterInit, CoreRefInit
    PROVE  TimedInv
<1>1. /\ now = 1 /\ startTime = 1 /\ lastBufferUsedTime = 1
      /\ bufferStored = bufferCap /\ windowHeadroom = bufferCap
      /\ rateLimitPerSecond = bufferCap \div duration /\ rateLimitPerSecond <= MAX_RATE_LIMIT_PER_SECOND
      /\ kind \in {"timed", "owned", "equity", "drip"}
      /\ duration \in Frequencies \ {0}
    BY DEF TimedMinterInit
<1>2. doPartialAction = (kind # "drip")
    BY Zenon DEF TimedMinterInit
<1>3. mintAmount \in MintAmounts \cup {0} /\ (kind = "drip" => mintAmount = 0)
    BY DEF TimedMinterInit
<1>4. incentiveAmount \in Incentives \cup {0}
    BY DEF TimedMinterInit
<1>5. TimedTypeOK
  <2>1. startTime \in Nat /\ startTime <= now
    BY <1>1
  <2> QED BY <1>1, <1>2, <1>3, <1>4, <2>1, Zenon DEF TimedTypeOK
<1>6. /\ duration \in Nat /\ duration > 0 /\ mintAmount \in Nat /\ incentiveAmount \in Nat
      /\ duration * duration \in Nat
    BY <1>5, AmountFacts
<1>7. PICK perSecond \in PerSecondLimits :
          bufferCap = mintingBufferCap(IF kind = "equity" THEN perSecond * duration ELSE mintAmount, incentiveAmount)
    BY Zenon DEF TimedMinterInit
<1>8. perSecond \in Nat /\ perSecond >= duration
    BY <1>1, <1>7 DEF TimedMinterAssumption
<1>9. duration * duration <= perSecond * duration /\ perSecond * duration \in Nat
    BY <1>6, <1>8, EarnedMore
<1>10. /\ bufferCap \in Nat
       /\ bufferCap >= incentiveAmount + IF kind = "equity" THEN duration * duration ELSE mintAmount
  <2>1. CASE kind = "equity"
    <3>1. bufferCap = perSecond * duration + incentiveAmount
      BY <1>7, <2>1 DEF mintingBufferCap
    <3> QED BY <1>6, <1>9, <2>1, <3>1
  <2>2. CASE kind # "equity"
    <3>1. bufferCap = mintAmount + incentiveAmount
      BY <1>7, <2>2 DEF mintingBufferCap
    <3> QED BY <1>6, <2>2, <3>1
  <2> QED BY <2>1, <2>2
<1>11. rateLimitPerSecond \in Nat
    BY <1>1, <1>6, <1>10, RateRounding
<1>12. RateLimitTypeOK
  <2>1. doPartialAction \in BOOLEAN
    BY <1>2, Zenon
  <2>2. MAX_RATE_LIMIT_PER_SECOND \in Nat
    BY DEF RateLimitAssumption
  <2>3. now \in Nat /\ rateLimitPerSecond \in 0..MAX_RATE_LIMIT_PER_SECOND /\ lastBufferUsedTime \in 0..now
        /\ bufferStored \in Nat /\ windowHeadroom \in Int
    BY <1>1, <1>10, <1>11, <2>2
  <2> QED BY <1>10, <2>1, <2>3, Zenon DEF RateLimitTypeOK
<1>13. WindowCoversBuffer
    BY <1>1, <1>12, BufferFacts DEF WindowCoversBuffer
<1>14. CoreRefTypeOK
    BY Zenon DEF CoreRefInit, CoreRefTypeOK, TribeRoles
<1>15. RefilledWhenDue
  <2>1. limitFits
    <3>1. rateLimitPerSecond >= bufferCap \div duration
      BY <1>1, <1>11
    <3> QED BY <1>10, <3>1, Zenon DEF limitFits
  <2> QED BY <1>1, <2>1 DEF RefilledWhenDue
<1> QED BY <1>5, <1>12, <1>13, <1>14, <1>15 DEF TimedInv, IInv, RLTypeOK
-----------------------------------------------------------------------------
\* The size of the limit is compared with the settings, which for the equity minter do not
\* include the amount.
LEMMA SameFit ==
    ASSUME UNCHANGED <<kind, duration, incentiveAmount, rateLimitPerSecond, bufferCap>>,
           mintAmount' = mintAmount \/ kind = "equity"
    PROVE  limitFits' = limitFits
<1>1. CASE mintAmount' = mintAmount
    BY <1>1, Zenon DEF limitFits
<1>2. CASE kind = "equity"
    BY <1>2, Zenon DEF limitFits
<1> QED BY <1>1, <1>2

\* A step that moves neither the limit, the timer nor the settings keeps the fit.
LEMMA KeptRefilled ==
    ASSUME RefilledWhenDue, settled' = settled,
           UNCHANGED <<kind, duration, incentiveAmount, startTime, rateLimitState>>,
           mintAmount' = mintAmount \/ kind = "equity"
    PROVE  RefilledWhenDue'
<1>1. UNCHANGED <<kind, duration, incentiveAmount, startTime, rateLimitPerSecond, bufferCap, lastBufferUsedTime>>
    BY DEF rateLimitState
<1>2. limitFits' = limitFits
    BY <1>1, SameFit
<1> QED BY <1>1, <1>2, Zenon DEF RefilledWhenDue

\* A call restarts the timer at the moment it uses the buffer, if it uses it at all.
LEMMA CallStep ==
    ASSUME RateLimitAssumption, TimedMinterAssumption, TimedInv, NEW caller, call(caller)
    PROVE  TimedInv'
<1>1. RateLimitTypeOK /\ CoreRefTypeOK /\ WindowCoversBuffer /\ TimedTypeOK
    BY DEF TimedInv, IInv, RLTypeOK
<1>2. /\ startTime' = now /\ settled' = limitFits
      /\ UNCHANGED <<kind, duration, mintAmount, incentiveAmount>>
      /\ UNCHANGED coreRefVars
    BY DEF call
<1>3. /\ RateLimitTypeOK' /\ WindowCoversBuffer'
      /\ lastBufferUsedTime' <= now /\ now' = now
      /\ UNCHANGED <<rateLimitPerSecond, bufferCap, doPartialAction>>
  <2>1. now \in Nat /\ lastBufferUsedTime <= now
    BY <1>1 DEF RateLimitTypeOK
  <2>2. CASE limitAllows /\ depleteBuffer(incentivePaid + amountMinted)
    <3>1. buffer \in Nat /\ incentiveAmount \in Nat /\ mintAmount \in Nat
      BY <1>1, BufferFacts, AmountFacts
    <3>2. incentivePaid \in Nat /\ incentivePaid <= buffer
      BY <2>2, <3>1 DEF incentivePaid, usedAmount, limitAllows
    <3>3. buffer - incentivePaid \in Nat
      BY <3>1, <3>2
    <3>4. amountMinted \in Nat
      <4>1. \A a, b \in Nat : min(a, b) \in Nat
        BY DEF min
      <4> QED BY <3>1, <3>3, <4>1, Zenon DEF amountMinted
    <3>5. incentivePaid + amountMinted \in Nat
      BY <3>2, <3>4
    <3>6. RateLimitTypeOK' /\ WindowCoversBuffer'
      BY <1>1, <2>2, <3>5, DepleteStep
    <3>7. /\ lastBufferUsedTime' = now /\ now' = now
          /\ UNCHANGED <<rateLimitPerSecond, bufferCap, doPartialAction>>
      BY <2>2 DEF depleteBuffer
    <3> QED BY <2>1, <3>6, <3>7
  <2>3. CASE UNCHANGED rateLimitVars
    <3>1. RateLimitTypeOK' /\ WindowCoversBuffer'
      BY <1>1, <2>3, IdleStep
    <3> QED BY <2>1, <2>3, <3>1 DEF rateLimitVars, rateLimitState
  <2> QED BY <2>2, <2>3, Zenon DEF call
<1>4. TimedTypeOK'
  <2>1. startTime' \in Nat /\ startTime' <= now'
    BY <1>1, <1>2, <1>3 DEF RateLimitTypeOK
  <2> QED BY <1>1, <1>2, <1>3, <2>1, Zenon DEF TimedTypeOK
<1>5. RefilledWhenDue'
  <2>1. limitFits' = limitFits
    BY <1>2, <1>3, SameFit
  <2> QED BY <1>2, <1>3, <2>1 DEF RefilledWhenDue
<1>6. CoreRefTypeOK'
    BY <1>1, <1>2, Zenon DEF CoreRefTypeOK, coreRefVars
<1> QED BY <1>3, <1>4, <1>5, <1>6 DEF TimedInv, IInv, RLTypeOK

\* The setters keep the types; what they unsettle is settled by a later call.
LEMMA ConfigureStep ==
    ASSUME TimedMinterAssumption, TimedInv, NEW caller, Configure(caller),
           UNCHANGED <<rateLimitVars, coreRefVars>>
    PROVE  TimedTypeOK' /\ RefilledWhenDue'
<1>1. TimedTypeOK /\ RefilledWhenDue
    BY DEF TimedInv
<1>2. now' = now /\ doPartialAction' = doPartialAction /\ UNCHANGED rateLimitState
    BY DEF rateLimitVars, rateLimitState
<1>3. ASSUME NEW f \in Frequencies, setFrequency(caller, f) PROVE TimedTypeOK' /\ RefilledWhenDue'
  <2>1. f # 0
    BY <1>3 DEF setFrequency, TimedMinterAssumption
  <2>2. /\ duration' = f /\ settled' = FALSE
        /\ UNCHANGED <<kind, startTime, mintAmount, incentiveAmount>>
    BY <1>3 DEF setFrequency
  <2>3. f \in Frequencies \ {0}
    BY <2>1
  <2> QED BY <1>1, <1>2, <2>2, <2>3, Zenon DEF TimedTypeOK, RefilledWhenDue
<1>4. ASSUME NEW a \in MintAmounts, setMintAmount(caller, a) PROVE TimedTypeOK' /\ RefilledWhenDue'
  <2>1. /\ mintAmount' = a /\ settled' = FALSE /\ kind # "drip"
        /\ UNCHANGED <<kind, startTime, duration, incentiveAmount>>
    BY <1>4 DEF setMintAmount
  <2> QED BY <1>1, <1>2, <2>1, Zenon DEF TimedTypeOK, RefilledWhenDue
<1>5. ASSUME NEW a \in Incentives, setIncentiveAmount(caller, a) PROVE TimedTypeOK' /\ RefilledWhenDue'
  <2>1. /\ incentiveAmount' = a /\ settled' = FALSE
        /\ UNCHANGED <<kind, startTime, duration, mintAmount>>
    BY <1>5 DEF setIncentiveAmount
  <2> QED BY <1>1, <1>2, <2>1, Zenon DEF TimedTypeOK, RefilledWhenDue
<1>6. ASSUME \/ \E a \in Actors : transferOwnership(caller, a)
             \/ setMinterRole(caller)
      PROVE  TimedTypeOK' /\ RefilledWhenDue'
  <2>1. UNCHANGED <<kind, startTime, duration, mintAmount, incentiveAmount, settled>>
    BY <1>6 DEF transferOwnership, setMinterRole
  <2>2. RefilledWhenDue'
    BY <1>1, <1>2, <2>1, KeptRefilled
  <2> QED BY <1>1, <1>2, <2>1, <2>2, Zenon DEF TimedTypeOK
<1> QED BY <1>3, <1>4, <1>5, <1>6, Zenon DEF Configure

\* Every step preserves the inductive invariant.
LEMMA StepTimed ==
    ASSUME RolesAssumption, RateLimitAssumption, TimedMinterAssumption, TimedInv,
           [TimedMinterNext]_<<rateLimitVars, coreRefVars, timedVars>>
    PROVE  TimedInv'
<1>1. RateLimitTypeOK /\ CoreRefTypeOK /\ WindowCoversBuffer /\ TimedTypeOK /\ RefilledWhenDue
    BY DEF TimedInv, IInv, RLTypeOK
<1>2. ASSUME NEW caller \in Actors, call(caller) PROVE TimedInv'
    BY <1>2, CallStep
<1>3. ASSUME NEW caller \in Actors, Configure(caller), UNCHANGED <<rateLimitVars, coreRefVars>> PROVE TimedInv'
  <2>1. TimedTypeOK' /\ RefilledWhenDue'
    BY <1>3, ConfigureStep
  <2>2. RateLimitTypeOK' /\ WindowCoversBuffer'
    BY <1>1, <1>3, IdleStep
  <2>3. CoreRefTypeOK'
    BY <1>1, <1>3, Zenon DEF CoreRefTypeOK, coreRefVars
  <2> QED BY <2>1, <2>2, <2>3 DEF TimedInv, IInv, RLTypeOK
<1>4. ASSUME NEW caller \in Actors, RateLimitGovernance(caller), settled' = FALSE,
             UNCHANGED <<kind, owner, startTime, duration, mintAmount, incentiveAmount, isFeiMinter, ready>>,
             UNCHANGED coreRefVars
      PROVE  TimedInv'
  <2>1. RateLimitTypeOK' /\ WindowCoversBuffer' /\ now' = now /\ doPartialAction' = doPartialAction
    <3>1. ASSUME NEW r \in RateLimits, setRateLimitPerSecond(caller, r)
          PROVE  RateLimitTypeOK' /\ WindowCoversBuffer' /\ now' = now /\ doPartialAction' = doPartialAction
      <4>1. r \in Nat
        BY DEF RateLimitAssumption
      <4>2. now' = now /\ doPartialAction' = doPartialAction
        BY <3>1 DEF setRateLimitPerSecond
      <4> QED BY <1>1, <3>1, <4>1, <4>2, SetRateStep
    <3>2. ASSUME NEW c \in BufferCaps, setBufferCap(caller, c)
          PROVE  RateLimitTypeOK' /\ WindowCoversBuffer' /\ now' = now /\ doPartialAction' = doPartialAction
      <4>1. c \in Nat
        BY DEF RateLimitAssumption
      <4>2. now' = now /\ doPartialAction' = doPartialAction
        BY <3>2 DEF setBufferCap
      <4> QED BY <1>1, <3>2, <4>1, <4>2, SetCapStep
    <3> QED BY <1>4, <3>1, <3>2, Zenon DEF RateLimitGovernance
  <2>2. TimedTypeOK'
    BY <1>1, <1>4, <2>1, Zenon DEF TimedTypeOK
  <2>3. RefilledWhenDue'
    BY <1>4 DEF RefilledWhenDue
  <2>4. CoreRefTypeOK'
    BY <1>1, <1>4, Zenon DEF CoreRefTypeOK, coreRefVars
  <2> QED BY <2>1, <2>2, <2>3, <2>4 DEF TimedInv, IInv, RLTypeOK
<1>5. ASSUME NEW caller \in Actors, CoreRefStep(caller), UNCHANGED <<rateLimitVars, timedVars>> PROVE TimedInv'
  <2>1. CoreRefTypeOK'
    BY <1>1, <1>5, CoreRefStepType
  <2>2. RateLimitTypeOK' /\ WindowCoversBuffer'
    BY <1>1, <1>5, IdleStep
  <2>3. UNCHANGED <<now, doPartialAction, rateLimitState>>
        /\ UNCHANGED <<kind, startTime, duration, mintAmount, incentiveAmount, settled>>
    BY <1>5 DEF rateLimitVars, rateLimitState, timedVars
  <2>4. TimedTypeOK'
    BY <1>1, <2>3, Zenon DEF TimedTypeOK
  <2>5. RefilledWhenDue'
    BY <1>1, <2>3, KeptRefilled
  <2> QED BY <2>1, <2>2, <2>4, <2>5 DEF TimedInv, IInv, RLTypeOK
<1>6. ASSUME SurroundingsMove, UNCHANGED <<rateLimitVars, coreRefVars>> PROVE TimedInv'
  <2>1. /\ UNCHANGED <<kind, startTime, duration, incentiveAmount, settled>>
        /\ mintAmount' = mintAmount \/ kind = "equity"
        /\ mintAmount' \in MintAmounts \/ mintAmount' = mintAmount
    BY <1>6 DEF SurroundingsMove
  <2>2. UNCHANGED <<now, doPartialAction, rateLimitState>>
    BY <1>6 DEF rateLimitVars, rateLimitState
  <2>3. RefilledWhenDue'
    BY <1>1, <2>1, <2>2, KeptRefilled
  <2>4. mintAmount' \in MintAmounts \cup {0} /\ (kind = "drip" => mintAmount' = 0)
    BY <1>1, <2>1 DEF TimedTypeOK
  <2>5. TimedTypeOK'
    BY <1>1, <2>1, <2>2, <2>4, Zenon DEF TimedTypeOK
  <2>6. RateLimitTypeOK' /\ WindowCoversBuffer'
    BY <1>1, <1>6, IdleStep
  <2>7. CoreRefTypeOK'
    BY <1>1, <1>6, Zenon DEF CoreRefTypeOK, coreRefVars
  <2> QED BY <2>3, <2>5, <2>6, <2>7 DEF TimedInv, IInv, RLTypeOK
<1>7. ASSUME NEW t \in 1..MaxTime, AdvanceTime(t), UNCHANGED <<timedVars, coreRefVars>> PROVE TimedInv'
  <2>1. t \in Nat
    BY DEF RateLimitAssumption
  <2>2. RateLimitTypeOK' /\ WindowCoversBuffer'
    BY <1>1, <1>7, <2>1, AdvanceStep
  <2>3. /\ now < now' /\ doPartialAction' = doPartialAction /\ UNCHANGED rateLimitState
        /\ UNCHANGED <<kind, startTime, duration, mintAmount, incentiveAmount, settled>>
    BY <1>7 DEF AdvanceTime, rateLimitState, timedVars
  <2>4. startTime' \in Nat /\ startTime' <= now'
    BY <1>1, <2>1, <2>2, <2>3 DEF TimedTypeOK, RateLimitTypeOK
  <2>5. TimedTypeOK'
    BY <1>1, <2>3, <2>4, Zenon DEF TimedTypeOK
  <2>6. RefilledWhenDue'
    BY <1>1, <2>3, KeptRefilled
  <2>7. CoreRefTypeOK'
    BY <1>1, <1>7, Zenon DEF CoreRefTypeOK, coreRefVars
  <2> QED BY <2>2, <2>5, <2>6, <2>7 DEF TimedInv, IInv, RLTypeOK
<1>8. ASSUME UNCHANGED <<rateLimitVars, coreRefVars, timedVars>> PROVE TimedInv'
  <2>1. UNCHANGED <<now, doPartialAction, rateLimitState>>
        /\ UNCHANGED <<kind, startTime, duration, mintAmount, incentiveAmount, settled>>
    BY <1>8 DEF rateLimitVars, rateLimitState, timedVars
  <2>2. TimedTypeOK'
    BY <1>1, <2>1, Zenon DEF TimedTypeOK
  <2>3. RefilledWhenDue'
    BY <1>1, <2>1, KeptRefilled
  <2>4. RateLimitTypeOK' /\ WindowCoversBuffer'
    BY <1>1, <1>8, IdleStep
  <2>5. CoreRefTypeOK'
    BY <1>1, <1>8, Zenon DEF CoreRefTypeOK, coreRefVars
  <2> QED BY <2>2, <2>3, <2>4, <2>5 DEF TimedInv, IInv, RLTypeOK
<1> QED BY <1>2, <1>3, <1>4, <1>5, <1>6, <1>7, <1>8, Zenon DEF TimedMinterNext

-----------------------------------------------------------------------------
\* A due call of a timed minter or of the drip controller is never stopped by its own limit,
\* once the limit fits the amounts and a call has been made since (mint, drip).
THEOREM TimedMinterCovered ==
    TimedMinterAssumption /\ TimedMinterSpec => []DueCallCovered
<1> SUFFICES ASSUME TimedMinterAssumption PROVE TimedMinterSpec => []DueCallCovered
    OBVIOUS
<1>1. TimedMinterInit /\ CoreRefInit => TimedInv
    BY RolesAssumption, RateLimitAssumption, InitTimed
<1>2. TimedInv /\ [TimedMinterNext]_<<rateLimitVars, coreRefVars, timedVars>> => TimedInv'
    BY RolesAssumption, RateLimitAssumption, StepTimed
<1>3. TimedInv => DueCallCovered
    BY RateLimitAssumption, CoveredWhenDue
<1> QED BY <1>1, <1>2, <1>3, PTL DEF TimedMinterSpec
=============================================================================
