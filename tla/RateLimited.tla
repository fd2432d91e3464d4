----------------------------- MODULE RateLimited -----------------------------
(***************************************************************************)
(* utils/RateLimited.sol: the rate limit that the FEI minters and the peg  *)
(* stability modules inherit.  A call that reverts is a step that is not   *)
(* taken; a call that succeeds is one atomic step, at one block timestamp. *)
(***************************************************************************)
EXTENDS CoreRef

CONSTANTS
    MAX_RATE_LIMIT_PER_SECOND,  \* immutable MAX_RATE_LIMIT_PER_SECOND
    RateLimits,                 \* the rates governance asks for, some above the maximum
    BufferCaps,                 \* the buffer caps governance chooses from
    Amounts,                    \* the amounts callers ask for
    MaxTime                     \* bound: the last block timestamp explored

ASSUME RateLimitAssumption ==
    /\ MAX_RATE_LIMIT_PER_SECOND \in Nat
    /\ RateLimits \subseteq Nat
    /\ BufferCaps \subseteq Nat
    /\ Amounts \subseteq Nat
    /\ MaxTime \in Nat

VARIABLES
    now,                    \* block.timestamp
    rateLimitPerSecond,
    lastBufferUsedTime,
    bufferCap,
    doPartialAction,        \* written by the constructor only
    bufferStored,
    windowHeadroom          \* history: see StartWindow

rateLimitState == <<rateLimitPerSecond, lastBufferUsedTime, bufferCap, doPartialAction, bufferStored>>
rateLimitVars == <<now, rateLimitState, windowHeadroom>>

RateLimitTypeOK ==
    /\ now \in Nat
    /\ rateLimitPerSecond \in 0..MAX_RATE_LIMIT_PER_SECOND
    /\ lastBufferUsedTime \in 0..now
    /\ bufferCap \in Nat
    /\ doPartialAction \in BOOLEAN
    /\ bufferStored \in Nat
    /\ windowHeadroom \in Int

-----------------------------------------------------------------------------
\* The amount that can be used at once, reconstructed from the last use.
buffer == min(bufferStored + rateLimitPerSecond * (now - lastBufferUsedTime), bufferCap)

\* constructor.  The first _setBufferCap runs with an empty buffer; the stored
\* buffer is then overwritten with the cap.
RateLimitInit ==
    /\ now = 1
    /\ lastBufferUsedTime = now
    /\ bufferCap \in BufferCaps
    /\ bufferStored = bufferCap
    /\ rateLimitPerSecond \in {r \in RateLimits : r <= MAX_RATE_LIMIT_PER_SECOND}
    /\ doPartialAction \in BOOLEAN
    /\ windowHeadroom = bufferCap

\* The part of amount that _depleteBuffer lets through.
usedAmount(amount) == IF doPartialAction /\ amount > buffer THEN buffer ELSE amount

depleteBuffer(amount) ==
    /\ buffer # 0
    /\ usedAmount(amount) <= buffer
    /\ bufferStored' = buffer - usedAmount(amount)
    /\ lastBufferUsedTime' = now
    /\ windowHeadroom' = windowHeadroom - usedAmount(amount)
    /\ UNCHANGED <<now, rateLimitPerSecond, bufferCap, doPartialAction>>

\* Mutation: the refill since the last use is credited again later.
replenishBufferKeepsTime(amount) ==
    /\ buffer # bufferCap
    /\ bufferStored' = min(buffer + amount, bufferCap)
    /\ windowHeadroom' = windowHeadroom + (min(buffer + amount, bufferCap) - buffer)
    /\ UNCHANGED <<now, lastBufferUsedTime, rateLimitPerSecond, bufferCap, doPartialAction>>

\* At the cap nothing is written, not even the time.
replenishBuffer(amount) ==
    IF buffer = bufferCap
    THEN UNCHANGED rateLimitVars
    ELSE /\ lastBufferUsedTime' = now
         /\ bufferStored' = min(buffer + amount, bufferCap)
         /\ windowHeadroom' = windowHeadroom + (min(buffer + amount, bufferCap) - buffer)
         /\ UNCHANGED <<now, rateLimitPerSecond, bufferCap, doPartialAction>>

updateBufferStored ==
    /\ bufferStored' = buffer
    /\ lastBufferUsedTime' = now

setRateLimitPerSecond(caller, newRateLimitPerSecond) ==
    /\ onlyGovernorOrAdmin(caller)
    /\ newRateLimitPerSecond <= MAX_RATE_LIMIT_PER_SECOND
    /\ updateBufferStored
    /\ rateLimitPerSecond' = newRateLimitPerSecond
    /\ UNCHANGED <<now, bufferCap, doPartialAction, windowHeadroom>>

setBufferCap(caller, newBufferCap) ==
    /\ onlyGovernorOrAdmin(caller)
    /\ updateBufferStored
    /\ bufferCap' = newBufferCap
    /\ windowHeadroom' = windowHeadroom - (buffer - min(buffer, newBufferCap))
    /\ UNCHANGED <<now, rateLimitPerSecond, doPartialAction>>

\* A later block.  The window opened last may use what the elapsed time is worth.
AdvanceTime(t) ==
    /\ now < t
    /\ now' = t
    /\ windowHeadroom' = windowHeadroom + rateLimitPerSecond * (t - now)
    /\ UNCHANGED rateLimitState

\* History only: an observer opens a window of observation at an arbitrary
\* moment.  windowHeadroom is what may still be used inside that window if the
\* limit works: the cap at its start, plus the rate times the seconds since, plus
\* what was given back, less what was used and what a lowered cap took away.
StartWindow ==
    /\ windowHeadroom' = bufferCap
    /\ UNCHANGED <<now, rateLimitState>>

\* The calls of governance on the limit itself.
RateLimitGovernance(caller) ==
    \/ \E r \in RateLimits : setRateLimitPerSecond(caller, r)
    \/ \E c \in BufferCaps : setBufferCap(caller, c)

-----------------------------------------------------------------------------
\* The contract on its own: what an inheriting contract does with the buffer is
\* an arbitrary sequence of depletions and replenishments.
RLInit == CoreRefInit /\ RateLimitInit

RLNext ==
    \/ \E caller \in Actors :
        \/ RateLimitGovernance(caller) /\ UNCHANGED coreRefVars
        \/ CoreRefStep(caller) /\ UNCHANGED rateLimitVars
    \/ \E amount \in Amounts :
        \/ depleteBuffer(amount) /\ UNCHANGED coreRefVars
        \/ replenishBuffer(amount) /\ UNCHANGED coreRefVars
    \/ \E t \in 1..MaxTime : AdvanceTime(t) /\ UNCHANGED coreRefVars
    \/ StartWindow /\ UNCHANGED coreRefVars

rlVars == <<rateLimitVars, coreRefVars>>

RLSpec == RLInit /\ [][RLNext]_rlVars

RLTypeOK == RateLimitTypeOK /\ CoreRefTypeOK

-----------------------------------------------------------------------------
\* In every window of time, whenever it starts and however governance moves the
\* rate and the cap meanwhile, the amount used is at most the cap at its start
\* plus what the rate was worth second by second plus what was given back, less
\* what a lowered cap took away
\* (_depleteBuffer, _replenishBuffer, setBufferCap, setRateLimitPerSecond).
WindowBounded == windowHeadroom >= 0

\* The inductive strengthening of WindowBounded: the window still covers the
\* whole buffer.
WindowCoversBuffer == buffer <= windowHeadroom

Bucket == INSTANCE TokenBucket
    WITH clock <- now, rate <- rateLimitPerSecond, cap <- bufferCap, level <- buffer

\* The lazily reconstructed buffer() behaves as a bucket that fills second by
\* second: no order of uses, replenishments and changes of rate or cap makes it
\* hold more or less.
ImplementsBucket == Bucket!Spec
=============================================================================
