--------------------------- MODULE MultiRateLimited ---------------------------
(***************************************************************************)
(* utils/MultiRateLimited.sol and utils/GlobalRateLimitedMinter.sol: the   *)
(* minter through which registered contracts mint FEI.  Each registered    *)
(* address has a rate limit of its own, and all of them share the one      *)
(* inherited from RateLimited.  A mint depletes both or reverts.           *)
(***************************************************************************)
EXTENDS RateLimited

CONSTANTS
    Minters,    \* the addresses that may be registered as minters
    UINT32,     \* 2^32: block timestamps are stored in 32 bits
    UINT112     \* 2^112: caps, rates and buffers of an address have 112 bits

ASSUME MultiAssumption ==
    /\ Minters \subseteq Actors
    /\ UINT32 \in Nat \ {0}
    /\ UINT112 \in Nat \ {0}

VARIABLES
    rateLimitPerAddress,                \* Minters -> RateLimitData
    individualMaxRateLimitPerSecond,
    individualMaxBufferCap,
    addressHeadroom                     \* history: windowHeadroom, per address

multiVars == <<rateLimitPerAddress, individualMaxRateLimitPerSecond, individualMaxBufferCap>>
mintVars == <<multiVars, addressHeadroom>>
vars == <<rateLimitVars, coreRefVars, mintVars>>

uint112 == 0..UINT112 - 1

RateLimitData ==
    [lastBufferUsedTime : 0..UINT32 - 1, bufferCap : uint112, bufferStored : uint112, rateLimitPerSecond : uint112]

\* What a slot of the mapping holds before it is written and after delete.
NoData == [lastBufferUsedTime |-> 0, bufferCap |-> 0, bufferStored |-> 0, rateLimitPerSecond |-> 0]

-----------------------------------------------------------------------------
addressIsRegistered(m) == rateLimitPerAddress[m].lastBufferUsedTime # 0

individualBuffer(m) ==
    LET d == rateLimitPerAddress[m]
    IN  min(d.bufferStored + d.rateLimitPerSecond * (now - d.lastBufferUsedTime), d.bufferCap)

\* constructor: partial actions are off, and the caps of one address start below
\* the global cap.
MultiInit ==
    /\ RLInit
    /\ ~doPartialAction
    /\ rateLimitPerAddress = [m \in Minters |-> NoData]
    /\ individualMaxRateLimitPerSecond \in RateLimits
    /\ individualMaxBufferCap \in {c \in BufferCaps : c < bufferCap}
    /\ addressHeadroom = [m \in Minters |-> 0]

-----------------------------------------------------------------------------
updateMaxRateLimitPerSecond(caller, r) ==
    /\ isGovernor(caller)
    /\ r <= MAX_RATE_LIMIT_PER_SECOND
    /\ individualMaxRateLimitPerSecond' = r
    /\ UNCHANGED <<rateLimitPerAddress, individualMaxBufferCap, addressHeadroom, rateLimitVars, coreRefVars>>

updateMaxBufferCap(caller, c) ==
    /\ isGovernor(caller)
    /\ c <= bufferCap
    /\ individualMaxBufferCap' = c
    /\ UNCHANGED <<rateLimitPerAddress, individualMaxRateLimitPerSecond, addressHeadroom, rateLimitVars, coreRefVars>>

\* block.timestamp.toUint32() reverts once the timestamp needs more than 32 bits.
timestampFits == now < UINT32

\* Mutation: an address that is already registered is given a fresh buffer.
addAgain(m, r, c) ==
    /\ c <= bufferCap
    /\ r <= MAX_RATE_LIMIT_PER_SECOND
    /\ timestampFits
    /\ rateLimitPerAddress' = [rateLimitPerAddress EXCEPT ![m] =
           [lastBufferUsedTime |-> now, bufferCap |-> c, rateLimitPerSecond |-> r, bufferStored |-> c]]
    /\ addressHeadroom' = [addressHeadroom EXCEPT ![m] = @ + IF addressIsRegistered(m) THEN 0 ELSE c]
    /\ UNCHANGED <<individualMaxRateLimitPerSecond, individualMaxBufferCap, rateLimitVars, coreRefVars>>

\* _addAddress.  A new registration comes with a full buffer, which its window
\* is credited with.
addOnce(m, r, c) ==
    /\ c <= bufferCap
    /\ ~addressIsRegistered(m)
    /\ r <= MAX_RATE_LIMIT_PER_SECOND
    /\ timestampFits
    /\ rateLimitPerAddress' = [rateLimitPerAddress EXCEPT ![m] =
           [lastBufferUsedTime |-> now, bufferCap |-> c, rateLimitPerSecond |-> r, bufferStored |-> c]]
    /\ addressHeadroom' = [addressHeadroom EXCEPT ![m] = @ + c]
    /\ UNCHANGED <<individualMaxRateLimitPerSecond, individualMaxBufferCap, rateLimitVars, coreRefVars>>

addAddress(caller, m, r, c) == isGovernor(caller) /\ addOnce(m, r, c)

\* addAddressAsMinter with no limits given: the maxima, cut to 112 bits.
addAddressAsMinterWithMaxima(caller, m) ==
    /\ hasRole("ADD_MINTER_ROLE", caller)
    /\ addOnce(m, individualMaxRateLimitPerSecond % UINT112, individualMaxBufferCap % UINT112)

addAddressAsMinter(caller, m, r, c) ==
    /\ hasRole("ADD_MINTER_ROLE", caller)
    /\ r <= individualMaxRateLimitPerSecond
    /\ c <= individualMaxBufferCap
    /\ addOnce(m, r, c)

\* An ADD_MINTER_ROLE holder is bound by the maxima even when it is a governor too.
updateAddress(caller, m, r, c) ==
    /\ addressIsRegistered(m)
    /\ hasAnyOfTwoRoles("ADD_MINTER_ROLE", "GOVERNOR", caller)
    /\ hasRole("ADD_MINTER_ROLE", caller) => r <= individualMaxRateLimitPerSecond /\ c <= individualMaxBufferCap
    /\ c <= bufferCap
    /\ r <= MAX_RATE_LIMIT_PER_SECOND
    /\ timestampFits
    /\ rateLimitPerAddress' = [rateLimitPerAddress EXCEPT ![m] =
           [lastBufferUsedTime |-> now, bufferCap |-> c, rateLimitPerSecond |-> r, bufferStored |-> individualBuffer(m)]]
    /\ addressHeadroom' = [addressHeadroom EXCEPT ![m] = @ - (individualBuffer(m) - min(individualBuffer(m), c))]
    /\ UNCHANGED <<individualMaxRateLimitPerSecond, individualMaxBufferCap, rateLimitVars, coreRefVars>>

removeAddress(caller, m) ==
    /\ addressIsRegistered(m)
    /\ onlyGuardianOrGovernor(caller)
    /\ rateLimitPerAddress' = [rateLimitPerAddress EXCEPT ![m] = NoData]
    /\ addressHeadroom' = [addressHeadroom EXCEPT ![m] = @ - individualBuffer(m)]
    /\ UNCHANGED <<individualMaxRateLimitPerSecond, individualMaxBufferCap, rateLimitVars, coreRefVars>>

\* Mutation: the shared buffer is not touched.
depleteOwnBufferOnly(m, amount) ==
    /\ individualBuffer(m) # 0
    /\ amount <= individualBuffer(m)
    /\ timestampFits
    /\ rateLimitPerAddress' = [rateLimitPerAddress EXCEPT
           ![m].lastBufferUsedTime = now, ![m].bufferStored = individualBuffer(m) - amount]
    /\ addressHeadroom' = [addressHeadroom EXCEPT ![m] = @ - amount]
    /\ windowHeadroom' = windowHeadroom - amount
    /\ UNCHANGED <<now, rateLimitState>>

depleteIndividualBuffer(m, amount) ==
    /\ depleteBuffer(amount)
    /\ individualBuffer(m) # 0
    /\ amount <= individualBuffer(m)
    /\ timestampFits
    /\ rateLimitPerAddress' = [rateLimitPerAddress EXCEPT
           ![m].lastBufferUsedTime = now, ![m].bufferStored = individualBuffer(m) - amount]
    /\ addressHeadroom' = [addressHeadroom EXCEPT ![m] = @ - amount]

\* GlobalRateLimitedMinter.mint and mintMaxAllowableFei.  The call of Fei.mint that
\* follows reverts the whole transaction, which is then a step not taken, while Fei is
\* paused or this contract lacks the minter role.
mint(m, amount) ==
    /\ ~paused
    /\ depleteIndividualBuffer(m, amount)
    /\ UNCHANGED <<individualMaxRateLimitPerSecond, individualMaxBufferCap, coreRefVars>>

\* Mutation: the shared buffer is forgotten when the amount is computed.
mintOwnBuffer(m) == mint(m, individualBuffer(m))

mintMaxAllowableFei(m) == mint(m, min(individualBuffer(m), buffer))

-----------------------------------------------------------------------------
MultiAdvance(t) ==
    /\ AdvanceTime(t)
    /\ addressHeadroom' =
           [m \in Minters |-> addressHeadroom[m] + rateLimitPerAddress[m].rateLimitPerSecond * (t - now)]
    /\ UNCHANGED <<multiVars, coreRefVars>>

\* History only: windows of observation open on the shared limit and on every
\* address at once.
MultiStartWindow ==
    /\ StartWindow
    /\ addressHeadroom' = [m \in Minters |-> rateLimitPerAddress[m].bufferCap]
    /\ UNCHANGED <<multiVars, coreRefVars>>

Registration(caller, m) ==
    \/ addAddressAsMinterWithMaxima(caller, m)
    \/ removeAddress(caller, m)
    \/ \E r \in RateLimits \cap uint112, c \in BufferCaps \cap uint112 :
        \/ addAddress(caller, m, r, c)
        \/ addAddressAsMinter(caller, m, r, c)
        \/ updateAddress(caller, m, r, c)

MultiNext ==
    \/ \E caller \in Actors :
        \/ RateLimitGovernance(caller) /\ UNCHANGED <<coreRefVars, mintVars>>
        \/ CoreRefStep(caller) /\ UNCHANGED <<rateLimitVars, mintVars>>
        \/ \E r \in RateLimits : updateMaxRateLimitPerSecond(caller, r)
        \/ \E c \in BufferCaps : updateMaxBufferCap(caller, c)
        \/ \E m \in Minters : Registration(caller, m)
    \/ \E m \in Minters :
        \/ \E amount \in Amounts : mint(m, amount)
        \/ mintMaxAllowableFei(m)
    \/ \E t \in 1..MaxTime : MultiAdvance(t)
    \/ MultiStartWindow

MultiSpec == MultiInit /\ [][MultiNext]_vars

-----------------------------------------------------------------------------
\* The rate limit of one address holds over every window, across registrations,
\* removals and updates of its cap and rate (_depleteIndividualBuffer,
\* _updateAddress, _addAddress).  WindowBounded says the same of the shared limit, which
\* alone bounds a sequence of registrations that each start with a full buffer.
AddressWindowBounded == \A m \in Minters : addressHeadroom[m] >= 0

\* The inductive strengthening of this and of WindowBounded: each window covers the buffer it is about.
WindowsCoverBuffers ==
    /\ WindowCoversBuffer
    /\ \A m \in Minters : individualBuffer(m) <= addressHeadroom[m]

\* mintMaxAllowableFei never fails because other minters drained the shared buffer
\* first: as long as something is left in both buffers it mints what is left.
MintMaxAvailable ==
    \A m \in Minters :
        individualBuffer(m) # 0 /\ buffer # 0 /\ ~paused /\ timestampFits
            => ENABLED mintMaxAllowableFei(m)
=============================================================================
