------------------------------ MODULE TribeMinter ------------------------------
(***************************************************************************)
(* tribe/TribeMinter.sol: the only minter of TRIBE.  It is a RateLimited   *)
(* whose cap and rate nobody sets: poke derives both from the circulating  *)
(* supply and the annual inflation.  TRIBE it holds is handed out before   *)
(* new TRIBE is minted; both spend the buffer.                             *)
(***************************************************************************)
EXTENDS RateLimited, Constants, Functions

CONSTANTS
    ONE_YEAR,                   \* Constants.ONE_YEAR, in seconds
    Inflations,                 \* what governance chooses from, in basis points
    TribeHolders,               \* the other accounts that hold TRIBE
    Lockers,                    \* those of them that may be named treasury or dripper
    TribeSupplies,              \* the supply at the start
    MaxTribe                    \* bound on the total supply

ASSUME TribeMinterAssumption ==
    /\ ONE_YEAR \in Nat \ {0}
    /\ BASIS_POINTS_GRANULARITY \in Nat \ {0}
    /\ Inflations \subseteq Nat
    /\ Lockers \subseteq TribeHolders
    /\ TribeSupplies \subseteq Nat

VARIABLES
    annualMaxInflationBasisPoints,
    excluded,       \* tribeTreasury and tribeRewardsDripper, "none" for address(0)
    tribeBalance,   \* Tribe.balanceOf
    totalSupply,    \* Tribe.totalSupply
    isTribeMinter,  \* Tribe.minter is this contract
    \* History: a year under observation, what was handed out in it and its largest cap.
    yearStart, yearMinted, yearCap

tribeMinterState == <<annualMaxInflationBasisPoints, excluded, tribeBalance, totalSupply, isTribeMinter>>
yearVars == <<yearStart, yearMinted, yearCap>>
tribeMinterVars == <<tribeMinterState, yearVars>>

self == "tribeMinter"

balanceAt(account) == IF account = "none" THEN 0 ELSE tribeBalance[account]

lockedTribe ==
    balanceAt(self) + balanceAt(excluded.tribeTreasury) + balanceAt(excluded.tribeRewardsDripper)

\* The subtraction reverts when one account is named twice and holds most of the supply.
tribeCirculatingSupply == totalSupply - lockedTribe

idealBufferCap ==
    (tribeCirculatingSupply * annualMaxInflationBasisPoints) \div BASIS_POINTS_GRANULARITY

-----------------------------------------------------------------------------
\* constructor: pokes before the accounts to exclude are named, then fills the buffer.
TribeMinterInit ==
    /\ now = 1
    /\ annualMaxInflationBasisPoints \in Inflations
    /\ tribeBalance \in [TribeHolders \cup {self} -> Nat \cap (0..MaxTribe)]
    /\ totalSupply \in TribeSupplies /\ totalSupply = SumFunction(tribeBalance)
    /\ balanceAt(self) = 0
    /\ isTribeMinter = TRUE
    /\ bufferCap = (totalSupply * annualMaxInflationBasisPoints) \div BASIS_POINTS_GRANULARITY
    /\ bufferCap # 0
    /\ rateLimitPerSecond = bufferCap \div ONE_YEAR
    /\ bufferStored = bufferCap /\ lastBufferUsedTime = now /\ windowHeadroom = bufferCap
    /\ doPartialAction = FALSE
    /\ excluded \in [tribeTreasury : Lockers \cup {"none"}, tribeRewardsDripper : Lockers \cup {"none"}]
    /\ yearStart = now /\ yearMinted = 0 /\ yearCap = bufferCap

\* Mutation: the buffer is filled up to the new cap.
pokeRefills ==
    /\ tribeCirculatingSupply >= 0
    /\ idealBufferCap # bufferCap
    /\ bufferStored' = idealBufferCap
    /\ lastBufferUsedTime' = now
    /\ bufferCap' = idealBufferCap
    /\ rateLimitPerSecond' = idealBufferCap \div ONE_YEAR
    /\ windowHeadroom' = windowHeadroom - (buffer - min(buffer, idealBufferCap))
    /\ yearCap' = IF idealBufferCap > yearCap THEN idealBufferCap ELSE yearCap
    /\ UNCHANGED <<now, doPartialAction, tribeMinterState, yearStart, yearMinted>>

poke ==
    /\ tribeCirculatingSupply >= 0
    /\ idealBufferCap # bufferCap
    /\ updateBufferStored
    /\ bufferCap' = idealBufferCap
    /\ rateLimitPerSecond' = idealBufferCap \div ONE_YEAR
    /\ windowHeadroom' = windowHeadroom - (buffer - min(buffer, idealBufferCap))
    /\ yearCap' = IF idealBufferCap > yearCap THEN idealBufferCap ELSE yearCap
    /\ UNCHANGED <<now, doPartialAction, tribeMinterState, yearStart, yearMinted>>

\* _mint: the TRIBE held first, the rest newly minted.
handOut(to, amount) ==
    LET held == min(balanceAt(self), amount)
    IN  /\ amount > held => isTribeMinter
        /\ tribeBalance' = [tribeBalance EXCEPT ![self] = @ - held, ![to] = @ + amount]
        /\ totalSupply' = totalSupply + (amount - held)

\* mint: first the limit.
mintTribe(caller, to, amount) ==
    /\ onlyGovernorOrAdmin(caller)
    /\ depleteBuffer(amount)
    /\ handOut(to, amount)
    /\ yearMinted' = yearMinted + amount
    /\ UNCHANGED <<annualMaxInflationBasisPoints, excluded, isTribeMinter, yearStart, yearCap>>

\* setTribeTreasury and setTribeRewardsDripper.
setExcluded(caller, slot, account) ==
    /\ onlyGovernorOrAdmin(caller)
    /\ excluded' = [excluded EXCEPT ![slot] = account]
    /\ UNCHANGED <<annualMaxInflationBasisPoints, tribeBalance, totalSupply, isTribeMinter, yearVars, rateLimitVars>>

\* Strictly lower each time, and only a poke makes it count.
setAnnualMaxInflationBasisPoints(caller, inflation) ==
    /\ onlyGovernorOrAdmin(caller)
    /\ inflation # 0 /\ inflation < annualMaxInflationBasisPoints
    /\ annualMaxInflationBasisPoints' = inflation
    /\ UNCHANGED <<excluded, tribeBalance, totalSupply, isTribeMinter, yearVars, rateLimitVars>>

\* setMinter, by the owner, who is a governor: TRIBE gets another minter for good.
setMinter(caller) ==
    /\ isGovernor(caller)
    /\ isTribeMinter
    /\ isTribeMinter' = FALSE
    /\ UNCHANGED <<annualMaxInflationBasisPoints, excluded, tribeBalance, totalSupply, yearVars, rateLimitVars>>

\* Holders move their TRIBE, also to the minter or out of the treasury.
TribeMoves(from, to, amount) ==
    /\ from # to /\ amount <= tribeBalance[from]
    /\ tribeBalance' = [tribeBalance EXCEPT ![from] = @ - amount, ![to] = @ + amount]
    /\ UNCHANGED <<annualMaxInflationBasisPoints, excluded, totalSupply, isTribeMinter, yearVars, rateLimitVars>>

\* History only: a year to observe begins.
StartYear ==
    /\ StartWindow
    /\ yearStart' = now /\ yearMinted' = 0 /\ yearCap' = bufferCap
    /\ UNCHANGED tribeMinterState

TribeMinterStep ==
    \/ poke
    \/ StartYear
    \/ \E caller \in Actors :
        \/ \E inflation \in Inflations : setAnnualMaxInflationBasisPoints(caller, inflation)
        \/ \E slot \in DOMAIN excluded, account \in Lockers \cup {"none"} :
              setExcluded(caller, slot, account)
        \/ setMinter(caller)
        \/ \E amount \in Amounts, to \in TribeHolders :
              totalSupply + amount <= MaxTribe /\ mintTribe(caller, to, amount)
    \/ \E from \in TribeHolders, to \in TribeHolders \cup {self}, amount \in Amounts :
          TribeMoves(from, to, amount)

\* The minter on its own: its callers call it as they please.
TribeMinterNext ==
    \/ TribeMinterStep /\ UNCHANGED coreRefVars
    \/ \E t \in 1..MaxTime : AdvanceTime(t) /\ UNCHANGED <<tribeMinterVars, coreRefVars>>
    \/ \E caller \in Actors : CoreRefStep(caller) /\ UNCHANGED <<rateLimitVars, tribeMinterVars>>

TribeMinterSpec ==
    TribeMinterInit /\ CoreRefInit /\ [][TribeMinterNext]_<<rateLimitVars, coreRefVars, tribeMinterVars>>

-----------------------------------------------------------------------------
\* In no year does more TRIBE leave the minter than twice the largest cap of that year: what
\* the buffer held when the year began and what it earned in it, however the supply is moved
\* in and out of circulation to poke the cap up and down (poke, mint).
InflationBounded == now - yearStart <= ONE_YEAR => yearMinted <= 2 * yearCap
=============================================================================
