---------------------------- MODULE TokenTimelock ----------------------------
(***************************************************************************)
(* timelocks/: tokens that unlock for a beneficiary over a duration, on a  *)
(* linear or a quadratic curve, after a cliff.  Tokens may arrive at any   *)
(* time; a clawback admin may take back what has not unlocked; the         *)
(* governor of a LinearUnlockTimelock may pay everything out; and in the   *)
(* sub-delegating locks the beneficiary lends tokens to Delegatee          *)
(* contracts.  One module stands for the whole family, the constants       *)
(* choose its member.                                                      *)
(***************************************************************************)
EXTENDS Integers, FiniteSetsExt

CONSTANTS
    Actors,
    NoAddress,      \* address(0)
    Quadratic,      \* the curve of the Quadratic contracts, or the linear one
    Duration,
    cliffSeconds,
    StartTimes,     \* _startTime of the constructor, 0 for the deployment time
    clawbackAdmin,
    Governors,      \* who may call unlockLiquidity, {} but for LinearUnlockTimelock
    Delegatees,     \* who tokens are delegated to, {} but for the sub-delegating locks
    Amounts,
    MaxReceived,    \* bound: the tokens that ever arrive
    MaxTime         \* bound: the last block timestamp explored

\* The sub-delegating locks have no clawback admin and are no LinearUnlockTimelock.
ASSUME TokenTimelockAssumption ==
    /\ NoAddress \notin Actors
    /\ Quadratic \in BOOLEAN
    /\ Duration \in Nat \ {0}
    /\ cliffSeconds \in Nat
    /\ StartTimes \subseteq Nat
    /\ Amounts \subseteq Nat
    /\ MaxReceived \in Nat
    /\ IsFiniteSet(Delegatees)
    /\ Delegatees # {} => clawbackAdmin = NoAddress /\ Governors = {}

VARIABLES
    now,                    \* block.timestamp
    startTime,
    beneficiary,
    pendingBeneficiary,
    initialBalance,
    lastBalance,
    held,                   \* lockedToken.balanceOf(this)
    delegateContract,       \* the delegatees that have a Delegatee contract
    delegateAmount,
    delegateBalance,        \* what the Delegatee contract of a delegatee holds
    totalDelegated,
    received, paid, clawed, unlocked    \* history: tokens in and out

beneficiaries == <<beneficiary, pendingBeneficiary>>
delegations == <<delegateContract, delegateAmount, delegateBalance, totalDelegated>>
outflows == <<paid, clawed, unlocked>>
ttVars == <<now, startTime, beneficiaries, initialBalance, lastBalance, held, delegations, received, outflows>>

TTTypeOK ==
    /\ now \in Nat
    /\ startTime \in Nat
    /\ beneficiary \in Actors
    /\ pendingBeneficiary \in Actors \cup {NoAddress}
    /\ initialBalance \in Nat
    /\ lastBalance \in Nat
    /\ held \in Nat
    /\ delegateContract \subseteq Delegatees
    /\ delegateAmount \in [Delegatees -> Nat]
    /\ delegateBalance \in [Delegatees -> Nat]
    /\ totalDelegated \in Nat
    /\ received \in Nat
    /\ paid \in Nat
    /\ clawed \in Nat
    /\ unlocked \in Nat

-----------------------------------------------------------------------------
\* The subtraction reverts before a start time that lies ahead.
started == startTime <= now

timeSinceStart == IF now - startTime > Duration THEN Duration ELSE now - startTime

passedCliff == timeSinceStart >= cliffSeconds

totalToken == held + totalDelegated

\* What of a balance has unlocked after some time.
proportionAvailable(balance, elapsed) ==
    IF Quadratic
    THEN ((balance * elapsed * elapsed) \div Duration) \div Duration
    ELSE (balance * elapsed) \div Duration

\* The initial balance with the tokens that arrived since the last call (balanceCheck).
caughtUp ==
    IF totalToken > lastBalance
    THEN initialBalance + (totalToken - lastBalance)
    ELSE initialBalance

vested == proportionAvailable(caughtUp, timeSinceStart)

availableForRelease == vested - (caughtUp - totalToken)

\* Neither subtraction of availableForRelease underflows.
releasable == started /\ caughtUp >= totalToken /\ availableForRelease >= 0

\* balanceCheck around a body after which the lock owns fewer tokens.
balanceCheck(leaving) ==
    /\ initialBalance' = caughtUp
    /\ lastBalance' = totalToken - leaving

-----------------------------------------------------------------------------
TTInit ==
    /\ now = 1
    /\ startTime \in {IF t = 0 THEN now ELSE t : t \in StartTimes}
    /\ beneficiary \in Actors
    /\ pendingBeneficiary = NoAddress
    /\ initialBalance = 0 /\ lastBalance = 0
    /\ held = 0
    /\ delegateContract = {}
    /\ delegateAmount = [d \in Delegatees |-> 0]
    /\ delegateBalance = [d \in Delegatees |-> 0]
    /\ totalDelegated = 0
    /\ received = 0 /\ paid = 0 /\ clawed = 0 /\ unlocked = 0

\* The transfer of _release: what goes to the lock itself does not leave it.
releaseTo(toItself, amount) ==
    /\ amount <= held
    /\ IF toItself
       THEN balanceCheck(0) /\ UNCHANGED <<held, paid>>
       ELSE balanceCheck(amount) /\ held' = held - amount /\ paid' = paid + amount
    /\ UNCHANGED <<now, startTime, beneficiaries, delegations, received, clawed, unlocked>>

\* Mutation: the amount is held against the vested balance, not against what is left of it.
releaseUpToVested(caller, toItself, amount) ==
    /\ caller = beneficiary
    /\ amount # 0
    /\ releasable /\ passedCliff
    /\ amount <= vested
    /\ releaseTo(toItself, amount)

release(caller, toItself, amount) ==
    /\ caller = beneficiary
    /\ amount # 0
    /\ releasable /\ passedCliff
    /\ amount <= availableForRelease
    /\ releaseTo(toItself, amount)

releaseMax(caller, toItself) ==
    /\ caller = beneficiary
    /\ releasable /\ passedCliff
    /\ releaseTo(toItself, availableForRelease)

setPendingBeneficiary(caller, pending) ==
    /\ caller = beneficiary
    /\ pendingBeneficiary' = pending
    /\ UNCHANGED <<now, startTime, beneficiary, initialBalance, lastBalance, held, delegations, received, outflows>>

acceptBeneficiary(caller) ==
    /\ caller = pendingBeneficiary
    /\ beneficiary' = caller
    /\ pendingBeneficiary' = NoAddress
    /\ UNCHANGED <<now, startTime, initialBalance, lastBalance, held, delegations, received, outflows>>

\* Mutation: the unlocked part is worked out without the tokens that arrived since the last call.
clawbackShareUnchecked ==
    IF passedCliff /\ totalToken <= lastBalance THEN availableForRelease ELSE 0

\* What a clawback pays to the beneficiary.
clawbackShare == IF passedCliff THEN availableForRelease ELSE 0

clawback(caller) ==
    /\ caller = clawbackAdmin
    /\ started
    /\ passedCliff => releasable
    /\ totalToken <= held
    /\ balanceCheck(totalToken)
    /\ held' = 0
    /\ paid' = paid + clawbackShare
    /\ clawed' = clawed + (totalToken - clawbackShare)
    /\ UNCHANGED <<now, startTime, beneficiaries, delegations, received, unlocked>>

\* LinearUnlockTimelock: pays everything out and takes no note of it.
unlockLiquidity(caller) ==
    /\ caller \in Governors
    /\ totalToken <= held
    /\ held' = held - totalToken
    /\ unlocked' = unlocked + totalToken
    /\ UNCHANGED <<now, startTime, beneficiaries, initialBalance, lastBalance, delegations, received, paid, clawed>>

-----------------------------------------------------------------------------
\* What undelegate brings back: everything its Delegatee holds, and how much of it
\* was delegated; nothing when there is no Delegatee.
returning(d) == IF d \in delegateContract THEN delegateBalance[d] ELSE 0

lent(d) == IF d \in delegateContract THEN delegateAmount[d] ELSE 0

\* Mutation: an existing delegation is replaced without being called back.
delegateOver(caller, d, amount) ==
    /\ caller = beneficiary
    /\ amount <= held
    /\ delegateContract' = delegateContract \cup {d}
    /\ delegateAmount' = [delegateAmount EXCEPT ![d] = amount]
    /\ delegateBalance' = [delegateBalance EXCEPT ![d] = amount]
    /\ totalDelegated' = totalDelegated + amount
    /\ held' = held - amount
    /\ UNCHANGED <<now, startTime, beneficiaries, initialBalance, lastBalance, received, outflows>>

\* Calls an existing delegation back and delegates it again with the new amount.
delegate(caller, d, amount) ==
    /\ caller = beneficiary
    /\ amount <= held
    /\ lent(d) <= totalDelegated
    /\ amount + lent(d) <= held + returning(d)
    /\ delegateContract' = delegateContract \cup {d}
    /\ delegateAmount' = [delegateAmount EXCEPT ![d] = amount + lent(d)]
    /\ delegateBalance' = [delegateBalance EXCEPT ![d] = amount + lent(d)]
    /\ totalDelegated' = totalDelegated - lent(d) + (amount + lent(d))
    /\ held' = held + returning(d) - (amount + lent(d))
    /\ received' = received + (returning(d) - lent(d))
    /\ UNCHANGED <<now, startTime, beneficiaries, initialBalance, lastBalance, outflows>>

undelegate(caller, d) ==
    /\ caller = beneficiary
    /\ d \in delegateContract
    /\ lent(d) <= totalDelegated
    /\ held' = held + returning(d)
    /\ totalDelegated' = totalDelegated - lent(d)
    /\ delegateContract' = delegateContract \ {d}
    /\ delegateAmount' = [delegateAmount EXCEPT ![d] = 0]
    /\ delegateBalance' = [delegateBalance EXCEPT ![d] = 0]
    /\ received' = received + (returning(d) - lent(d))
    /\ UNCHANGED <<now, startTime, beneficiaries, initialBalance, lastBalance, outflows>>

-----------------------------------------------------------------------------
\* Anybody may send the token to the lock or to one of its Delegatee contracts; what a
\* Delegatee is sent reaches the lock, and is received, when it is called back.
Fund(amount) ==
    /\ received + amount <= MaxReceived
    /\ held' = held + amount
    /\ received' = received + amount
    /\ UNCHANGED <<now, startTime, beneficiaries, initialBalance, lastBalance, delegations, outflows>>

FundDelegatee(d, amount) ==
    /\ d \in delegateContract
    /\ received + (delegateBalance[d] - delegateAmount[d]) + amount <= MaxReceived
    /\ delegateBalance' = [delegateBalance EXCEPT ![d] = @ + amount]
    /\ UNCHANGED <<now, startTime, beneficiaries, initialBalance, lastBalance, held, delegateContract,
                   delegateAmount, totalDelegated, received, outflows>>

AdvanceTime(t) ==
    /\ now < t
    /\ now' = t
    /\ UNCHANGED <<startTime, beneficiaries, initialBalance, lastBalance, held, delegations, received, outflows>>

TTNext ==
    \/ \E caller \in Actors :
        \/ \E toItself \in BOOLEAN :
            \/ \E amount \in Amounts : release(caller, toItself, amount)
            \/ releaseMax(caller, toItself)
        \/ \E pending \in Actors \cup {NoAddress} : setPendingBeneficiary(caller, pending)
        \/ acceptBeneficiary(caller)
        \/ clawback(caller)
        \/ unlockLiquidity(caller)
        \/ \E d \in Delegatees :
            \/ \E amount \in Amounts : delegate(caller, d, amount)
            \/ undelegate(caller, d)
    \/ \E amount \in Amounts :
        \/ Fund(amount)
        \/ \E d \in Delegatees : FundDelegatee(d, amount)
    \/ \E t \in 1..MaxTime : AdvanceTime(t)

TTSpec == TTInit /\ [][TTNext]_ttVars

-----------------------------------------------------------------------------
\* What release, releaseMax and clawback ever paid to the beneficiary is at most what
\* has unlocked by now of all the tokens that ever arrived, in whatever pieces the tokens
\* came and left, with clawbacks, unlocks and delegations between them.
VestedOnly ==
    paid <= IF started THEN proportionAvailable(received, timeSinceStart) ELSE 0

\* The first clawback, if nothing was unlocked before, leaves the beneficiary with
\* exactly what has unlocked of all the tokens that arrived, whatever was released before;
\* before the cliff, with nothing (clawback).
ClawbackLeavesVested ==
    [][clawed = 0 /\ unlocked = 0 /\ clawed' > 0 =>
        /\ paid' = IF passedCliff THEN proportionAvailable(received, timeSinceStart) ELSE 0
        /\ paid' + clawed' = received]_ttVars

\* What the lock says it delegated is the sum of its delegations, and every Delegatee
\* holds at least its part: each can be called back and none hides tokens
\* (delegate, undelegate).
DelegatedIsHeld ==
    /\ totalDelegated = SumFunction(delegateAmount)
    /\ \A d \in DOMAIN delegateAmount : delegateBalance[d] >= delegateAmount[d]

-----------------------------------------------------------------------------
\* The inductive strengthening: the initial balance never runs ahead of the tokens that
\* arrived, and what it has not counted yet is still there, was clawed back or unlocked;
\* no token is lost; every Delegatee holds what is delegated to it; nothing is paid before
\* the cliff.
Accounted ==
    /\ initialBalance <= received
    /\ initialBalance + totalToken - lastBalance <= received
    /\ received <= initialBalance + totalToken - lastBalance + clawed + unlocked

DelegateesHold == \A d \in Delegatees : delegateBalance[d] >= delegateAmount[d]

Conserved == received = totalToken + paid + clawed + unlocked

PaidAfterCliff == paid > 0 => started /\ passedCliff

\* The delegations add up because what is called back leaves nothing behind.
CalledBackIsZero == \A d \in Delegatees \ delegateContract : delegateAmount[d] = 0

TTInv == TTTypeOK /\ DelegateesHold /\ Accounted /\ Conserved /\ PaidAfterCliff /\ VestedOnly
=============================================================================
