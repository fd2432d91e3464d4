----------------------------- MODULE TribalChief -----------------------------
(***************************************************************************)
(* staking/TribalChief.sol: TRIBE rewards over pools of locked deposits.   *)
(* A pool accumulates the reward of one virtual token; a user owes the     *)
(* accumulator of the moment of each deposit (rewardDebt) and is owed the  *)
(* rest.  A deposit weighs its amount times a multiplier that depends on   *)
(* its lock; weights are kept per user and per pool and are floored.       *)
(*                                                                         *)
(* A pid is an index of poolInfo, from 1 here.  The staked tokens are not  *)
(* TRIBE.  Calls to a pool's IRewarder are left out: they leave this       *)
(* contract's state alone.                                                 *)
(***************************************************************************)
EXTENDS CoreRef, Sequences, FiniteSetsExt

CONSTANTS
    Users,
    SCALE_FACTOR,           \* 10^4 in the code
    ACC_TRIBE_PRECISION,    \* 10^23 in the code
    LockLengths, Multipliers, AllocPoints, BlockRewards, Amounts,
    InitialBlockReward,     \* 75 TRIBE in the code
    Funding,                \* the TRIBE the contract is given
    Wallet,                 \* what a user can stake in one pool
    MaxPools, MaxDeposits, MaxBlock, MaxRoundings, MaxWeight \* bounds

ASSUME TribalChiefAssumption ==
    /\ IsFiniteSet(Users)
    /\ SCALE_FACTOR \in Nat \ {0} /\ ACC_TRIBE_PRECISION \in Nat \ {0}
    /\ LockLengths \subseteq Nat /\ Multipliers \subseteq Nat /\ AllocPoints \subseteq Nat
    /\ BlockRewards \subseteq Nat /\ Amounts \subseteq Nat \ {0}
    /\ InitialBlockReward \in Nat /\ Funding \in Nat /\ Wallet \in Nat
    /\ MaxPools \in Nat /\ MaxDeposits \in Nat /\ MaxBlock \in Nat /\ MaxRoundings \in Nat /\ MaxWeight \in Nat

VARIABLES
    block,              \* block.number
    poolInfo,           \* sequence of PoolInfo
    rewardMultipliers,  \* per pool, lock length -> multiplier, 0 when there is none
    userInfo,           \* per pool, user -> UserInfo
    depositInfo,        \* per pool, user -> sequence of DepositInfo
    totalAllocPoint,
    tribePerBlock,
    tribeBalance,       \* TRIBE held
    stakedBalance,      \* per pool, staked tokens held
    \* History, per pool: rewards credited by updatePool, rewards paid, and how often a
    \* debt was rounded down on its own.
    ledger

rewardVars == <<totalAllocPoint, tribePerBlock>>
chiefVars == <<poolInfo, rewardMultipliers, userInfo, depositInfo, rewardVars, tribeBalance, stakedBalance, ledger>>
vars == <<block, chiefVars, coreRefVars>>

pids == DOMAIN poolInfo

NoUser == [rewardDebt |-> 0, virtualAmount |-> 0]

-----------------------------------------------------------------------------
\* The TRIBE a pool is entitled to since its last update.
tribeReward(pool) ==
    IF block > pool.lastRewardBlock /\ pool.virtualTotalSupply > 0 /\ totalAllocPoint # 0
    THEN ((block - pool.lastRewardBlock) * tribePerBlock * pool.allocPoint) \div totalAllocPoint
    ELSE 0

\* updatePool as a function of the pool.
updated(pool) ==
    IF pool.virtualTotalSupply > 0
    THEN [pool EXCEPT !.accTribePerShare = @ + (tribeReward(pool) * ACC_TRIBE_PRECISION) \div pool.virtualTotalSupply,
                      !.lastRewardBlock = block]
    ELSE [pool EXCEPT !.lastRewardBlock = block]

\* Mutation: weights are rounded up.
virtualRoundedUp(amount, multiplier) == (amount * multiplier + SCALE_FACTOR - 1) \div SCALE_FACTOR

\* The weight of an amount.
virtual(amount, multiplier) == (amount * multiplier) \div SCALE_FACTOR

\* The reward of a virtual amount since the pool began.
accumulated(pool, virtualAmount) == (virtualAmount * pool.accTribePerShare) \div ACC_TRIBE_PRECISION

\* History: whether it was rounded down, by less than one TRIBE.
rounded(pool, virtualAmount) ==
    IF (virtualAmount * pool.accTribePerShare) % ACC_TRIBE_PRECISION = 0 THEN 0 ELSE 1

unlocked(pool, dep) == dep.unlockBlock <= block \/ pool.unlocked

\* What updatePool and a payment add to a pool's history.
entered(pid, paid, roundings) ==
    [ledger EXCEPT ![pid] = [emitted |-> @.emitted + tribeReward(poolInfo[pid]),
                             paid |-> @.paid + paid,
                             roundings |-> @.roundings + roundings]]

\* Sums over some of the deposits of a user.
amountOf(deps, indexes) == SumFunction([i \in indexes |-> deps[i].amount])

virtualOf(deps, indexes) ==
    SumFunction([i \in indexes |-> virtual(deps[i].amount, deps[i].multiplier)])

-----------------------------------------------------------------------------
\* initialize: the contract is a proxy's logic and starts without pools.
TCInit ==
    /\ block = 1
    /\ poolInfo = <<>> /\ rewardMultipliers = <<>>
    /\ userInfo = <<>> /\ depositInfo = <<>>
    /\ totalAllocPoint = 0
    /\ tribePerBlock = InitialBlockReward
    /\ tribeBalance = Funding
    /\ stakedBalance = <<>>
    /\ ledger = <<>>
    /\ paused = FALSE
    /\ contractAdminRole = "TRIBAL_CHIEF_ADMIN_ROLE"

updateBlockReward(caller, newBlockReward) ==
    /\ onlyGovernorOrAdmin(caller)
    /\ isContractAdmin(caller) => newBlockReward < tribePerBlock
    /\ tribePerBlock' = newBlockReward
    /\ UNCHANGED <<poolInfo, rewardMultipliers, userInfo, depositInfo, totalAllocPoint, tribeBalance, stakedBalance, ledger>>

\* lockPool and unlockPool.
setUnlocked(caller, pid, flag) ==
    /\ onlyGovernorOrAdmin(caller)
    /\ poolInfo' = [poolInfo EXCEPT ![pid].unlocked = flag]
    /\ UNCHANGED <<rewardMultipliers, userInfo, depositInfo, rewardVars, tribeBalance, stakedBalance, ledger>>

\* A multiplier that is raised unlocks the pool, so that users may deposit again.
governorAddPoolMultiplier(caller, pid, lockLength, newRewardsMultiplier) ==
    /\ onlyGovernorOrAdmin(caller)
    /\ rewardMultipliers' = [rewardMultipliers EXCEPT ![pid][lockLength] = newRewardsMultiplier]
    /\ poolInfo' = IF newRewardsMultiplier > rewardMultipliers[pid][lockLength]
                   THEN [poolInfo EXCEPT ![pid].unlocked = TRUE]
                   ELSE poolInfo
    /\ UNCHANGED <<userInfo, depositInfo, rewardVars, tribeBalance, stakedBalance, ledger>>

governorWithdrawTribe(caller, amount) ==
    /\ isGovernor(caller)
    /\ amount <= tribeBalance
    /\ tribeBalance' = tribeBalance - amount
    /\ UNCHANGED <<poolInfo, rewardMultipliers, userInfo, depositInfo, rewardVars, stakedBalance, ledger>>

\* add: the list of RewardData is the function it leaves in rewardMultipliers.
add(caller, allocPoint, rewardData) ==
    /\ onlyGovernorOrAdmin(caller)
    /\ Len(poolInfo) < MaxPools
    /\ allocPoint > 0
    /\ \E lock \in LockLengths : rewardData[lock] # 0
    /\ \A lock \in LockLengths : rewardData[lock] # 0 =>
        IF lock = 0 THEN rewardData[lock] = SCALE_FACTOR ELSE rewardData[lock] >= SCALE_FACTOR
    /\ totalAllocPoint' = totalAllocPoint + allocPoint
    /\ poolInfo' = Append(poolInfo, [virtualTotalSupply |-> 0, accTribePerShare |-> 0, lastRewardBlock |-> block,
                                     allocPoint |-> allocPoint, unlocked |-> FALSE])
    /\ rewardMultipliers' = Append(rewardMultipliers, rewardData)
    /\ userInfo' = Append(userInfo, [u \in Users |-> NoUser])
    /\ depositInfo' = Append(depositInfo, [u \in Users |-> <<>>])
    /\ stakedBalance' = Append(stakedBalance, 0)
    /\ ledger' = Append(ledger, [emitted |-> 0, paid |-> 0, roundings |-> 0])
    /\ UNCHANGED <<tribePerBlock, tribeBalance>>

\* Mutation: the old points are not taken out of the total.
setKeepsOld(caller, pid, allocPoint) ==
    /\ onlyGovernorOrAdmin(caller)
    /\ totalAllocPoint' = totalAllocPoint + allocPoint
    /\ totalAllocPoint' > 0
    /\ poolInfo' = [poolInfo EXCEPT ![pid] = [updated(@) EXCEPT !.allocPoint = allocPoint]]
    /\ ledger' = entered(pid, 0, 0)
    /\ UNCHANGED <<rewardMultipliers, userInfo, depositInfo, tribePerBlock, tribeBalance, stakedBalance>>

set(caller, pid, allocPoint) ==
    /\ onlyGovernorOrAdmin(caller)
    /\ totalAllocPoint' = totalAllocPoint - poolInfo[pid].allocPoint + allocPoint
    /\ totalAllocPoint' > 0
    /\ poolInfo' = [poolInfo EXCEPT ![pid] = [updated(@) EXCEPT !.allocPoint = allocPoint]]
    /\ ledger' = entered(pid, 0, 0)
    /\ UNCHANGED <<rewardMultipliers, userInfo, depositInfo, tribePerBlock, tribeBalance, stakedBalance>>

resetRewards(caller, pid) ==
    /\ onlyGuardianOrGovernor(caller)
    /\ totalAllocPoint' = totalAllocPoint - poolInfo[pid].allocPoint
    /\ poolInfo' = [poolInfo EXCEPT ![pid] = [updated(@) EXCEPT !.allocPoint = 0, !.unlocked = TRUE]]
    /\ ledger' = entered(pid, 0, 0)
    /\ UNCHANGED <<rewardMultipliers, userInfo, depositInfo, tribePerBlock, tribeBalance, stakedBalance>>

\* updatePool, and each round of massUpdatePools.
updatePool(pid) ==
    /\ block > poolInfo[pid].lastRewardBlock
    /\ poolInfo' = [poolInfo EXCEPT ![pid] = updated(@)]
    /\ ledger' = entered(pid, 0, 0)
    /\ UNCHANGED <<rewardMultipliers, userInfo, depositInfo, rewardVars, tribeBalance, stakedBalance>>

-----------------------------------------------------------------------------
\* Mutation: a new deposit owes nothing for the past.
depositWithoutDebt(user, pid, amount, lockLength) ==
    LET multiplier == rewardMultipliers[pid][lockLength]
        delta      == virtual(amount, multiplier)
    IN  /\ ~paused
        /\ Len(depositInfo[pid][user]) < MaxDeposits
        /\ amountOf(depositInfo[pid][user], DOMAIN depositInfo[pid][user]) + amount <= Wallet
        /\ multiplier >= SCALE_FACTOR
        /\ poolInfo[pid].virtualTotalSupply + delta <= MaxWeight
        /\ depositInfo' = [depositInfo EXCEPT ![pid][user] =
                Append(@, [amount |-> amount, unlockBlock |-> lockLength + block, multiplier |-> multiplier])]
        /\ userInfo' = [userInfo EXCEPT ![pid][user].virtualAmount = @ + delta]
        /\ poolInfo' = [poolInfo EXCEPT ![pid] = [updated(@) EXCEPT !.virtualTotalSupply = @ + delta]]
        /\ stakedBalance' = [stakedBalance EXCEPT ![pid] = @ + amount]
        /\ ledger' = entered(pid, 0, 0)
        /\ UNCHANGED <<rewardMultipliers, rewardVars, tribeBalance>>

deposit(user, pid, amount, lockLength) ==
    LET multiplier == rewardMultipliers[pid][lockLength]
        delta      == virtual(amount, multiplier)
        pool       == updated(poolInfo[pid])
    IN  /\ ~paused
        /\ Len(depositInfo[pid][user]) < MaxDeposits
        /\ amountOf(depositInfo[pid][user], DOMAIN depositInfo[pid][user]) + amount <= Wallet
        /\ multiplier >= SCALE_FACTOR
        /\ poolInfo[pid].virtualTotalSupply + delta <= MaxWeight
        /\ depositInfo' = [depositInfo EXCEPT ![pid][user] =
                Append(@, [amount |-> amount, unlockBlock |-> lockLength + block, multiplier |-> multiplier])]
        /\ userInfo' = [userInfo EXCEPT ![pid][user] =
                [virtualAmount |-> @.virtualAmount + delta, rewardDebt |-> @.rewardDebt + accumulated(pool, delta)]]
        /\ poolInfo' = [poolInfo EXCEPT ![pid] = [pool EXCEPT !.virtualTotalSupply = @ + delta]]
        /\ stakedBalance' = [stakedBalance EXCEPT ![pid] = @ + amount]
        /\ ledger[pid].roundings + rounded(pool, delta) <= MaxRoundings
        /\ ledger' = entered(pid, 0, rounded(pool, delta))
        /\ UNCHANGED <<rewardMultipliers, rewardVars, tribeBalance>>

\* _harvest pays what has accumulated beyond the debt.  Both its assertions say that
\* this is not negative; when it is, the call reverts.
pendingTribe(pid, user) ==
    accumulated(updated(poolInfo[pid]), userInfo[pid][user].virtualAmount) - userInfo[pid][user].rewardDebt

harvestable(pid, user) == pendingTribe(pid, user) \in 0..tribeBalance

harvest(user, pid) ==
    /\ harvestable(pid, user)
    /\ poolInfo' = [poolInfo EXCEPT ![pid] = updated(@)]
    /\ userInfo' = [userInfo EXCEPT ![pid][user].rewardDebt = @ + pendingTribe(pid, user)]
    /\ tribeBalance' = tribeBalance - pendingTribe(pid, user)
    /\ ledger' = entered(pid, pendingTribe(pid, user), 0)
    /\ UNCHANGED <<rewardMultipliers, depositInfo, rewardVars, stakedBalance>>

\* Mutation: all deposits are forgotten as soon as one could be withdrawn.
withdrawAllDeletesLocked(user, pid) ==
    LET pool     == updated(poolInfo[pid])
        deps     == depositInfo[pid][user]
        free     == {i \in DOMAIN deps : unlocked(pool, deps[i])}
    IN  /\ harvestable(pid, user)
        /\ free # {}
        /\ virtualOf(deps, free) <= pool.virtualTotalSupply
        /\ depositInfo' = [depositInfo EXCEPT ![pid][user] = <<>>]
        /\ userInfo' = [userInfo EXCEPT ![pid][user] = NoUser]
        /\ poolInfo' = [poolInfo EXCEPT ![pid] = [pool EXCEPT !.virtualTotalSupply = @ - virtualOf(deps, free)]]
        /\ tribeBalance' = tribeBalance - pendingTribe(pid, user)
        /\ stakedBalance' = [stakedBalance EXCEPT ![pid] = @ - amountOf(deps, free)]
        /\ ledger' = entered(pid, pendingTribe(pid, user), 0)
        /\ UNCHANGED <<rewardMultipliers, rewardVars>>

\* Locked deposits are skipped; without any the user's records are deleted.
withdrawAllAndHarvest(user, pid) ==
    LET pool     == updated(poolInfo[pid])
        deps     == depositInfo[pid][user]
        free     == {i \in DOMAIN deps : unlocked(pool, deps[i])}
        all      == free = DOMAIN deps
        left     == userInfo[pid][user].virtualAmount - virtualOf(deps, free)
        kept     == IF all THEN 0 ELSE rounded(pool, left)
        emptied  == [amount |-> 0, unlockBlock |-> 0, multiplier |-> 0]
    IN  /\ harvestable(pid, user)
        /\ virtualOf(deps, free) <= pool.virtualTotalSupply
        /\ amountOf(deps, free) <= stakedBalance[pid]
        /\ IF all
           THEN /\ depositInfo' = [depositInfo EXCEPT ![pid][user] = <<>>]
                /\ userInfo' = [userInfo EXCEPT ![pid][user] = NoUser]
           ELSE /\ left >= 0
                /\ depositInfo' = [depositInfo EXCEPT ![pid][user] = [i \in DOMAIN @ |-> IF i \in free THEN emptied ELSE @[i]]]
                /\ userInfo' = [userInfo EXCEPT ![pid][user] =
                        [virtualAmount |-> left, rewardDebt |-> accumulated(pool, left)]]
        /\ poolInfo' = [poolInfo EXCEPT ![pid] = [pool EXCEPT !.virtualTotalSupply = @ - virtualOf(deps, free)]]
        /\ tribeBalance' = tribeBalance - pendingTribe(pid, user)
        /\ stakedBalance' = [stakedBalance EXCEPT ![pid] = @ - amountOf(deps, free)]
        /\ ledger[pid].roundings + kept <= MaxRoundings
        /\ ledger' = entered(pid, pendingTribe(pid, user), kept)
        /\ UNCHANGED <<rewardMultipliers, rewardVars>>

\* Mutation: the deposit keeps its amount.
withdrawKeepsDeposit(user, pid, amount, index) ==
    LET dep   == depositInfo[pid][user][index]
        pool  == updated(poolInfo[pid])
        delta == virtual(amount, dep.multiplier)
    IN  /\ unlocked(pool, dep)
        /\ amount <= dep.amount
        /\ delta <= userInfo[pid][user].virtualAmount
        /\ amount <= stakedBalance[pid]
        /\ userInfo' = [userInfo EXCEPT ![pid][user] =
                [virtualAmount |-> @.virtualAmount - delta, rewardDebt |-> @.rewardDebt - accumulated(pool, delta)]]
        /\ poolInfo' = [poolInfo EXCEPT ![pid] = [pool EXCEPT !.virtualTotalSupply = @ - delta]]
        /\ stakedBalance' = [stakedBalance EXCEPT ![pid] = @ - amount]
        /\ ledger' = entered(pid, 0, 0)
        /\ UNCHANGED <<rewardMultipliers, depositInfo, rewardVars, tribeBalance>>

\* The part of a deposit is weighed on its own, so that parts weigh less than the whole.
withdrawFromDeposit(user, pid, amount, index) ==
    LET dep   == depositInfo[pid][user][index]
        pool  == updated(poolInfo[pid])
        delta == virtual(amount, dep.multiplier)
    IN  /\ unlocked(pool, dep)
        /\ amount <= dep.amount
        /\ delta <= userInfo[pid][user].virtualAmount
        /\ delta <= pool.virtualTotalSupply
        /\ amount <= stakedBalance[pid]
        /\ depositInfo' = [depositInfo EXCEPT ![pid][user][index].amount = @ - amount]
        /\ userInfo' = [userInfo EXCEPT ![pid][user] =
                [virtualAmount |-> @.virtualAmount - delta, rewardDebt |-> @.rewardDebt - accumulated(pool, delta)]]
        /\ poolInfo' = [poolInfo EXCEPT ![pid] = [pool EXCEPT !.virtualTotalSupply = @ - delta]]
        /\ stakedBalance' = [stakedBalance EXCEPT ![pid] = @ - amount]
        /\ ledger' = entered(pid, 0, 0)
        /\ UNCHANGED <<rewardMultipliers, rewardVars, tribeBalance>>

emergencyWithdraw(user, pid) ==
    LET pool == updated(poolInfo[pid])
        deps == depositInfo[pid][user]
    IN  /\ \A i \in DOMAIN deps : unlocked(pool, deps[i])
        /\ virtualOf(deps, DOMAIN deps) <= pool.virtualTotalSupply
        /\ amountOf(deps, DOMAIN deps) <= stakedBalance[pid]
        /\ poolInfo' = [poolInfo EXCEPT ![pid] = [pool EXCEPT !.virtualTotalSupply = @ - virtualOf(deps, DOMAIN deps)]]
        /\ depositInfo' = [depositInfo EXCEPT ![pid][user] = <<>>]
        /\ userInfo' = [userInfo EXCEPT ![pid][user] = NoUser]
        /\ stakedBalance' = [stakedBalance EXCEPT ![pid] = @ - amountOf(deps, DOMAIN deps)]
        /\ ledger' = entered(pid, 0, 0)
        /\ UNCHANGED <<rewardMultipliers, rewardVars, tribeBalance>>

-----------------------------------------------------------------------------
StakerStep(user, pid) ==
    \/ \E amount \in Amounts, lock \in LockLengths : deposit(user, pid, amount, lock)
    \/ \E amount \in Amounts, index \in DOMAIN depositInfo[pid][user] : withdrawFromDeposit(user, pid, amount, index)
    \/ harvest(user, pid)
    \/ withdrawAllAndHarvest(user, pid)
    \/ emergencyWithdraw(user, pid)

PoolGovernance(caller, pid) ==
    \/ \E flag \in BOOLEAN : setUnlocked(caller, pid, flag)
    \/ \E lock \in LockLengths, multiplier \in Multipliers : governorAddPoolMultiplier(caller, pid, lock, multiplier)
    \/ \E points \in AllocPoints : set(caller, pid, points)
    \/ resetRewards(caller, pid)

ChiefGovernance(caller) ==
    \/ \E points \in AllocPoints, data \in [LockLengths -> Multipliers] : add(caller, points, data)
    \/ \E reward \in BlockRewards : updateBlockReward(caller, reward)
    \/ \E amount \in Amounts : governorWithdrawTribe(caller, amount)

AdvanceBlock == block < MaxBlock /\ block' = block + 1

TCNext ==
    \/ /\ \/ \E pid \in pids : updatePool(pid) \/ \E user \in Users : StakerStep(user, pid)
          \/ \E caller \in Actors : ChiefGovernance(caller) \/ \E pid \in pids : PoolGovernance(caller, pid)
       /\ UNCHANGED <<block, coreRefVars>>
    \/ \E caller \in Actors : CoreRefStep(caller) /\ UNCHANGED <<block, chiefVars>>
    \/ AdvanceBlock /\ UNCHANGED <<chiefVars, coreRefVars>>

TCSpec == TCInit /\ [][TCNext]_vars

-----------------------------------------------------------------------------
\* "Must be the sum of all allocation points in all pools" (totalAllocPoint), through
\* every order of add, set and resetRewards.
AllocPointsSum == totalAllocPoint = SumFunction([pid \in pids |-> poolInfo[pid].allocPoint])

\* The weight of a pool covers the weights of its users, and the weight of a user
\* covers those of the deposits, however deposits are taken apart: otherwise a
\* withdrawal would underflow and the stake be stuck.
WeightsCovered ==
    \A pid \in pids :
        /\ poolInfo[pid].virtualTotalSupply >= SumFunction([u \in Users |-> userInfo[pid][u].virtualAmount])
        /\ \A user \in Users : userInfo[pid][user].virtualAmount >= virtualOf(depositInfo[pid][user], DOMAIN depositInfo[pid][user])

\* A user whose deposits are unlocked always gets the whole stake back, paused or
\* not, with rewards left to pay or not (emergencyWithdraw).
StakeReturnable ==
    \A pid \in pids, user \in Users :
        (\A i \in DOMAIN depositInfo[pid][user] : unlocked(poolInfo[pid], depositInfo[pid][user][i]))
            => ENABLED emergencyWithdraw(user, pid)

\* The staked tokens of a pool are exactly what its deposits record.
StakesHeld ==
    \A pid \in pids : stakedBalance[pid] =
        SumFunction([u \in Users |-> amountOf(depositInfo[pid][u], DOMAIN depositInfo[pid][u])])

\* What was paid and what is promised never exceed what updatePool credited, but for
\* one unit for every debt that was rounded down on its own.
RewardsCovered ==
    \A pid \in pids :
        ledger[pid].paid
            + SumFunction([u \in Users |-> accumulated(poolInfo[pid], userInfo[pid][u].virtualAmount)
                                                - userInfo[pid][u].rewardDebt])
        <= ledger[pid].emitted + ledger[pid].roundings

\* No step takes anything from a deposit that is locked, its own user's withdrawal of
\* other deposits included (withdrawAllAndHarvest).
LockedStaysPut ==
    [][\A pid \in pids, user \in Users : \A i \in DOMAIN depositInfo[pid][user] :
        ~unlocked(poolInfo[pid], depositInfo[pid][user][i])
            => /\ i \in DOMAIN depositInfo'[pid][user]
               /\ depositInfo'[pid][user][i] = depositInfo[pid][user][i]]_vars

\* "this should never happen": the debt of a user exceeds what has accumulated, so
\* that harvest fails its assertion (_harvest).
HarvestAssertionHolds == \A pid \in pids, user \in Users : pendingTribe(pid, user) >= 0
=============================================================================
