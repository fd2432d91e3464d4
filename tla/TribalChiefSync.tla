---------------------------- MODULE TribalChiefSync ----------------------------
(***************************************************************************)
(* staking/TribalChiefSyncV2.sol over TribalChief.tla and one of the       *)
(* fuse/rewards/AutoRewardsDistributor contracts.  Whoever calls it has    *)
(* every pool updated, then the reward or a pool changed, then the speed   *)
(* of the distributor derived anew, in one transaction; if the speed comes *)
(* out the same, the distributor and with it everything reverts.           *)
(*                                                                         *)
(* The distributor hands out what the first pool earns: its only staker is *)
(* a StakingTokenWrapper, which was initialised and never withdraws.  All  *)
(* changes of rewards and pools go through this contract here.             *)
(***************************************************************************)
EXTENDS TribalChief, SequencesExt

CONSTANTS
    sync, timelock,         \* the addresses of this contract and of the timelock it may execute
    rewards, timestamps,    \* of the constructor: each reward, and the time after which it may become active
    Scheduled               \* sets of calls whose delay in the timelock is over

\* What the constructor requires.
ASSUME SyncAssumption ==
    /\ rewards \in Seq(Nat) /\ timestamps \in Seq(Nat)
    /\ Len(rewards) = Len(timestamps)
    /\ \A i, j \in DOMAIN rewards : i < j => rewards[i] > rewards[j] /\ timestamps[i] < timestamps[j]

VARIABLES
    rewardsArray,       \* the rewards of the schedule still to come, the next one last
    ready,              \* what the timelock would execute
    speed,              \* compSupplySpeeds or compBorrowSpeeds of the distributor
    distributorPaused,
    due,                \* history, per pool: what each block was worth at the reward of that block
    handedOut           \* history: what the distributor has handed out

syncVars == <<rewardsArray, ready, speed, distributorPaused, due, handedOut>>
stakeVars == <<userInfo, depositInfo, tribeBalance, stakedBalance>>

wrapperPid == 1

\* The mapping that the constructor fills: reward -> timestamp.
rewardsSchedule(reward) == timestamps[CHOOSE i \in DOMAIN rewards : rewards[i] = reward]

\* _deriveRequiredCompSpeed
requiredCompSpeed ==
    IF totalAllocPoint = 0 THEN 0 ELSE (tribePerBlock * poolInfo[wrapperPid].allocPoint) \div totalAllocPoint

\* setAutoRewardsDistribution, on the state that the rest of the call leaves.
setAutoRewardsDistribution ==
    /\ ~distributorPaused
    /\ speed # requiredCompSpeed'
    /\ speed' = requiredCompSpeed'

\* Mutation: the loop ends one early.
allButLast == pids \ {Len(poolInfo)}

\* The pids that the modifier collects.
allPids == pids

\* massUpdatePools of these, and what it enters into the history.
massUpdated == [pid \in pids |-> IF pid \in allPids THEN updated(poolInfo[pid]) ELSE poolInfo[pid]]

massEntered ==
    [pid \in pids |-> IF pid \in allPids
                      THEN [ledger[pid] EXCEPT !.emitted = @ + tribeReward(poolInfo[pid])]
                      ELSE ledger[pid]]

-----------------------------------------------------------------------------
SyncInit ==
    /\ block = 1
    /\ poolInfo = <<[virtualTotalSupply |-> 1, accTribePerShare |-> 0, lastRewardBlock |-> 1,
                     allocPoint |-> 1, unlocked |-> FALSE]>>
    /\ rewardMultipliers = <<[lock \in LockLengths |-> SCALE_FACTOR]>>
    /\ \E wrapper \in Users :
        /\ userInfo = <<[u \in Users |-> IF u = wrapper THEN [rewardDebt |-> 0, virtualAmount |-> 1] ELSE NoUser]>>
        /\ depositInfo = <<[u \in Users |-> IF u = wrapper
                            THEN <<[amount |-> 1, unlockBlock |-> 1, multiplier |-> SCALE_FACTOR]>> ELSE <<>>]>>
    /\ totalAllocPoint = 1
    /\ tribePerBlock = InitialBlockReward
    /\ tribeBalance = Funding
    /\ stakedBalance = <<1>>
    /\ ledger = <<[emitted |-> 0, paid |-> 0, roundings |-> 0]>>
    /\ paused = FALSE
    /\ contractAdminRole = "TRIBAL_CHIEF_ADMIN_ROLE"
    /\ rewardsArray = Reverse(rewards)
    /\ ready \in Scheduled
    /\ speed = InitialBlockReward
    /\ distributorPaused = FALSE
    /\ due = <<0>>
    /\ handedOut = 0

isRewardDecreaseAvailable == rewardsArray # <<>> /\ rewardsSchedule(Last(rewardsArray)) < block

\* TribalChief.updateBlockReward, called by caller after the update of all pools.
newBlockReward(caller, reward) ==
    /\ onlyGovernorOrAdmin(caller)
    /\ isContractAdmin(caller) => reward < tribePerBlock
    /\ tribePerBlock' = reward
    /\ poolInfo' = massUpdated
    /\ ledger' = massEntered
    /\ UNCHANGED <<totalAllocPoint, rewardMultipliers, stakeVars, distributorPaused, due, handedOut>>
    /\ setAutoRewardsDistribution

autoDecreaseRewards ==
    /\ isRewardDecreaseAvailable
    /\ newBlockReward(sync, Last(rewardsArray))
    /\ rewardsArray' = Front(rewardsArray)
    /\ UNCHANGED ready

\* timelock.execute: what is executed is done.
executes(call) ==
    /\ call \in ready
    /\ ready' = ready \ {call}
    /\ UNCHANGED rewardsArray

decreaseRewards(reward) ==
    /\ executes([reward |-> reward])
    /\ newBlockReward(timelock, reward)

\* TribalChief.add
addPool(allocPoint) ==
    /\ executes([add |-> allocPoint])
    /\ onlyGovernorOrAdmin(timelock)
    /\ Len(poolInfo) < MaxPools
    /\ allocPoint > 0
    /\ totalAllocPoint' = totalAllocPoint + allocPoint
    /\ poolInfo' = Append(massUpdated, [virtualTotalSupply |-> 0, accTribePerShare |-> 0, lastRewardBlock |-> block,
                                        allocPoint |-> allocPoint, unlocked |-> FALSE])
    /\ rewardMultipliers' = Append(rewardMultipliers, [lock \in LockLengths |-> SCALE_FACTOR])
    /\ userInfo' = Append(userInfo, [u \in Users |-> NoUser])
    /\ depositInfo' = Append(depositInfo, [u \in Users |-> <<>>])
    /\ stakedBalance' = Append(stakedBalance, 0)
    /\ ledger' = Append(massEntered, [emitted |-> 0, paid |-> 0, roundings |-> 0])
    /\ due' = Append(due, 0)
    /\ UNCHANGED <<tribePerBlock, tribeBalance, distributorPaused, handedOut>>
    /\ setAutoRewardsDistribution

\* TribalChief.set and TribalChief.resetRewards
changePool(pid, allocPoint, unlock) ==
    /\ totalAllocPoint' = totalAllocPoint - poolInfo[pid].allocPoint + allocPoint
    /\ poolInfo' = [massUpdated EXCEPT ![pid].allocPoint = allocPoint, ![pid].unlocked = @ \/ unlock]
    /\ ledger' = massEntered
    /\ UNCHANGED <<tribePerBlock, rewardMultipliers, stakeVars, distributorPaused, due, handedOut>>
    /\ setAutoRewardsDistribution

setPool(pid, allocPoint) ==
    /\ executes([set |-> pid, points |-> allocPoint])
    /\ onlyGovernorOrAdmin(timelock)
    /\ changePool(pid, allocPoint, FALSE)
    /\ totalAllocPoint' > 0

resetPool(pid) ==
    /\ executes([reset |-> pid])
    /\ onlyGuardianOrGovernor(timelock)
    /\ changePool(pid, 0, TRUE)

\* The guardian or a governor pauses and unpauses the distributor.
setDistributorPaused(flag) ==
    /\ distributorPaused # flag
    /\ distributorPaused' = flag
    /\ UNCHANGED <<chiefVars, rewardsArray, ready, speed, due, handedOut>>

\* Everything else that happens to the pools: users, and updates by anybody.  In its own
\* pool the wrapper only harvests.
PoolStep ==
    /\ \/ \E pid \in pids : updatePool(pid)
       \/ \E user \in Users : harvest(user, wrapperPid)
       \/ \E user \in Users, pid \in pids \ {wrapperPid} : StakerStep(user, pid)
    /\ UNCHANGED syncVars

\* What a block is worth to a pool with stakers.
worth(pid) ==
    IF poolInfo[pid].virtualTotalSupply > 0 /\ totalAllocPoint # 0
    THEN (tribePerBlock * poolInfo[pid].allocPoint) \div totalAllocPoint
    ELSE 0

NextBlock ==
    /\ AdvanceBlock
    /\ due' = [pid \in pids |-> due[pid] + worth(pid)]
    /\ handedOut' = handedOut + speed
    /\ UNCHANGED <<chiefVars, rewardsArray, ready, speed, distributorPaused>>

SyncNext ==
    /\ \/ /\ \/ autoDecreaseRewards
             \/ \E reward \in BlockRewards : decreaseRewards(reward)
             \/ \E points \in AllocPoints : addPool(points) \/ \E pid \in pids : setPool(pid, points)
             \/ \E pid \in pids : resetPool(pid)
             \/ \E flag \in BOOLEAN : setDistributorPaused(flag)
             \/ PoolStep
          /\ UNCHANGED block
       \/ NextBlock
    /\ UNCHANGED coreRefVars

SyncSpec == SyncInit /\ [][SyncNext]_<<vars, syncVars>>

-----------------------------------------------------------------------------
\* What a pool has been credited, and would be by an update now.
credited(pid) == ledger[pid].emitted + tribeReward(poolInfo[pid])

\* Every pool is credited, for each block in which somebody staked in it, its share of the
\* reward of that very block, whenever it is updated: no change of the reward or of
\* another pool re-prices blocks that are past (the update modifier).  An update divides
\* once for all of its blocks and so credits less than one unit a block beside that.
CreditedAtItsRate == \A pid \in DOMAIN due : credited(pid) - due[pid] \in 0..(block - 1)

\* The distributor never hands out more than the pool behind it earns.
DistributorCovered == wrapperPid \in DOMAIN due => handedOut <= credited(wrapperPid)

\* Both, through every order of scheduled decreases, calls of the timelock, pauses of the
\* distributor, stakes and blocks.
RewardsInStep == CreditedAtItsRate /\ DistributorCovered
=============================================================================
