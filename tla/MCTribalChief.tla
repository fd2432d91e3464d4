---------------------------- MODULE MCTribalChief ----------------------------
(***************************************************************************)
(* Three situations.  One pool, two interchangeable users and an admin who   *)
(* does little; or two pools, one user who stakes, and everybody who has a *)
(* role: allocation points, block rewards, multipliers and pauses change   *)
(* under the user's deposits.  Or all of that goes through the             *)
(* synchronisation, with a schedule of two decreases.                      *)
(***************************************************************************)
EXTENDS TribalChiefSync, TLC

AdminOnly == [role \in TribeRoles |-> IF role = "TRIBAL_CHIEF_ADMIN_ROLE" THEN {"admin"} ELSE {}]

ChiefRoles == [role \in TribeRoles |->
    CASE role \in {"GOVERNOR", "GUARDIAN"} -> {"governor"}
      [] role = "TRIBAL_CHIEF_ADMIN_ROLE"    -> {"admin"}
      [] OTHER                               -> {}]

UserSymmetry == Permutations(Users)

Governed == INSTANCE TribalChief WITH
    Actors <- {"governor", "admin"}, roleMembers <- ChiefRoles,
    Multipliers <- {0, 3}, AllocPoints <- {0, 1}, BlockRewards <- {1}, Amounts <- {1},
    InitialBlockReward <- 2, Funding <- 1, Wallet <- 1,
    MaxPools <- 2, MaxDeposits <- 1, MaxBlock <- 2, MaxRoundings <- 1, MaxWeight <- 2

SyncRoles == [role \in TribeRoles |->
    CASE role = "TRIBAL_CHIEF_ADMIN_ROLE" -> {sync, timelock}
      [] role = "GUARDIAN"                -> {timelock}
      [] OTHER                            -> {}]

\* The contract was deployed before the first block here, in which the first decrease is due.
\* The rewards leave remainders at the shares of a quarter and three quarters.
TwoRewards == <<81, 41>>
TwoTimestamps == <<0, 1>>

\* The addition of a pool and one more call.
OneChange == {{[add |-> 1], change} : change \in
    {[reward |-> 41], [set |-> 1, points |-> 0], [set |-> 2, points |-> 3], [reset |-> 1], [reset |-> 2]}}

Synced == INSTANCE TribalChiefSync WITH
    Actors <- {sync, timelock}, roleMembers <- SyncRoles,
    LockLengths <- {0}, AllocPoints <- {0, 1, 3}, BlockRewards <- {41}, Amounts <- {1},
    InitialBlockReward <- 121, Funding <- 0, Wallet <- 1,
    MaxPools <- 2, MaxDeposits <- 1, MaxBlock <- 3, MaxRoundings <- 1, MaxWeight <- 2

NoSync ==
    /\ rewardsArray = <<>> /\ ready = {} /\ speed = 0 /\ distributorPaused = FALSE
    /\ due = <<>> /\ handedOut = 0

VARIABLE situation

MCInit ==
    \/ situation = "staked" /\ TCInit /\ NoSync
    \/ situation = "governed" /\ Governed!TCInit /\ NoSync
    \/ situation = "synced" /\ Synced!SyncInit

MCNext ==
    /\ situation' = situation
    /\ \/ situation = "staked" /\ TCNext /\ UNCHANGED syncVars
       \/ situation = "governed" /\ Governed!TCNext /\ UNCHANGED syncVars
       \/ situation = "synced" /\ Synced!SyncNext

MCSpec == MCInit /\ [][MCNext]_<<vars, situation, syncVars>>

\* Bound for the second and the third situation: one user stakes, in one pool at a time,
\* beside the wrapper.
OneStaker ==
    situation # "staked" =>
        Cardinality({<<pid, user>> \in pids \X Users : depositInfo[pid][user] # <<>>})
            <= IF situation = "synced" THEN 2 ELSE 1
=============================================================================
