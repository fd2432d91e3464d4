--------------------------- MODULE ProtocolWorld ---------------------------
(***************************************************************************)
(* The deployed protocol as a proposal meets it: who holds which role, who *)
(* may change a role, which deposits are counted, which addresses are      *)
(* safe, what is paused, who owns the timelocks.  A call is checked        *)
(* against the access rule of its function, then changes this world;       *)
(* amounts, prices and balances are abstracted away, so a call that moves  *)
(* tokens keeps its access rule and its pause check only.                  *)
(***************************************************************************)
EXTENDS Naturals, Sequences, FiniteSets, TLC

MajorRoles == {"GOVERN_ROLE", "MINTER_ROLE", "BURNER_ROLE",
               "PCV_CONTROLLER_ROLE", "GUARDIAN_ROLE"}

(***************************************************************************)
(* Reading the world.  Core is one of four registers of roles; the two     *)
(* optimistic timelocks and the rewards admin keep their own.              *)
(***************************************************************************)
HasRole(w, role, who) == <<"core", role, who>> \in w.roles

\* The admin role of a contract: GOVERN_ROLE unless its constructor or a call says else.
AdminRole(w, c) == IF c \in DOMAIN w.contractAdmin
                   THEN w.contractAdmin[c] ELSE "GOVERN_ROLE"

\* The admin of a role: nobody holds the default admin of a role never created.
RoleAdmin(w, role) == IF role \in DOMAIN w.roleAdmin
                      THEN w.roleAdmin[role] ELSE "DEFAULT_ADMIN_ROLE"

RegisterAdmin(reg) == IF reg = "rewardsDistributorAdmin"
                      THEN "DEFAULT_ADMIN_ROLE" ELSE "TIMELOCK_ADMIN_ROLE"

Paused(w, c) == <<c, "all">> \in w.paused

(***************************************************************************)
(* The calls of a proposal.                                                *)
(***************************************************************************)
Call(to, fn)            == [fn |-> fn, to |-> to]
CreateRole(role, admin) == [fn |-> "createRole", to |-> "core", role |-> role, admin |-> admin]
Grant(role, who)        == [fn |-> "grantRole", to |-> "core", role |-> role, who |-> who]
Revoke(role, who)       == [fn |-> "revokeRole", to |-> "core", role |-> role, who |-> who]
GrantIn(reg, role, who) == [Grant(role, who) EXCEPT !.to = reg]
RevokeIn(reg, role, who) == [Revoke(role, who) EXCEPT !.to = reg]
SetContractAdminRole(c, role) == [fn |-> "setContractAdminRole", to |-> c, role |-> role]
OracleCall(fn, S)       == [fn |-> fn, to |-> "collateralizationOracle", deposits |-> S]
AddDeposits(S)          == OracleCall("addDeposits", S)
RemoveDeposits(S)       == OracleCall("removeDeposits", S)
SwapDeposit(old, new)   == [fn |-> "swapDeposit", to |-> "collateralizationOracle", old |-> old, new |-> new]
SetOracles(T)           == [fn |-> "setOracles", to |-> "collateralizationOracle", oracles |-> T]
SetSafe(g, S)           == [fn |-> "setSafeAddresses", to |-> g, addresses |-> S]
UnsetSafe(g, S)         == [fn |-> "unsetSafeAddresses", to |-> g, addresses |-> S]
SafeMove(g, from, safe) == [fn |-> "withdrawToSafeAddress", to |-> g, from |-> from, safe |-> safe]
RatioMove(ctl, from)      == [fn |-> "withdrawRatio", to |-> ctl, from |-> from]
RatioMoveERC20(ctl, from) == [fn |-> "withdrawRatioERC20", to |-> ctl, from |-> from]
AddPool(token)          == [fn |-> "add", to |-> "tribalChief", token |-> token]
SetPool(pid, rewarded)  == [fn |-> "set", to |-> "tribalChief", pid |-> pid, rewarded |-> rewarded]
InitWrapper(c, pid)     == [fn |-> "initWrapper", to |-> c, pid |-> pid]
RemoveStatic(i)         == [fn |-> "removeStatic", to |-> "namedStaticPCVDepositWrapper", index |-> i]
SetPendingAdmin(c, who) == [fn |-> "setPendingAdmin", to |-> c, who |-> who]
AcceptAdmin(c)          == [fn |-> "acceptAdmin", to |-> c]
TransferOwnership(c, who) == [fn |-> "transferOwnership", to |-> c, who |-> who]
UpdateTimelock(t)       == [TransferOwnership("feiDAO", t) EXCEPT !.fn = "updateTimelock"]

(***************************************************************************)
(* Access rules: the roles of Core of which the caller must hold one.      *)
(***************************************************************************)
GovernorCalls ==
  {"createRole", "setContractAdminRole", "allocateTribe", "setTarget", "setSource",
   "setCollateralizationOracle", "setIncentiveAmount", "setDoInvert", "forceSwap",
   "governorWithdrawTribe", "_grantComp", "unlockLiquidity", "redeemLiquidity",
   "setVotingPeriod", "setCore"}

GovernorOrAdminCalls ==
  {"addDeposits", "removeDeposits", "swapDeposit", "setOracles", "add", "set",
   "updateBlockReward", "setRedeemFee", "setMintFee", "setReservesThreshold",
   "setSurplusTarget", "setBackupOracle", "setReceivingAddress", "setSwapFrequency",
   "requestWithdrawal", "setUsdPerFeiRate"}

GovernorGuardianOrAdminCalls ==
  {"pauseRedeem", "pauseMint", "removeStatic", "_setBorrowPausedByUnderlying",
   "_setMarketSupplyCapsByUnderlying"}

ControllerCalls == {"withdraw", "withdrawETH", "withdrawERC20", "exitPool", "mintAgToken",
                    "withdrawRatio", "withdrawRatioERC20", "transferFromRatio"}

GaugeCalls == {"setTokenToGauge", "stakeInGauge", "stakeAllInGauge", "unstakeFromGauge"}

LBPSwappers == {"feiTribeLBPSwapper", "noFeeFeiTribeLBPSwapper", "ethToDaiLBPSwapper"}

\* Lending pools, vaults and other contracts of third parties.
ThirdParties == {"bentoBox", "hypervisor"}

RolesFor(w, c) ==
  LET gov   == "GOVERN_ROLE"
      admin == AdminRole(w, c.to)
  IN  CASE \/ c.to \in ThirdParties
          \/ (c.to = "delayedPCVMoverWethUniToBal" /\ c.fn = "withdrawRatio") -> {}
        [] c.fn \in GovernorCalls -> {gov}
        [] c.fn \in GovernorOrAdminCalls -> {gov, admin}
        [] c.to = "fuseAdmin" \/ (c.fn = "swap" /\ c.to \in LBPSwappers) -> {gov, admin}
        [] c.fn = "becomeAdmin" -> IF c.to = "optimisticTimelock"
                                   THEN {gov, "GUARDIAN_ROLE"} ELSE {gov, admin}
        [] c.fn \in GovernorGuardianOrAdminCalls -> {gov, "GUARDIAN_ROLE", admin}
        [] c.fn \in {"pause", "unpause", "knight"} -> {gov, "GUARDIAN_ROLE"}
        [] c.fn = "mint" -> {"MINTER_ROLE"}
        [] c.fn \in ControllerCalls -> {"PCV_CONTROLLER_ROLE"}
        [] c.fn = "setSafeAddresses" -> {gov, "PCV_GUARDIAN_ADMIN_ROLE"}
        [] c.fn = "unsetSafeAddresses" -> {gov, "PCV_GUARDIAN_ADMIN_ROLE", "GUARDIAN_ROLE"}
        [] c.fn \in {"withdrawToSafeAddress", "setWithdrawInfo", "redeemAgEurToDai"} ->
             {gov, "PCV_SAFE_MOVER_ROLE", "GUARDIAN_ROLE"}
        [] c.fn \in {"voteForGaugeWeight", "setDelegate"} -> {"METAGOVERNANCE_VOTE_ADMIN"}
        [] c.fn \in GaugeCalls -> {"METAGOVERNANCE_GAUGE_ADMIN"}
        [] c.fn = "lock" -> {"METAGOVERNANCE_TOKEN_STAKING"}
        [] c.to = "podAdminGateway" -> {gov, "POD_ADMIN"}
        [] OTHER -> {}

Admits(w, by, c) == LET R == RolesFor(w, c)
                    IN  R = {} \/ \E role \in R : HasRole(w, role, by)

(***************************************************************************)
(* One operator per function that changes the world: the worlds a call may *)
(* lead to, none when it reverts.                                          *)
(***************************************************************************)
When(guard, next) == IF guard THEN {next} ELSE {}

\* A mapping with one more entry, or another value for it.
With(f, x, y) == [z \in DOMAIN f \cup {x} |-> IF z = x THEN y ELSE f[z]]

CreateRoleOf(w, c) == {[w EXCEPT !.roleAdmin = With(@, c.role, c.admin)]}

\* Whoever holds the admin role of a role grants and revokes it; a timelock administers itself.
Administers(w, by, c) ==
  IF c.to = "core" THEN HasRole(w, RoleAdmin(w, c.role), by)
  ELSE by = c.to \/ <<c.to, RegisterAdmin(c.to), by>> \in w.roles

GrantRole(w, by, c) ==
  When(Administers(w, by, c), [w EXCEPT !.roles = @ \cup {<<c.to, c.role, c.who>>}])

RevokeRole(w, by, c) ==
  When(Administers(w, by, c), [w EXCEPT !.roles = @ \ {<<c.to, c.role, c.who>>}])

BecomeAdmin(w, by, c) == {[w EXCEPT !.roles = @ \cup {<<c.to, RegisterAdmin(c.to), by>>}]}

SetContractAdmin(w, c) == {[w EXCEPT !.contractAdmin = With(@, c.to, c.role)]}

\* An oracle named for a token replaces the one it had.
ReadOracles(w, c) == {[w EXCEPT !.oracleOf = c.oracles @@ @]}

\* A deposit is counted once, under the token it reports in, which has an oracle.
CountDeposits(w, S) ==
  When(/\ S \cap w.counted = {}
       /\ \A d \in S : d \in DOMAIN w.reportedIn /\ w.reportedIn[d] \in DOMAIN w.oracleOf,
       [w EXCEPT !.counted = @ \cup S])

DropDeposits(w, S) == When(S \subseteq w.counted, [w EXCEPT !.counted = @ \ S])

ReplaceDeposit(w, c) == UNION {CountDeposits(v, {c.new}) : v \in DropDeposits(w, {c.old})}

\* Both directions are strict: a safe address cannot be set twice nor unset twice.
MakeSafe(w, c) == LET new == {c.to} \X c.addresses
                  IN  When(new \cap w.safe = {}, [w EXCEPT !.safe = @ \cup new])

MakeUnsafe(w, c) == LET old == {c.to} \X c.addresses
                    IN  When(old \subseteq w.safe, [w EXCEPT !.safe = @ \ old])

\* Deposits whose withdrawal goes through while they are paused.
PauseExempt == {"aaveEthPCVDeposit", "aaveRaiPCVDeposit", "bammDeposit", "ethPSM", "daiPSM",
                "daiFixedPricePSM", "lusdPSM", "raiPriceBoundPSM"}

\* A guardian contract unpauses the deposit it empties: it then stays unpaused.
MoveToSafety(w, c) ==
  When(/\ <<c.to, c.safe>> \in w.safe
       /\ HasRole(w, "PCV_CONTROLLER_ROLE", c.to)
       /\ Paused(w, c.from) => HasRole(w, "GUARDIAN_ROLE", c.to),
       [w EXCEPT !.paused = @ \ {<<c.from, "all">>}])

MoveRatio(w, c) ==
  When(/\ HasRole(w, "PCV_CONTROLLER_ROLE", c.to)
       /\ ~Paused(w, c.to)
       /\ c.fn = "withdrawRatioERC20" \/ c.from \in PauseExempt \/ ~Paused(w, c.from), w)

\* The one-shot mover empties the deposit and gives up its own role.
MoveOnce(w, c) ==
  When(HasRole(w, "PCV_CONTROLLER_ROLE", c.to) /\ ~Paused(w, c.to),
       [w EXCEPT !.roles = @ \ {<<"core", "PCV_CONTROLLER_ROLE", c.to>>}])

PauseOf(w, c, what) == When(<<c.to, what>> \notin w.paused,
                            [w EXCEPT !.paused = @ \cup {<<c.to, what>>}])

\* pauseRedeem and pauseMint set a flag that may be set already.
PauseSide(w, c, side) == {[w EXCEPT !.paused = @ \cup {<<c.to, side>>}]}

Unpause(w, c) == When(Paused(w, c.to), [w EXCEPT !.paused = @ \ {<<c.to, "all">>}])

NewPool(w, c) == {[w EXCEPT !.rewarded = @ \cup {Len(w.pools)}, !.pools = Append(@, c.token)]}

SetAllocPoint(w, c) ==
  When(c.pid < Len(w.pools),
       [w EXCEPT !.rewarded = IF c.rewarded THEN @ \cup {c.pid} ELSE @ \ {c.pid}])

\* A wrapper takes the pool that stakes it, once.
WireWrapper(w, c) ==
  When(/\ c.pid < Len(w.pools)
       /\ w.pools[c.pid + 1] = c.to
       /\ c.to \notin {p[1] : p \in w.wired},
       [w EXCEPT !.wired = @ \cup {<<c.to, c.pid>>}])

\* The last entry takes the place of the one removed.
RemoveStaticDeposit(w, c) ==
  LET n == Len(w.statics)
  IN  When(c.index < n, [w EXCEPT !.statics =
             SubSeq([@ EXCEPT ![c.index + 1] = w.statics[n]], 1, n - 1)])

\* A Compound timelock names its next admin itself, any other contract by its owner.
Timelocks == {"timelock", "feiDAOTimelock", "rariTimelock"}

NameNextOwner(w, by, c) ==
  When(by = (IF c.to \in Timelocks THEN c.to ELSE w.owner[c.to]),
       [w EXCEPT !.pendingOwner = With(@, c.to, c.who)])

AcceptOwnership(w, by, c) ==
  When(c.to \in DOMAIN w.pendingOwner /\ w.pendingOwner[c.to] = by,
       [w EXCEPT !.owner[c.to] = by, !.pendingOwner = [d \in DOMAIN @ \ {c.to} |-> @[d]]])

HandOver(w, by, c) == When(by = w.owner[c.to], [w EXCEPT !.owner[c.to] = c.who])

\* The gate of the merger opens when the Rari DAO has executed its half, which hands itself over.
RariSideExecuted(w) == w.owner["rariTimelock"] = "tribeRariDAO"

\* Fei's governor is disabled with its new core: the change is final.
SetCore(w) == When(w.feiCore = "core", [w EXCEPT !.feiCore = "restrictedPermissions"])

\* Each auto rewards distributor reads the pool of its wrapper.
WrapperOf == [d3AutoRewardsDistributor |-> "d3StakingTokenWrapper",
              fei3CrvAutoRewardsDistributor |-> "fei3CrvStakingtokenWrapper",
              feiDaiAutoRewardsDistributor |-> "feiDaiStakingTokenWrapper",
              feiUsdcAutoRewardsDistributor |-> "feiUsdcStakingTokenWrapper"]

InitDistributor(w, c) == When(\E pid \in 1..Len(w.pools) : <<WrapperOf[c.to], pid>> \in w.wired, w)

\* Calls that change nothing kept here and revert while their contract is paused.
WhenNotPausedCalls == {"deposit", "skim", "allocate", "swap", "forceSwap", "lock", "stakeInGauge",
                       "stakeAllInGauge", "unstakeFromGauge", "voteForGaugeWeight",
                       "claimGaugeRewards", "requestWithdrawal", "transferFromRatio",
                       "setAutoRewardsDistribution", "exchangeFei", "drip", "redeem",
                       "mintGaugeRewards"}

Withdraw(w, c) == When(c.to \in PauseExempt \/ ~Paused(w, c.to), w)

Effect(w, by, c) ==
  CASE c.fn = "createRole" -> CreateRoleOf(w, c)
    [] c.fn = "grantRole" -> GrantRole(w, by, c)
    [] c.fn = "revokeRole" -> RevokeRole(w, by, c)
    [] c.fn = "becomeAdmin" -> BecomeAdmin(w, by, c)
    [] c.fn = "setContractAdminRole" -> SetContractAdmin(w, c)
    [] c.fn = "addDeposits" -> CountDeposits(w, c.deposits)
    [] c.fn = "removeDeposits" -> DropDeposits(w, c.deposits)
    [] c.fn = "swapDeposit" -> ReplaceDeposit(w, c)
    [] c.fn = "setOracles" -> ReadOracles(w, c)
    [] c.fn = "setSafeAddresses" -> MakeSafe(w, c)
    [] c.fn = "unsetSafeAddresses" -> MakeUnsafe(w, c)
    [] c.fn = "withdrawToSafeAddress" -> MoveToSafety(w, c)
    [] c.fn \in {"withdrawRatio", "withdrawRatioERC20"} ->
         IF c.to = "delayedPCVMoverWethUniToBal" THEN MoveOnce(w, c) ELSE MoveRatio(w, c)
    [] c.fn = "pause" -> PauseOf(w, c, "all")
    [] c.fn = "unpause" -> Unpause(w, c)
    [] c.fn = "pauseRedeem" -> PauseSide(w, c, "redeem")
    [] c.fn = "pauseMint" -> PauseSide(w, c, "mint")
    [] c.fn = "add" -> NewPool(w, c)
    [] c.fn = "set" -> SetAllocPoint(w, c)
    [] c.fn = "initWrapper" -> WireWrapper(w, c)
    [] c.fn = "init" -> InitDistributor(w, c)
    [] c.fn = "removeStatic" -> RemoveStaticDeposit(w, c)
    [] c.fn = "setPendingAdmin" -> NameNextOwner(w, by, c)
    [] c.fn = "acceptAdmin" -> AcceptOwnership(w, by, c)
    [] c.fn = "_acceptAdmin" -> AcceptOwnership(w, "fuseAdmin", [c EXCEPT !.to = "rariPool8Comptroller"])
    [] c.fn = "__acceptAdmin" -> AcceptOwnership(w, c.to, [c EXCEPT !.to = "rariTimelock"])
    [] c.fn \in {"transferOwnership", "updateTimelock"} -> HandOver(w, by, c)
    [] c.fn = "floop" -> When(RariSideExecuted(w), w)
    [] c.fn = "setDelay" -> When(by = c.to, w)
    [] c.to = "rariPool8Comptroller" -> When(by = w.owner[c.to], w)
    [] c.fn \in {"_deployMarket", "oracleAdd"} -> When(w.owner["rariPool8Comptroller"] = c.to, w)
    [] c.fn = "setCore" -> SetCore(w)
    [] c.fn \in {"withdraw", "withdrawETH"} -> Withdraw(w, c)
    [] c.fn \in WhenNotPausedCalls -> When(~Paused(w, c.to), w)
    [] OTHER -> {w}

Step(by, c, W) == UNION {Effect(w, by, c) : w \in {v \in W : Admits(v, by, c)}}

(***************************************************************************)
(* A batch is atomic: one call that reverts reverts all of them.           *)
(***************************************************************************)
Run(by, calls, w) ==
  LET after[i \in 0..Len(calls)] ==
        IF i = 0 THEN {w} ELSE Step(by, calls[i], after[i - 1])
  IN  after[Len(calls)]
=============================================================================
