------------------------- MODULE ProposalValidations -------------------------
(***************************************************************************)
(* What the validate function of a proposal expects of the protocol once   *)
(* its batch has run, as far as it is about roles, admins, counted and     *)
(* safe deposits, oracles, pauses, reward pools and owners.  A call the    *)
(* function makes must go through: its caller may make it and the contract *)
(* is paused, or not, as the call needs.  What such a call changes on the  *)
(* fork is not kept: no later proposal depends on it.  Amounts, prices and *)
(* the markets of Fuse, a third party's, are left out.                     *)
(***************************************************************************)
EXTENDS ProtocolConfiguration

Counts(w, token, S) == \A d \in S : d \in w.counted /\ w.reportedIn[d] = token

Ignores(w, S) == w.counted \cap S = {}

SafeTo(w, g, S) == ({g} \X S) \subseteq w.safe

AllPaused(w, S, what) == (S \X {what}) \subseteq w.paused

HoldAll(w, role, S) == \A who \in S : HasRole(w, role, who)

HoldNone(w, role, S) == \A who \in S : ~HasRole(w, role, who)

AdministersContract(w, c, who) == HasRole(w, AdminRole(w, c), who)

HoldsIn(w, reg, role, who) == <<reg, role, who>> \in w.roles

\* A call of the validation itself goes through.
May(w, who, c) == Step(who, c, {w}) # {}

OracleIs(w, token, oracle) == token \in DOMAIN w.oracleOf /\ w.oracleOf[token] = oracle

WiredAndRewarded(w, c) == \E p \in w.wired : p[1] = c /\ p[2] \in w.rewarded

(***************************************************************************)
(* The proposals of the FeiDAO.                                            *)
(***************************************************************************)
fip_37_validate(w) ==
  /\ \A c \in {"collateralizationOracle", "collateralizationOracleWrapper"} :
       AdminRole(w, c) = "ORACLE_ADMIN_ROLE"
  /\ ~AdministersContract(w, "collateralizationOracle", "guardianMultisig")
  /\ \A who \in {"collateralizationOracleGuardian", "optimisticTimelock"} :
       AdministersContract(w, "collateralizationOracleWrapper", who)
  /\ HoldAll(w, "MINTER_ROLE", {"collateralizationOracleKeeper", "pcvEquityMinter"})

fip_38_validate(w) ==
  \A c \in {"ethTokemakPCVDeposit", "tokeTokemakPCVDeposit"} :
    /\ AdminRole(w, c) = "TOKEMAK_DEPOSIT_ADMIN_ROLE"
    /\ AdministersContract(w, c, "optimisticTimelock")

fip_45_validate(w) ==
  /\ OracleIs(w, "agEUR", "chainlinkEurUsdOracleWrapper")
  /\ Counts(w, "agEUR", {"agEurAngleUniswapPCVDeposit"})

\* Nine tokens are counted: FIP-45, which brings the tenth, has not run yet.
fip_48_validate(w) ==
  /\ AdministersContract(w, "staticPcvDepositWrapper2", "optimisticTimelock")
  /\ Cardinality({w.reportedIn[d] : d \in w.counted}) = 9
  /\ Counts(w, "lusd", {"feiLusdLens", "rariPool7LusdPCVDeposit", "liquityFusePoolLusdPCVDeposit"})
  /\ Counts(w, "fei", {"aaveFeiPCVDepositWrapper", "feiBuybackLens", "rariPool90FeiPCVDeposit"})
  /\ Counts(w, "cream", {"creamDepositWrapper"})
  /\ Counts(w, "bal", {"balDepositWrapper"})
  /\ Counts(w, "USD", {"staticPcvDepositWrapper2"})
  /\ Ignores(w, {"rariPool28FeiPCVDepositWrapper", "rariPool31FeiPCVDepositWrapper",
                 "staticPcvDepositWrapper"})

fip_33b_validate(w) == Counts(w, "bal", {"balancerDepositBalWeth"})

fip_53_validate(w) == Counts(w, "USD", {"d3poolCurvePCVDeposit", "d3poolConvexPCVDeposit"})

merger_validate(w) == w.owner["rariTimelock"] = "tribeRariDAO"

fip_bribe_validate(w) == WiredAndRewarded(w, "stakingTokenWrapperBribeD3pool")

fip_55_validate(w) == Cardinality(safeOf(w, "pcvGuardianV1")) = 4

fip_56_validate(w) ==
  /\ HasRole(w, "TRIBE_MINTER_ROLE", "tribeReserveStabilizer")
  /\ w.owner["tribe"] = "tribeMinter"
  /\ AdministersContract(w, "tribeMinter", "tribeReserveStabilizer")
  /\ Ignores(w, {"dpiBondingCurveWrapper", "raiBondingCurveWrapper"})
  /\ Counts(w, "dai", {"daiPSM"})
  /\ SafeTo(w, "pcvGuardianV1", {"daiPSM"})

fip_61_validate(w) ==
  /\ Counts(w, "USD", {"namedStaticPCVDepositWrapper"})
  /\ Ignores(w, {"staticPcvDepositWrapper2", "daiBondingCurveWrapper"})
  /\ Len(w.statics) = 10
  /\ AllPaused(w, {"daiBondingCurve"}, "all")
  /\ HoldsIn(w, "optimisticTimelock", "EXECUTOR_ROLE", "tribalChiefSyncV2")
  /\ ~HoldsIn(w, "optimisticTimelock", "EXECUTOR_ROLE", "tribalChiefSync")

fip_60_validate(w) ==
  \A c \in {"d3StakingTokenWrapper", "fei3CrvStakingtokenWrapper"} : WiredAndRewarded(w, c)

fip_60b_validate(w) ==
  /\ \A c \in {"rariPool8Comptroller", "rariPool8MasterOracle"} : w.owner[c] = "fuseAdmin"
  /\ \A c \in {"feiDaiStakingTokenWrapper", "feiUsdcStakingTokenWrapper"} : WiredAndRewarded(w, c)

fip_62_validate(w) ==
  AllPaused(w, {"ethPSM"}, "redeem") /\ SafeTo(w, "pcvGuardianV1", {"ethPSM"})

fip_54_validate(w) ==
  /\ w.feiCore = "restrictedPermissions"
  /\ AdministersContract(w, "votiumBriberD3pool", "opsOptimisticTimelock")

fip_67_validate(w) ==
  /\ AllPaused(w, {"lusdPCVDripController", "lusdPSM", "lusdPSMFeiSkimmer"}, "all")
  /\ AllPaused(w, {"lusdPSM"}, "redeem")
  /\ SafeTo(w, "pcvGuardianV1", {"lusdPSM"})

\* It returns before it gets to the second half of the move.
fip_70_validate(w) == Counts(w, "weth", {"balancerDepositFeiWeth"})

fip_72_validate(w) == AllPaused(w, {"daiPSM"}, "all")

fip_73_validate(w) ==
  /\ HasRole(w, "PCV_GUARDIAN_ADMIN_ROLE", "optimisticTimelock")
  /\ HasRole(w, "ORACLE_ADMIN_ROLE", "opsOptimisticTimelock")
  /\ SafeTo(w, "pcvGuardianV1", {"d3poolCurvePCVDeposit", "d3poolConvexPCVDeposit"})
  /\ Counts(w, "weth", {"wethDepositWrapper"})
  /\ Counts(w, "dpi", {"dpiDepositWrapper"})
  /\ Counts(w, "rai", {"raiDepositWrapper"})
  /\ Counts(w, "agEUR", {"agEurDepositWrapper"})

fip_73b_validate(w) == Len(w.statics) = 2

fip_76b_validate(w) == HoldNone(w, "PCV_CONTROLLER_ROLE", {"delayedPCVMoverWethUniToBal"})

fip_77_validate(w) == 1 \notin w.rewarded /\ 14 \in w.rewarded

fip_82_validate(w) ==
  /\ HoldsIn(w, "tribalCouncilTimelock", "CANCELLER_ROLE", "podAdminGateway")
  /\ ~HoldsIn(w, "tribalCouncilTimelock", "PROPOSER_ROLE", "podAdminGateway")
  /\ \A role \in {"PROPOSER_ROLE", "EXECUTOR_ROLE", "CANCELLER_ROLE"} :
       HoldsIn(w, "tribalCouncilTimelock", role, "tribalCouncilSafe")
  /\ HoldsIn(w, "tribalCouncilTimelock", "EXECUTOR_ROLE", "podExecutor")
  /\ HoldAll(w, "ROLE_ADMIN", {"feiDAOTimelock", "tribalCouncilTimelock"})
  /\ HoldAll(w, "POD_ADMIN", {"tribalCouncilTimelock", "podFactory"})
  /\ HasRole(w, "POD_METADATA_REGISTER_ROLE", "tribalCouncilSafe")
  /\ HasRole(w, "GOVERN_ROLE", "roleBastion")
  /\ HasRole(w, "POD_VETO_ADMIN", "nopeDAO")

\* While the second half of the handover is open, the Rari timelock governs.
fip_84a_validate(w) ==
  /\ HasRole(w, "GOVERN_ROLE", "rariTimelock")
  /\ HoldNone(w, "GOVERN_ROLE", {"timelock"})
  /\ w.owner["feiDAO"] = "timelock"

fip_84b_validate(w) ==
  /\ w.owner["proxyAdmin"] = "feiDAOTimelock" /\ w.owner["feiDAO"] = "feiDAOTimelock"
  /\ "timelock" \in DOMAIN w.pendingOwner /\ w.pendingOwner["timelock"] = "feiDAOTimelock"

fip_84c_validate(w) == w.owner["timelock"] = "feiDAOTimelock"

fip_94_validate(w) == HoldNone(w, "GOVERN_ROLE", {"rariTimelock"})

fip_98_validate(w) ==
  Counts(w, "volt", {"voltDepositWrapper"}) /\ SafeTo(w, "pcvGuardianV1", {"turboFusePCVDeposit"})

fip_99_validate(w) ==
  /\ AllPaused(w, {"raiPriceBoundPSM"}, "mint")
  /\ <<"raiPriceBoundPSM", "redeem">> \notin w.paused
  /\ SafeTo(w, "pcvGuardianV1", {"rariPool9RaiPCVDeposit", "aaveRaiPCVDeposit"})
  /\ May(w, "anyone", Call("raiPCVDripController", "drip"))
  /\ May(w, "raiPCVDripController", Call("aaveRaiPCVDeposit", "withdraw"))
  /\ May(w, "anyone", Call("raiPriceBoundPSM", "redeem"))

(***************************************************************************)
(* The authorisation of the TribalCouncil.                                 *)
(***************************************************************************)
expectedSafeAddresses ==
  {"feiDAOTimelock", "compoundEthPCVDeposit", "ethPSM", "aaveEthPCVDeposit", "daiFixedPricePSM",
   "lusdPSM", "d3poolCurvePCVDeposit", "d3poolConvexPCVDeposit", "agEurUniswapPCVDeposit",
   "balancerDepositBalWeth", "balancerDepositFeiWeth", "veBalDelegatorPCVDeposit",
   "turboFusePCVDeposit", "rariPool9RaiPCVDeposit", "aaveRaiPCVDeposit", "raiPriceBoundPSM"}

validateTransferredRoleAdmins(w) ==
  \A role \in {"RATE_LIMITED_MINTER_ADMIN", "PARAMETER_ADMIN", "ORACLE_ADMIN_ROLE",
               "TRIBAL_CHIEF_ADMIN_ROLE", "PCV_GUARDIAN_ADMIN_ROLE", "METAGOVERNANCE_VOTE_ADMIN",
               "METAGOVERNANCE_TOKEN_STAKING", "METAGOVERNANCE_GAUGE_ADMIN", "SWAP_ADMIN_ROLE",
               "VOTIUM_ADMIN_ROLE", "BALANCER_MANAGER_ADMIN_ROLE"} : RoleAdmin(w, role) = "ROLE_ADMIN"

validateNewCouncilRoles(w) ==
  \A role \in {"FUSE_ADMIN", "FEI_MINT_ADMIN", "PCV_MINOR_PARAM_ROLE", "PSM_ADMIN_ROLE",
               "PCV_SAFE_MOVER_ROLE", "PCV_GUARDIAN_ADMIN_ROLE"} : RoleAdmin(w, role) = "ROLE_ADMIN"

validateContractAdmins(w) ==
  /\ AdminRole(w, "fuseGuardian") = "FUSE_ADMIN"
  /\ \A c \in {"optimisticMinter", "pcvEquityMinter"} : AdminRole(w, c) = "FEI_MINT_ADMIN"
  /\ AdminRole(w, "indexDelegator") = "METAGOVERNANCE_VOTE_ADMIN"
  /\ AdminRole(w, "ethTokemakPCVDeposit") = "TOKEMAK_DEPOSIT_ADMIN_ROLE"
  /\ \A c \in {"uniswapPCVDeposit", "lusdPSMFeiSkimmer", "ethPSMFeiSkimmer",
               "aaveEthPCVDripController", "daiPCVDripController", "lusdPCVDripController"} :
       AdminRole(w, c) = "PCV_MINOR_PARAM_ROLE"

validateCallingContractsHaveNewAdmin(w) ==
  /\ HoldAll(w, "FUSE_ADMIN", {"optimisticTimelock", "tribalChiefSyncV2"})
  /\ HoldAll(w, "FEI_MINT_ADMIN", {"feiDAOTimelock"})
  /\ \A role \in {"PCV_MINOR_PARAM_ROLE", "TOKEMAK_DEPOSIT_ADMIN_ROLE"} :
       HoldAll(w, role, {"feiDAOTimelock", "optimisticTimelock"})

validateTribalCouncilRoles(w) ==
  \A role \in {"FUSE_ADMIN", "FEI_MINT_ADMIN", "PCV_MINOR_PARAM_ROLE", "PCV_GUARDIAN_ADMIN_ROLE",
               "ORACLE_ADMIN_ROLE", "PSM_ADMIN_ROLE", "PCV_SAFE_MOVER_ROLE",
               "TOKEMAK_DEPOSIT_ADMIN_ROLE"} : HasRole(w, role, "tribalCouncilTimelock")

fip_82b_validate(w) ==
  /\ safeOf(w, "pcvGuardian") = expectedSafeAddresses
  /\ \A role \in {"GUARDIAN_ROLE", "PCV_CONTROLLER_ROLE"} :
       HasRole(w, role, "pcvGuardian") /\ ~HasRole(w, role, "pcvGuardianV1")
  /\ validateTransferredRoleAdmins(w) /\ validateNewCouncilRoles(w)
  /\ validateContractAdmins(w) /\ validateCallingContractsHaveNewAdmin(w)
  /\ validateTribalCouncilRoles(w)

(***************************************************************************)
(* The proposals of the TribalCouncil's time.                              *)
(***************************************************************************)
fip_104_validate(w) ==
  /\ SafeTo(w, "pcvGuardian", {"uniswapPCVDeposit", "dpiToDaiLBPSwapper"})
  /\ HasRole(w, "SWAP_ADMIN_ROLE", "tribalCouncilTimelock")
  /\ RoleAdmin(w, "SWAP_ADMIN_ROLE") = "ROLE_ADMIN"

buyback_newpool_validate(w) ==
  /\ ~Paused(w, "pcvEquityMinter")
  /\ Ignores(w, {"feiBuybackLens"})
  /\ Counts(w, "fei", {"feiBuybackLensNoFee"})

balancer_gauge_fix_validate(w) ==
  /\ May(w, "anyone", Call("balancerGaugeStaker", "mintGaugeRewards"))
  /\ Counts(w, "weth", {"balancerLensBpt30Fei70WethV2"})
  /\ Ignores(w, {"balancerLensBpt30Fei70WethV1"})

oa_cr_fix_validate(w) ==
  /\ Ignores(w, {"rariPool8FeiPCVDepositWrapper", "rariPool8DaiPCVDeposit", "rariPool8LusdPCVDeposit",
                 "rariPool18FeiPCVDepositWrapper", "rariPool27FeiPCVDepositWrapper",
                 "rariPool90FeiPCVDepositWrapper", "rariPool146EthPCVDeposit",
                 "convexPoolPCVDepositWrapper", "balancerLensBpt30Fei70WethV2"})
  /\ Counts(w, "weth", {"balancerLensBpt30Fei70WethV3"})

pod_exec_v2_validate(w) ==
  /\ HoldsIn(w, "tribalCouncilTimelock", "EXECUTOR_ROLE", "podExecutorV2")
  /\ ~HoldsIn(w, "tribalCouncilTimelock", "EXECUTOR_ROLE", "podExecutor")

eth_lbp_validate(w) ==
  /\ SafeTo(w, "pcvGuardian", {"ethToDaiLBPSwapper"})
  /\ HasRole(w, "PSM_ADMIN_ROLE", "tribalCouncilTimelock")
  /\ RoleAdmin(w, "PSM_ADMIN_ROLE") = "ROLE_ADMIN"

end_tribe_incentives_validate(w) ==
  /\ HoldAll(w, "TRIBAL_CHIEF_ADMIN_ROLE", {"tribalCouncilTimelock"})
  /\ HoldNone(w, "TRIBAL_CHIEF_ADMIN_ROLE", {"tribalChiefSyncV2"})
  /\ HoldNone(w, "FUSE_ADMIN", {"tribalChiefSyncV2"})
  /\ HoldNone(w, "VOTIUM_ADMIN_ROLE", {"opsOptimisticTimelock"})
  /\ Len(w.pools) = 18 /\ w.rewarded = {0}
  /\ \A who \in {"feiDaiAutoRewardsDistributor", "feiUsdcAutoRewardsDistributor",
                 "autoRewardsDistributor", "d3AutoRewardsDistributor",
                 "fei3CrvAutoRewardsDistributor"} :
       ~HoldsIn(w, "rewardsDistributorAdmin", "AUTO_REWARDS_DISTRIBUTOR_ROLE", who)

tip_111_validate(w) == May(w, "feiDAOTimelock", Call("ethLidoPCVDeposit", "withdraw"))

tip_115_validate(w) == Len(w.statics) = 0

\* The stabilizer sells TRIBE through its minter; the DAO unpauses the equity minter, which
\* mints and starts an auction.
tip_117_validate(w) ==
  /\ May(w, "anyone", Call("tribeReserveStabilizer", "exchangeFei"))
  /\ AdministersContract(w, "tribeMinter", "tribeReserveStabilizer")
  /\ May(w, "feiDAOTimelock", Call("pcvEquityMinter", "unpause"))
  /\ May(w, "pcvEquityMinter", Call("fei", "mint"))
  /\ May(w, "pcvEquityMinter", Call("noFeeFeiTribeLBPSwapper", "swap"))
  /\ \A role \in {"METAGOVERNANCE_VOTE_ADMIN", "METAGOVERNANCE_TOKEN_STAKING", "ORACLE_ADMIN_ROLE"} :
       HoldNone(w, role, {"opsOptimisticTimelock"})

tip_118_validate(w) ==
  /\ HoldNone(w, "MINTER_ROLE", {"ethPSM", "raiPriceBoundPSM", "lusdPSM"})
  /\ AllPaused(w, {"ethPSM", "lusdPSM", "raiPriceBoundPSM"}, "redeem")
  /\ AllPaused(w, {"ethPSM", "lusdPSM", "raiPriceBoundPSM"}, "all")
  /\ AllPaused(w, {"raiPriceBoundPSM"}, "mint")
  /\ AllPaused(w, {"ethPSMFeiSkimmer", "lusdPSMFeiSkimmer"}, "all")
  /\ HoldNone(w, "PCV_CONTROLLER_ROLE", {"ethPSMFeiSkimmer", "lusdPSMFeiSkimmer"})
  /\ HoldAll(w, "PCV_CONTROLLER_ROLE", {"daiFixedPricePSMFeiSkimmer"})
  /\ HoldNone(w, "TRIBAL_CHIEF_ADMIN_ROLE", {"tribalCouncilTimelock", "optimisticTimelock"})
  /\ May(w, "pcvGuardian", Call("wethHoldingPCVDeposit", "withdrawERC20"))

tip_119_validate(w) ==
  /\ Counts(w, "gohm", {"gOHMHoldingPCVDeposit"})
  /\ ~SafeTo(w, "pcvGuardian", {"tribalCouncilTimelock"})

tip_121a_cont_validate(w) == OracleIs(w, "weth", "chainlinkStEthUsdOracleWrapper")
=============================================================================
