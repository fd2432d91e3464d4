----------------------------- MODULE ProposalsFeiV2 -----------------------------
(***************************************************************************)
(* The proposals from the first maintenance of Fei v2 to the authorisation *)
(* of the TribalCouncil.  Each is the batch its timelock executes, one     *)
(* call of ProtocolWorld per command; commands that only move tokens       *)
(* (approve, transfer) are left out.                                       *)
(***************************************************************************)
EXTENDS ProtocolWorld

\* FIP-62: Create ETH PSM and Deprecate Eth Reserve Stabilizer and Bonding Curve.
fip_62 ==
  << RemoveDeposits({"ethReserveStabilizerWrapper"}),
     RemoveDeposits({"bondingCurve"}),
     AddDeposits({"ethPSM"}),
     RatioMove("ratioPCVControllerV2", "ethReserveStabilizer"),
     Call("bondingCurve", "allocate"),
     Call("ethReserveStabilizer", "pause"),
     Call("bondingCurve", "pause"),
     Call("aaveEthPCVDripController", "pause"),
     Call("compoundEthPCVDripController", "pause"),
     Call("ethPSM", "pauseRedeem"),
     Revoke("MINTER_ROLE", "bondingCurve"),
     Grant("MINTER_ROLE", "ethPSM"),
     Revoke("BURNER_ROLE", "ethReserveStabilizer"),
     Revoke("PCV_CONTROLLER_ROLE", "compoundEthPCVDripController"),
     Call("aaveEthPCVDripController", "setTarget"),
     Call("aaveEthPCVDripController", "setIncentiveAmount"),
     SetSafe("pcvGuardianV1", {"ethPSM"}),
     UnsetSafe("pcvGuardianV1", {"ethReserveStabilizer"}) >>

\* FIP-54: Permanently Revoke Burner, FIP-63: Rari Infra Funding, Maintenance.
fip_54 ==
  << Call("fei", "setCore"),
     Grant("PCV_CONTROLLER_ROLE", "ethPSMFeiSkimmer"),
     Grant("PCV_CONTROLLER_ROLE", "daiPSMFeiSkimmer"),
     Call("core", "allocateTribe"),
     Call("fei", "mint"),
     SetContractAdminRole("votiumBriberD3pool", "VOTIUM_ADMIN_ROLE"),
     CreateRole("VOTIUM_ADMIN_ROLE", "GOVERN_ROLE"),
     Grant("VOTIUM_ADMIN_ROLE", "opsOptimisticTimelock") >>

\* FIP-60b: FeiRari Rewards Upgrade.
fip_64 ==
  << Call("fuseAdmin", "_deployMarket"),
     Call("fuseGuardian", "_setBorrowPausedByUnderlying"),
     Call("fuseGuardian", "_setMarketSupplyCapsByUnderlying") >>

\* FIP-65: Tribe ETH Fuse Pool, FIP-67: Create Backup LUSD PSM.
fip_67 ==
  << AddDeposits({"lusdPSM"}),
     Call("lusdPCVDripController", "pause"),
     Call("lusdPSMFeiSkimmer", "pause"),
     Call("lusdPSM", "pause"),
     Call("lusdPSM", "pauseRedeem"),
     Grant("MINTER_ROLE", "lusdPSM"),
     Grant("PCV_CONTROLLER_ROLE", "lusdPCVDripController"),
     Grant("PCV_CONTROLLER_ROLE", "lusdPSMFeiSkimmer"),
     SetSafe("pcvGuardianV1", {"lusdPSM"}),
     Call("compoundEthPCVDeposit", "withdraw"),
     Call("rariPool146EthPCVDeposit", "deposit"),
     AddDeposits({"rariPool146EthPCVDeposit"}) >>

\* FIP-68: REPT-B Redemption and RGT Migration Future Expiry.
fip_68 ==
  << Call("fei", "mint"),
     Call("pegExchanger", "setExpirationTimestamp") >>

\* FIP-70: ETH/FEI Liquidity migration to Balancer.
fip_70 ==
  << Grant("MINTER_ROLE", "balancerDepositFeiWeth"),
     AddDeposits({"balancerDepositFeiWeth"}),
     RatioMove("ratioPCVControllerV2", "uniswapPCVDeposit"),
     Call("balancerDepositFeiWeth", "deposit"),
     Grant("PCV_CONTROLLER_ROLE", "delayedPCVMoverWethUniToBal") >>

\* FIP-72: New DAI PSM.
fip_72 ==
  << Grant("MINTER_ROLE", "daiFixedPricePSM"),
     Revoke("MINTER_ROLE", "daiPSM"),
     Revoke("PCV_CONTROLLER_ROLE", "daiPSMFeiSkimmer"),
     Call("daiPCVDripController", "setTarget"),
     SetSafe("pcvGuardianV1", {"daiFixedPricePSM"}),
     UnsetSafe("pcvGuardianV1", {"daiPSM"}),
     RatioMove("ratioPCVControllerV2", "daiPSM"),
     RatioMoveERC20("ratioPCVControllerV2", "daiPSM"),
     Call("daiFixedPricePSM", "setBackupOracle"),
     SwapDeposit("daiPSM", "daiFixedPricePSM"),
     Call("daiPSM", "pause") >>

\* FIP-73: Fei Peg Policy Changes.
fip_73 ==
  << CreateRole("PCV_GUARDIAN_ADMIN_ROLE", "GOVERN_ROLE"),
     Grant("PCV_GUARDIAN_ADMIN_ROLE", "optimisticTimelock"),
     SetSafe("pcvGuardianV1", {"d3poolCurvePCVDeposit"}),
     SetSafe("pcvGuardianV1", {"d3poolConvexPCVDeposit"}),
     Call("ethPSM", "setReservesThreshold"),
     AddDeposits({"wethDepositWrapper"}),
     AddDeposits({"dpiDepositWrapper"}),
     AddDeposits({"raiDepositWrapper"}),
     AddDeposits({"agEurDepositWrapper"}),
     Grant("ORACLE_ADMIN_ROLE", "opsOptimisticTimelock") >>

\* FIP-73b: Contractionary Monetary Policy.
fip_73b ==
  << RemoveStatic(9),
     RemoveStatic(8),
     RemoveStatic(7),
     RemoveStatic(6),
     RemoveStatic(3),
     RemoveStatic(2),
     RemoveStatic(1),
     RemoveStatic(0) >>

\* FIP-73d: Withdraw BentoBox.
fip_73d ==
  << Call("bentoBox", "withdraw") >>

\* FIP-76a: Add LUSD to FeiRari.
fip_76a ==
  << Call("fuseAdmin", "oracleAdd"),
     Call("fuseAdmin", "_deployMarket"),
     Call("fuseGuardian", "_setMarketSupplyCapsByUnderlying") >>

\* FIP-76b: Add LUSD to FeiRari.
fip_76b ==
  << Call("delayedPCVMoverWethUniToBal", "unpause"),
     Call("delayedPCVMoverWethUniToBal", "withdrawRatio"),
     Call("balancerDepositFeiWeth", "deposit"),
     Call("aaveEthPCVDeposit", "withdraw"),
     Call("uniswapPCVDeposit", "deposit"),
     Call("compoundDaiPCVDeposit", "withdraw"),
     Call("rariPool8DaiPCVDeposit", "deposit"),
     Call("bammDeposit", "withdraw"),
     Call("rariPool8LusdPCVDeposit", "deposit"),
     RatioMove("ratioPCVControllerV2", "dpiUniswapPCVDeposit"),
     RemoveDeposits({"rariPool7FeiPCVDepositWrapper", "rariPool9FeiPCVDepositWrapper",
       "rariPool26FeiPCVDepositWrapper", "rariPool28FeiPCVDepositWrapper",
       "rariPool91FeiPCVDepositWrapper", "dpiUniswapPCVDeposit"}),
     AddDeposits({"rariPool8DaiPCVDeposit", "rariPool8LusdPCVDeposit"}),
     SetContractAdminRole("votiumBriber3Crvpool", "VOTIUM_ADMIN_ROLE") >>

\* FIP-77: FEI-3Crv rewards.
fip_77 ==
  << SetPool(1, FALSE),
     SetPool(14, TRUE),
     Call("fuseGuardian", "_setMarketSupplyCapsByUnderlying") >>

\* FIP-45a: ANGLE Meta-governance.
fip_78a_roles ==
  << CreateRole("METAGOVERNANCE_VOTE_ADMIN", "GOVERN_ROLE"),
     SetContractAdminRole("indexDelegator", "METAGOVERNANCE_VOTE_ADMIN"),
     Grant("METAGOVERNANCE_VOTE_ADMIN", "feiDAOTimelock"),
     Grant("METAGOVERNANCE_VOTE_ADMIN", "opsOptimisticTimelock"),
     CreateRole("METAGOVERNANCE_TOKEN_STAKING", "GOVERN_ROLE"),
     Grant("METAGOVERNANCE_TOKEN_STAKING", "feiDAOTimelock"),
     Grant("METAGOVERNANCE_TOKEN_STAKING", "opsOptimisticTimelock"),
     CreateRole("METAGOVERNANCE_GAUGE_ADMIN", "GOVERN_ROLE"),
     Grant("METAGOVERNANCE_GAUGE_ADMIN", "feiDAOTimelock"),
     Grant("METAGOVERNANCE_GAUGE_ADMIN", "optimisticTimelock") >>

fip_78a_angle ==
  << RatioMoveERC20("ratioPCVControllerV2", "agEurAngleUniswapPCVDeposit"),
     RatioMove("ratioPCVControllerV2", "agEurAngleUniswapPCVDeposit"),
     Revoke("MINTER_ROLE", "agEurAngleUniswapPCVDeposit"),
     Call("fei", "mint"),
     Call("agEurUniswapPCVDeposit", "deposit"),
     RatioMoveERC20("ratioPCVControllerV2", "agEurUniswapPCVDeposit"),
     Call("angleDelegatorPCVDeposit", "lock"),
     Call("angleDelegatorPCVDeposit", "setTokenToGauge"),
     Call("angleDelegatorPCVDeposit", "voteForGaugeWeight"),
     Call("angleDelegatorPCVDeposit", "stakeAllInGauge"),
     AddDeposits({"uniswapLensAgEurUniswapGauge", "agEurUniswapPCVDeposit"}),
     SetSafe("pcvGuardianV1", {"agEurUniswapPCVDeposit"}),
     RemoveDeposits({"agEurAngleUniswapPCVDeposit"}) >>

fip_78a == fip_78a_roles \o fip_78a_angle

\* FIP-79: Tribe x Olympus Partnership.
fip_79 ==
  << Call("core", "allocateTribe"),
     Call("ohmEscrow", "swap") >>

\* FIP-82: Deploy TribalCouncil.
fip_82_roles ==
  << CreateRole("ROLE_ADMIN", "GOVERN_ROLE"),
     CreateRole("POD_ADMIN", "ROLE_ADMIN"),
     CreateRole("POD_VETO_ADMIN", "ROLE_ADMIN"),
     CreateRole("POD_METADATA_REGISTER_ROLE", "ROLE_ADMIN"),
     Grant("ROLE_ADMIN", "feiDAOTimelock"),
     Grant("ROLE_ADMIN", "tribalCouncilTimelock"),
     Grant("POD_ADMIN", "tribalCouncilTimelock"),
     Grant("POD_METADATA_REGISTER_ROLE", "tribalCouncilSafe"),
     Grant("GOVERN_ROLE", "roleBastion"),
     Grant("POD_VETO_ADMIN", "nopeDAO"),
     Grant("POD_ADMIN", "podFactory") >>

fip_82_pod ==
  << Call("podAdminGateway", "batchAddPodMember"),
     Call("podAdminGateway", "batchRemovePodMember"),
     Call("podAdminGateway", "lockMembershipTransfers") >>

fip_82 == fip_82_roles \o fip_82_pod

\* FIP-83: La Tribu (hiring devs from DAO).
fip_83 ==
  << Call("core", "allocateTribe"),
     Call("fei", "mint") >>

\* FIP-84a: Change FEI DAO timelock to previous timelock. Grant Rari timelock governor.
fip_84a ==
  << Grant("GOVERN_ROLE", "rariTimelock"),
     Revoke("GOVERN_ROLE", "timelock"),
     UpdateTimelock("timelock") >>

\* FIP-84b: Restore newTimelock to FeiDAO.
fip_84b ==
  << TransferOwnership("proxyAdmin", "feiDAOTimelock"),
     Call("timelock", "setDelay"),
     SetPendingAdmin("timelock", "feiDAOTimelock"),
     UpdateTimelock("feiDAOTimelock") >>

\* FIP-84c: Accept newTimelock admin as the admin for the oldTimelock.
fip_84c ==
  << AcceptAdmin("timelock") >>

\* FIP-85: Kill RGT rewards on RGT/ETH SushiSwap pair.
fip_85 ==
  << Call("rariGovernanceProxyAdmin", "upgrade"),
     Call("rariGovernanceTokenSushiSwapDistributor", "setDistributionEndBlock"),
     Call("rariGovernanceTokenSushiSwapDistributor", "setDisabled"),
     Call("rariGovernanceTokenSushiSwapDistributor", "upgrade"),
     Call("rariGovernanceTokenSushiSwapDistributor", "setDisabled") >>

\* FIP-87: PCV Sentinel.
fip_87 ==
  << Grant("GUARDIAN_ROLE", "pcvSentinel") >>

\* FIP-92: Vote-escrow BAL.
\* Its lens is the first of three that follow each other (V1, V2, V3).
fip_92 ==
  << RatioMoveERC20("ratioPCVControllerV2", "balancerDepositFeiWeth"),
     Call("balancerDepositBalWeth", "deposit"),
     RatioMoveERC20("ratioPCVControllerV2", "balancerDepositBalWeth"),
     Call("veBalDelegatorPCVDeposit", "lock"),
     Call("veBalDelegatorPCVDeposit", "setTokenToGauge"),
     Call("veBalDelegatorPCVDeposit", "voteForGaugeWeight"),
     RatioMoveERC20("ratioPCVControllerV2", "balancerDepositFeiWeth"),
     Call("veBalDelegatorPCVDeposit", "stakeAllInGauge"),
     AddDeposits({"balancerLensBpt30Fei70WethV1", "balancerLensVeBalBal", "balancerLensVeBalWeth"}),
     SetSafe("pcvGuardianV1", {"balancerDepositBalWeth", "balancerDepositFeiWeth",
       "veBalDelegatorPCVDeposit"}) >>

\* Mutations: the administration of the guardian's role moves as well; or both timelocks lose theirs.
fip_94MovesGuardian ==
  << CreateRole("GUARDIAN_ROLE", "ROLE_ADMIN"), Revoke("GOVERN_ROLE", "rariTimelock") >>

fip_94RevokesBoth ==
  << Revoke("GOVERN_ROLE", "rariTimelock"), Revoke("GOVERN_ROLE", "feiDAOTimelock") >>

\* FIP-94: Remove GOVERN_ROLE role from Rari timelock.
fip_94 ==
  << Revoke("GOVERN_ROLE", "rariTimelock") >>

\* FIP-97: Seed Turbo fuse pool with 10M Fei.
fip_97 ==
  << AddDeposits({"turboFusePCVDeposit"}),
     Call("turboFusePCVDeposit", "deposit") >>

\* FIP-98: Purchase 10m VOLT.
\* Its voltOracle is the passthrough: TIP-117 gives that name to the composite it deploys.
fip_98 ==
  << Call("fei", "mint"),
     Call("voltFeiSwapContract", "swap"),
     SetOracles([volt |-> "voltOraclePassthrough"]),
     AddDeposits({"voltDepositWrapper"}),
     SetSafe("pcvGuardianV1", {"turboFusePCVDeposit"}) >>

\* FIP-99: Sell RAI.
fip_99 ==
  << RatioMove("ratioPCVControllerV2", "rariPool9RaiPCVDeposit"),
     Call("aaveRaiPCVDeposit", "deposit"),
     Grant("PCV_CONTROLLER_ROLE", "raiPCVDripController"),
     Call("raiPriceBoundPSM", "pauseMint"),
     SetSafe("pcvGuardianV1", {"rariPool9RaiPCVDeposit", "aaveRaiPCVDeposit", "raiPriceBoundPSM"}),
     AddDeposits({"raiPriceBoundPSM"}) >>

\* FIP-82b: Authorise the TribalCouncil with necessary roles.
\* pcvGuardianNew, from here on the guardian: the first one keeps neither role.
fip_82b_createRoles ==
  << CreateRole("PARAMETER_ADMIN", "ROLE_ADMIN"),
     CreateRole("RATE_LIMITED_MINTER_ADMIN", "ROLE_ADMIN"),
     CreateRole("ORACLE_ADMIN_ROLE", "ROLE_ADMIN"),
     CreateRole("BALANCER_MANAGER_ADMIN_ROLE", "ROLE_ADMIN"),
     CreateRole("TRIBAL_CHIEF_ADMIN_ROLE", "ROLE_ADMIN"),
     CreateRole("PCV_GUARDIAN_ADMIN_ROLE", "ROLE_ADMIN"),
     CreateRole("METAGOVERNANCE_VOTE_ADMIN", "ROLE_ADMIN"),
     CreateRole("METAGOVERNANCE_TOKEN_STAKING", "ROLE_ADMIN"),
     CreateRole("METAGOVERNANCE_GAUGE_ADMIN", "ROLE_ADMIN"),
     CreateRole("SWAP_ADMIN_ROLE", "ROLE_ADMIN"),
     CreateRole("VOTIUM_ADMIN_ROLE", "ROLE_ADMIN"),
     CreateRole("FUSE_ADMIN", "ROLE_ADMIN"),
     CreateRole("FEI_MINT_ADMIN", "ROLE_ADMIN"),
     CreateRole("PCV_MINOR_PARAM_ROLE", "ROLE_ADMIN"),
     CreateRole("PSM_ADMIN_ROLE", "ROLE_ADMIN"),
     CreateRole("PCV_SAFE_MOVER_ROLE", "ROLE_ADMIN") >>

fip_82b_contractAdmins ==
  << SetContractAdminRole("fuseGuardian", "FUSE_ADMIN"),
     SetContractAdminRole("optimisticMinter", "FEI_MINT_ADMIN"),
     SetContractAdminRole("pcvEquityMinter", "FEI_MINT_ADMIN"),
     SetContractAdminRole("ethTokemakPCVDeposit", "TOKEMAK_DEPOSIT_ADMIN_ROLE"),
     SetContractAdminRole("uniswapPCVDeposit", "PCV_MINOR_PARAM_ROLE"),
     SetContractAdminRole("lusdPSMFeiSkimmer", "PCV_MINOR_PARAM_ROLE"),
     SetContractAdminRole("ethPSMFeiSkimmer", "PCV_MINOR_PARAM_ROLE"),
     SetContractAdminRole("aaveEthPCVDripController", "PCV_MINOR_PARAM_ROLE"),
     SetContractAdminRole("daiPCVDripController", "PCV_MINOR_PARAM_ROLE"),
     SetContractAdminRole("lusdPCVDripController", "PCV_MINOR_PARAM_ROLE") >>

fip_82b_grants ==
  << Grant("FUSE_ADMIN", "tribalCouncilTimelock"),
     Grant("METAGOVERNANCE_VOTE_ADMIN", "tribalCouncilTimelock"),
     Grant("TOKEMAK_DEPOSIT_ADMIN_ROLE", "tribalCouncilTimelock"),
     Grant("TOKEMAK_DEPOSIT_ADMIN_ROLE", "feiDAOTimelock"),
     Grant("FEI_MINT_ADMIN", "tribalCouncilTimelock"),
     Grant("PCV_MINOR_PARAM_ROLE", "tribalCouncilTimelock"),
     Grant("ORACLE_ADMIN_ROLE", "tribalCouncilTimelock"),
     Grant("PSM_ADMIN_ROLE", "tribalCouncilTimelock"),
     Grant("PCV_MINOR_PARAM_ROLE", "feiDAOTimelock"),
     Grant("PCV_MINOR_PARAM_ROLE", "optimisticTimelock"),
     Grant("FUSE_ADMIN", "optimisticTimelock"),
     Grant("FUSE_ADMIN", "tribalChiefSyncV2"),
     Grant("FEI_MINT_ADMIN", "feiDAOTimelock"),
     Grant("TOKEMAK_DEPOSIT_ADMIN_ROLE", "optimisticTimelock"),
     Grant("PCV_SAFE_MOVER_ROLE", "tribalCouncilTimelock"),
     Grant("PCV_GUARDIAN_ADMIN_ROLE", "tribalCouncilTimelock") >>

fip_82b_guardian ==
  << Grant("PCV_CONTROLLER_ROLE", "pcvGuardian"),
     Grant("GUARDIAN_ROLE", "pcvGuardian"),
     Revoke("PCV_CONTROLLER_ROLE", "pcvGuardianV1"),
     Revoke("GUARDIAN_ROLE", "pcvGuardianV1") >>

fip_82b == fip_82b_createRoles \o fip_82b_contractAdmins \o fip_82b_grants \o fip_82b_guardian
=============================================================================
