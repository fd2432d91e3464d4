----------------------------- MODULE ProposalsFeiV1 -----------------------------
(***************************************************************************)
(* The proposals of the FeiDAO from the Balancer treasury swap to the      *)
(* FeiRari rewards upgrade.  Each is the batch its timelock executes, one  *)
(* call of ProtocolWorld per command; commands that only move tokens       *)
(* (approve, transfer) are left out.                                       *)
(***************************************************************************)
EXTENDS ProtocolWorld

\* FIP-37: TRIBE buybacks.
fip_37 ==
  << Grant("MINTER_ROLE", "pcvEquityMinter"),
     Grant("MINTER_ROLE", "collateralizationOracleKeeper"),
     Call("core", "allocateTribe"),
     CreateRole("ORACLE_ADMIN_ROLE", "GOVERN_ROLE"),
     SetContractAdminRole("collateralizationOracle", "ORACLE_ADMIN_ROLE"),
     SetContractAdminRole("collateralizationOracleWrapper", "ORACLE_ADMIN_ROLE"),
     Grant("ORACLE_ADMIN_ROLE", "collateralizationOracleGuardian"),
     CreateRole("SWAP_ADMIN_ROLE", "GOVERN_ROLE"),
     Grant("SWAP_ADMIN_ROLE", "pcvEquityMinter"),
     Grant("ORACLE_ADMIN_ROLE", "optimisticTimelock"),
     Call("fei", "mint"),
     Call("feiTribeLBPSwapper", "swap") >>

\* FIP-38: Tokemak Reactor and Swap.
fip_38 ==
  << Call("core", "allocateTribe"),
     Call("aaveEthPCVDeposit", "withdraw"),
     Call("aaveEthPCVDeposit", "withdrawETH"),
     Call("compoundEthPCVDeposit", "withdraw"),
     Call("ethTokemakPCVDeposit", "deposit"),
     CreateRole("TOKEMAK_DEPOSIT_ADMIN_ROLE", "GOVERN_ROLE"),
     SetContractAdminRole("ethTokemakPCVDeposit", "TOKEMAK_DEPOSIT_ADMIN_ROLE"),
     SetContractAdminRole("tokeTokemakPCVDeposit", "TOKEMAK_DEPOSIT_ADMIN_ROLE"),
     Grant("TOKEMAK_DEPOSIT_ADMIN_ROLE", "optimisticTimelock") >>

\* FIP-33: Balancer Treasury Swap.
fip_33 ==
  << Call("core", "allocateTribe"),
     Call("fei", "mint"),
     Call("tribeBalOtcEscrow", "swap"),
     Call("feiBalOtcEscrow", "swap"),
     AddDeposits({"ethTokemakPCVDeposit"}) >>

\* FIP-41: LUSD Auction.
fip_41 ==
  << Call("fei", "mint"),
     Call("saddleD4Pool", "swap"),
     Call("fei", "mint"),
     Call("feiLusdLBPSwapper", "forceSwap") >>

\* FIP-45: Angle Protocol Partnership.
fip_45 ==
  << Grant("MINTER_ROLE", "agEurAngleUniswapPCVDeposit"),
     Call("agEurAngleUniswapPCVDeposit", "mintAgToken"),
     Call("agEurAngleUniswapPCVDeposit", "deposit"),
     SetOracles([agEUR |-> "chainlinkEurUsdOracleWrapper"]),
     AddDeposits({"agEurAngleUniswapPCVDeposit"}) >>

\* FIP-48: Update Collateralization Oracle.
\* Removes three wrappers by their address in mainnetAddresses.
fip_48 ==
  << SetOracles([lusd |-> "chainlinkLUSDOracle", cream |-> "creamUsdCompositeOracle",
                 bal |-> "balUsdCompositeOracle"]),
     AddDeposits({"feiLusdLens", "aaveFeiPCVDepositWrapper", "creamDepositWrapper",
       "balDepositWrapper", "rariPool7LusdPCVDeposit", "staticPcvDepositWrapper2", "feiBuybackLens",
       "liquityFusePoolLusdPCVDeposit", "rariPool90FeiPCVDeposit"}),
     RemoveDeposits({"rariPool28FeiPCVDepositWrapper", "rariPool31FeiPCVDepositWrapper",
       "staticPcvDepositWrapper"}) >>

\* FIP-33b: Deposit 200,000 BAL in the BAL/WETH pool.
fip_33b ==
  << Call("aaveEthPCVDeposit", "withdraw"),
     Call("balancerDepositBalWeth", "deposit"),
     SwapDeposit("balDepositWrapper", "balancerDepositBalWeth") >>

\* FIP-53: Farm d3Pool on Convex.
fip_53 ==
  << Call("fei", "mint"),
     Call("d3poolCurvePCVDeposit", "deposit"),
     RatioMoveERC20("ratioPCVController", "d3poolCurvePCVDeposit"),
     Call("d3poolConvexPCVDeposit", "deposit"),
     AddDeposits({"d3poolCurvePCVDeposit"}),
     AddDeposits({"d3poolConvexPCVDeposit"}) >>

\* FIP-50: Yield improvements.
fip_50 ==
  << Grant("PCV_CONTROLLER_ROLE", "ratioPCVControllerV2"),
     Grant("SWAP_ADMIN_ROLE", "optimisticTimelock"),
     Call("feiLusdLBPSwapper", "exitPool"),
     Call("rariPool7LusdPCVDeposit", "deposit"),
     Call("ratioPCVControllerV2", "transferFromRatio"),
     Call("ratioPCVControllerV2", "transferFromRatio"),
     RatioMove("ratioPCVControllerV2", "aaveEthPCVDeposit"),
     Call("compoundEthPCVDeposit", "withdraw"),
     Call("ethLidoPCVDepositOld", "deposit"),
     RemoveDeposits({"feiLusdLens"}),
     AddDeposits({"bammDeposit"}),
     Revoke("PCV_CONTROLLER_ROLE", "ratioPCVController") >>

\* FIP-51: FeiRari Merger.
merger ==
  << Call("mergerGate", "floop"),
     Call("core", "allocateTribe"),
     Call("core", "allocateTribe"),
     Grant("MINTER_ROLE", "tribeRagequit"),
     Call("pegExchanger", "tribeAccept"),
     Call("tribeRagequit", "tribeAccept"),
     Call("fei", "mint") >>

\* FIP-51: FeiRari Merger.
mergerRari ==
  << Call("pegExchanger", "rgtAccept"),
     Call("tribeRagequit", "rgtAccept"),
     SetPendingAdmin("rariTimelock", "tribeRariDAO"),
     Call("tribeRariDAO", "__acceptAdmin") >>

\* FIP-52: Increase DAI allocation.
fip_52 ==
  << Call("daiBondingCurve", "setScale"),
     Call("daiBondingCurve", "setMintCap"),
     Call("daiBondingCurve", "setBuffer") >>

\* The pool of the d3pool bribes, added in the setup and wired in the teardown.
fip_bribe ==
  << AddPool("stakingTokenWrapperBribeD3pool"),
     InitWrapper("stakingTokenWrapperBribeD3pool", 12) >>

\* FIP-55: PCV Guardian.
\* The guardian it installs is the first one: pcvGuardianV1.
fip_55 ==
  << Grant("GUARDIAN_ROLE", "pcvGuardianV1"),
     Grant("PCV_CONTROLLER_ROLE", "pcvGuardianV1") >>

\* FIP-56: Fei v2 Deployment.
fip_56 ==
  << CreateRole("TRIBE_MINTER_ROLE", "GOVERN_ROLE"),
     Grant("TRIBE_MINTER_ROLE", "tribeReserveStabilizer"),
     SetContractAdminRole("tribeMinter", "TRIBE_MINTER_ROLE"),
     TransferOwnership("tribe", "tribeMinter"),
     Grant("MINTER_ROLE", "daiPSM"),
     Grant("PCV_CONTROLLER_ROLE", "daiPCVDripController"),
     CreateRole("PSM_ADMIN_ROLE", "GOVERN_ROLE"),
     Call("compoundDaiPCVDeposit", "withdraw"),
     Revoke("MINTER_ROLE", "dpiBondingCurve"),
     Revoke("MINTER_ROLE", "raiBondingCurve"),
     RemoveDeposits({"dpiBondingCurveWrapper", "raiBondingCurveWrapper"}),
     AddDeposits({"daiPSM"}),
     Call("bondingCurve", "setBuffer"),
     Call("ethReserveStabilizer", "setUsdPerFeiRate"),
     SetSafe("pcvGuardianV1", {"daiPSM"}) >>

\* FIP-61: Maintenance and Peg Updates.
fip_61 ==
  << SwapDeposit("staticPcvDepositWrapper2", "namedStaticPCVDepositWrapper"),
     RemoveDeposits({"daiBondingCurveWrapper"}),
     Revoke("MINTER_ROLE", "daiBondingCurve"),
     Call("daiBondingCurve", "pause"),
     Revoke("MINTER_ROLE", "tribeRagequit"),
     Grant("TRIBAL_CHIEF_ADMIN_ROLE", "tribalChiefSyncV2"),
     Call("optimisticTimelock", "becomeAdmin"),
     GrantIn("optimisticTimelock", "EXECUTOR_ROLE", "tribalChiefSyncV2"),
     RevokeIn("optimisticTimelock", "EXECUTOR_ROLE", "tribalChiefSync"),
     Call("daiPSM", "setMintFee"),
     Call("daiPSM", "setRedeemFee") >>

\* FIP-60: FeiRari Rewards Upgrade.
fip_60 ==
  << Call("rariPool8Comptroller", "_setPriceOracle"),
     Call("rariPool8Comptroller", "_deployMarket"),
     Call("rariPool8Comptroller", "_deployMarket"),
     Call("rariPool8Comptroller", "_setPauseGuardian"),
     Call("fuseGuardian", "_setBorrowPausedByUnderlying"),
     Call("fuseGuardian", "_setBorrowPausedByUnderlying"),
     Call("rariPool8Comptroller", "_setBorrowCapGuardian"),
     Call("fuseGuardian", "_setMarketSupplyCapsByUnderlying"),
     AddPool("d3StakingTokenWrapper"),
     AddPool("fei3CrvStakingtokenWrapper"),
     InitWrapper("d3StakingTokenWrapper", 13),
     InitWrapper("fei3CrvStakingtokenWrapper", 14),
     Call("d3AutoRewardsDistributor", "init"),
     Call("fei3CrvAutoRewardsDistributor", "init"),
     Call("rewardsDistributorAdmin", "becomeAdmin"),
     GrantIn("rewardsDistributorAdmin", "AUTO_REWARDS_DISTRIBUTOR_ROLE", "d3AutoRewardsDistributor"),
     GrantIn("rewardsDistributorAdmin", "AUTO_REWARDS_DISTRIBUTOR_ROLE", "fei3CrvAutoRewardsDistributor") >>

\* FIP-60b: FeiRari Rewards Upgrade.
fip_60b ==
  << SetPendingAdmin("rariPool8Comptroller", "fuseAdmin"),
     Call("fuseAdmin", "_acceptAdmin"),
     TransferOwnership("rariPool8MasterOracle", "fuseAdmin"),
     Call("fuseAdmin", "oracleAdd"),
     Call("fuseAdmin", "_deployMarket"),
     Call("fuseAdmin", "_deployMarket"),
     Call("fuseGuardian", "_setBorrowPausedByUnderlying"),
     Call("fuseGuardian", "_setBorrowPausedByUnderlying"),
     Call("fuseGuardian", "_setMarketSupplyCapsByUnderlying"),
     AddPool("feiDaiStakingTokenWrapper"),
     AddPool("feiUsdcStakingTokenWrapper"),
     InitWrapper("feiDaiStakingTokenWrapper", 15),
     InitWrapper("feiUsdcStakingTokenWrapper", 16),
     Call("feiDaiAutoRewardsDistributor", "init"),
     Call("feiUsdcAutoRewardsDistributor", "init"),
     GrantIn("rewardsDistributorAdmin", "AUTO_REWARDS_DISTRIBUTOR_ROLE", "feiDaiAutoRewardsDistributor"),
     GrantIn("rewardsDistributorAdmin", "AUTO_REWARDS_DISTRIBUTOR_ROLE", "feiUsdcAutoRewardsDistributor") >>

\* Mutation: what the wrappers wrap stays counted.
fip_60cKeepsWrapped ==
  << SetPool(16, TRUE),
     AddDeposits({"rariPool90FeiPCVDepositWrapper", "rariPool91FeiPCVDepositWrapper",
       "rariPool79FeiPCVDepositWrapper", "rariPool72FeiPCVDepositWrapper",
       "rariPool128FeiPCVDepositWrapper", "rariPool22FeiPCVDepositWrapper",
       "rariPool28FeiPCVDepositWrapper", "rariPool31FeiPCVDepositWrapper"}) >>

\* FIP-60c: FeiRari Rewards Upgrade.
fip_60c ==
  << SetPool(16, TRUE),
     Call("rariPool128FeiPCVDeposit", "deposit"),
     AddDeposits({"rariPool90FeiPCVDepositWrapper", "rariPool91FeiPCVDepositWrapper",
       "rariPool79FeiPCVDepositWrapper", "rariPool72FeiPCVDepositWrapper",
       "rariPool128FeiPCVDepositWrapper", "rariPool22FeiPCVDepositWrapper",
       "rariPool28FeiPCVDepositWrapper", "rariPool31FeiPCVDepositWrapper"}),
     RemoveDeposits({"rariPool90FeiPCVDeposit", "rariPool91FeiPCVDeposit", "rariPool79FeiPCVDeposit",
       "rariPool72FeiPCVDeposit", "rariPool28FeiPCVDeposit", "rariPool31FeiPCVDeposit"}) >>
=============================================================================
