------------------------- MODULE ProposalsTribalCouncil -------------------------
(***************************************************************************)
(* The proposals executed once the TribalCouncil manages the minor roles,  *)
(* to the last consolidation of the PCV.  Each is the batch its timelock   *)
(* executes, one call of ProtocolWorld per command; commands that only     *)
(* move tokens (approve, transfer) are left out.                           *)
(***************************************************************************)
EXTENDS ProtocolWorld

\* FIP-104: Reinforce PCV by consolidating assets and perform technical maintenance.
fip_104 ==
  << SetSafe("pcvGuardian", {"uniswapPCVDeposit", "dpiToDaiLBPSwapper"}),
     Call("compoundDaiPCVDeposit", "withdraw"),
     Call("dpiToDaiLBPSwapper", "setDoInvert"),
     Call("dpiToDaiLBPSwapper", "forceSwap"),
     AddDeposits({"dpiToDaiLensDai"}),
     AddDeposits({"dpiToDaiLensDpi"}),
     RemoveDeposits({"rariPool31FeiPCVDepositWrapper", "rariPool25FeiPCVDepositWrapper",
       "rariPool9RaiPCVDepositWrapper", "aaveRaiPCVDepositWrapper", "rariPool19DpiPCVDepositWrapper",
       "liquityFusePoolLusdPCVDeposit", "rariPool72FeiPCVDepositWrapper", "raiDepositWrapper",
       "dpiDepositWrapper"}),
     Grant("SWAP_ADMIN_ROLE", "tribalCouncilTimelock"),
     Call("nopeDAO", "setVotingPeriod"),
     Call("aaveEthPCVDeposit", "deposit"),
     Call("compoundEthPCVDeposit", "withdraw") >>

\* Visor redemption.
fip_visor ==
  << Call("hypervisor", "withdraw") >>

\* Update the TRIBE buyback Balancer LBP.
buyback_newpool ==
  << Call("pcvEquityMinter", "setTarget"),
     Call("feiTribeLBPSwapper", "exitPool"),
     Call("fei", "mint"),
     Call("pcvEquityMinter", "unpause"),
     Call("noFeeFeiTribeLBPSwapper", "forceSwap"),
     SwapDeposit("feiBuybackLens", "feiBuybackLensNoFee") >>

\* Balancer Gauge Staker.
balancer_gauge_fix ==
  << SetSafe("pcvGuardian", {"balancerGaugeStaker"}),
     Grant("METAGOVERNANCE_GAUGE_ADMIN", "tribalCouncilTimelock"),
     Call("balancerGaugeStaker", "setTokenToGauge"),
     SafeMove("pcvGuardian", "balancerDepositFeiWeth", "balancerGaugeStaker"),
     Call("balancerGaugeStaker", "stakeInGauge"),
     SwapDeposit("balancerLensBpt30Fei70WethV1", "balancerLensBpt30Fei70WethV2"),
     AddDeposits({"balancerGaugeStaker"}) >>

\* OA CR Fixes.
oa_cr_fix ==
  << SwapDeposit("balancerLensBpt30Fei70WethV2", "balancerLensBpt30Fei70WethV3"),
     RemoveDeposits({"rariPool8FeiPCVDepositWrapper", "rariPool8DaiPCVDeposit",
       "rariPool8LusdPCVDeposit", "rariPool18FeiPCVDepositWrapper", "rariPool27FeiPCVDepositWrapper",
       "rariPool90FeiPCVDepositWrapper", "rariPool146EthPCVDeposit", "convexPoolPCVDepositWrapper"}) >>

\* Pod Executor V2.
pod_exec_v2 ==
  << GrantIn("tribalCouncilTimelock", "EXECUTOR_ROLE", "podExecutorV2"),
     RevokeIn("tribalCouncilTimelock", "EXECUTOR_ROLE", "podExecutor") >>

\* Mutation: one of the deployers is forgotten.
register_proposalOfThree ==
  << Grant("POD_METADATA_REGISTER_ROLE", "tribeDev1Deployer"),
     Grant("POD_METADATA_REGISTER_ROLE", "tribeDev4Deployer"),
     Grant("POD_METADATA_REGISTER_ROLE", "tribeDev2Deployer") >>

\* Register TC Proposal and grant pod metadata roles.
register_proposal ==
  << Grant("POD_METADATA_REGISTER_ROLE", "tribeDev1Deployer"),
     Grant("POD_METADATA_REGISTER_ROLE", "tribeDev4Deployer"),
     Grant("POD_METADATA_REGISTER_ROLE", "tribeDev2Deployer"),
     Grant("POD_METADATA_REGISTER_ROLE", "tribeDev3Deployer") >>

\* Withdraw from the D3Pool.
withdraw_d3_pool ==
  << SafeMove("pcvGuardian", "d3poolConvexPCVDeposit", "d3poolCurvePCVDeposit"),
     SafeMove("pcvGuardian", "d3poolCurvePCVDeposit", "daiFixedPricePSM") >>

\* Mutation: the council takes a role of its own for the withdrawal.
tokemak_withdrawAsController ==
  << Grant("PCV_CONTROLLER_ROLE", "tribalCouncilTimelock"),
     Call("ethTokemakPCVDeposit", "requestWithdrawal") >>

\* Withdraw from Tokemak.
tokemak_withdraw ==
  << Call("ethTokemakPCVDeposit", "requestWithdrawal") >>

\* FIP_104b: Withdraw LBP liquidity.
fip_104b ==
  << Call("dpiToDaiLBPSwapper", "exitPool"),
     RatioMoveERC20("ratioPCVControllerV2", "compoundDaiPCVDeposit"),
     Call("compoundDaiPCVDeposit", "deposit") >>

\* FIP-111: Reinforce PCV via ETH LBP and tighter spread.
eth_lbp ==
  << SetSafe("pcvGuardian", {"ethToDaiLBPSwapper"}),
     SafeMove("pcvGuardian", "aaveEthPCVDeposit", "ethToDaiLBPSwapper"),
     SafeMove("pcvGuardian", "compoundDaiPCVDeposit", "ethToDaiLBPSwapper"),
     Call("ethToDaiLBPSwapper", "swap"),
     AddDeposits({"ethToDaiLensDai"}),
     AddDeposits({"ethToDaiLensEth"}),
     Call("ethPSM", "setRedeemFee") >>

\* FIP-113: End Departed Rari Founders Vesting of TRIBE.
clawback ==
  << Call("fei", "mint"),
     Call("core", "allocateTribe"),
     Call("clawbackVestingContractA", "clawback"),
     Call("clawbackVestingContractB", "clawback"),
     Call("clawbackVestingContractC", "clawback") >>

\* TIP-109: Discontinue Tribe Incentives.
end_tribe_incentives_pools ==
  << Grant("TRIBAL_CHIEF_ADMIN_ROLE", "tribalCouncilTimelock"),
     SetPool(0, TRUE),
     SetPool(1, FALSE),
     SetPool(2, FALSE),
     SetPool(3, FALSE),
     SetPool(4, FALSE),
     SetPool(5, FALSE),
     SetPool(6, FALSE),
     SetPool(7, FALSE),
     SetPool(8, FALSE),
     SetPool(9, FALSE),
     SetPool(10, FALSE),
     SetPool(11, FALSE),
     SetPool(12, FALSE),
     SetPool(13, FALSE),
     SetPool(14, FALSE),
     SetPool(15, FALSE),
     SetPool(16, FALSE),
     SetPool(17, FALSE) >>

end_tribe_incentives_roles ==
  << Call("tribalChief", "updateBlockReward"),
     Call("autoRewardsDistributor", "setAutoRewardsDistribution"),
     Call("d3AutoRewardsDistributor", "setAutoRewardsDistribution"),
     Call("fei3CrvAutoRewardsDistributor", "setAutoRewardsDistribution"),
     Call("feiDaiAutoRewardsDistributor", "setAutoRewardsDistribution"),
     Call("feiUsdcAutoRewardsDistributor", "setAutoRewardsDistribution"),
     Revoke("FUSE_ADMIN", "tribalChiefSyncV2"),
     Revoke("TRIBAL_CHIEF_ADMIN_ROLE", "tribalChiefSyncV2"),
     Call("rewardsDistributorAdmin", "becomeAdmin"),
     RevokeIn("rewardsDistributorAdmin", "AUTO_REWARDS_DISTRIBUTOR_ROLE", "feiDaiAutoRewardsDistributor"),
     RevokeIn("rewardsDistributorAdmin", "AUTO_REWARDS_DISTRIBUTOR_ROLE", "feiUsdcAutoRewardsDistributor"),
     RevokeIn("rewardsDistributorAdmin", "AUTO_REWARDS_DISTRIBUTOR_ROLE", "autoRewardsDistributor"),
     RevokeIn("rewardsDistributorAdmin", "AUTO_REWARDS_DISTRIBUTOR_ROLE", "d3AutoRewardsDistributor"),
     RevokeIn("rewardsDistributorAdmin", "AUTO_REWARDS_DISTRIBUTOR_ROLE", "fei3CrvAutoRewardsDistributor"),
     Revoke("VOTIUM_ADMIN_ROLE", "opsOptimisticTimelock"),
     RemoveDeposits({"creamDepositWrapper"}) >>

end_tribe_incentives == end_tribe_incentives_pools \o end_tribe_incentives_roles

\* TIP-111: Increase FEI Stable backing to 90-100%.
tip_111 ==
  << RatioMoveERC20("ratioPCVControllerV2", "ethLidoPCVDepositOld"),
     Call("balancerGaugeStaker", "unstakeFromGauge"),
     RatioMoveERC20("ratioPCVControllerV2", "balancerGaugeStaker"),
     Call("balancerDepositFeiWeth", "exitPool"),
     RatioMoveERC20("ratioPCVControllerV2", "balancerDepositFeiWeth"),
     Call("aaveEthPCVDeposit", "deposit"),
     RatioMove("ratioPCVControllerV2", "aaveEthPCVDeposit"),
     SwapDeposit("ethLidoPCVDepositOldWrapper", "ethLidoPCVDeposit"),
     Call("dpiToDaiLBPSwapper", "exitPool"),
     RatioMoveERC20("ratioPCVControllerV2", "compoundDaiPCVDeposit"),
     Call("compoundDaiPCVDeposit", "deposit") >>

\* Repay Fuse Bad Debt.
tip_112 ==
  << SetSafe("pcvGuardian", {"fuseFixer"}) >>

\* TIP-115: Collateralization and Operations Updates.
tip_115 ==
  << AddDeposits({"rariTimelockFeiOldLens"}),
     AddDeposits({"tribalCouncilTimelockFeiLens"}),
     RemoveDeposits({"namedStaticPCVDepositWrapper"}),
     RemoveStatic(1),
     RemoveStatic(0),
     Call("rariInfraFeiTimelock", "acceptBeneficiary"),
     Call("rariInfraTribeTimelock", "acceptBeneficiary"),
     SafeMove("pcvGuardian", "daiFixedPricePSM", "ethToDaiLBPSwapper"),
     SafeMove("pcvGuardian", "ethPSM", "ethToDaiLBPSwapper"),
     Call("ethToDaiLBPSwapper", "swap"),
     Grant("SWAP_ADMIN_ROLE", "tribalCouncilSafe") >>

\* TIP-117: Oracles, Roles, and OA Cleanup.
\* The safe list it shortens is the one of the first guardian, by its address.
tip_117_roles ==
  << Revoke("MINTER_ROLE", "collateralizationOracleKeeper"),
     Revoke("MINTER_ROLE", "dpiUniswapPCVDeposit"),
     Revoke("MINTER_ROLE", "uniswapPCVDeposit"),
     Revoke("MINTER_ROLE", "balancerDepositFeiWeth"),
     Revoke("MINTER_ROLE", "optimisticMinter"),
     Revoke("PCV_CONTROLLER_ROLE", "raiPCVDripController"),
     Revoke("PCV_CONTROLLER_ROLE", "lusdPCVDripController"),
     Call("bammDeposit", "pause"),
     RatioMove("ratioPCVControllerV2", "aaveEthPCVDeposit"),
     Revoke("PCV_CONTROLLER_ROLE", "aaveEthPCVDripController"),
     Call("aaveEthPCVDeposit", "pause"),
     Revoke("ORACLE_ADMIN_ROLE", "collateralizationOracleGuardian"),
     Revoke("ORACLE_ADMIN_ROLE", "optimisticTimelock"),
     Revoke("SWAP_ADMIN_ROLE", "optimisticTimelock"),
     Revoke("FUSE_ADMIN", "optimisticTimelock"),
     Revoke("PCV_GUARDIAN_ADMIN_ROLE", "optimisticTimelock"),
     Revoke("METAGOVERNANCE_GAUGE_ADMIN", "optimisticTimelock"),
     Revoke("PCV_MINOR_PARAM_ROLE", "optimisticTimelock"),
     Revoke("TOKEMAK_DEPOSIT_ADMIN_ROLE", "optimisticTimelock") >>

tip_117_withdrawals ==
  << Call("tribeReserveStabilizer", "setCollateralizationOracle"),
     Call("pcvEquityMinter", "setCollateralizationOracle"),
     SetOracles([volt |-> "voltOracle"]),
     RatioMove("ratioPCVControllerV2", "uniswapPCVDeposit"),
     RatioMoveERC20("ratioPCVControllerV2", "ethTokemakPCVDeposit"),
     Call("d3poolCurvePCVDeposit", "exitPool"),
     RatioMoveERC20("ratioPCVControllerV2", "d3poolCurvePCVDeposit"),
     RatioMoveERC20("ratioPCVControllerV2", "d3poolCurvePCVDeposit"),
     RatioMoveERC20("ratioPCVControllerV2", "d3poolCurvePCVDeposit"),
     RatioMoveERC20("ratioPCVControllerV2", "compoundEthPCVDeposit"),
     RatioMoveERC20("ratioPCVControllerV2", "compoundDaiPCVDeposit"),
     RatioMoveERC20("ratioPCVControllerV2", "aaveEthPCVDeposit"),
     RatioMoveERC20("ratioPCVControllerV2", "d3poolConvexPCVDeposit"),
     RatioMoveERC20("ratioPCVControllerV2", "d3poolConvexPCVDeposit"),
     RatioMoveERC20("ratioPCVControllerV2", "bammDeposit"),
     RatioMoveERC20("ratioPCVControllerV2", "raiPriceBoundPSM"),
     RatioMoveERC20("ratioPCVControllerV2", "raiPriceBoundPSM") >>

tip_117_cleanup ==
  << RemoveDeposits({"dpiToDaiLensDai", "dpiToDaiLensDpi", "bammDeposit", "rariPool7LusdPCVDeposit",
       "rariPool6FeiPCVDepositWrapper", "rariPool19FeiPCVDepositWrapper",
       "rariPool24FeiPCVDepositWrapper", "agEurDepositWrapper", "wethDepositWrapper",
       "d3poolConvexPCVDeposit", "d3poolCurvePCVDeposit", "uniswapPCVDeposit",
       "compoundEthPCVDepositWrapper", "raiPriceBoundPSM", "balancerDepositFeiWeth",
       "balancerLensBpt30Fei70WethV3", "ethTokemakPCVDeposit"}),
     UnsetSafe("pcvGuardianV1", {"raiPriceBoundPSM", "aaveRaiPCVDeposit", "rariPool9RaiPCVDeposit",
       "balancerDepositFeiWeth", "d3poolConvexPCVDeposit", "d3poolCurvePCVDeposit",
       "compoundEthPCVDeposit"}),
     Revoke("METAGOVERNANCE_VOTE_ADMIN", "opsOptimisticTimelock"),
     Revoke("METAGOVERNANCE_TOKEN_STAKING", "opsOptimisticTimelock"),
     Revoke("ORACLE_ADMIN_ROLE", "opsOptimisticTimelock") >>

\* Mutation: the last withdrawal goes through the guardian, which unpauses the module.
tip_117ThroughGuardian ==
  tip_117_roles \o tip_117_withdrawals
    \o << SafeMove("pcvGuardian", "raiPriceBoundPSM", "feiDAOTimelock") >> \o tip_117_cleanup

tip_117 == tip_117_roles \o tip_117_withdrawals \o tip_117_cleanup

\* TIP_118: PSM deprecation, Incentives withdrawal, agEUR redemption.
tip_118_psm ==
  << RatioMoveERC20("ratioPCVControllerV2", "ethPSM"),
     RatioMoveERC20("ratioPCVControllerV2", "ethPSM"),
     RatioMoveERC20("ratioPCVControllerV2", "lusdPSM"),
     RatioMoveERC20("ratioPCVControllerV2", "lusdPSM"),
     Revoke("MINTER_ROLE", "ethPSM"),
     Revoke("MINTER_ROLE", "lusdPSM"),
     Call("raiPriceBoundPSM", "pauseRedeem"),
     Call("aaveEthPCVDripController", "pause"),
     Call("raiPCVDripController", "pause"),
     Call("lusdPCVDripController", "pause"),
     Call("lusdPSMFeiSkimmer", "pause"),
     Revoke("PCV_CONTROLLER_ROLE", "lusdPSMFeiSkimmer"),
     Call("ethPSMFeiSkimmer", "pause"),
     Revoke("PCV_CONTROLLER_ROLE", "ethPSMFeiSkimmer"),
     Grant("PCV_CONTROLLER_ROLE", "daiFixedPricePSMFeiSkimmer"),
     Call("daiFixedPricePSMFeiSkimmer", "skim") >>

tip_118_incentives ==
  << AddDeposits({"wethHoldingPCVDeposit", "lusdHoldingPCVDeposit", "daiHoldingPCVDeposit",
       "voltHoldingPCVDeposit"}),
     SetSafe("pcvGuardian", {"wethHoldingPCVDeposit", "lusdHoldingPCVDeposit", "daiHoldingPCVDeposit",
       "voltHoldingPCVDeposit", "gOHMHoldingPCVDeposit"}),
     Call("erc20Dripper", "withdrawERC20"),
     Call("votiumBriber3Crvpool", "withdrawERC20"),
     Call("votiumBriberD3pool", "withdrawERC20"),
     Call("rewardsDistributorAdmin", "_grantComp"),
     Call("tribalChief", "governorWithdrawTribe"),
     Revoke("TRIBAL_CHIEF_ADMIN_ROLE", "optimisticTimelock"),
     Revoke("TRIBAL_CHIEF_ADMIN_ROLE", "tribalCouncilTimelock") >>

tip_118_angle ==
  << Call("angleDelegatorPCVDeposit", "claimGaugeRewards"),
     RatioMoveERC20("ratioPCVControllerV2", "angleDelegatorPCVDeposit"),
     Call("angleDelegatorPCVDeposit", "unstakeFromGauge"),
     RatioMoveERC20("ratioPCVControllerV2", "angleDelegatorPCVDeposit"),
     RatioMove("ratioPCVControllerV2", "agEurUniswapPCVDeposit"),
     RatioMoveERC20("ratioPCVControllerV2", "agEurUniswapPCVDeposit"),
     Call("angleEuroRedeemer", "redeemAgEurToDai") >>

tip_118_cleanup ==
  << UnsetSafe("pcvGuardian", {"ethPSM", "lusdPSM", "raiPriceBoundPSM", "agEurUniswapPCVDeposit",
       "aaveEthPCVDeposit", "turboFusePCVDeposit", "aaveRaiPCVDeposit", "rariPool9RaiPCVDeposit",
       "balancerDepositFeiWeth", "d3poolConvexPCVDeposit", "d3poolCurvePCVDeposit",
       "compoundEthPCVDeposit", "dpiToDaiLBPSwapper", "uniswapPCVDeposit"}),
     RemoveDeposits({"agEurUniswapPCVDeposit", "uniswapLensAgEurUniswapGauge", "lusdPSM", "ethPSM",
       "aaveEthPCVDepositWrapper", "voltDepositWrapper", "turboFusePCVDeposit", "feiOATimelockWrapper",
       "rariPool128FeiPCVDepositWrapper", "rariPool22FeiPCVDepositWrapper"}),
     Call("proxyAdmin", "changeProxyAdmin"),
     Call("daiFixedPricePSM", "setRedeemFee"),
     Call("daiFixedPricePSM", "setMintFee"),
     Call("proxyAdmin", "upgrade"),
     Call("vlAuraDelegatorPCVDeposit", "initialize"),
     Call("vlAuraDelegatorPCVDeposit", "claimAirdropAndLock"),
     Call("vlAuraDelegatorPCVDeposit", "setDelegate") >>

tip_118 == tip_118_psm \o tip_118_incentives \o tip_118_angle \o tip_118_cleanup

\* TIP-119: Collaterisation Oracle updates, Swap USDC, Perform FEI <> VOLT OTC.
tip_119 ==
  << SetOracles([gohm |-> "gOhmUSDOracle"]),
     AddDeposits({"gOHMHoldingPCVDeposit"}),
     Call("compoundDaiPCVDeposit", "deposit"),
     SafeMove("pcvGuardian", "rariPool146EthPCVDeposit", "wethHoldingPCVDeposit"),
     Call("wethHoldingPCVDeposit", "wrapETH"),
     SetSafe("pcvGuardian", {"tribalCouncilTimelock"}),
     SafeMove("pcvGuardian", "voltHoldingPCVDeposit", "tribalCouncilTimelock"),
     UnsetSafe("pcvGuardian", {"tribalCouncilTimelock"}),
     Call("voltOTCEscrow", "swap"),
     RemoveDeposits({"voltHoldingPCVDeposit"}) >>

\* TIP-120: Return Unvested Tokens.
phase_1 ==
  << Call("feiLabsVestingTimelock", "acceptBeneficiary"),
     Call("uniswapFeiTribeLiquidityTimelock", "acceptBeneficiary"),
     Call("uniswapFeiTribeLiquidityTimelock", "unlockLiquidity"),
     Call("uniswapLiquidityRemover", "redeemLiquidity") >>

\* TIP-121a: Consolidation.
tip_121a_swaps ==
  << Call("ethToDaiLBPSwapper", "setReceivingAddress"),
     Call("compoundDaiPCVDeposit", "withdraw"),
     RatioMove("ratioPCVControllerV2", "wethHoldingPCVDeposit"),
     RatioMove("ratioPCVControllerV2", "rariPool146EthPCVDeposit"),
     Call("ethToDaiLBPSwapper", "swap"),
     Call("compoundDaiPCVDeposit", "withdraw"),
     RatioMove("ratioPCVControllerV2", "lusdHoldingPCVDeposit"),
     Call("lusdToDaiSwapper", "setSwapFrequency"),
     Call("lusdToDaiSwapper", "forceSwap"),
     Call("daiFixedPricePSM", "setSurplusTarget"),
     Call("daiPCVDripController", "setSource"),
     RatioMove("ratioPCVControllerV2", "compoundDaiPCVDeposit") >>

tip_121a_cleanup ==
  << Call("noFeeFeiTribeLBPSwapper", "exitPool"),
     RatioMoveERC20("ratioPCVControllerV2", "daiFixedPricePSM"),
     Call("gOHMHoldingPCVDeposit", "withdraw"),
     Call("pcvSentinel", "knight"),
     Call("fuseWithdrawalGuard", "setWithdrawInfo"),
     Call("fuseWithdrawalGuard", "setWithdrawInfo"),
     Call("fuseWithdrawalGuard", "setWithdrawInfo"),
     AddDeposits({"lusdToDaiLensDai", "lusdToDaiLensLusd"}),
     RemoveDeposits({"compoundDaiPCVDepositWrapper", "lusdHoldingPCVDeposit", "feiBuybackLensNoFee",
       "gOHMHoldingPCVDeposit"}) >>

tip_121a == tip_121a_swaps \o tip_121a_cleanup

\* TIP-122: End Rari team vesting and consolidate Tribal Council assets.
tc_consolidate ==
  << Call("newRariInfraFeiTimelock", "clawback"),
     Call("newRariInfraTribeTimelock", "clawback") >>

\* TIP_121a (cont.): Consolidation ops and technical cleanup.
tip_121a_cont ==
  << Call("lusdToDaiSwapper", "exitPool"),
     RatioMoveERC20("ratioPCVControllerV2", "daiHoldingPCVDeposit"),
     Call("ethToDaiLBPSwapper", "exitPool"),
     RatioMoveERC20("ratioPCVControllerV2", "daiHoldingPCVDeposit"),
     RatioMove("ratioPCVControllerV2", "wethHoldingPCVDeposit"),
     Call("ethLidoPCVDeposit", "deposit"),
     SetOracles([weth |-> "chainlinkStEthUsdOracleWrapper"]),
     AddDeposits({"lusdHoldingPCVDeposit"}),
     RemoveDeposits({"aaveFeiPCVDepositWrapper", "compoundFeiPCVDepositWrapper", "lusdToDaiLensLusd",
       "lusdToDaiLensDai", "tribalCouncilTimelockFeiLens"}),
     UnsetSafe("pcvGuardian", {"voltHoldingPCVDeposit", "gOHMHoldingPCVDeposit"}) >>
=============================================================================
