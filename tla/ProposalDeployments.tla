---------------------- MODULE ProposalDeployments ----------------------
(***************************************************************************)
(* What the deploy function of each proposal creates: the contracts, the   *)
(* ones of earlier proposals its constructors take, and the token each new *)
(* deposit of the collateralization oracle reports in.  Lenses, oracles    *)
(* and pools that no call of a proposal names are contracts like the       *)
(* others.                                                                 *)
(***************************************************************************)
EXTENDS ProtocolWorld

NoDeposits == [d \in {} |-> ""]

In(token, S) == [d \in S |-> token]

Deploy(args, contracts, reports) == [args |-> args, contracts |-> contracts, reports |-> reports]

fip_37_deploy ==
  Deploy({},
         {"collateralizationOracleKeeper", "collateralizationOracleGuardian",
          "chainlinkTribeEthOracleWrapper", "chainlinkTribeUsdCompositeOracle",
          "feiTribeLBPSwapper", "pcvEquityMinter"},
         NoDeposits)

fip_38_deploy ==
  Deploy({},
         {"ethTokemakPCVDeposit", "tokeTokemakPCVDeposit"},
         In("weth", {"ethTokemakPCVDeposit"}))

fip_33_deploy ==
  Deploy({},
         {"tribeBalOtcEscrow", "feiBalOtcEscrow"},
         NoDeposits)

fip_41_deploy ==
  Deploy({},
         {"liquityFusePoolLusdPCVDeposit", "feiLusdLBPSwapper", "feiLusdLBP"},
         In("lusd", {"liquityFusePoolLusdPCVDeposit"}))

fip_45_deploy ==
  Deploy({},
         {"agEurAngleUniswapPCVDeposit", "chainlinkEurUsdOracleWrapper"},
         In("agEUR", {"agEurAngleUniswapPCVDeposit"}))

fip_48_deploy ==
  Deploy({"feiLusdLBP"},
         {"chainlinkLUSDOracle", "chainlinkCREAMEthOracle", "chainlinkBALEthOracle",
          "balUsdCompositeOracle", "creamUsdCompositeOracle", "feiLusdLens",
          "aaveFeiPCVDepositWrapper", "creamDepositWrapper", "balDepositWrapper",
          "staticPcvDepositWrapper2", "feiBuybackLens"},
         In("lusd", {"feiLusdLens"})
          @@ In("fei", {"aaveFeiPCVDepositWrapper", "feiBuybackLens"})
          @@ In("cream", {"creamDepositWrapper"})
          @@ In("bal", {"balDepositWrapper"})
          @@ In("USD", {"staticPcvDepositWrapper2"}))

fip_33b_deploy ==
  Deploy({"balUsdCompositeOracle"},
         {"balancerDepositBalWeth"},
         In("bal", {"balancerDepositBalWeth"}))

fip_53_deploy ==
  Deploy({},
         {"d3poolCurvePCVDeposit", "d3poolConvexPCVDeposit"},
         In("USD", {"d3poolCurvePCVDeposit", "d3poolConvexPCVDeposit"}))

fip_50_deploy ==
  Deploy({},
         {"bammDeposit", "ratioPCVControllerV2"},
         In("lusd", {"bammDeposit"}))

merger_deploy ==
  Deploy({},
         {"tribeRariDAO", "pegExchanger", "tribeRagequit", "mergerGate", "pegExchangerDripper"},
         NoDeposits)

fip_bribe_deploy ==
  Deploy({},
         {"votiumBriberD3pool", "stakingTokenWrapperBribeD3pool"},
         NoDeposits)

fip_55_deploy ==
  Deploy({},
         {"pcvGuardianV1"},
         NoDeposits)

fip_56_deploy ==
  Deploy({},
         {"tribeMinter", "tribeReserveStabilizer", "daiPSM", "daiPCVDripController"},
         In("dai", {"daiPSM"}))

fip_61_deploy ==
  Deploy({},
         {"namedStaticPCVDepositWrapper", "tribalChiefSyncV2"},
         In("USD", {"namedStaticPCVDepositWrapper"}))

fip_60_deploy ==
  Deploy({"tribalChiefSyncV2"},
         {"tribalChiefSyncExtension", "d3StakingTokenWrapper", "fei3CrvStakingtokenWrapper",
          "d3AutoRewardsDistributor", "fei3CrvAutoRewardsDistributor", "fuseGuardian"},
         NoDeposits)

fip_60b_deploy ==
  Deploy({},
         {"feiDaiStakingTokenWrapper", "feiUsdcStakingTokenWrapper",
          "feiDaiAutoRewardsDistributor", "feiUsdcAutoRewardsDistributor", "fuseAdmin"},
         NoDeposits)

fip_60c_deploy ==
  Deploy({},
         {"rariPool90FeiPCVDepositWrapper", "rariPool91FeiPCVDepositWrapper",
          "rariPool79FeiPCVDepositWrapper", "rariPool72FeiPCVDepositWrapper",
          "rariPool128FeiPCVDepositWrapper", "rariPool22FeiPCVDepositWrapper"},
         In("fei", {"rariPool90FeiPCVDepositWrapper", "rariPool91FeiPCVDepositWrapper",
         "rariPool79FeiPCVDepositWrapper", "rariPool72FeiPCVDepositWrapper",
         "rariPool128FeiPCVDepositWrapper", "rariPool22FeiPCVDepositWrapper"}))

fip_62_deploy ==
  Deploy({},
         {"ethPSM", "ethPSMRouter"},
         In("weth", {"ethPSM"}))

fip_54_deploy ==
  Deploy({"daiPSM", "ethPSM"},
         {"restrictedPermissions", "opsOptimisticTimelock", "ethPSMFeiSkimmer",
          "daiPSMFeiSkimmer", "rariInfraFeiTimelock", "rariInfraTribeTimelock"},
         NoDeposits)

fip_67_deploy ==
  Deploy({"bammDeposit"},
         {"lusdPSM", "lusdPCVDripController", "lusdPSMFeiSkimmer"},
         In("lusd", {"lusdPSM"}))

fip_68_deploy ==
  Deploy({},
         {"reptbRedeemer"},
         NoDeposits)

fip_70_deploy ==
  Deploy({"ratioPCVControllerV2"},
         {"weightedBalancerPoolManagerBase", "balancerFeiWethPool", "balancerDepositFeiWeth",
          "delayedPCVMoverWethUniToBal"},
         In("weth", {"balancerDepositFeiWeth"}))

fip_72_deploy ==
  Deploy({"daiPSM"},
         {"daiFixedPricePSM"},
         In("dai", {"daiFixedPricePSM"}))

fip_73_deploy ==
  Deploy({},
         {"wethDepositWrapper", "dpiDepositWrapper", "raiDepositWrapper", "agEurDepositWrapper"},
         In("weth", {"wethDepositWrapper"})
          @@ In("dpi", {"dpiDepositWrapper"})
          @@ In("rai", {"raiDepositWrapper"})
          @@ In("agEUR", {"agEurDepositWrapper"}))

fip_73b_deploy ==
  Deploy({},
         {"kashiRedeemer", "idleTranchesRedeemer", "idleRedeemer", "bbRedeemer"},
         NoDeposits)

fip_76b_deploy ==
  Deploy({},
         {"rariPool8Lusd", "rariPool8LusdPCVDeposit", "rariPool8DaiPCVDeposit"},
         In("dai", {"rariPool8DaiPCVDeposit"}) @@ In("lusd", {"rariPool8LusdPCVDeposit"}))

fip_78a_deploy ==
  Deploy({"chainlinkEurUsdOracleWrapper"},
         {"uniswapLensAgEurUniswapGauge", "gaugeLensAgEurUniswapGauge",
          "angleDelegatorPCVDeposit", "agEurUniswapPCVDeposit"},
         In("agEUR", {"uniswapLensAgEurUniswapGauge", "agEurUniswapPCVDeposit"}))

fip_79_deploy ==
  Deploy({},
         {"ohmEscrow"},
         NoDeposits)

fip_82_deploy ==
  Deploy({},
         {"podExecutor", "podFactory", "tribalCouncilTimelock", "podAdminGateway",
          "tribalCouncilSafe", "governanceMetadataRegistry", "roleBastion", "nopeDAO"},
         NoDeposits)

fip_83_deploy ==
  Deploy({},
         {"laTribuFeiTimelock", "laTribuTribeTimelock"},
         NoDeposits)

fip_87_deploy ==
  Deploy({},
         {"pcvSentinel"},
         NoDeposits)

fip_92_deploy ==
  Deploy({"balUsdCompositeOracle"},
         {"veBalDelegatorPCVDeposit", "gaugeLensBpt30Fei70WethGauge",
          "balancerLensBpt30Fei70WethV1", "balancerLensVeBalBal", "balancerLensVeBalWeth"},
         In("weth", {"balancerLensBpt30Fei70WethV1", "balancerLensVeBalWeth"})
          @@ In("bal", {"balancerLensVeBalBal"}))

fip_97_deploy ==
  Deploy({},
         {"turboFusePCVDeposit"},
         In("fei", {"turboFusePCVDeposit"}))

fip_99_deploy ==
  Deploy({},
         {"raiUsdChainlinkOracleWrapper", "raiPriceBoundPSM", "raiPCVDripController"},
         In("rai", {"raiPriceBoundPSM"}))

fip_82b_deploy ==
  Deploy({},
         {"pcvGuardian"},
         NoDeposits)

fip_104_deploy ==
  Deploy({"daiFixedPricePSM"},
         {"daiFixedPricePSMFeiSkimmer", "dpiToDaiLBPSwapper", "dpiToDaiLensDai",
          "dpiToDaiLensDpi"},
         In("dai", {"dpiToDaiLensDai"}) @@ In("dpi", {"dpiToDaiLensDpi"}))

buyback_newpool_deploy ==
  Deploy({},
         {"feiBuybackLensNoFee", "noFeeFeiTribeLBPSwapper"},
         In("fei", {"feiBuybackLensNoFee"}))

balancer_gauge_fix_deploy ==
  Deploy({"gaugeLensBpt30Fei70WethGauge"},
         {"balancerGaugeStakerImplementation", "balancerGaugeStaker",
          "gaugeLensBpt30Fei70WethGaugeV2", "balancerLensBpt30Fei70WethV2"},
         In("bal", {"balancerGaugeStaker"}) @@ In("weth", {"balancerLensBpt30Fei70WethV2"}))

oa_cr_fix_deploy ==
  Deploy({"gaugeLensBpt30Fei70WethGauge"},
         {"balancerLensBpt30Fei70WethV3"},
         In("weth", {"balancerLensBpt30Fei70WethV3"}))

pod_exec_v2_deploy ==
  Deploy({},
         {"podExecutorV2"},
         NoDeposits)

eth_lbp_deploy ==
  Deploy({},
         {"ethToDaiLBPSwapper", "ethToDaiLensDai", "ethToDaiLensEth"},
         In("dai", {"ethToDaiLensDai"}) @@ In("weth", {"ethToDaiLensEth"}))

clawback_deploy ==
  Deploy({"rariInfraFeiTimelock", "rariInfraTribeTimelock", "tribalCouncilTimelock"},
         {"newRariInfraFeiTimelock", "newRariInfraTribeTimelock"},
         NoDeposits)

tip_111_deploy ==
  Deploy({},
         {"compositeStEthEthOracle", "chainlinkStEthUsdOracleWrapper", "ethLidoPCVDeposit"},
         In("weth", {"ethLidoPCVDeposit"}))

tip_112_deploy ==
  Deploy({},
         {"fuseFixer"},
         NoDeposits)

tip_115_deploy ==
  Deploy({"rariInfraFeiTimelock", "tribalCouncilTimelock"},
         {"rariTimelockFeiOldLens", "tribalCouncilTimelockFeiLens"},
         In("fei", {"rariTimelockFeiOldLens", "tribalCouncilTimelockFeiLens"}))

tip_117_deploy ==
  Deploy({},
         {"voltOracle"},
         NoDeposits)

tip_118_deploy ==
  Deploy({},
         {"vlAuraDelegatorPCVDepositImplementation", "angleEuroRedeemer",
          "wethHoldingPCVDeposit", "lusdHoldingPCVDeposit", "voltHoldingPCVDeposit",
          "daiHoldingPCVDeposit", "gOHMHoldingPCVDeposit"},
         In("weth", {"wethHoldingPCVDeposit"})
          @@ In("lusd", {"lusdHoldingPCVDeposit"})
          @@ In("volt", {"voltHoldingPCVDeposit"})
          @@ In("dai", {"daiHoldingPCVDeposit"})
          @@ In("gohm", {"gOHMHoldingPCVDeposit"}))

tip_119_deploy ==
  Deploy({},
         {"chainlinkOhmV2EthOracleWrapper", "gOhmUSDOracle", "gOhmEthOracle"},
         NoDeposits)

phase_1_deploy ==
  Deploy({},
         {"uniswapLiquidityRemover", "investorUniswapFeiTribeTimelock"},
         NoDeposits)

tip_121a_deploy ==
  Deploy({"daiFixedPricePSM", "daiHoldingPCVDeposit"},
         {"maxFeiWithdrawalGuard", "lusdToDaiSwapper", "lusdToDaiLensDai", "lusdToDaiLensLusd",
          "ohmEscrowUnwind"},
         In("dai", {"lusdToDaiLensDai"}) @@ In("lusd", {"lusdToDaiLensLusd"}))

\* The contracts of the merger come before Rari's half, which its setup executes.
Deployments ==
  [fip_37 |-> fip_37_deploy,
   fip_38 |-> fip_38_deploy,
   fip_33 |-> fip_33_deploy,
   fip_41 |-> fip_41_deploy,
   fip_45 |-> fip_45_deploy,
   fip_48 |-> fip_48_deploy,
   fip_33b |-> fip_33b_deploy,
   fip_53 |-> fip_53_deploy,
   fip_50 |-> fip_50_deploy,
   mergerRari |-> merger_deploy,
   fip_bribe |-> fip_bribe_deploy,
   fip_55 |-> fip_55_deploy,
   fip_56 |-> fip_56_deploy,
   fip_61 |-> fip_61_deploy,
   fip_60 |-> fip_60_deploy,
   fip_60b |-> fip_60b_deploy,
   fip_60c |-> fip_60c_deploy,
   fip_62 |-> fip_62_deploy,
   fip_54 |-> fip_54_deploy,
   fip_67 |-> fip_67_deploy,
   fip_68 |-> fip_68_deploy,
   fip_70 |-> fip_70_deploy,
   fip_72 |-> fip_72_deploy,
   fip_73 |-> fip_73_deploy,
   fip_73b |-> fip_73b_deploy,
   fip_76b |-> fip_76b_deploy,
   fip_78a |-> fip_78a_deploy,
   fip_79 |-> fip_79_deploy,
   fip_82 |-> fip_82_deploy,
   fip_83 |-> fip_83_deploy,
   fip_87 |-> fip_87_deploy,
   fip_92 |-> fip_92_deploy,
   fip_97 |-> fip_97_deploy,
   fip_99 |-> fip_99_deploy,
   fip_82b |-> fip_82b_deploy,
   fip_104 |-> fip_104_deploy,
   buyback_newpool |-> buyback_newpool_deploy,
   balancer_gauge_fix |-> balancer_gauge_fix_deploy,
   oa_cr_fix |-> oa_cr_fix_deploy,
   pod_exec_v2 |-> pod_exec_v2_deploy,
   eth_lbp |-> eth_lbp_deploy,
   clawback |-> clawback_deploy,
   tip_111 |-> tip_111_deploy,
   tip_112 |-> tip_112_deploy,
   tip_115 |-> tip_115_deploy,
   tip_117 |-> tip_117_deploy,
   tip_118 |-> tip_118_deploy,
   tip_119 |-> tip_119_deploy,
   phase_1 |-> phase_1_deploy,
   tip_121a |-> tip_121a_deploy]

\* The named entries the static wrapper of FIP-61 is created with.
namedPCVDeposits ==
  <<"500k Idle FEI Senior Tranche", "2M Visor FEI-USDC", "500k Barnbridge Senior",
    "2.5M Idle FEI Best Yield", "100k INDEX Token", "50m Ondo LaaS", "Kashi 1m DPI-FEI",
    "Kashi 2.5m SUSHI-FEI", "Kashi 2.5m TRIBE-FEI", "Kashi 2.5m WETH-FEI">>

\* Mutation: the second guardian starts without any.
safeAddressesAnew(p, w) ==
  IF p = "fip_55" THEN {"feiDAOTimelock", "compoundEthPCVDeposit", "ethReserveStabilizer",
                        "aaveEthPCVDeposit"}
  ELSE {}

\* The first guardian starts with four safe addresses, the second with those of the first.
safeAddresses(p, w) ==
  CASE p = "fip_55" -> {"feiDAOTimelock", "compoundEthPCVDeposit", "ethReserveStabilizer",
                        "aaveEthPCVDeposit"}
    [] p = "fip_82b" -> {s[2] : s \in {t \in w.safe : t[1] = "pcvGuardianV1"}}
    [] OTHER -> {}

guardianOf(p) == IF p = "fip_55" THEN "pcvGuardianV1" ELSE "pcvGuardian"

\* Everything a proposal deploys, when it can: its constructors take existing contracts.
deploy(p, w) ==
  IF p \notin DOMAIN Deployments THEN {w}
  ELSE LET d == Deployments[p]
       IN  When(d.args \cap w.missing = {},
                [w EXCEPT !.missing = @ \ d.contracts,
                          !.reportedIn = d.reports @@ @,
                          !.safe = @ \cup ({guardianOf(p)} \X safeAddresses(p, w)),
                          !.statics = IF p = "fip_61" THEN namedPCVDeposits ELSE @])
=============================================================================
