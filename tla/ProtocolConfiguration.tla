------------------------ MODULE ProtocolConfiguration ------------------------
(***************************************************************************)
(* The two ends of the history: the protocol as it stood before the first  *)
(* proposal kept here, and the configuration the repository says it has    *)
(* reached: roles, counted deposits, safe addresses and pauses.            *)
(***************************************************************************)
EXTENDS ProposalDeployments

(***************************************************************************)
(* The wrappers the collateralization oracle is created with.              *)
(***************************************************************************)
assetDeposits ==
  In("USD", {"staticPcvDepositWrapper"})
   @@ In("weth", {"ethReserveStabilizerWrapper", "ethLidoPCVDepositOldWrapper",
                  "compoundEthPCVDepositWrapper", "aaveEthPCVDepositWrapper", "bondingCurve",
                  "uniswapPCVDeposit"})
   @@ In("dai", {"daiBondingCurveWrapper", "compoundDaiPCVDepositWrapper"})
   @@ In("rai", {"raiBondingCurveWrapper", "aaveRaiPCVDepositWrapper",
                 "rariPool9RaiPCVDepositWrapper"})
   @@ In("dpi", {"dpiBondingCurveWrapper", "rariPool19DpiPCVDepositWrapper",
                 "dpiUniswapPCVDeposit"})

feiDeposits ==
  In("fei", {"creamFeiPCVDepositWrapper", "rariPool8FeiPCVDepositWrapper",
             "rariPool9FeiPCVDepositWrapper", "rariPool7FeiPCVDepositWrapper",
             "rariPool6FeiPCVDepositWrapper", "rariPool19FeiPCVDepositWrapper",
             "rariPool24FeiPCVDepositWrapper", "rariPool25FeiPCVDepositWrapper",
             "rariPool26FeiPCVDepositWrapper", "rariPool27FeiPCVDepositWrapper",
             "rariPool18FeiPCVDepositWrapper", "rariPool28FeiPCVDepositWrapper",
             "rariPool31FeiPCVDepositWrapper", "feiOATimelockWrapper"})

initialDeposits == assetDeposits @@ feiDeposits

initialOracles ==
  [dai  |-> "chainlinkDaiUsdOracleWrapper", dpi |-> "chainlinkDpiUsdOracleWrapper",
   weth |-> "chainlinkEthUsdOracleWrapper", rai |-> "chainlinkRaiUsdCompositOracle",
   fei  |-> "zeroConstantOracle", USD |-> "oneConstantOracle"]

\* Deposits of the record that none of its proposals creates.
otherDeposits ==
  In("fei", {"rariPool28FeiPCVDeposit", "rariPool31FeiPCVDeposit", "rariPool72FeiPCVDeposit",
             "rariPool79FeiPCVDeposit", "rariPool90FeiPCVDeposit", "rariPool91FeiPCVDeposit",
             "convexPoolPCVDepositWrapper", "compoundFeiPCVDepositWrapper"})
   @@ In("weth", {"rariPool146EthPCVDeposit"})
   @@ In("lusd", {"rariPool7LusdPCVDeposit"})
   @@ In("volt", {"voltDepositWrapper"})

\* The constructor of a contract that has an admin role of its own sets it.
adminSetAtConstruction ==
  [c \in {"tribalChief", "rewardsDistributorAdmin", "autoRewardsDistributor",
          "d3AutoRewardsDistributor", "fei3CrvAutoRewardsDistributor",
          "feiDaiAutoRewardsDistributor", "feiUsdcAutoRewardsDistributor"}
     |-> "TRIBAL_CHIEF_ADMIN_ROLE"]
   @@ [c \in {"fuseGuardian", "fuseAdmin"} |-> "FUSE_ADMIN"]
   @@ [c \in {"collateralizationOracle", "collateralizationOracleWrapper",
              "staticPcvDepositWrapper2", "namedStaticPCVDepositWrapper"} |-> "ORACLE_ADMIN_ROLE"]
   @@ [c \in {"ethPSM", "daiPSM", "lusdPSM", "raiPriceBoundPSM", "daiFixedPricePSM"}
         |-> "PSM_ADMIN_ROLE"]
   @@ [c \in {"feiTribeLBPSwapper", "feiLusdLBPSwapper", "noFeeFeiTribeLBPSwapper",
              "dpiToDaiLBPSwapper", "ethToDaiLBPSwapper", "lusdToDaiSwapper"}
         |-> "SWAP_ADMIN_ROLE"]
   @@ [c \in {"ethPSMFeiSkimmer", "lusdPSMFeiSkimmer", "daiPSMFeiSkimmer",
              "daiFixedPricePSMFeiSkimmer"} |-> "PCV_MINOR_PARAM_ROLE"]

(***************************************************************************)
(* The roles held at the start: Core's own genesis, moved by FIP-31 from   *)
(* the first timelock to the one of the FeiDAO, and the contracts of the   *)
(* launch, which later proposals revoke.                                   *)
(***************************************************************************)
genesisHolders ==
  [GOVERN_ROLE         |-> {"core", "timelock", "feiDAOTimelock"},
   GUARDIAN_ROLE       |-> {"guardianMultisig"},
   BURNER_ROLE         |-> {"ethReserveStabilizer"},
   MINTER_ROLE         |-> {"feiDAOTimelock", "bondingCurve", "daiBondingCurve",
                            "raiBondingCurve", "dpiBondingCurve", "uniswapPCVDeposit",
                            "dpiUniswapPCVDeposit", "optimisticMinter"},
   PCV_CONTROLLER_ROLE |-> {"feiDAOTimelock", "ratioPCVController",
                            "aaveEthPCVDripController", "compoundEthPCVDripController"},
   TRIBAL_CHIEF_ADMIN_ROLE |-> {"optimisticTimelock"},
   FUSE_ADMIN          |-> {"optimisticTimelock"}]

genesisRoles ==
  (UNION {{<<"core", role, who>> : who \in genesisHolders[role]} : role \in DOMAIN genesisHolders})
    \cup {<<"rewardsDistributorAdmin", "DEFAULT_ADMIN_ROLE", "optimisticTimelock">>,
          <<"rewardsDistributorAdmin", "AUTO_REWARDS_DISTRIBUTOR_ROLE", "autoRewardsDistributor">>,
          <<"optimisticTimelock", "TIMELOCK_ADMIN_ROLE", "optimisticTimelock">>,
          <<"optimisticTimelock", "EXECUTOR_ROLE", "tribalChiefSync">>,
          <<"tribalCouncilTimelock", "EXECUTOR_ROLE", "podExecutor">>,
          <<"tribalCouncilTimelock", "CANCELLER_ROLE", "podAdminGateway">>,
          <<"tribalCouncilTimelock", "PROPOSER_ROLE", "tribalCouncilSafe">>,
          <<"tribalCouncilTimelock", "EXECUTOR_ROLE", "tribalCouncilSafe">>,
          <<"tribalCouncilTimelock", "CANCELLER_ROLE", "tribalCouncilSafe">>}

\* Core administers its own roles and the two created before the record.
setupAdmins ==
  [role \in MajorRoles \cup {"TRIBAL_CHIEF_ADMIN_ROLE", "FUSE_ADMIN"} |-> "GOVERN_ROLE"]

\* Who answers for the contracts that change hands.
owners ==
  [timelock |-> "feiDAO", feiDAOTimelock |-> "feiDAO", feiDAO |-> "feiDAOTimelock",
   rariTimelock |-> "rariDAO", tribe |-> "feiDAOTimelock", proxyAdmin |-> "timelock",
   rariPool8Comptroller |-> "optimisticTimelock", rariPool8MasterOracle |-> "optimisticTimelock"]

Genesis ==
  [roles |-> genesisRoles, roleAdmin |-> setupAdmins, contractAdmin |-> adminSetAtConstruction,
   counted |-> DOMAIN initialDeposits, reportedIn |-> initialDeposits @@ otherDeposits,
   missing |-> UNION {Deployments[p].contracts : p \in DOMAIN Deployments},
   oracleOf |-> initialOracles, safe |-> {}, paused |-> {},
   pools |-> [i \in 1..12 |-> "lpToken"], rewarded |-> 0..11, wired |-> {}, statics |-> <<>>,
   owner |-> owners, pendingOwner |-> [c \in {} |-> ""], feiCore |-> "core"]

(***************************************************************************)
(* The configuration reached, one definition per file of it.               *)
(***************************************************************************)
PermissionsConfig ==
  [MINTER_ROLE   |-> {"feiDAOTimelock", "pcvEquityMinter", "daiFixedPricePSM"},
   BURNER_ROLE   |-> {},
   GOVERN_ROLE   |-> {"core", "feiDAOTimelock", "roleBastion"},
   PCV_CONTROLLER_ROLE |-> {"feiDAOTimelock", "ratioPCVControllerV2", "pcvGuardian",
                            "daiPCVDripController", "daiFixedPricePSMFeiSkimmer"},
   GUARDIAN_ROLE |-> {"guardianMultisig", "pcvGuardian", "pcvSentinel"},
   ORACLE_ADMIN_ROLE |-> {"tribalCouncilTimelock"},
   SWAP_ADMIN_ROLE   |-> {"pcvEquityMinter", "tribalCouncilTimelock", "tribalCouncilSafe"},
   BALANCER_MANAGER_ADMIN_ROLE |-> {},
   RATE_LIMITED_MINTER_ADMIN   |-> {},
   PARAMETER_ADMIN   |-> {},
   PSM_ADMIN_ROLE    |-> {"tribalCouncilTimelock"},
   TRIBAL_CHIEF_ADMIN_ROLE |-> {},
   FUSE_ADMIN        |-> {"tribalCouncilTimelock"},
   VOTIUM_ADMIN_ROLE |-> {},
   PCV_GUARDIAN_ADMIN_ROLE |-> {"tribalCouncilTimelock"},
   PCV_SAFE_MOVER_ROLE     |-> {"tribalCouncilTimelock"},
   METAGOVERNANCE_VOTE_ADMIN    |-> {"feiDAOTimelock", "tribalCouncilTimelock"},
   METAGOVERNANCE_TOKEN_STAKING |-> {"feiDAOTimelock"},
   METAGOVERNANCE_GAUGE_ADMIN   |-> {"feiDAOTimelock", "tribalCouncilTimelock"},
   ROLE_ADMIN        |-> {"feiDAOTimelock", "tribalCouncilTimelock"},
   POD_METADATA_REGISTER_ROLE |-> {"tribalCouncilSafe", "tribeDev1Deployer", "tribeDev2Deployer",
                                   "tribeDev3Deployer", "tribeDev4Deployer"},
   FEI_MINT_ADMIN    |-> {"feiDAOTimelock", "tribalCouncilTimelock"},
   POD_VETO_ADMIN    |-> {"nopeDAO"},
   POD_ADMIN         |-> {"tribalCouncilTimelock", "podFactory"},
   PCV_MINOR_PARAM_ROLE       |-> {"feiDAOTimelock", "tribalCouncilTimelock"},
   TOKEMAK_DEPOSIT_ADMIN_ROLE |-> {"feiDAOTimelock", "tribalCouncilTimelock"}]

CollateralizationOracleConfig ==
  [bal  |-> {"balancerDepositBalWeth", "balancerLensVeBalBal", "balancerGaugeStaker"},
   fei  |-> {"rariPool79FeiPCVDepositWrapper", "rariTimelockFeiOldLens"},
   dai  |-> {"daiFixedPricePSM", "daiHoldingPCVDeposit", "ethToDaiLensDai"},
   lusd |-> {"lusdHoldingPCVDeposit"},
   weth |-> {"ethLidoPCVDeposit", "balancerLensVeBalWeth", "ethToDaiLensEth",
             "wethHoldingPCVDeposit"}]

SafeAddressesConfig ==
  {"ethToDaiLBPSwapper", "balancerGaugeStaker", "veBalDelegatorPCVDeposit",
   "balancerDepositBalWeth", "daiFixedPricePSM", "feiDAOTimelock", "wethHoldingPCVDeposit",
   "daiHoldingPCVDeposit", "lusdHoldingPCVDeposit"}

\* What is paused of each stablecoin module.
StateConfig ==
  [ethPSM           |-> [all |-> TRUE,  redeem |-> TRUE],
   daiFixedPricePSM |-> [all |-> FALSE, redeem |-> FALSE, mint |-> FALSE],
   lusdPSM          |-> [all |-> TRUE,  redeem |-> TRUE],
   raiPriceBoundPSM |-> [all |-> TRUE,  redeem |-> TRUE, mint |-> TRUE]]

(***************************************************************************)
(* The tests that compare the deployed protocol with that configuration.   *)
(***************************************************************************)
Holders(w, role) == {r[3] : r \in {t \in w.roles : t[1] = "core" /\ t[2] = role}}

countedIn(w, token) == {d \in w.counted : w.reportedIn[d] = token}

safeOf(w, g) == {s[2] : s \in {t \in w.safe : t[1] = g}}

PermissionsReached(w) ==
  \A role \in DOMAIN PermissionsConfig : Holders(w, role) = PermissionsConfig[role]

OracleReached(w) ==
  \A token \in DOMAIN CollateralizationOracleConfig :
    countedIn(w, token) = CollateralizationOracleConfig[token]

SafeAddressesReached(w) == safeOf(w, "pcvGuardian") = SafeAddressesConfig

StateReached(w) ==
  \A c \in DOMAIN StateConfig : \A what \in DOMAIN StateConfig[c] :
    (<<c, what>> \in w.paused) = StateConfig[c][what]
=============================================================================
