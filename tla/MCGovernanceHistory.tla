------------------------- MODULE MCGovernanceHistory -------------------------
(***************************************************************************)
(* The record in the order of its proposals, of which three successors at   *)
(* most may overtake one.                                                  *)
(***************************************************************************)
EXTENDS GovernanceHistory

MCorder ==
  <<"fip_37", "fip_38", "fip_33", "fip_41", "fip_48", "fip_45", "fip_33b", "fip_53",
    "fip_50", "mergerRari", "merger", "fip_52", "fip_bribe", "fip_55", "fip_56", "fip_61",
    "fip_60", "fip_60b", "oracle_upkeep", "fip_60c", "fip_62", "fip_54", "fip_64", "fip_67",
    "fip_68", "fip_70", "fip_72", "fip_73", "fip_73b", "fip_73d", "fip_76a", "mover_paused",
    "fip_76b", "fip_77", "fip_78a", "fip_79", "fip_82", "fip_83", "fip_84a", "fip_84b",
    "fip_84c", "fip_85", "fip_87", "fip_92", "fip_94", "fip_97", "fip_98", "fip_99",
    "bribe_pool", "fip_82b", "fip_104", "fip_visor", "minter_paused", "buyback_newpool",
    "balancer_gauge_fix", "oa_cr_fix", "pod_exec_v2", "register_proposal",
    "withdraw_d3_pool", "tokemak_withdraw", "fip_104b", "eth_lbp", "clawback",
    "end_tribe_incentives", "tip_111", "tip_112", "tip_115", "buybacks_paused", "tip_117",
    "psms_switched", "tip_118", "tip_119", "phase_1", "tip_121a", "tc_consolidate",
    "tip_121a_cont">>

MCLapsing == {"tip_112"}
MCAwaits ==
  [fip_48 |-> {"fip_37"},
   fip_45 |-> {"fip_48"},
   fip_50 |-> {"fip_53"},
   fip_56 |-> {"fip_55"},
   fip_84a |-> {"fip_78a", "fip_79", "fip_82", "fip_83"},
   fip_82b |-> {"fip_98", "fip_99"},
   fip_104 |-> {"fip_82b"},
   buyback_newpool |-> {"minter_paused"},
   tip_117 |-> {"tip_111", "buybacks_paused"},
   psms_switched |-> {"tip_115"}]
MCGuardianTargets ==
  {"pcvEquityMinter", "daiPSM", "lusdPSM", "aaveEthPCVDeposit", "ratioPCVControllerV2"}
=============================================================================
