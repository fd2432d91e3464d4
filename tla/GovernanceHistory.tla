-------------------------- MODULE GovernanceHistory --------------------------
(***************************************************************************)
(* The proposals of the record on their way to the protocol.  Each is      *)
(* prepared on a fork: its contracts are deployed, the proposals still     *)
(* pending and then its own batch are simulated, and its validation must   *)
(* hold.  It is then submitted, and executed whenever its timelock's       *)
(* executor comes to it: while others are pending, in any order, and with  *)
(* the guardian pausing contracts in between.  A batch that reverts stays  *)
(* pending.                                                                *)
(***************************************************************************)
EXTENDS ProposalValidations, ProposalsFeiV1, ProposalsFeiV2, ProposalsTribalCouncil,
        ProposalsOffRecord, FiniteSetsExt

CONSTANTS order,            \* the proposals as they were submitted
          Lapsing,          \* those that were never executed
          Awaits,           \* what the author of a proposal waits for before submitting it
          Window,           \* how many successors a proposal may pend for
          GuardianTargets,  \* the contracts the guardian may pause
          MaxInterventions  \* how often it does

VARIABLES world,          \* the deployed protocol
          submitted,      \* how many proposals of the order have been submitted
          pending,        \* those that are neither executed nor dropped
          held,           \* contracts the guardian paused and means to unpause
          interventions   \* how often the guardian has stepped in

vars == <<world, submitted, pending, held, interventions>>

Position(p) == CHOOSE i \in DOMAIN order : order[i] = p

Proposals ==
  [fip_37 |-> fip_37, fip_38 |-> fip_38, fip_33 |-> fip_33, fip_41 |-> fip_41,
   fip_45 |-> fip_45, fip_48 |-> fip_48, fip_33b |-> fip_33b, fip_53 |-> fip_53,
   fip_50 |-> fip_50, mergerRari |-> mergerRari, merger |-> merger, fip_52 |-> fip_52,
   fip_bribe |-> fip_bribe, fip_55 |-> fip_55, fip_56 |-> fip_56, fip_61 |-> fip_61,
   fip_60 |-> fip_60, fip_60b |-> fip_60b, oracle_upkeep |-> oracle_upkeep,
   fip_60c |-> fip_60c, fip_62 |-> fip_62, fip_54 |-> fip_54, fip_64 |-> fip_64,
   fip_67 |-> fip_67, fip_68 |-> fip_68, fip_70 |-> fip_70, fip_72 |-> fip_72,
   fip_73 |-> fip_73, fip_73b |-> fip_73b, fip_73d |-> fip_73d, fip_76a |-> fip_76a,
   mover_paused |-> mover_paused, fip_76b |-> fip_76b, fip_77 |-> fip_77, fip_78a |-> fip_78a,
   fip_79 |-> fip_79, fip_82 |-> fip_82, fip_83 |-> fip_83, fip_84a |-> fip_84a,
   fip_84b |-> fip_84b, fip_84c |-> fip_84c, fip_85 |-> fip_85, fip_87 |-> fip_87,
   fip_92 |-> fip_92, fip_94 |-> fip_94, fip_97 |-> fip_97, fip_98 |-> fip_98,
   fip_99 |-> fip_99, bribe_pool |-> bribe_pool, fip_82b |-> fip_82b, fip_104 |-> fip_104,
   fip_visor |-> fip_visor, minter_paused |-> minter_paused,
   buyback_newpool |-> buyback_newpool, balancer_gauge_fix |-> balancer_gauge_fix,
   oa_cr_fix |-> oa_cr_fix, pod_exec_v2 |-> pod_exec_v2,
   register_proposal |-> register_proposal, withdraw_d3_pool |-> withdraw_d3_pool,
   tokemak_withdraw |-> tokemak_withdraw, fip_104b |-> fip_104b, eth_lbp |-> eth_lbp,
   clawback |-> clawback, end_tribe_incentives |-> end_tribe_incentives, tip_111 |-> tip_111,
   tip_112 |-> tip_112, tip_115 |-> tip_115, buybacks_paused |-> buybacks_paused, tip_117 |-> tip_117,
   psms_switched |-> psms_switched, tip_118 |-> tip_118, tip_119 |-> tip_119,
   phase_1 |-> phase_1, tip_121a |-> tip_121a, tc_consolidate |-> tc_consolidate,
   tip_121a_cont |-> tip_121a_cont]

ASSUME HistoryAssumption == order \in Seq(DOMAIN Proposals)

Validated(p, w) ==
  CASE p = "fip_37" -> fip_37_validate(w)
    [] p = "fip_38" -> fip_38_validate(w)
    [] p = "fip_45" -> fip_45_validate(w)
    [] p = "fip_48" -> fip_48_validate(w)
    [] p = "fip_33b" -> fip_33b_validate(w)
    [] p = "fip_53" -> fip_53_validate(w)
    [] p = "merger" -> merger_validate(w)
    [] p = "fip_bribe" -> fip_bribe_validate(w)
    [] p = "fip_55" -> fip_55_validate(w)
    [] p = "fip_56" -> fip_56_validate(w)
    [] p = "fip_61" -> fip_61_validate(w)
    [] p = "fip_60" -> fip_60_validate(w)
    [] p = "fip_60b" -> fip_60b_validate(w)
    [] p = "fip_62" -> fip_62_validate(w)
    [] p = "fip_54" -> fip_54_validate(w)
    [] p = "fip_67" -> fip_67_validate(w)
    [] p = "fip_70" -> fip_70_validate(w)
    [] p = "fip_72" -> fip_72_validate(w)
    [] p = "fip_73" -> fip_73_validate(w)
    [] p = "fip_73b" -> fip_73b_validate(w)
    [] p = "fip_76b" -> fip_76b_validate(w)
    [] p = "fip_77" -> fip_77_validate(w)
    [] p = "fip_82" -> fip_82_validate(w)
    [] p = "fip_84a" -> fip_84a_validate(w)
    [] p = "fip_84b" -> fip_84b_validate(w)
    [] p = "fip_84c" -> fip_84c_validate(w)
    [] p = "fip_94" -> fip_94_validate(w)
    [] p = "fip_98" -> fip_98_validate(w)
    [] p = "fip_99" -> fip_99_validate(w)
    [] p = "fip_82b" -> fip_82b_validate(w)
    [] p = "fip_104" -> fip_104_validate(w)
    [] p = "buyback_newpool" -> buyback_newpool_validate(w)
    [] p = "balancer_gauge_fix" -> balancer_gauge_fix_validate(w)
    [] p = "oa_cr_fix" -> oa_cr_fix_validate(w)
    [] p = "pod_exec_v2" -> pod_exec_v2_validate(w)
    [] p = "eth_lbp" -> eth_lbp_validate(w)
    [] p = "end_tribe_incentives" -> end_tribe_incentives_validate(w)
    [] p = "tip_111" -> tip_111_validate(w)
    [] p = "tip_115" -> tip_115_validate(w)
    [] p = "tip_117" -> tip_117_validate(w)
    [] p = "tip_118" -> tip_118_validate(w)
    [] p = "tip_119" -> tip_119_validate(w)
    [] p = "tip_121a_cont" -> tip_121a_cont_validate(w)
    [] OTHER -> TRUE

(***************************************************************************)
(* Who executes a batch.  The FeiDAO executes through the timelock it      *)
(* names, if that timelock obeys it; the optimistic timelocks, the         *)
(* TribalCouncil's and Rari's answer to groups of their own; the guardian  *)
(* only takes part in the steps off the record.                            *)
(***************************************************************************)
OfTheGuardian == {"mover_paused", "minter_paused", "buybacks_paused", "psms_switched"}

Executors(p, w) ==
  IF p \in OfTheGuardian THEN {"guardianMultisig"}
  ELSE {t \in {w.owner["feiDAO"]} : w.owner[t] = "feiDAO"}
         \cup {"optimisticTimelock", "opsOptimisticTimelock", "tribalCouncilTimelock",
               "rariTimelock"}

\* Contracts a batch names must be known when its calldata is put together.
Targets(p) == {Proposals[p][i].to : i \in DOMAIN Proposals[p]}

execProposal(p, w) == UNION {Run(by, Proposals[p], w) : by \in Executors(p, w)}

(***************************************************************************)
(* The fork: proposals are applied one after the other, each must run and  *)
(* pass its validation.                                                    *)
(***************************************************************************)
applyUpgrade(p, w) == {v \in execProposal(p, w) : Validated(p, v)}

loadEnvironment(P, w) ==
  LET after[i \in 0..Len(order)] ==
        IF i = 0 THEN {w}
        ELSE IF order[i] \in P THEN UNION {applyUpgrade(order[i], v) : v \in after[i - 1]}
             ELSE after[i - 1]
  IN  after[Len(order)]

\* On top of the pending proposals: the deployment, the calldata, the batch, the validation.
checkProposal(p) ==
  \E v \in loadEnvironment(pending, world) : \E d \in deploy(p, v) :
    Targets(p) \cap d.missing = {} /\ applyUpgrade(p, d) # {}

(***************************************************************************)
(* Actions.                                                                *)
(***************************************************************************)
Init ==
  /\ world = Genesis
  /\ submitted = 0 /\ pending = {} /\ held = {} /\ interventions = 0

Awaited(p) == IF p \in DOMAIN Awaits THEN Awaits[p] ELSE {}

Submit ==
  LET p == order[submitted + 1]
  IN  /\ submitted < Len(order)
      /\ \A q \in pending : submitted < Position(q) + Window
      /\ pending \cap Awaited(p) = {}
      /\ checkProposal(p)
      /\ world' \in deploy(p, world)
      /\ pending' = pending \cup {p}
      /\ submitted' = submitted + 1
      /\ UNCHANGED <<held, interventions>>

Execute(p) ==
  /\ p \notin Lapsing
  /\ world' \in execProposal(p, world)
  /\ pending' = pending \ {p}
  /\ UNCHANGED <<submitted, held, interventions>>

\* A proposal may be defeated or left to expire.
Lapse(p) ==
  /\ p \in Lapsing
  /\ pending' = pending \ {p}
  /\ UNCHANGED <<world, submitted, held, interventions>>

GuardianPause(c) ==
  /\ interventions < MaxInterventions
  /\ c \notin world.missing
  /\ world' \in Step("guardianMultisig", Call(c, "pause"), {world})
  /\ held' = held \cup {c}
  /\ interventions' = interventions + 1
  /\ UNCHANGED <<submitted, pending>>

\* There is nothing left to unpause when a batch has unpaused the contract in the meantime.
GuardianUnpause(c) ==
  /\ IF Paused(world, c)
     THEN world' \in Step("guardianMultisig", Call(c, "unpause"), {world})
     ELSE UNCHANGED world
  /\ held' = held \ {c}
  /\ UNCHANGED <<submitted, pending, interventions>>

Next ==
  \/ Submit
  \/ \E p \in pending : Execute(p) \/ Lapse(p)
  \/ \E c \in GuardianTargets : GuardianPause(c)
  \/ \E c \in held : GuardianUnpause(c)

(***************************************************************************)
(* Whoever may act does so in the end: authors submit what passes, anyone  *)
(* executes what its timelock has ready, the guardian unpauses.            *)
(***************************************************************************)
Fairness ==
  /\ WF_vars(Submit)
  /\ WF_vars(\E p \in pending : Execute(p) \/ Lapse(p))
  /\ WF_vars(\E c \in held : GuardianUnpause(c))

Spec == Init /\ [][Next]_vars /\ Fairness

Done == submitted = Len(order) /\ pending = {} /\ held = {}

(***************************************************************************)
(* Properties.                                                             *)
(***************************************************************************)
\* Once every proposal is through, in whatever order the overlapping ones were executed and
\* whatever the guardian paused meanwhile, roles, counted deposits, safe addresses and pauses
\* are those of the configuration files: nothing was granted, counted or paused and forgotten.
ConfigurationReached ==
  Done => /\ PermissionsReached(world)
          /\ OracleReached(world)
          /\ SafeAddressesReached(world)
          /\ StateReached(world)

\* What a proposal was validated for on its fork also holds when it has been executed on chain,
\* after proposals that the fork had applied before it, or had not applied at all.
ValidatedOnChain ==
  [][\A p \in pending \ Lapsing : p \notin pending' => Validated(p, world')]_vars

\* Unless the guardian holds a contract paused, the batch that waits the longest can run: none
\* was made to revert for good by those that overtook it.
Waiting == pending \ Lapsing

NeverStuck ==
  held = {} => \A p \in Waiting :
    (\A q \in Waiting : Position(p) <= Position(q)) => execProposal(p, world) # {}

\* No series of proposals gives a body that acts without a vote of the DAO one of the major
\* roles, or the administration of one.
Delegates == {"optimisticTimelock", "opsOptimisticTimelock", "tribalCouncilTimelock",
              "tribalCouncilSafe", "podExecutor", "podExecutorV2", "podFactory", "nopeDAO"}

DelegatesStayMinor ==
  \A role \in MajorRoles :
    /\ Holders(world, role) \cap Delegates = {}
    /\ Holders(world, RoleAdmin(world, role)) \cap Delegates = {}

\* The guardian can take any major role but the governor's from whoever turns out to abuse it:
\* Core, through which it revokes, stays a governor, and governors administer these roles.
GuardianCanRevoke ==
  /\ Holders(world, "GUARDIAN_ROLE") # {}
  /\ \A role \in MajorRoles \ {"GOVERN_ROLE"} : HasRole(world, RoleAdmin(world, role), "core")

\* The voters never lose the protocol, not even between the three halves of the handover of the
\* timelocks: some governor executes for a DAO that names it.
NeverLockedOut ==
  \E t \in Holders(world, "GOVERN_ROLE") :
    \/ t = world.owner["feiDAO"] /\ world.owner[t] = "feiDAO"
    \/ t = "rariTimelock" /\ world.owner[t] = "tribeRariDAO"

\* Of the deposits that report the same funds, one at most is counted: a lens, a wrapper or a
\* static entry that a proposal replaces is dropped before or together with its successor's entry.
SameFunds ==
  {{"staticPcvDepositWrapper", "staticPcvDepositWrapper2", "namedStaticPCVDepositWrapper"},
   {"balancerLensBpt30Fei70WethV1", "balancerLensBpt30Fei70WethV2", "balancerLensBpt30Fei70WethV3"},
   {"rariPool28FeiPCVDeposit", "rariPool28FeiPCVDepositWrapper"},
   {"rariPool31FeiPCVDeposit", "rariPool31FeiPCVDepositWrapper"},
   {"rariPool72FeiPCVDeposit", "rariPool72FeiPCVDepositWrapper"},
   {"rariPool79FeiPCVDeposit", "rariPool79FeiPCVDepositWrapper"},
   {"rariPool90FeiPCVDeposit", "rariPool90FeiPCVDepositWrapper"},
   {"rariPool91FeiPCVDeposit", "rariPool91FeiPCVDepositWrapper"}}

NothingCountedTwice == \A S \in SameFunds : Cardinality(S \cap world.counted) <= 1

\* Every proposal of the record gets through, whatever the guardian paused meanwhile.
Completes == <>Done
=============================================================================
