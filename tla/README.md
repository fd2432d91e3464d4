# Fei Protocol: a TLA+ verification development

The Fei Protocol is a set of Solidity contracts around the stablecoin FEI and
the governance token TRIBE, and a set of TypeScript governance proposals that
deploy, rewire and rehearse them. This directory holds TLA+ modules translated
from both, TLC configurations that check them on small instances, and TLAPS
proofs of the results that matter most. Paths below are relative to `contracts/`
of the repository, except those that begin with `proposals/`,
`protocol-configuration/`, `scripts/`, `test/` or `types/`, which are relative
to its root.

## 1. The system

Every contract runs transactions one at a time and to the end: a call either
completes or reverts and leaves no trace. So there are no threads, and what is
hard is something else:

* **interleavings of transactions** by many callers, who can order theirs
  around an oracle update, a governance call or another user's call;
* **time**, which moves between any two transactions and is read by rate
  limits, auctions, lock-ups, unlock schedules and governance delays;
* **rounding**: every quotient is floored, and bookkeeping that is kept in
  aggregate and per user rounds differently in the two places;
* **several contracts that must agree**: a token and its minters, a governor
  and its timelock, a deposit and the controllers that move its funds;
* **calls that fail**: a call to a token, a deposit, an oracle or a guard can
  revert, and the caller either reverts with it or swallows the error.

The governance proposals add a difficulty of their own: a **long sequence of
transactions** that was rehearsed in one order on a fork and is executed in another
on chain, by several bodies that do not wait for each other.

A state of a model is the state between two transactions; a step is one
transaction, the passing of time, or a change in a contract that the code does
not own (an oracle price, a token balance).

### 1.1 Components

**Roles and references.** `core/` (Core, Permissions, RestrictedPermissions,
TribeRoles) keeps role membership: GOVERNOR administers every major role, and a
guardian may revoke a role through `revokeOverride`, but not GOVERN_ROLE.
`refs/CoreRef.sol` gives every contract a pause flag, a contract admin role
and guards; `refs/OracleRef.sol` an oracle with a backup, inversion and decimal
normalisation. Correct when: a guardian can take away but never grant; nobody
outside the role tree obtains a role; a pause stops what it says it stops.

**Tokens.** `fei/Fei.sol` (mint by minters only, burns by holders, permit,
optional incentive contracts) and `tribe/Tribe.sol` (96-bit balances, delegated
votes with per-block checkpoints). Correct when: total supply is the sum of
balances; the votes of a delegate are the balances delegated to it; past votes
never change.

**Rate limits.** `utils/RateLimited.sol` holds one buffer that refills with
time and is computed lazily; `utils/MultiRateLimited.sol` adds one buffer per
registered address under the shared one, in packed 32/112-bit fields;
`fei/minter/RateLimitedMinter.sol` and `utils/GlobalRateLimitedMinter.sol` mint FEI on
them. Correct when: in no window of time more is used than the buffer at its
start plus what the rate earned; an address never exceeds its own limit, nor
all of them together the shared one; removing and re-adding cannot help.

**Peg stability.** `peg/PegStabilityModule.sol` and its children PriceBoundPSM and
FixedPricePSM mint FEI for an underlying token and redeem it;
`peg/NonCustodialPSM.sol` does the same out of a PCV deposit and through the global
rate-limited minter, with a redemption buffer; `peg/PSMRouter.sol` wraps and
unwraps ETH around a PSM. Correct when: no sequence of trades at one price enriches a
trader; what a fixed-price module issues is backed; every new FEI is charged on a
rate limit.

**Staking rewards.** `staking/TribalChief.sol` distributes TRIBE over pools of
locked deposits with multipliers (a MasterChef descendant); StakingTokenWrapper is a
one-token pool that rewards an external contract; TribalChiefSyncV2 and
TribalChiefSyncExtension update every pool before the block reward changes;
`fuse/rewards/` forwards the rewards to Fuse markets. Correct when: pools share
`totalAllocPoint`; a staker can always get the stake back once it is unlocked, and
no one else's; rewards are never promised twice.

**Governance.** `dao/governor/GovernorAlpha.sol` and FeiDAO (proposals, votes,
queueing, execution), `dao/timelock/Timelock.sol`, FeiDAOTimelock and OptimisticTimelock
(delayed calls), `dao/nopeDAO/` (a quick veto governor), `pods/` (small multisigs
with timelocks of their own, created by PodFactory, run by PodExecutor, and
controlled by PodAdminGateway through roles of RoleBastion). Correct when: a
transaction runs at most once, after its delay and before it expires; a vetoed
or cancelled one never runs; no state is left between governor and timelock in which they disagree.

**Vesting and exchange.** `timelocks/` (TokenTimelock with linear and quadratic
unlocking, clawback, delegation; LinearUnlockTimelock; the Delegated variants),
`merger/` (MergerGate, PegExchanger, TribeRagequit, ExchangerTimelock,
REPTbRedeemer, PegExchangerDripper). Correct when: what is released never exceeds what has vested; a
clawback leaves the vested part; nobody exchanges the same claim twice.

**Minters and controllers.** `fei/minter/` (FeiTimedMinter, OwnableTimedMinter,
PCVEquityMinter), `pcv/utils/` (PCVDripController, ERC20Dripper, ERC20Splitter, PCVSplitter,
FeiSkimmer, RatioPCVControllerV2, DelayedPCVMover), `utils/Timed.sol`, `tribe/TribeMinter.sol`,
`tribe/stabilizer/` (ReserveStabilizer, TribeReserveStabilizer). Correct when: a timed action
happens at most once per period and can always happen again; inflation stays under its
annual limit, although its cap follows a supply that transfers move; TRIBE is issued against
FEI only in a shortfall that lasts; a split loses nothing.

**PCV deposits.** `pcv/` holds some twenty adapters (Aave, Compound, Curve,
Convex, Lido, Balancer, Uniswap, Tokemak, Angle, Liquity, ...) with `deposit`, `withdraw`,
`balance` and `resistantBalanceAndFei`. Almost all of each is a call into a protocol that is not in the
repository. `pcv/balancer/BalancerLBPSwapper.sol` runs a timed auction.

**Collateralization oracle.** `oracle/collateralization/` (CollateralizationOracle sums
deposits per token, the Wrapper caches the result with a validity duration and a deviation
threshold, the Guardian may move it by a bounded amount per period), `keeper/`. Other `oracle/`
contracts read one feed. Correct when: the two indexes (deposit to token, token to
deposits) agree; a stale or deviating cache is refreshed.

**Guardian tools.** `pcv/PCVGuardian.sol` (withdraws any deposit to a safe
address, unpausing and pausing around it), `sentinel/` (PCVSentinel runs guards that anybody
may trigger), `fuse/FuseGuardian.sol`, FuseAdmin. Correct when: funds only go to a safe address; the pause flag
afterwards is the one asked for; a guard that cannot act does not stop the others.

**Other utilities.** `utils/` (OtcEscrow, FuseFixer, UniswapLiquidityRemover, Incentivized, Deviation),
`metagov/` (delegation and gauge voting), `libs/`, `external/` (interfaces and vendored code), `mock/`.

**Governance proposals.** `proposals/dao/` has one file per proposal with `deploy`, `setup`,
`teardown` and `validate`; `proposals/description/` its batch of calls;
`protocol-configuration/` what roles, counted deposits, safe addresses and pauses shall
be in the end; `test/integration/setup/` and `scripts/utils/` the fork on which pending
proposals are rehearsed one after the other, before the calldata is put together and submitted. The
state is that of the deployed protocol: who holds which role and who administers it, the admin
roles of contracts, what the collateralization oracle counts, the safe addresses of
the guardians, pauses, reward pools, owners of the timelocks and proxies. The
operations are deployment, rehearsal, submission and execution of each
proposal, and the guardian's pausing. Correct when: every proposal that passed its rehearsal also
runs on chain and does there what it was validated for; what is deployed in the end is
what the configuration says; on the way no body gets a power the design
withholds from it, the guardian can always revoke, and the voters never lose the
governor role.

### 1.2 How the components interact

* Nearly every contract reads role membership from **Core** through CoreRef;
  changing it is a governance transaction.
* **FEI** is minted only by contracts with MINTER_ROLE: peg stability modules,
  the global rate-limited minter (on behalf of registered modules), the timed
  minters. A module without the role, a paused FEI or a limit used up
  makes the whole trade revert.
* **FeiDAO** is the admin of **FeiDAOTimelock**; the timelock has GOVERN_ROLE in Core
  and is the only caller that may change the governor's or its own delay.
* **Pods** have an OptimisticTimelock each; PodAdminGateway lets Core's roles
  veto their proposals.
* **PCVGuardian**, **PCVSentinel**, **PCVDripController** and the PSMs call
  `withdraw`/`deposit` of PCV deposits, which they need PCV_CONTROLLER_ROLE for.
* **TribeReserveStabilizer** is the contract admin of **TribeMinter**, and issues TRIBE out of the
  same buffer as governance does.
* **Proposals** act on all of these through the timelock that executes them: a batch reverts as a
  whole when one call does, and what a proposal finds depends on those before it.
* **CollateralizationOracle** reads `resistantBalanceAndFei` of every deposit; PCVEquityMinter
  and TribeReserveStabilizer decide on its result.

## 2. The modules

A module has the name of the contract it is translated from, its variables the
names of the contract's fields, and its actions the names of the functions.
Where several functions only differ in who may call them or in a list argument,
one action stands for them and its comment says so. Variables that the contract
does not have (what has been paid so far, when something was queued) are
grouped and marked as history. A function that reverts changes nothing, so its
`require`s are the guards of its action. Every module that has bounds names
them (`MaxTime`, `MaxProposals`, ...) and they occur only in guards.

| module | source | state and actions |
|---|---|---|
| CoreRef | refs/CoreRef.sol, core/TribeRoles.sol | `paused`, `contractAdminRole`; `CoreRefStep(caller)` is pause, unpause and setContractAdminRole. Role membership is the constant `roleMembers`; the guards are `isGovernor`, `onlyGovernorOrAdmin`, `onlyGuardianOrGovernor`, ... Every module below that is a CoreRef extends it. |
| TokenBucket | (abstract) | A bucket that fills by one second's worth at a time, and from which is taken. What a rate limit promises. |
| RateLimited | utils/RateLimited.sol, fei/minter/RateLimitedMinter.sol | `bufferStored`, `lastBufferUsedTime`, `bufferCap`, `rateLimitPerSecond`; `depleteBuffer`, `replenishBuffer`, the setters. `Bucket` instantiates TokenBucket with `buffer` for its level. |
| MultiRateLimited | utils/MultiRateLimited.sol, utils/GlobalRateLimitedMinter.sol | one record per address in fields of bounded width; registration, updates, removal, `mint`, `mintMaxAllowableFei`. Extends RateLimited: a mint depletes both or none. |
| PegStabilityModule | peg/PegStabilityModule.sol, PriceBoundPSM.sol, FixedPricePSM.sol | reserves, held FEI, fees, bounds, oracle price; `mint`, `redeem`, `allocateSurplus`, withdrawals, every setter. `isPriceBound` and `isFixedPrice` choose the child contract. Extends RateLimited, whose buffer mints deplete and redemptions leave alone as the code does. |
| NonCustodialPSM | peg/NonCustodialPSM.sol | what its deposits hold, held FEI, fees, pauses, the deposit and minter it points to; `mint`, `redeem`, withdrawals and setters. Extends RateLimited for its limit on redemptions, and instantiates MultiRateLimited as `Minter`, with variables of its own, for the global minter that it calls. |
| Constants | Constants.sol | the denominator of fees and of the inflation, a constant that several contracts share. |
| TribeMinter | tribe/TribeMinter.sol | the inflation, the excluded accounts, the TRIBE balances and supply; `poke`, `mintTribe` (the contract's `mint`), the setters, transfers of TRIBE. Extends RateLimited, whose setters it disables: cap and rate come from `poke` only. |
| TribeReserveStabilizer | tribe/stabilizer/TribeReserveStabilizer.sol, utils/Timed.sol | the countdown, the threshold, the pause and the reading of the collateralization oracle; `startOracleDelayCountdown`, `resetOracleDelayCountdown`, `exchangeFei`. Extends TribeMinter, whose admin the stabilizer is: an exchange is a mint in the same transaction. |
| TimedMinter | fei/minter/FeiTimedMinter.sol, OwnableTimedMinter.sol, PCVEquityMinter.sol, keeper/CollateralizationOracleKeeper.sol, pcv/utils/PCVDripController.sol, utils/Timed.sol, Incentivized.sol | which of them it is (`kind`), the timer, the amount, the incentive, whether it is a minter of FEI; `call` (the contract's `mint` or `drip`), the setters. Extends RateLimited: a call depletes the buffer twice, for the incentive and for the amount. `ready` stands for everything else a call depends on. |
| TribalChief | staking/TribalChief.sol | pools, multipliers, users and deposits as the code's records; every function that changes them. |
| TribalChiefSync | staking/TribalChiefSyncV2.sol, staking/StakingTokenWrapper.sol, fuse/rewards/AutoRewardsDistributorV2.sol | the schedule of rewards, the calls that the timelock would execute, the distributor's speed; each call updates all pools, changes one thing and sets the speed, or reverts. Extends TribalChief. |
| Timelock | dao/timelock/Timelock.sol | `queuedTransactions`, `delay`, `admin`, `pendingAdmin`; the operators take *sets* of transactions so that a governor can run a whole proposal in one transaction. Settings change only through executed calls. |
| FeiDAOTimelock | dao/timelock/FeiDAOTimelock.sol | pause, `veto`, `nominate` on top of Timelock. |
| GovernorAlpha | dao/governor/GovernorAlpha.sol | `proposals` with their receipts, `latestProposalIds`, `guardian`, composed with FeiDAOTimelock of which it is the admin. `votesAt` are the votes at the end of each block, chosen freely. `state` is computed as in the code. |
| TokenTimelock | timelocks/TokenTimelock.sol and its five children | the balances that `balanceCheck` keeps, the beneficiary, the delegations; `Quadratic` chooses the curve, `Delegatees = {}` the variants without delegation, `clawbackAdmin` may be nobody. |
| VoteHistory | (abstract) | What a token promises to those who count votes: at the end of each block the balances delegated to every account are written down, for good. |
| Tribe | tribe/Tribe.sol | balances, allowances, delegates, nonces and the checkpoints of every delegate; every function that changes them, with 96- and 32-bit limits; `getPriorVotes` with its bisection. `History` instantiates VoteHistory with `getPriorVotes` of all past blocks. |
| CollateralizationOracle | oracle/collateralization/CollateralizationOracle.sol | three indexes and the feeds; `addDeposit`, `removeDeposit`, `swapDeposit`, `setOracle`; `pcvStats` as an operator on a reading of all deposits and feeds. |
| CollateralizationOracleWrapper | CollateralizationOracleWrapper.sol, CollateralizationOracleGuardian.sol, utils/Timed.sol | the cache and its timer, the settings and the guardian with a timer of its own; the oracle behind it is an arbitrary reading. |

The governance proposals have a group of modules of their own.

| module | source | what it holds |
|---|---|---|
| ProtocolWorld | core/Permissions.sol, refs/CoreRef.sol, pcv/PCVGuardian.sol, ... as far as a proposal's calls reach; scripts/utils/simulateTimelockProposal.ts | The protocol as one record `w` (roles, admins, counted deposits, safe addresses, pauses, pools, owners). `Admits(w, by, c)` is the access control of call `c`, `Effect(w, by, c)` the set of its outcomes, empty when it reverts; `Run` executes a batch, all of it or nothing. |
| ProposalsFeiV1, ProposalsFeiV2, ProposalsTribalCouncil | proposals/description/ | one definition per proposal: its calls in their order. |
| ProposalsOffRecord | (inferred) | steps that no file records, but without which a later proposal would revert or do nothing; the comment of each says which. |
| ProposalDeployments | deploy functions in proposals/dao/ | `p_deploy`: the contracts a proposal creates, those its constructors need, and what the new deposits report in. |
| ProtocolConfiguration | protocol-configuration/, test/integration/tests/, core/Permissions.sol | `Genesis`, and the configuration with the tests that compare the deployed protocol with it (`PermissionsReached`, ...). |
| ProposalValidations | validate functions in proposals/dao/ | `p_validate(w)`, as far as it speaks of what `w` keeps. |
| GovernanceHistory | test/integration/setup/, scripts/utils/exec.ts, checkProposal.ts | `Submit` (the fork check, then the deployment), `Execute`, `Lapse`, `GuardianPause`, `GuardianUnpause`. |

The modules MC*X* extend *X* with the values of its constants that a
configuration file cannot write down (functions, sets of records), symmetry sets and
state constraints. Some of them put a component into several situations: the module they
extend has the constants of the first, INSTANCEs of it those of the others, and a
variable (`situation`, `member`, `contract`) that the initial state chooses and no step
changes says which of them a behaviour is in. The properties are those of the component and
hold in all.

Theorems and their proofs are in modules of their own, which extend what they are about:

| module | about |
|---|---|
| SumProofs | lemmas on sums over finite sets, for the modules below |
| RateLimitedProofs | RateLimited and its refinement of TokenBucket |
| MinterProofs | MultiRateLimited; TimedMinter |
| PSMProofs | PegStabilityModule |
| ReserveProofs | NonCustodialPSM; TribeMinter and TribeReserveStabilizer |
| GovernanceProofs | Timelock; GovernorAlpha over FeiDAOTimelock; Tribe and its refinement of VoteHistory; GovernanceHistory |
| TokenTimelockProofs | TokenTimelock |
| LedgerProofs | CollateralizationOracle; CollateralizationOracleWrapper; TribalChief; TribalChiefSync |

How they compose: CoreRef <- RateLimited <- MultiRateLimited and
PegStabilityModule (one contract inherits the other, so the modules extend each other);
Timelock <- FeiDAOTimelock <- GovernorAlpha (two contracts in one
behaviour: an action of the governor conjoins the timelock's operator); TribalChief <- TribalChiefSync; NonCustodialPSM
between RateLimited, which it inherits, and an instance of MultiRateLimited, which it calls;
CollateralizationOracleWrapper holds wrapper and guardian contract;
TribeReserveStabilizer extends TribeMinter, which extends RateLimited (two contracts in one
behaviour again). ProtocolWorld <- Proposals*, ProposalDeployments and ProtocolConfiguration
<- ProposalValidations <- GovernanceHistory.
RateLimited is shown to implement TokenBucket, and Tribe VoteHistory, by a refinement mapping.

Abstractions that hold throughout: token amounts, prices and rates are small
naturals, with scales (`ONE`, `SCALE_FACTOR`, basis points) reduced so that the same
quotients still round; addresses are members of small sets; events are left
out; ERC20 transfers either happen or make the transaction impossible;
re-entrancy does not occur (the code's guards and the tokens it is used with rule it out).

## 3. What the runs check

Every property has, in PROJECT.json, a plausible bug in the code that the same
run detects.

| run | question | bounds, and why they are enough |
|---|---|---|
| rate_limits | Does the lazily computed buffer implement the bucket and bound the use of every window; do the limits of one address and of all together hold at once; what can a year issue; when may the stabilizer issue; can a limit stop a call that is due? | Five contracts. One that does anything with its buffer: five seconds, four caps, rates from zero to above the maximum, all orders of use, replenishment and change of cap and rate. The global minter: two symmetric minters, fields so narrow that time and amounts overflow both, registration and removal at any time. The TRIBE minter: a year of two seconds within four, a supply of four of which a treasury may hold a part, be named and unnamed, and half of the rest may be issued, so that pokes move the cap up and down within one year. The same under the stabilizer: a countdown of two seconds within five, readings on both sides of the threshold and invalid. The contracts called once per period: periods of one and two seconds within five, an amount and an incentive that the period does not divide, or none, each kind with the minter role and without, and every setter, so that a limit is outgrown and adapted again. A window and a year may start in any state. `StillMinting` leaves out what follows the loss of the TRIBE minter role, and for the last contract what follows a pause, a change that stops the calls, or a setting too late for another period. |
| psm_oracle | Can a trader gain at a moving price; is every mint charged; is the advertised maximum reachable; what can be redeemed in a window? | Three prices around one, three fees with one above the maximum, held FEI and reserves from nothing to all there is. In a second situation the module is the non-custodial one: two prices, a fee and none, both of the minter's limits and the one on redemptions, a withdrawal of its FEI, FEI sent to it. `Trading` leaves out what follows a pause or a change of minter there, and `NarrowWindow` windows that allow more than twice the cap. The inherited windows of observation, which no property of this run reads, are left out of the fingerprint (`View`). |
| psm_fixed | Is what a fixed-price module issues backed? | Both prices of the oracle inside and outside the bounds, all fees and thresholds. Amounts are chosen so that every quotient rounds. |
| tribal_chief | Do the weights cover the deposits, whatever the order of deposits, partial withdrawals, harvests and administrative calls; does the synchronisation credit every block at its own reward? | Two users, one pool, two deposits each, scales of two, so that each product loses a half: the smallest instance in which two partial withdrawals round differently from one. And two pools, every setter and pauses, while one user stakes (`OneStaker`). And two pools under the synchronisation, over three blocks: two scheduled decreases, the addition of a pool and one more change through the timelock, in any order. `MaxRoundings` and `MaxWeight` bound the history. |
| timelock | Can a call run early, late or twice? | Four units of time, delays below, at and above their limits, two transactions in the queue, an arbitrary admin. |
| governor | Are votes counted once, does only what passed reach the timelock, and do governor and timelock stay in step when both guardians interfere? | Two voters. Two proposals and votes that move in every block, over six blocks; or one proposal and steady votes over four blocks, with vetoes, cancellations, nominations, pauses and a change of admin (`QuietVote` bounds the votes there: the other situation varies them). |
| token_timelock | Is only what has unlocked paid, does delegation lose nothing, does a clawback split at what has unlocked? | Quadratic curve over three units with a cliff, start at once or later. Two symmetric delegatees, with tokens sent to them directly as well; or a clawback admin and unlockLiquidity. The linear curve is covered by the proofs, which are for both. |
| collateralization | Does a reading count every deposit once; how far can a guardian alone move the cache? | The oracle: three deposits, two tokens, two feeds; deposits may change their token; readings range over the balances, prices and validities that tell deposits apart. The wrapper and its guardian: periods of two units within five, two thresholds, both sides of the bound. |
| tribe | Does `getPriorVotes` return the votes at the end of a past block, forever; can the records of votes block a transfer? | Two holders, four blocks of which the last is beyond the checkpoints' block numbers, balances up to their maximum: up to three checkpoints per delegate, so that the bisection takes each of its branches. `LittlePaperwork` bounds allowances and signatures, on which votes do not depend. |
| governance_history | Do all proposals get through and reach the configuration, whatever overtakes them and whatever the guardian pauses; who holds power on the way? | See 3.1. |

Runs whose expected outcome is a violation confront the code with what a comment
or an assertion of it says; each is listed in section 6.

**Fairness.** The contracts owe nobody a step: every transaction needs somebody who sends
it. Only GovernanceHistory assumes fairness, and its liveness property is `Completes`. It is weak
fairness of three actions: submitting the next proposal once its rehearsal passes (its authors
do that, `exec.ts`), executing some pending proposal that its timelock can run
or dropping one that lapses (anybody may execute what a timelock has ready), and the guardian
unpausing what it holds. Without the last, a proposal that pauses the
same contract would revert for ever; nothing is assumed about *which* pending proposal is executed, since each
executes once and only finitely many follow it. In the contracts, the
progress statements that matter are invariants over ENABLED instead: whoever
wants to take an unlocked stake back can (StakeReturnable), and a mint within the
advertised maximum is not refused (MaxMintReachable, MintMaxAvailable).
Deadlock is checked except for the runs of the timelock and the governor, where in a state in
which no time is left below the bound, and nobody has a call that succeeds, the model stops, and
for governance_history, which stops when the record has been executed.

Guards that limit time are the bounds `MaxTime`, `MaxTimestamp`, `MaxBlock`:
behaviours are checked up to them, and nothing is claimed beyond other than by proof.

### 3.1 The governance history

The record has 76 steps, from FIP-37 to TIP-121a (cont.), in the order of their submission
(`MCorder`); six of them are off the record (ProposalsOffRecord). A state is the deployed protocol and the set of submitted proposals not yet executed.

* **Submit** rehearses as the tooling does: on a copy of the protocol it deploys and runs every
  pending proposal in the order of the record, then the new one, and checks the new one's
  validation and that every contract its calldata names exists. Only then are its
  contracts deployed and the proposal becomes pending.
* **Execute** runs a pending batch through any executor that the proposal's body may have. Which
  timelock belongs to which proposal is not chosen tightly: `Executors` admits the optimistic
  timelocks, the TribalCouncil's and Rari's for each, and of the FeiDAO's the one it
  obeys at that moment. So a batch that some body could not run for lack of a role is
  found to revert only when none of them could.
* **GuardianPause** pauses one of five contracts that later batches pause, unpause or withdraw from, at
  most once in a history (`MaxInterventions`), at any time; **GuardianUnpause** lifts it unless a batch
  has.
* **Lapse**: TIP-112 was never executed (`MCLapsing`), and what it does must not be relied on.

`Window = 4` bounds the overtaking: a proposal is overtaken by at most three successors. That is enough
for every pair of neighbours to run in both orders and for each of the waits below to be found necessary; what a
proposal that pends much longer may meet is not claimed.

`MCAwaits` lists what authors have to wait for; leave one out, and NeverStuck, ValidatedOnChain or Completes is
violated, so that the list is a result of the model as much as an assumption of it:

| proposal | waits for | because |
|---|---|---|
| fip_48 | fip_37 | its validation expects the optimistic timelock to administer the static wrapper, by the oracle admin role that FIP-37 grants it |
| fip_45 | fip_48 | FIP-48's validation counts nine tokens, and FIP-45 brings a tenth |
| fip_50 | fip_53 | it revokes PCV_CONTROLLER_ROLE from a contract that FIP-53 works through |
| fip_56 | fip_55 | FIP-55's validation counts exactly four safe addresses, and FIP-56 adds one |
| fip_84a | fip_78a, fip_79, fip_82, fip_83 | it moves the FeiDAO back to its old timelock: what is queued in the other one is stuck from then on |
| fip_82b | fip_98, fip_99 | its deployment copies the safe addresses that the old guardian has at that moment |
| fip_104 | fip_82b | its validation expects the admin that FIP-82b gives the swap role |
| buyback_newpool | minter_paused | it unpauses the minter of the buybacks; run before that pause, as a pause of the guardian's allows, it leaves the minter paused, so that the pause before TIP-117 can never be rehearsed |
| tip_117 | tip_111 | it pauses the Aave deposit that TIP-111 deposits into |
| tip_117 | buybacks_paused | its validation unpauses the minter (`tip_117.ts:126-129`), which has run since `buyback_newpool`: someone has paused it in between, and not by a proposal |
| psms_switched | tip_115 | TIP-115 withdraws from a module through the guardian, which unpauses it |

What is left out of a proposal: amounts, and therefore calls that revert for lack of a balance or for a
price; `setup` and `teardown`, which only prepare the rehearsal; transfers between accounts outside
the protocol. Validations keep the conjuncts that speak of roles, admins, counted and safe deposits, oracles,
pauses, pools and owners, and a call that a validation makes has to go through (`May`). What such a call changes on
the fork, such as the unpausing of the minter by TIP-117's, is not kept: it happens on no chain. The pauses of Fuse
markets, which belong to a third party, are left out.

With these waits the rehearsal excludes nothing more in the instance that is checked: what it protects
against is submission out of order. The last state is compared with the four configuration
files as the end-to-end tests do.

## 4. What is proved

The theorems hold for every value of the constants that satisfies the named
assumptions, so for any number of callers, any amounts, caps, prices and times.

**RateLimitedProofs** (RolesAssumption, RateLimitAssumption). `RateLimitedTypeCorrect`,
`RateLimitedWindowBounded`, `RateLimitedImplementsBucket`. WindowBounded says that a window's
headroom is not negative; that alone does not survive a depletion. The
inductive invariant `IInv` adds that the headroom covers the whole buffer. Its
core is the lemma that the buffer of a later moment is the buffer of an earlier one with
the accrual added and cut at the cap (`AdvanceBuffer`), for which the minimum of
a sum has to be taken apart (`MinFacts`, `AccrualAdds`). Every function is at the same
time a step of the bucket, so the refinement follows from the same lemmas.

**PSMProofs** (PSMAssumption and those above). `PSMTypeCorrect`, `PSMFeiBacked`,
`PSMPublicNeverGains`, `PSMMintsAreCharged`. The two quotes round against the trader for every fee and price
(`MintQuoteRoundsDown`, `RedeemQuoteRoundsDown`: two nested quotients each); an exchange at
a rate at most the price does not enrich (`ExchangeDoesNotEnrich`).
`PSMInv` contains the rate limit's invariant, because a mint is a depletion as well.
That every mint is charged rests on one more fact about the constructor: the limit acts in full or not at all. With partial
actions a mint would hand out more than it is charged.
`PSMMaxMintIsExact` is what can be proved of MaxMintReachable, which speaks of ENABLED: `MintChecks` collects what mint
requires (`MintIsChecked`: every step that mints passes it), and where nothing else stands in the way an amount passes it
exactly when its quote is at most `getMaxMintAmountOut`.

**ReserveProofs, the non-custodial module** (NonCustodialAssumption, RateLimitAssumption).
`NonCustodialNetRedemption`: whatever the trades,
prices and fees, no window of time sees more FEI redeemed, net of what is minted in it, than the cap at
its start and what the rate earned. As with the limit itself, the invariant is that the window covers the
buffer (`NetCoversBuffer`); a redemption takes the same from both, a mint gives all of its FEI to the window and at
most as much to the buffer (`ReplenishAtMost`), and governance never enlarges the buffer
(`GovernanceNeverEnlarges`). What the global minter does plays no part but that it takes no time. That the assumption
holds of the instance is checked by the run (an ASSUME of MCPegStabilityModule).

**ReserveProofs, the stabilizer** (TribeMinterAssumption, StabilizerAssumption, RateLimitAssumption).
`TribeMinterInflation`, `StabilizerInflation`, `StabilizerShortfall`. InflationBounded says that within a
year no more than twice the year's largest cap is handed out. The inductive invariant `MinterInv` says
more, and at every moment: what was handed out plus what the buffer holds is at most the cap plus what
the cap's rate has `earned` in the time that has passed of the year. A mint moves an amount from the
one summand to the other (`MintTribeStep`), a poke settles the buffer under the old rate before the new
one counts (`PokeStep`), and time adds no more to the buffer than to what was earned (`MinterAdvance`), because
the rate is always the cap divided by the year and the cap at most the year's largest. The products are
taken apart by three lemmas (`QuotientFacts`, `TimesFacts`, and `AccrualAdds` of RateLimitedProofs).
The theorems say nothing of calls that revert: a pause or a used-up buffer only makes less possible.
For ShortfallLasts, `CountdownInv` relates the countdown to the shortfall: as long as no reset was
missed, the shortfall is at least as old as the countdown, and an exchange finds it at its end.

**MinterProofs, the global minter** (MultiAssumption, RateLimitAssumption, RolesAssumption). `MultiSharedWindow`,
`MultiAddressWindow`, for any number of addresses and any widths of the machine integers. As with one limit, the
window has to cover the buffer, now at two levels at once (`WindowsCoverBuffers` in `MultiInv`): a mint takes the same
amount from both levels or from none, a registration brings its own full buffer into the window of its address and nothing into
the shared one, and an update cuts the window by what it cuts from the buffer. The fields of a record are written modulo
their width, so the invariant includes that nothing stored was cut off (`MultiTypeOK`). `MultiMaxMintIsExact` does for
MintMaxAvailable what `PSMMaxMintIsExact` does for MaxMintReachable.

**MinterProofs, the timed minters** (TimedMinterAssumption, RateLimitAssumption, RolesAssumption). `TimedMinterCovered`. The
constructor's rate is the cap divided by the period, rounded down, so a buffer that was emptied is not full after one
period; what is missing is less than one unit per second of it (`RateRounding`, `Refilled`). The invariant is
`RefilledWhenDue`: the limit fits the amounts, and the buffer was not used after the timer was started. Amounts of
FEI count wei and are assumed to exceed the square of the period in seconds (for thirty days, some millionths of a FEI):
of a partial mint then always something is left for the target, and a drip is possible a second later at
the latest. The history variable `settled` excepts the time between a setting and the call that follows once the limit fits
it again; the first call after an amount was raised may well revert.

**GovernanceProofs, the timelock** (TimelockAssumption). `TimelockTypes`, `TimelockWaits`, `TimelockGoverns`. The
invariant needs `QueuedWaits`: what is in the queue was put there with an eta at
least the delay of that moment ahead. An execution then takes a fact about the
queue over into the history, and a change of the delay leaves both alone. The theorems hold
for Timelock.sol with an arbitrary admin, so in particular for one whose admin is a governor.
FeiDAOTimelock adds one way to nominate an admin without the queue (`governorSetPendingAdmin`),
which `TimelockGoverns` therefore does not speak of; `AlphaGoverns` below does.

**GovernanceProofs, the governor** (AlphaAssumption and TimelockAssumption). `AlphaOneLiveProposal`,
`AlphaNoVoteCountsTwice`, `AlphaQueuePassedVote`, `AlphaQueuedIsHeld`, `AlphaStateNeverGoesBack`, for any actors, votes, delays
and numbers of proposals, with both guardians interfering. None of them is inductive alone. `AlphaInv` says of every
proposal (`IsSound`) that its receipts add up to its tally, taken from the table of votes of the block in which voting opened, and that
what was queued had passed after its vote was over, with an eta that lies a delay after its end; and of
governor and timelock together that every proposal that waits has its calls in the queue unless they were overruled (`WaitingIsHeld`),
that two that wait share none (`WaitingIsApart`: an execution consumes the entries of no other), and that the
queue holds nothing else but nominations of the guardian (`QueuedIsProposed`). `LatestIsLive` is what `propose` relies
on: it looks at the proposer's latest proposal only. That no vote counts twice follows because the tally is a sum over a
part of the accounts. AlphaAssumption asks that voting lasts at least a block and that the grace period is not empty, as the
constants of both contracts provide.

**GovernanceProofs, FeiDAOTimelock under the governor** (the same assumptions). `AlphaWaits`, `AlphaGoverns`. What runs has
waited for its delay although two guardians interfere: `AlphaInv` contains the timelock's invariant, so this follows
from it. The action property is about each step of the two contracts together. `SettingsAreGoverned`: delay and nominations
change by a due call that leaves the queue, or by a governor's nomination, which changes nothing else, and who becomes admin
was nominated. `PauseHolds`: a paused timelock takes nothing in and runs nothing, so that a pause stops whatever is queued, but cancellations
and vetoes go on. Batches are proved once (`ExecuteGoverns`), for the proposals and for the guardian's own transactions.

**GovernanceProofs, the token** (TribeAssumption). `TribeVotesFollow`, `TribeImplementsHistory`. `TribeInv`: the
checkpoints of a delegate are in the order of their blocks and none is from the future (`GoodRecords`), the latest holds
the sum of the balances delegated to it, and all balances add up to the supply, which is why adding votes never
overflows. A transfer moves votes between two delegates, who may be the same, or nobody, and the
sum of each moves with it. For the refinement, the bisection of `getPriorVotes` has to be right: it is a recursive
function on intervals, and that a function with its equations exists is shown first (`BisectionExists`), then that it returns
the last checkpoint not after the block asked for (a counterexample would have a narrowest interval). What a past block
says then depends on no checkpoint of the current block, so every step either keeps the history or, when a block is mined,
appends the votes of the block that ended.

**GovernanceProofs, the governance history** (HistoryAssumption: the order lists proposals of the record). `RecordInvariant`,
`RecordDelegatesStayMinor`, `RecordGuardianCanRevoke`, `RecordDelegatesConfined`. The run is about one order, one list of waits, a window of four
and one intervention of the guardian; the theorems are about every sequence of the proposals, with some left out or repeated, and every `Lapsing`,
`Awaits`, `Window`, `GuardianTargets` and number of interventions. `IsGoverned` is what a world has to be: governors administer the major
roles, no body that acts without a vote holds one, Core is a governor and the guardian a guardian. `EffectIs` sorts the effects of all calls
into those that leave roles alone and five that do not. A call `IsHarmless` if it neither gives such a body a major role or its
administration nor takes Core's or the guardian's role; a batch of harmless calls keeps a world governed, whoever runs it and whatever it meets
(`RunGoverned`). `Run` is a recursive function over the batch, whose values are first shown to exist (`TraceExists`: of the lengths that
have none there would be a least). `RecordHarmless` then goes through all 76 batches, call by call: none of the calls that
the repository's proposals make is of the other kind. That does not depend on the order, and therefore the theorems do not.
`RecordDelegatesConfined` turns this round, from the calls of the record to arbitrary ones: in any reachable state, *whatever* calls a
delegate batches (`DelegateRun`), the major roles keep their holders, but for a mover that gives up its own role, and their admins. It assumes of these calls only that
`createRole` is addressed to Core, as no other contract has that function.

**LedgerProofs, the collateralization oracle** (CollateralizationAssumption). `OracleCountsOnce`, for any deposits,
tokens, feeds and readings. `COInv` says that the three indexes say the same of every deposit (`InStep`) and that every
listed token has a feed, which `setOracle` and `addDeposit` preserve together. The two
loops of `pcvStats` are a sum over tokens of sums over their deposits; that this is one sum over the listed
deposits is a lemma about groupings (`SumOfGroups`).

**LedgerProofs, the cache and its guardian** (WrapperAssumption). `WrapperDriftBounded`. The bound for the periods that have begun does not
survive a move, because a move begins none; `WrapperInv` has it for the periods the guardian has *used*
(`periodsUsed`), of which each move uses one more, as its timer makes a period pass between two. One move changes a
value by at most one factor of the bound (nonlinear, by products of remainders); a new threshold starts the account
anew. The powers are a recursive
function (`power`), about which only its recursion and its sign are needed. `WrapperInv` was checked by TLC as
an invariant of the collateralization run before it was proved.

**LedgerProofs, TribalChief** (TribalChiefAssumption). `ChiefAllocPoints`, `ChiefStakesHeld`, `ChiefRewards`,
`ChiefStakeNeverStuck`, `ChiefLockedStaysPut`, for any finite set of users, any sequence of pools and deposits. `ChiefInv` has a part for
each pool (`PoolCovered`): its weight covers the users' weights, each user's weight covers the deposits' weights rounded one by one,
its stake is the sum of the stakes, and the rewards are covered *before* the rounding: the product of weight and accumulated reward per
share, less the debts, summed over the users. RewardsCovered, which speaks of the rounded rewards, does not survive an
`updatePool`, where each user's quotient may jump; the unrounded sum does. A partial withdrawal rounds the
part down, which leaves the rest at least its share (`virtual` of a sum is at least the sum). `ChiefStakeNeverStuck` is the part of
StakeReturnable that does not speak of ENABLED: the checks of `emergencyWithdraw` beyond the locks hold in every reachable state.

**LedgerProofs, the synchronisation** (TribalChiefAssumption, SyncAssumption). `SyncInvariant`, `SyncRewardsInStep`,
`SyncKeepsGuarantees`, `SyncLockedStaysPut`, for any schedule, pools, stakers and calls of the timelock. A call of TribalChiefSyncV2 updates
all pools and changes the reward or an allocation in the same step, which no function of TribalChief does, so every part of `ChiefInv` is shown
again for such a step. `SyncInv` adds the accounts (`Accounted`): what a pool was credited, with the blocks since its last update at what
they are worth *now*, is what its blocks were worth as they passed, but for less than a unit for each block entered. That survives a change of the
reward because the same call enters every pending block first, at the old reward; leave one pool out and the run finds the difference. The
distributor runs at the share of the first pool, whose staker never leaves, so that what it hands out is what that pool's blocks were worth.

**TokenTimelockProofs** (TokenTimelockAssumption). `TokenTimelockInvariant`, `TokenTimelockVests`,
`TokenTimelockClawback`, `TokenTimelockDelegations`, for both curves, every duration, cliff and set of delegatees. VestedOnly
is not inductive: what the contract pays is computed from `initialBalance` and the tokens
held, which have to be related to what arrived and left. `TTInv` adds that the
delegatees hold what was delegated (`DelegateesHold`), that the contract's bookkeeping is the
history's (`Accounted`), that no token appears or vanishes (`Conserved`) and that
nothing was paid before the cliff (`PaidAfterCliff`). The unlocked proportion is monotone in the amount and
in time (`ProportionFacts`), which is where the nonlinear arithmetic is. DelegatedIsHeld is proved on
top of it: the sum of the delegations follows `totalDelegated` because what is called back leaves a zero behind (`CalledBackIsZero`),
also when an existing Delegatee is replaced in the same call.

**SumProofs** is about the sums themselves, `SumFunctionOnSet` and `SumFunction` of the community modules: one
element more, one changed element, a part, a comparison, a scaling, a partition. The induction theorems of the library take an operator as a
parameter and cannot be used, but what they give can be had without them: a counterexample would have a smallest one, a minimal subset
of the finite set (`SmallestSubset`) or a least number. The sums of the models were written with these two operators for that
reason, and the sets that are summed over are assumed to be finite.

**Only model-checked.** MaxMintReachable, MintMaxAvailable and StakeReturnable speak about ENABLED, which the provers do not handle: the
theorems are about the guards. Completes is a liveness property. ConfigurationReached, ValidatedOnChain, NeverStuck,
NeverLockedOut and NothingCountedTwice are about one order of the record and its waits: nothing makes them hold of every sequence of proposals
(the table of section 3.1 has examples), and for this one a proof would only repeat the states that TLC visits. What is proved of the
history is what holds for every order.
DueCallCovered and NetRedemptionBounded are, in their runs, about every contract of the run at once; the
theorems `TimedMinterCovered` and `NonCustodialNetRedemption` are about the contract that each is meant for.
The two runs that end in a violation have nothing to prove.

## 5. What is not modelled

PROJECT.json lists every part with the reason. In short: PCV deposits and meta-governance are
adapters of external protocols; FeiDAO, NopeDAO and OptimisticTimelock are mostly
OpenZeppelin's contracts, which are not in the repository. Of the TypeScript, the proposals before
FIP-37 (JSON files with scripts around them), the setup and teardown of a rehearsal, amounts and prices,
and the unit tests are left out; of the stabilizers, the price of an exchange, the FEI it
burns and the reserves of the plain ReserveStabilizer; of Core, `revokeOverride` is the property GuardianCanRevoke and
not an action, and renouncing is left out; of the sentinel, what its guards decide. Not modelled within the modelled contracts: the IRewarder hooks of
TribalChief, the bytes of signatures (a signer is an arbitrary choice), the rollback of FeiDAO's timelock, decimals of oracles.

## 6. Findings and observations

Each finding is a run that TLC ends with a counterexample.

* **tribal_chief_harvest.** `harvest` sets a user's debt to the rounded-down reward of the whole
  weight; a partial withdrawal takes off the rounded-down reward of its part. The
  rest can be worth one less than the debt, and then the assertion commented "this should
  never happen" fails: `harvest`, `withdrawAllAndHarvest` and `pendingRewards` revert until
  the pool earns again. `withdrawFromDeposit` and `emergencyWithdraw` still work; of the latter this is
  what StakeReturnable shows.
* **oracle_guardian_drift.** The deviation is divided by the new value; the comment
  says relative to the current one. Downwards the bound is tighter than stated,
  upwards looser: with a threshold of half, a doubling passes.

Observations that no run is about, or that a property has to except:

* `TribalChief.set` updates only the pool it changes. The other pools' blocks since their last
  update are then divided by the smaller total: all pools together are credited more than
  `tribalChiefTribePerBlock` per block, which its comment calls the amount distributed.
  `massUpdatePools` first avoids it, and TribalChiefSyncV2 does that: what it achieves is RewardsInStep.
* A call of TribalChiefSyncV2 reverts when the distributor's speed comes out the same ("update not needed"), so a
  decrease, or a pool, that the first pool does not feel in its quotient cannot be brought in through it.
* When the reward has been lowered by other means to the next scheduled one or below, `autoDecreaseRewards` reverts until a governor raises the reward: an
  admin may only lower the reward, and the schedule's next entry leaves it only by being applied.
* Between `initialize` and the first `update` the timer of the oracle wrapper has not started,
  hence has not ended, hence the cache of zeros is not outdated: `pcvStats` is valid.
* `pcvStats` of the wrapper returns the cache whatever its age, while its comment says that
  without a fresh cached value the oracle is called. The validity flag does tell.
* A vetoed proposal stays `Queued` in the governor. If another proposal queues the same
  call at the same eta, executing the vetoed one runs it. This is why QueuedIsHeld
  excepts vetoed calls.
* Succeeded proposals can be queued at any later time; only queued ones expire.
* Raising `validityDurationSeconds` makes an outdated cache valid again.
* After a clawback or an unlock of the whole lock, `availableForRelease` underflows until
  enough of the tokens that arrive later has unlocked: releases revert till then.
* A lock whose `startTime` is in the future reverts in `timeSinceStart`, whose comment in
  `utils/Timed.sol` takes the timestamp to be at least the start time.
* `getMaxMintAmountOut` of the non-custodial module is its FEI plus its own buffer at the minter, "the maximum amount of
  Fei available for purchase at once"; the shared buffer of the minter may hold less, and then a mint of that amount
  reverts. MaxMintReachable is about the custodial module.
* TRIBE moves until block numbers need more than 32 bits; from then on no transfer of
  delegated TRIBE succeeds (`safe32` in `_writeCheckpoint`). VotesFollowBalances excepts this.
* The comment of TribeMinter says that with a cap of 10 % no more than 10 % of the supply can enter circulation in
  the following year. The buffer starts full and refills within a year: what can be issued in a
  year is up to twice the cap, which is the bound that InflationBounded states and the proof reaches.
* The constructor of TribeMinter pokes before the treasury and the dripper are set: its first cap counts
  their TRIBE as circulating until the next poke. Naming the same account twice subtracts its
  balance twice, and `poke` reverts when that exceeds the supply.
* TribeMinter passes 0 for the maximum rate to RateLimited. It binds nothing, because `poke` calls
  the internal setters and the public ones revert.
* The countdown of TribeReserveStabilizer goes on through a recovery that nobody resets; a dip much
  later then opens the exchange at once. ShortfallLasts excepts exactly this.
* With the minter role and an incentive of 0, PCVDripController has a limit of 0, and `_depleteBuffer` reverts on an empty
  buffer even when nothing is asked for: no drip succeeds. Without the role the incentive is skipped. DueCallCovered
  excepts a contract that has neither amount nor incentive.
* TIP-117 removes safe addresses from the first PCV guardian, which holds no role any more since
  FIP-82b; TIP-118 removes the same ones from its successor.
* `mintMaxAllowableFei` of a minter works on the smaller of both buffers, as `getMaxMintAmountOut` of
  the non-custodial module does not.

## 7. Plan

Order of the modules; the first group exists.

1. Money and limits: CoreRef, TokenBucket, RateLimited, MultiRateLimited, PegStabilityModule.
   Rewards: TribalChief. Governance: Timelock, FeiDAOTimelock, GovernorAlpha.
   Vesting: TokenTimelock. Collateralization: oracle, wrapper and guardian. Votes: Tribe
   with the abstract VoteHistory.
2. The governance history (done): ProtocolWorld, the proposals, their deployments and
   validations, the configuration, and GovernanceHistory over them. TribeMinter and
   TribeReserveStabilizer over RateLimited (done), with their proofs.
3. Permissions on their own (revokeOverride and renouncing as actions, RestrictedPermissions) with
   PCVGuardian and PCVSentinel on top: a guardian takes away but never grants, the pause of a
   deposit is what the last call asked for, a failing guard does not stop another one.
4. GovernorAlpha over Tribe: the freely chosen `votesAt` becomes the VoteHistory that Tribe
   implements.
5. NonCustodialPSM over MultiRateLimited (done), with its proof: redemptions and mints on three buffers.
6. Timed minters, keeper, drip controller (done), with their proof: timer, incentive and limit in one
   transaction, and no due call stopped by its own limit.
7. TribalChiefSyncV2 over TribalChief (done), with its proof; Merger; Pods.

Abstract specifications worth stating: the token bucket and the vote history (done), a
timelock as a set of calls, each with a not-before and a not-after time, a role tree as a
relation.

Proofs to come: that two proposals without a common contract may be executed in either order (ProtocolWorld), with which
ValidatedOnChain and NeverStuck would be about more than one order of the record; that the governor counts the right votes
once they come from Tribe (4), which should follow from `TribeImplementsHistory`.
