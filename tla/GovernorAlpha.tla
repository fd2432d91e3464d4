---------------------------- MODULE GovernorAlpha ----------------------------
(***************************************************************************)
(* dao/governor/GovernorAlpha.sol on top of a FeiDAOTimelock of which it   *)
(* is the admin.  Proposals are lists of calls; holders of TRIBE vote with *)
(* what was delegated to them when voting began; what passes is queued in  *)
(* the timelock and executed out of its queue.                             *)
(*                                                                         *)
(* One block is one unit of time.  The votes at the end of each block are  *)
(* chosen freely: TRIBE moves between any two blocks.                      *)
(***************************************************************************)
EXTENDS FeiDAOTimelock, FiniteSets, SequencesExt

CONSTANTS
    alpha,              \* the address of this contract
    FirstGuardian,      \* guardian_ of the constructor
    VoteTables,         \* the votes that holders may have at the end of a block
    Bundles,            \* the lists of calls that are proposed
    quorumVotes, proposalThreshold, proposalMaxOperations, votingDelay, votingPeriod,
    Successors, GuardianEtas,   \* bounds: whom, and for when, the guardian nominates
    MaxProposals        \* bound

ASSUME GovernorAssumption ==
    /\ alpha \in Admins
    /\ FirstGuardian \in Actors \cup {NoAdmin}
    /\ IsFiniteSet(Actors) /\ VoteTables \subseteq [Actors -> Nat]
    /\ Bundles \subseteq Seq(Calls)
    /\ quorumVotes \in Nat /\ proposalThreshold \in Nat /\ proposalMaxOperations \in Nat
    /\ votingDelay \in Nat /\ votingPeriod \in Nat \ {0} /\ GRACE_PERIOD # 0
    /\ Successors \subseteq Admins /\ GuardianEtas \subseteq 0..MaxTimestamp
    /\ MaxProposals \in Nat

VARIABLES
    proposals,          \* the proposals by id, receipts included
    latestProposalIds,
    guardian,
    votesAt,            \* votesAt[b][account]: the votes of account at the end of block b
    overruled           \* history: transactions that a veto or the guardian has taken from the queue

governorVars == <<proposals, latestProposalIds, guardian>>
alphaVars == <<timelockVars, coreRefVars, governorVars, votesAt, overruled>>

proposalCount == Len(proposals)

tribeVotes(account, block) == votesAt[block][account]

\* The transactions of a list of calls at one eta; hashes do not know their place in the list.
transactionsOf(actions, eta) == {[call |-> call, eta |-> eta] : call \in ToSet(actions)}

\* Mutation: any majority passes.
isPassedAnyTurnout(p) == p.forVotes > p.againstVotes

isPassed(p) == p.forVotes > p.againstVotes /\ p.forVotes >= quorumVotes

\* state(proposalId)
state(id) ==
    LET p == proposals[id] IN
    CASE p.canceled -> "Canceled"
      [] ~p.canceled /\ timestamp <= p.startBlock -> "Pending"
      [] ~p.canceled /\ p.startBlock < timestamp /\ timestamp <= p.endBlock -> "Active"
      [] ~p.canceled /\ p.endBlock < timestamp /\ ~isPassed(p) -> "Defeated"
      [] ~p.canceled /\ p.endBlock < timestamp /\ isPassed(p) /\ p.eta = 0 -> "Succeeded"
      [] p.eta # 0 /\ p.executed -> "Executed"
      [] p.eta # 0 /\ ~p.executed /\ timestamp >= p.eta + GRACE_PERIOD -> "Expired"
      [] OTHER -> "Queued"

-----------------------------------------------------------------------------
AlphaInit ==
    /\ FeiDAOTimelockInit
    /\ admin = alpha
    /\ proposals = <<>>
    /\ latestProposalIds = [account \in Actors |-> 0]
    /\ guardian = FirstGuardian
    /\ votesAt \in [{0} -> VoteTables]
    /\ overruled = {}

\* Mutation: only a proposal that is being voted on counts as live.
hasActiveProposal(caller) ==
    latestProposalIds[caller] # 0 /\ state(latestProposalIds[caller]) = "Active"

hasLiveProposal(caller) ==
    latestProposalIds[caller] # 0 /\ state(latestProposalIds[caller]) \in {"Active", "Pending"}

propose(caller, actions) ==
    /\ tribeVotes(caller, timestamp - 1) > proposalThreshold
    /\ actions # <<>> /\ Len(actions) <= proposalMaxOperations
    /\ ~hasLiveProposal(caller)
    /\ proposals' = Append(proposals,
            [proposer |-> caller, actions |-> actions, eta |-> 0,
             startBlock |-> timestamp + votingDelay,
             endBlock |-> timestamp + votingDelay + votingPeriod,
             forVotes |-> 0, againstVotes |-> 0, canceled |-> FALSE, executed |-> FALSE,
             receipts |-> {}])
    /\ latestProposalIds' = [latestProposalIds EXCEPT ![caller] = proposalCount + 1]
    /\ lastRun' = {}
    /\ UNCHANGED <<timestamp, adminVars, queueVars, coreRefVars, guardian, votesAt, overruled>>

\* Mutation: what is already queued at this eta is queued again.
queueAnyway(id, eta) ==
    pausableQueueTransactions(alpha, transactionsOf(proposals[id].actions, eta))

\* _queueOrRevert, for every action of the proposal: an action that is already queued at
\* this eta, by an earlier action of the list too, makes all of it revert.
queueOrRevert(id, eta) ==
    /\ IsInjective(proposals[id].actions)
    /\ transactionsOf(proposals[id].actions, eta) \cap queuedTransactions = {}
    /\ pausableQueueTransactions(alpha, transactionsOf(proposals[id].actions, eta))

queue(id) ==
    /\ state(id) = "Succeeded"
    /\ timestamp + delay <= MaxTimestamp
    /\ queueOrRevert(id, timestamp + delay)
    /\ proposals' = [proposals EXCEPT ![id].eta = timestamp + delay]
    /\ UNCHANGED <<latestProposalIds, guardian, votesAt, overruled>>

execute(id) ==
    /\ state(id) = "Queued"
    /\ proposals' = [proposals EXCEPT ![id].executed = TRUE]
    /\ pausableExecuteTransactions(alpha, transactionsOf(proposals[id].actions, proposals[id].eta))
    /\ UNCHANGED <<latestProposalIds, guardian, votesAt, overruled>>

\* Mutation: whatever has not been executed can be cancelled.
isCancelableAnyTime(id) == state(id) # "Executed"

isCancelable(id) == state(id) \in {"Active", "Pending"}

\* Nothing of a proposal that can be cancelled is queued yet: its eta is still 0.
cancel(caller, id) ==
    /\ isCancelable(id)
    /\ \/ caller = guardian
       \/ tribeVotes(proposals[id].proposer, timestamp - 1) < proposalThreshold
    /\ proposals' = [proposals EXCEPT ![id].canceled = TRUE]
    /\ cancelTransactions(alpha, transactionsOf(proposals[id].actions, proposals[id].eta))
    /\ UNCHANGED <<coreRefVars, latestProposalIds, guardian, votesAt, overruled>>

hasVoted(p, voter) == \E receipt \in p.receipts : receipt.voter = voter

\* Mutation: the votes of the last block count.
ballotOfLastBlock(p, voter) == tribeVotes(voter, timestamp - 1)

ballot(p, voter) == tribeVotes(voter, p.startBlock)

\* castVote, and castVoteBySig with the voter that the signature recovers to.
castVote(voter, id, support) ==
    /\ state(id) = "Active"
    /\ ~hasVoted(proposals[id], voter)
    /\ LET votes == ballot(proposals[id], voter)
       IN  proposals' = [proposals EXCEPT
            ![id].forVotes = IF support THEN @ + votes ELSE @,
            ![id].againstVotes = IF support THEN @ ELSE @ + votes,
            ![id].receipts = @ \cup {[voter |-> voter, support |-> support, votes |-> votes]}]
    /\ lastRun' = {}
    /\ UNCHANGED <<timestamp, adminVars, queueVars, coreRefVars, latestProposalIds, guardian,
                   votesAt, overruled>>

\* __acceptAdmin: anybody may have this contract accept.
acceptTimelockAdmin ==
    /\ acceptAdmin(alpha)
    /\ UNCHANGED <<coreRefVars, governorVars, votesAt, overruled>>

\* __abdicate and __transferGuardian
changeGuardian(caller, newGuardian) ==
    /\ caller = guardian
    /\ guardian' = newGuardian
    /\ lastRun' = {}
    /\ UNCHANGED <<timestamp, adminVars, queueVars, coreRefVars, proposals, latestProposalIds,
                   votesAt, overruled>>

nomination(newPendingAdmin, eta) == [call |-> [setPendingAdmin |-> newPendingAdmin], eta |-> eta]

queueSetTimelockPendingAdmin(caller, newPendingAdmin, eta) ==
    /\ caller = guardian
    /\ pausableQueueTransactions(alpha, {nomination(newPendingAdmin, eta)})
    /\ UNCHANGED <<governorVars, votesAt, overruled>>

executeSetTimelockPendingAdmin(caller, newPendingAdmin, eta) ==
    /\ caller = guardian
    /\ pausableExecuteTransactions(alpha, {nomination(newPendingAdmin, eta)})
    /\ overruled' = overruled \cup {nomination(newPendingAdmin, eta)}
    /\ UNCHANGED <<governorVars, votesAt>>

-----------------------------------------------------------------------------
\* What others do to the timelock.
veto(caller, txs) ==
    /\ vetoTransactions(caller, txs)
    /\ overruled' = overruled \cup txs
    /\ UNCHANGED <<governorVars, votesAt>>

nominate(caller, newAdmin) ==
    /\ governorSetPendingAdmin(caller, newAdmin)
    /\ UNCHANGED <<governorVars, votesAt, overruled>>

setPaused(caller) ==
    /\ CoreRefStep(caller)
    /\ lastRun' = {}
    /\ UNCHANGED <<timestamp, adminVars, queueVars, governorVars, votesAt, overruled>>

\* Another admin takes over.
succeed(newAdmin) ==
    /\ newAdmin # alpha
    /\ acceptAdmin(newAdmin)
    /\ UNCHANGED <<coreRefVars, governorVars, votesAt, overruled>>

AdvanceBlock ==
    /\ timestamp < MaxTimestamp
    /\ AdvanceTimestamp(timestamp + 1)
    /\ \E table \in VoteTables :
        votesAt' = [b \in 0..timestamp |-> IF b = timestamp THEN table ELSE votesAt[b]]
    /\ UNCHANGED <<coreRefVars, governorVars, overruled>>

AlphaNext ==
    \/ \E caller \in Actors :
        \/ \E actions \in Bundles : proposalCount < MaxProposals /\ propose(caller, actions)
        \/ \E id \in 1..proposalCount :
            \/ cancel(caller, id)
            \/ \E support \in BOOLEAN : castVote(caller, id, support)
        \/ \E newGuardian \in Actors \cup {NoAdmin} : changeGuardian(caller, newGuardian)
        \/ \E newAdmin \in Successors, eta \in GuardianEtas :
            \/ queueSetTimelockPendingAdmin(caller, newAdmin, eta)
            \/ executeSetTimelockPendingAdmin(caller, newAdmin, eta)
        \/ \E txs \in {{tx} : tx \in queuedTransactions} : veto(caller, txs)
        \/ \E newAdmin \in Admins : nominate(caller, newAdmin)
        \/ setPaused(caller)
    \/ \E id \in 1..proposalCount : queue(id) \/ execute(id)
    \/ acceptTimelockAdmin
    \/ \E newAdmin \in Admins : succeed(newAdmin)
    \/ AdvanceBlock

AlphaSpec == AlphaInit /\ [][AlphaNext]_alphaVars

-----------------------------------------------------------------------------
\* Nobody has two proposals that are pending or voted on.
OneLiveProposal ==
    \A i, j \in 1..proposalCount :
        /\ proposals[i].proposer = proposals[j].proposer
        /\ state(i) \in {"Pending", "Active"} /\ state(j) \in {"Pending", "Active"}
        => i = j

\* A proposal never collects more votes than there were when its vote began, however
\* TRIBE moves and is delegated while the vote is on.
NoVoteCountsTwice ==
    \A id \in 1..proposalCount :
        proposals[id].receipts # {} =>
            proposals[id].forVotes + proposals[id].againstVotes
                <= SumFunction(votesAt[proposals[id].startBlock])

\* What waits in the timelock's queue was voted for: but for the nominations of the
\* guardian, it belongs to a proposal that was not cancelled and that more votes than the
\* quorum, and than those against it, were in favour of when its vote was over.
QueuePassedVote ==
    \A tx \in queuedTransactions :
        "setPendingAdmin" \notin DOMAIN tx.call =>
            \E id \in 1..proposalCount :
                LET p == proposals[id] IN
                /\ tx \in transactionsOf(p.actions, p.eta)
                /\ ~p.canceled
                /\ p.endBlock + MINIMUM_DELAY < p.eta
                /\ p.forVotes > p.againstVotes /\ p.forVotes >= quorumVotes

\* What the governor calls queued is in the timelock's queue, all of it, unless a veto or
\* the guardian has reached into the queue: no other proposal can run or remove any of it.
QueuedIsHeld ==
    \A id \in 1..proposalCount :
        state(id) = "Queued" =>
            transactionsOf(proposals[id].actions, proposals[id].eta) \subseteq queuedTransactions \cup overruled

\* The life of a proposal, which state() computes anew from the block, the time and the
\* votes at every call.
Follows ==
    [Pending |-> {"Active", "Canceled"}, Active |-> {"Canceled", "Defeated", "Succeeded"},
     Succeeded |-> {"Queued"}, Queued |-> {"Executed", "Expired"},
     Canceled |-> {}, Defeated |-> {}, Expired |-> {}, Executed |-> {}]

\* A proposal only moves forward through its life, and never leaves one of the four ends.
StateNeverGoesBack ==
    [][\A id \in 1..proposalCount : state(id)' # state(id) => state(id)' \in Follows[state(id)]]_alphaVars
=============================================================================
