-------------------------- MODULE GovernanceProofs ---------------------------
(***************************************************************************)
(* Proofs about how the DAO decides, for every set of accounts, balances,  *)
(* delays, quorums and horizons.  Timelock.tla: what runs has waited, and  *)
(* settings change only by way of the queue; the lemmas speak of whole     *)
(* batches, so that they hold for any contract that is the admin.          *)
(* GovernorAlpha.tla on top of it: one live proposal per proposer, no vote *)
(* counted twice, only what passed is queued, what is queued is held, and  *)
(* no state goes back.  Tribe.tla: votes follow balances, and the token    *)
(* implements VoteHistory.tla, in which no past vote ever changes.         *)
(* GovernanceHistory.tla: for every order of the proposals of the record   *)
(* that a refused, lapsed or unvalidated one leaves, the bodies that act   *)
(* without a vote hold no major role and get none by any batch of theirs.  *)
(***************************************************************************)
EXTENDS GovernorAlpha, Tribe, GovernanceHistory, SumProofs, SequenceTheorems, WellFoundedInduction

\* What is proved to be inductive.
TimelockInv == TimelockTypeOK /\ QueuedWaits /\ WaitedItsDelay

\* The argument of a call of setDelay is a delay.
LEMMA DelayOfCall ==
    ASSUME NEW call \in Calls, "setDelay" \in DOMAIN call
    PROVE  call \in [setDelay : Delays] /\ call.setDelay \in Delays
<1>1. call \notin [setPendingAdmin : Admins \cup {NoAdmin}]
    OBVIOUS
<1>2. call \notin [payload : Payloads]
    OBVIOUS
<1> QED BY <1>1, <1>2 DEF Calls

\* The argument of a call of setPendingAdmin is an address.
LEMMA AdminOfCall ==
    ASSUME NEW call \in Calls, "setPendingAdmin" \in DOMAIN call
    PROVE  /\ call \in [setPendingAdmin : Admins \cup {NoAdmin}]
           /\ call.setPendingAdmin \in Admins \cup {NoAdmin}
<1>1. call \notin [setDelay : Delays]
    OBVIOUS
<1>2. call \notin [payload : Payloads]
    OBVIOUS
<1> QED BY <1>1, <1>2 DEF Calls

\* The transactions of a batch that set the delay ask for delays in Delays.
LEMMA DelaysOfBatch ==
    ASSUME NEW txs \in SUBSET Transactions
    PROVE  /\ newDelays(txs) \subseteq Delays
           /\ \A d \in newDelays(txs) : \E tx \in txs : tx.call \in [setDelay : {d}]
<1> SUFFICES ASSUME NEW d \in newDelays(txs)
             PROVE  d \in Delays /\ \E tx \in txs : tx.call \in [setDelay : {d}]
    OBVIOUS
<1>1. PICK tx \in txs : "setDelay" \in DOMAIN tx.call /\ d = tx.call.setDelay
    BY DEF newDelays
<1>2. tx.call \in Calls
    BY DEF Transactions
<1>3. tx.call \in [setDelay : Delays] /\ tx.call.setDelay \in Delays
    BY <1>1, <1>2, DelayOfCall
<1>4. tx.call \in [setDelay : {d}]
    BY <1>1, <1>3
<1> QED BY <1>1, <1>3, <1>4

\* The transactions of a batch that nominate an admin name addresses.
LEMMA AdminsOfBatch ==
    ASSUME NEW txs \in SUBSET Transactions
    PROVE  /\ newPendingAdmins(txs) \subseteq Admins \cup {NoAdmin}
           /\ \A a \in newPendingAdmins(txs) : \E tx \in txs : tx.call \in [setPendingAdmin : {a}]
<1> SUFFICES ASSUME NEW a \in newPendingAdmins(txs)
             PROVE  /\ a \in Admins \cup {NoAdmin}
                    /\ \E tx \in txs : tx.call \in [setPendingAdmin : {a}]
    OBVIOUS
<1>1. PICK tx \in txs : "setPendingAdmin" \in DOMAIN tx.call /\ a = tx.call.setPendingAdmin
    BY DEF newPendingAdmins
<1>2. tx.call \in Calls
    BY DEF Transactions
<1>3. /\ tx.call \in [setPendingAdmin : Admins \cup {NoAdmin}]
      /\ tx.call.setPendingAdmin \in Admins \cup {NoAdmin}
    BY <1>1, <1>2, AdminOfCall
<1>4. tx.call \in [setPendingAdmin : {a}]
    BY <1>1, <1>3
<1> QED BY <1>1, <1>3, <1>4

-----------------------------------------------------------------------------
\* The constructor establishes the invariant: the initial delay is within its limits.
LEMMA TimelockInitInv == TimelockAssumption /\ TimelockInit => TimelockInv
<1> SUFFICES ASSUME TimelockAssumption, TimelockInit PROVE TimelockInv
    OBVIOUS
<1>1. TimelockTypeOK
    BY DEF TimelockAssumption, TimelockInit, TimelockTypeOK, NotQueued
<1>2. QueuedWaits
    BY DEF TimelockInit, QueuedWaits
<1>3. WaitedItsDelay
    BY DEF TimelockInit, WaitedItsDelay
<1> QED BY <1>1, <1>2, <1>3 DEF TimelockInv

\* The moments at which the transactions of a batch were queued, once they are.
LEMMA EnqueueEffect ==
    ASSUME NEW txs \in SUBSET Transactions, TimelockAssumption, TimelockTypeOK, enqueue(txs)
    PROVE  /\ queuedTransactions' \subseteq Transactions
           /\ queuedAt' \in [Transactions -> [at : Nat, delay : Nat]]
           /\ \A tx \in Transactions :
                queuedAt'[tx] = IF tx \in txs THEN [at |-> timestamp, delay |-> delay] ELSE queuedAt[tx]
<1>1. timestamp \in Nat /\ delay \in Nat
    BY DEF TimelockAssumption, TimelockTypeOK
<1>2. queuedAt \in [Transactions -> [at : Nat, delay : Nat]]
    BY DEF TimelockTypeOK
<1>3. queuedTransactions' \subseteq Transactions
    BY DEF TimelockTypeOK, enqueue
<1> QED BY <1>1, <1>2, <1>3 DEF enqueue

\* The same, once they have left the queue.
LEMMA DequeueEffect ==
    ASSUME NEW txs \in SUBSET Transactions, TimelockTypeOK, dequeue(txs)
    PROVE  /\ queuedTransactions' \subseteq Transactions
           /\ queuedAt' \in [Transactions -> [at : Nat, delay : Nat]]
           /\ \A tx \in queuedTransactions' : tx \in queuedTransactions /\ queuedAt'[tx] = queuedAt[tx]
<1>1. queuedAt \in [Transactions -> [at : Nat, delay : Nat]]
    BY DEF TimelockTypeOK
<1>2. queuedTransactions \subseteq Transactions
    BY DEF TimelockTypeOK
<1>3. NotQueued \in [at : Nat, delay : Nat]
    BY DEF NotQueued
<1>4. queuedAt' \in [Transactions -> [at : Nat, delay : Nat]]
    BY <1>1, <1>3 DEF dequeue
<1>5. queuedTransactions' \subseteq queuedTransactions
    BY DEF dequeue
<1>6. ASSUME NEW tx \in queuedTransactions' PROVE queuedAt'[tx] = queuedAt[tx]
  <2>1. tx \notin txs /\ tx \in Transactions
    BY <1>2, <1>5 DEF dequeue
  <2> QED BY <2>1 DEF dequeue
<1> QED BY <1>2, <1>4, <1>5, <1>6

\* Queueing keeps the invariant: the eta leaves the delay in force.
LEMMA QueueKeeps ==
    ASSUME NEW caller, NEW txs \in SUBSET Transactions, TimelockAssumption, TimelockInv,
           queueTransactions(caller, txs)
    PROVE  TimelockInv'
<1>0. TimelockTypeOK /\ QueuedWaits /\ enqueue(txs)
    BY DEF TimelockInv, queueTransactions
<1>1. TimelockTypeOK'
    BY <1>0, EnqueueEffect DEF TimelockTypeOK, queueTransactions, adminVars
<1>2. QueuedWaits'
  <2> SUFFICES ASSUME NEW tx \in queuedTransactions'
               PROVE  /\ queuedAt'[tx].delay >= MINIMUM_DELAY
                      /\ tx.eta >= queuedAt'[tx].at + queuedAt'[tx].delay
    BY DEF QueuedWaits
  <2>1. tx \in Transactions
    BY <1>0, EnqueueEffect
  <2>2. CASE tx \in txs
    <3>1. queuedAt'[tx] = [at |-> timestamp, delay |-> delay]
      BY <1>0, <2>1, <2>2, EnqueueEffect
    <3>2. tx.eta >= timestamp + delay
      BY <2>2 DEF queueTransactions
    <3>3. delay >= MINIMUM_DELAY
      BY <1>0 DEF TimelockTypeOK, TimelockAssumption
    <3> QED BY <3>1, <3>2, <3>3
  <2>3. CASE tx \notin txs
    <3>1. queuedAt'[tx] = queuedAt[tx]
      BY <1>0, <2>1, <2>3, EnqueueEffect
    <3>2. tx \in queuedTransactions
      BY <1>0, <2>3 DEF enqueue
    <3> QED BY <1>0, <3>1, <3>2 DEF QueuedWaits
  <2> QED BY <2>2, <2>3
<1>3. WaitedItsDelay'
    BY DEF queueTransactions, WaitedItsDelay
<1> QED BY <1>1, <1>2, <1>3 DEF TimelockInv

\* Leaving the queue keeps what is said of the others that are in it.
LEMMA DequeueKeepsWaits ==
    ASSUME NEW txs \in SUBSET Transactions, TimelockTypeOK, QueuedWaits, dequeue(txs)
    PROVE  QueuedWaits'
<1> SUFFICES ASSUME NEW tx \in queuedTransactions'
             PROVE  /\ queuedAt'[tx].delay >= MINIMUM_DELAY
                    /\ tx.eta >= queuedAt'[tx].at + queuedAt'[tx].delay
    BY DEF QueuedWaits
<1>1. tx \in queuedTransactions /\ queuedAt'[tx] = queuedAt[tx]
    BY DequeueEffect
<1> QED BY <1>1 DEF QueuedWaits

\* Cancelling keeps the invariant.
LEMMA CancelKeeps ==
    ASSUME NEW caller, NEW txs \in SUBSET Transactions, TimelockInv,
           cancelTransactions(caller, txs)
    PROVE  TimelockInv'
<1>0. TimelockTypeOK /\ QueuedWaits /\ dequeue(txs)
    BY DEF TimelockInv, cancelTransactions
<1>1. TimelockTypeOK'
    BY <1>0, DequeueEffect DEF TimelockTypeOK, cancelTransactions, adminVars
<1>2. QueuedWaits'
    BY <1>0, DequeueKeepsWaits
<1>3. WaitedItsDelay'
    BY DEF cancelTransactions, WaitedItsDelay
<1> QED BY <1>1, <1>2, <1>3 DEF TimelockInv

\* Running a batch keeps the invariant: what runs was queued, so it has waited, and a
\* delay that it sets is within the limits.
LEMMA ExecuteKeeps ==
    ASSUME NEW caller, NEW txs \in SUBSET Transactions, TimelockAssumption, TimelockInv,
           executeTransactions(caller, txs)
    PROVE  TimelockInv'
<1>0. TimelockTypeOK /\ QueuedWaits /\ dequeue(txs)
    BY DEF TimelockInv, executeTransactions
<1>1. delay' \in MINIMUM_DELAY..MAXIMUM_DELAY
  <2>1. CASE newDelays(txs) = {}
    BY <1>0, <2>1 DEF executeTransactions, setDelay, TimelockTypeOK
  <2>2. CASE newDelays(txs) # {}
    <3> PICK new \in newDelays(txs) : delay' = new
      BY <2>2 DEF executeTransactions, setDelay
    <3>1. new \in Nat
      BY DelaysOfBatch DEF TimelockAssumption
    <3>2. new >= MINIMUM_DELAY /\ new <= MAXIMUM_DELAY
      BY DEF executeTransactions, setDelay
    <3>3. new \in MINIMUM_DELAY..MAXIMUM_DELAY
      BY <3>1, <3>2 DEF TimelockAssumption
    <3> QED BY <3>3
  <2> QED BY <2>1, <2>2
<1>2. pendingAdmin' \in Admins \cup {NoAdmin}
    BY <1>0, AdminsOfBatch DEF executeTransactions, setPendingAdmin, TimelockTypeOK
<1>3. ASSUME NEW tx \in txs
      PROVE  LET r == [at |-> queuedAt[tx].at, delay |-> queuedAt[tx].delay, eta |-> tx.eta, ran |-> timestamp]
             IN  /\ r \in Runs
                 /\ r.ran >= r.at + r.delay
                 /\ r.ran >= r.at + MINIMUM_DELAY
                 /\ r.ran <= r.eta + GRACE_PERIOD
  <2>1. tx \in queuedTransactions /\ tx.eta <= timestamp /\ timestamp <= tx.eta + GRACE_PERIOD
    BY DEF executeTransactions
  <2>2. queuedAt[tx].delay >= MINIMUM_DELAY /\ tx.eta >= queuedAt[tx].at + queuedAt[tx].delay
    BY <1>0, <2>1 DEF QueuedWaits
  <2>3. queuedAt[tx].at \in Nat /\ queuedAt[tx].delay \in Nat
    BY <1>0 DEF TimelockTypeOK
  <2>4. tx.eta \in Nat /\ timestamp \in Nat /\ MINIMUM_DELAY \in Nat /\ GRACE_PERIOD \in Nat
    BY <1>0 DEF Transactions, TimelockTypeOK, TimelockAssumption
  <2> QED BY <2>1, <2>2, <2>3, <2>4 DEF Runs
<1>4. lastRun' \subseteq Runs /\ WaitedItsDelay'
  <2>1. lastRun' = ran(txs)
    BY DEF executeTransactions
  <2> SUFFICES ASSUME NEW run \in ran(txs)
               PROVE  /\ run \in Runs
                      /\ run.ran >= run.at + run.delay
                      /\ run.ran >= run.at + MINIMUM_DELAY
                      /\ run.ran <= run.eta + GRACE_PERIOD
    BY <2>1, Zenon DEF WaitedItsDelay
  <2> PICK tx \in txs :
        run = [at |-> queuedAt[tx].at, delay |-> queuedAt[tx].delay, eta |-> tx.eta, ran |-> timestamp]
    BY DEF ran
  <2> QED BY <1>3, Zenon
<1>5. timestamp' = timestamp /\ admin' = admin
    BY DEF executeTransactions
<1>6. TimelockTypeOK'
    BY <1>0, <1>1, <1>2, <1>4, <1>5, DequeueEffect DEF TimelockTypeOK
<1>7. QueuedWaits'
    BY <1>0, DequeueKeepsWaits
<1> QED BY <1>4, <1>6, <1>7 DEF TimelockInv

\* Time keeps the invariant: nothing in it depends on the moment after a transaction.
LEMMA AdvanceTimestampKeeps ==
    ASSUME NEW t \in Nat, TimelockInv, AdvanceTimestamp(t)
    PROVE  TimelockInv'
<1>1. TimelockTypeOK'
    BY DEF TimelockInv, TimelockTypeOK, AdvanceTimestamp, adminVars, queueVars
<1>2. QueuedWaits' /\ WaitedItsDelay'
    BY DEF TimelockInv, QueuedWaits, WaitedItsDelay, AdvanceTimestamp, queueVars
<1> QED BY <1>1, <1>2 DEF TimelockInv

\* Accepting keeps the invariant: NoAdmin never calls.
LEMMA AcceptAdminKeeps ==
    ASSUME NEW caller \in Admins, TimelockInv, acceptAdmin(caller)
    PROVE  TimelockInv'
<1>1. TimelockTypeOK'
    BY DEF TimelockInv, TimelockTypeOK, acceptAdmin, queueVars
<1>2. QueuedWaits' /\ WaitedItsDelay'
    BY DEF TimelockInv, QueuedWaits, WaitedItsDelay, acceptAdmin, queueVars
<1> QED BY <1>1, <1>2 DEF TimelockInv

-----------------------------------------------------------------------------
\* One step of the timelock keeps the invariant.
LEMMA TimelockNextInv ==
    ASSUME TimelockAssumption, TimelockInv, TimelockNext
    PROVE  TimelockInv'
<1>1. ASSUME NEW caller \in Admins, acceptAdmin(caller) PROVE TimelockInv'
    BY <1>1, AcceptAdminKeeps
<1>2. ASSUME NEW caller \in Admins, NEW tx \in Transactions,
             \/ queueTransactions(caller, {tx})
             \/ cancelTransactions(caller, {tx})
             \/ executeTransactions(caller, {tx})
      PROVE  TimelockInv'
  <2>1. {tx} \in SUBSET Transactions
    OBVIOUS
  <2> QED BY <1>2, <2>1, QueueKeeps, CancelKeeps, ExecuteKeeps
<1>3. ASSUME NEW t \in 1..MaxTimestamp, AdvanceTimestamp(t) PROVE TimelockInv'
    BY <1>3, AdvanceTimestampKeeps DEF TimelockAssumption
<1> QED BY <1>1, <1>2, <1>3 DEF TimelockNext

\* The invariant in every state.  It is stronger than what a reader wants to know by
\* QueuedWaits: that what runs has waited follows from what was true while it was queued.
THEOREM TimelockInvariant == TimelockAssumption /\ TimelockSpec => []TimelockInv
<1> SUFFICES ASSUME TimelockAssumption PROVE TimelockSpec => []TimelockInv
    OBVIOUS
<1>1. TimelockInit => TimelockInv
    BY TimelockInitInv
<1>2. TimelockInv /\ [TimelockNext]_timelockVars => TimelockInv'
  <2> SUFFICES ASSUME TimelockInv, [TimelockNext]_timelockVars PROVE TimelockInv'
    OBVIOUS
  <2>1. CASE TimelockNext
    BY <2>1, TimelockNextInv
  <2>2. CASE UNCHANGED timelockVars
    BY <2>2 DEF timelockVars, adminVars, queueVars, TimelockInv, TimelockTypeOK, QueuedWaits, WaitedItsDelay
  <2> QED BY <2>1, <2>2
<1> QED BY <1>1, <1>2, PTL DEF TimelockSpec

\* Type correctness of the timelock (dao/timelock/Timelock.sol).
THEOREM TimelockTypes == TimelockAssumption /\ TimelockSpec => []TimelockTypeOK
<1>1. TimelockInv => TimelockTypeOK
    BY DEF TimelockInv
<1> QED BY <1>1, TimelockInvariant, PTL

\* Whatever executeTransaction runs has waited for the delay that was in force when it
\* was queued last, and is not stale (queueTransaction, executeTransaction).
THEOREM TimelockWaits == TimelockAssumption /\ TimelockSpec => []WaitedItsDelay
<1>1. TimelockInv => WaitedItsDelay
    BY DEF TimelockInv
<1> QED BY <1>1, TimelockInvariant, PTL

\* The delay changes and an admin is nominated only by a call of the timelock to itself
\* that leaves the queue (setDelay, setPendingAdmin).
THEOREM TimelockGoverns == TimelockAssumption /\ TimelockSpec => QueueGovernsSettings
<1> SUFFICES ASSUME TimelockAssumption PROVE TimelockSpec => QueueGovernsSettings
    OBVIOUS
<1> DEFINE Governed ==
        pendingAdmin' \notin {pendingAdmin, NoAdmin} \/ delay' # delay
            => \E tx \in queuedTransactions \ queuedTransactions' :
                tx.call \in [setDelay : {delay'}] \cup [setPendingAdmin : {pendingAdmin'}]
<1>1. TimelockTypeOK /\ [TimelockNext]_timelockVars => [Governed]_timelockVars
  <2> SUFFICES ASSUME TimelockTypeOK, TimelockNext PROVE Governed
    OBVIOUS
  <2>1. ASSUME NEW caller \in Admins, acceptAdmin(caller) PROVE Governed
    BY <2>1 DEF acceptAdmin
  <2>2. ASSUME NEW caller, NEW txs, queueTransactions(caller, txs) \/ cancelTransactions(caller, txs)
        PROVE  Governed
    BY <2>2 DEF queueTransactions, cancelTransactions, adminVars
  <2>3. ASSUME NEW caller, NEW txs \in SUBSET Transactions, executeTransactions(caller, txs)
        PROVE  Governed
    <3> SUFFICES ASSUME pendingAdmin' \notin {pendingAdmin, NoAdmin} \/ delay' # delay
                 PROVE  \E tx \in txs :
                            tx.call \in [setDelay : {delay'}] \cup [setPendingAdmin : {pendingAdmin'}]
      <4>1. \A tx \in txs : tx \in queuedTransactions \ queuedTransactions'
        BY <2>3 DEF executeTransactions, dequeue
      <4> QED BY <4>1
    <3>1. CASE delay' # delay
      <4>1. delay' \in newDelays(txs)
        BY <2>3, <3>1 DEF executeTransactions, setDelay
      <4> QED BY <4>1, DelaysOfBatch
    <3>2. CASE pendingAdmin' # pendingAdmin
      <4>1. pendingAdmin' \in newPendingAdmins(txs)
        BY <2>3, <3>2 DEF executeTransactions, setPendingAdmin
      <4> QED BY <4>1, AdminsOfBatch
    <3> QED BY <3>1, <3>2
  <2>4. ASSUME NEW t, AdvanceTimestamp(t) PROVE Governed
    BY <2>4 DEF AdvanceTimestamp, adminVars
  <2>5. \A tx \in Transactions : {tx} \in SUBSET Transactions
    OBVIOUS
  <2> HIDE DEF Governed
  <2> QED BY <2>1, <2>2, <2>3, <2>4, <2>5 DEF TimelockNext
<1> QED BY <1>1, TimelockTypes, PTL DEF TimelockSpec, QueueGovernsSettings

-----------------------------------------------------------------------------
\* What the proofs need of the constants of the three modules.
AlphaAssumption == TimelockAssumption /\ RolesAssumption /\ GovernorAssumption

\* The records that proposals consist of, and the proposals there are.
Receipts == [voter : Actors, support : BOOLEAN, votes : Nat]

ProposalRecords ==
    [proposer : Actors, actions : Seq(Calls), eta : Nat,
     startBlock : Nat, endBlock : Nat, forVotes : Nat, againstVotes : Nat,
     canceled : BOOLEAN, executed : BOOLEAN, receipts : SUBSET Receipts]

\* The numbers of the proposals.
ids == 1..proposalCount

\* Type correctness of GovernorAlpha; the votes of every past block are on record.
AlphaTypeOK ==
    /\ proposals \in Seq(ProposalRecords)
    /\ latestProposalIds \in [Actors -> 0..proposalCount]
    /\ timestamp \in Nat \ {0}
    /\ votesAt \in [0..timestamp - 1 -> VoteTables]

\* What has been queued had passed its vote, which was over.
QueuedHasPassed(p, now) ==
    /\ p.eta # 0 =>
        /\ p.canceled = FALSE
        /\ p.eta \in 0..MaxTimestamp
        /\ p.endBlock < now
        /\ p.endBlock + MINIMUM_DELAY < p.eta
        /\ isPassed(p)
    /\ p.executed # FALSE => p.eta # 0

\* Who has voted on a proposal.
voters(p) == {a \in Actors : hasVoted(p, a)}

\* Who voted is counted once, with the votes of the end of the block in which voting opened.
BallotsCounted(p, now, tables) ==
    /\ p.receipts # {} => p.startBlock < now
    /\ p.forVotes + p.againstVotes = SumFunctionOnSet(tables[p.startBlock], voters(p))

\* What holds of every proposal at any time.
IsSound(p, now, tables) ==
    /\ p.endBlock = p.startBlock + votingPeriod
    /\ QueuedHasPassed(p, now)
    /\ BallotsCounted(p, now, tables)

AllSound == \A id \in ids : IsSound(proposals[id], timestamp, votesAt)

\* A proposal that can no longer be pending or active.
IsOver(p, now) == p.canceled # FALSE \/ p.endBlock < now

\* Whatever is not over is the latest of its proposer (propose looks at no other).
LatestIsLive ==
    \A id \in ids : IsOver(proposals[id], timestamp) \/ latestProposalIds[proposals[id].proposer] = id

\* The transactions of a proposal once it is queued.
batch(p) == transactionsOf(p.actions, p.eta)

\* Queued, and not executed yet.
IsWaiting(p) == p.eta # 0 /\ p.executed = FALSE

\* The timelock holds what waits, except what a veto or the guardian took away.
WaitingIsHeld ==
    \A id \in ids :
        IsWaiting(proposals[id]) => batch(proposals[id]) \subseteq queuedTransactions \cup overruled

\* Two batches that wait share no transaction: queueing one twice reverts.
WaitingIsApart ==
    \A i, j \in ids :
        IsWaiting(proposals[i]) /\ IsWaiting(proposals[j]) /\ i # j
            => batch(proposals[i]) \cap batch(proposals[j]) \subseteq overruled

\* The calls that the guardian queues by itself.
IsNomination(tx) == "setPendingAdmin" \in DOMAIN tx.call

\* What the timelock holds comes from the guardian or from a queued proposal.
QueuedIsProposed ==
    \A tx \in queuedTransactions :
        /\ tx.eta # 0
        /\ IsNomination(tx) \/ \E id \in ids : proposals[id].eta # 0 /\ tx \in batch(proposals[id])

\* The inductive invariant.
AlphaInv ==
    /\ TimelockInv
    /\ AlphaTypeOK
    /\ AllSound
    /\ LatestIsLive
    /\ WaitingIsHeld
    /\ WaitingIsApart
    /\ QueuedIsProposed

-----------------------------------------------------------------------------
\* The fields of a proposal.
LEMMA ProposalFields ==
    ASSUME NEW p \in ProposalRecords
    PROVE  /\ p.proposer \in Actors /\ p.actions \in Seq(Calls) /\ p.eta \in Nat
           /\ p.startBlock \in Nat /\ p.endBlock \in Nat /\ p.forVotes \in Nat /\ p.againstVotes \in Nat
           /\ p.canceled \in BOOLEAN /\ p.executed \in BOOLEAN /\ p.receipts \in SUBSET Receipts
BY DEF ProposalRecords

\* What a proposal becomes when one of its fields changes.
LEMMA WithEta ==
    ASSUME NEW p \in ProposalRecords, NEW e \in Nat, NEW q, q = [p EXCEPT !.eta = e]
    PROVE  /\ q \in ProposalRecords /\ q.eta = e
           /\ q.proposer = p.proposer /\ q.actions = p.actions /\ q.startBlock = p.startBlock
           /\ q.endBlock = p.endBlock /\ q.forVotes = p.forVotes /\ q.againstVotes = p.againstVotes
           /\ q.canceled = p.canceled /\ q.executed = p.executed /\ q.receipts = p.receipts
BY DEF ProposalRecords

\* Executed.
LEMMA WithExecuted ==
    ASSUME NEW p \in ProposalRecords, NEW q, q = [p EXCEPT !.executed = TRUE]
    PROVE  /\ q \in ProposalRecords /\ q.executed = TRUE
           /\ q.proposer = p.proposer /\ q.actions = p.actions /\ q.startBlock = p.startBlock
           /\ q.endBlock = p.endBlock /\ q.forVotes = p.forVotes /\ q.againstVotes = p.againstVotes
           /\ q.canceled = p.canceled /\ q.eta = p.eta /\ q.receipts = p.receipts
BY DEF ProposalRecords

\* Cancelled.
LEMMA WithCanceled ==
    ASSUME NEW p \in ProposalRecords, NEW q, q = [p EXCEPT !.canceled = TRUE]
    PROVE  /\ q \in ProposalRecords /\ q.canceled = TRUE
           /\ q.proposer = p.proposer /\ q.actions = p.actions /\ q.startBlock = p.startBlock
           /\ q.endBlock = p.endBlock /\ q.forVotes = p.forVotes /\ q.againstVotes = p.againstVotes
           /\ q.executed = p.executed /\ q.eta = p.eta /\ q.receipts = p.receipts
BY DEF ProposalRecords

\* One more vote.
withBallot(p, f, a, r) == [p EXCEPT !.forVotes = f, !.againstVotes = a, !.receipts = r]

\* The proposal p with other votes, and nothing else changed.
IsBallotOf(q, p, f, a, r) ==
    /\ q \in ProposalRecords /\ q.forVotes = f /\ q.againstVotes = a /\ q.receipts = r
    /\ q.proposer = p.proposer /\ q.actions = p.actions /\ q.startBlock = p.startBlock
    /\ q.endBlock = p.endBlock /\ q.canceled = p.canceled
    /\ q.executed = p.executed /\ q.eta = p.eta

\* withBallot is such a proposal.
LEMMA WithBallot ==
    ASSUME NEW p \in ProposalRecords, NEW f \in Nat, NEW a \in Nat, NEW r \in SUBSET Receipts
    PROVE  IsBallotOf(withBallot(p, f, a, r), p, f, a, r)
BY DEF ProposalRecords, withBallot, IsBallotOf

\* A change to one proposal of the list.
LEMMA OneProposal ==
    ASSUME AlphaTypeOK, NEW id \in ids, NEW q \in ProposalRecords, proposals' = [proposals EXCEPT ![id] = q]
    PROVE  /\ proposals' \in Seq(ProposalRecords) /\ Len(proposals') = Len(proposals) /\ ids' = ids
           /\ proposals'[id] = q /\ \A i \in ids \ {id} : proposals'[i] = proposals[i]
<1>1. proposals \in Seq(ProposalRecords)
    BY DEF AlphaTypeOK
<1> QED BY <1>1 DEF ids, proposalCount

\* state(id) of the proposal with that id.
stateOf(p, now) ==
    CASE p.canceled -> "Canceled"
      [] ~p.canceled /\ now <= p.startBlock -> "Pending"
      [] ~p.canceled /\ p.startBlock < now /\ now <= p.endBlock -> "Active"
      [] ~p.canceled /\ p.endBlock < now /\ ~isPassed(p) -> "Defeated"
      [] ~p.canceled /\ p.endBlock < now /\ isPassed(p) /\ p.eta = 0 -> "Succeeded"
      [] p.eta # 0 /\ p.executed -> "Executed"
      [] p.eta # 0 /\ ~p.executed /\ now >= p.eta + GRACE_PERIOD -> "Expired"
      [] OTHER -> "Queued"

\* stateOf is the state function, of a proposal instead of its number.
LEMMA StateIs ==
    ASSUME NEW id
    PROVE  state(id) = stateOf(proposals[id], timestamp) /\ state(id)' = stateOf(proposals'[id], timestamp')
BY DEF state, stateOf

\* state(id) case by case: the conditions of the contract do not overlap.
LEMMA StateCases ==
    ASSUME NEW p \in ProposalRecords, NEW now \in Nat, NEW tables, IsSound(p, now, tables),
           votingPeriod \in Nat, GRACE_PERIOD \in Nat
    PROVE  /\ p.canceled # FALSE => stateOf(p, now) = "Canceled"
           /\ p.canceled = FALSE /\ now <= p.startBlock => stateOf(p, now) = "Pending"
           /\ p.canceled = FALSE /\ p.startBlock < now /\ now <= p.endBlock => stateOf(p, now) = "Active"
           /\ p.canceled = FALSE /\ p.endBlock < now /\ ~isPassed(p) => stateOf(p, now) = "Defeated"
           /\ p.canceled = FALSE /\ p.endBlock < now /\ isPassed(p) /\ p.eta = 0 => stateOf(p, now) = "Succeeded"
           /\ p.eta # 0 /\ p.executed # FALSE => stateOf(p, now) = "Executed"
           /\ p.eta # 0 /\ p.executed = FALSE /\ now >= p.eta + GRACE_PERIOD => stateOf(p, now) = "Expired"
           /\ p.eta # 0 /\ p.executed = FALSE /\ ~(now >= p.eta + GRACE_PERIOD) => stateOf(p, now) = "Queued"
<1>1. /\ p.startBlock \in Nat /\ p.endBlock \in Nat /\ p.canceled \in BOOLEAN /\ p.executed \in BOOLEAN
      /\ p.endBlock = p.startBlock + votingPeriod
      /\ p.eta # 0 => p.canceled = FALSE /\ p.endBlock < now /\ isPassed(p)
    BY ProposalFields DEF IsSound, QueuedHasPassed
<1> DEFINE C1 == p.canceled
           C2 == ~p.canceled /\ now <= p.startBlock
           C3 == ~p.canceled /\ p.startBlock < now /\ now <= p.endBlock
           C4 == ~p.canceled /\ p.endBlock < now /\ ~isPassed(p)
           C5 == ~p.canceled /\ p.endBlock < now /\ isPassed(p) /\ p.eta = 0
           C6 == p.eta # 0 /\ p.executed
           C7 == p.eta # 0 /\ ~p.executed /\ now >= p.eta + GRACE_PERIOD
<1>2. stateOf(p, now) =
        CASE C1 -> "Canceled" [] C2 -> "Pending" [] C3 -> "Active" [] C4 -> "Defeated"
          [] C5 -> "Succeeded" [] C6 -> "Executed" [] C7 -> "Expired" [] OTHER -> "Queued"
    BY Zenon DEF stateOf
<1> DEFINE st == stateOf(p, now)
<1>3. /\ C1 /\ ~C2 /\ ~C3 /\ ~C4 /\ ~C5 /\ ~C6 /\ ~C7 => st = "Canceled"
      /\ ~C1 /\ C2 /\ ~C3 /\ ~C4 /\ ~C5 /\ ~C6 /\ ~C7 => st = "Pending"
      /\ ~C1 /\ ~C2 /\ C3 /\ ~C4 /\ ~C5 /\ ~C6 /\ ~C7 => st = "Active"
      /\ ~C1 /\ ~C2 /\ ~C3 /\ C4 /\ ~C5 /\ ~C6 /\ ~C7 => st = "Defeated"
      /\ ~C1 /\ ~C2 /\ ~C3 /\ ~C4 /\ C5 /\ ~C6 /\ ~C7 => st = "Succeeded"
      /\ ~C1 /\ ~C2 /\ ~C3 /\ ~C4 /\ ~C5 /\ C6 /\ ~C7 => st = "Executed"
      /\ ~C1 /\ ~C2 /\ ~C3 /\ ~C4 /\ ~C5 /\ ~C6 /\ C7 => st = "Expired"
      /\ ~C1 /\ ~C2 /\ ~C3 /\ ~C4 /\ ~C5 /\ ~C6 /\ ~C7 => st = "Queued"
  <2> HIDE DEF C1, C2, C3, C4, C5, C6, C7, st
  <2>1. st = CASE C1 -> "Canceled" [] C2 -> "Pending" [] C3 -> "Active" [] C4 -> "Defeated"
          [] C5 -> "Succeeded" [] C6 -> "Executed" [] C7 -> "Expired" [] OTHER -> "Queued"
    BY <1>2, Zenon DEF st
  <2> QED BY <2>1
<1> HIDE DEF st
<1>4. p.canceled # FALSE => C1 /\ ~C2 /\ ~C3 /\ ~C4 /\ ~C5 /\ ~C6 /\ ~C7
    BY <1>1
<1>5. p.canceled = FALSE /\ now <= p.startBlock => ~C1 /\ C2 /\ ~C3 /\ ~C4 /\ ~C5 /\ ~C6 /\ ~C7
    BY <1>1
<1>6. p.canceled = FALSE /\ p.startBlock < now /\ now <= p.endBlock
        => ~C1 /\ ~C2 /\ C3 /\ ~C4 /\ ~C5 /\ ~C6 /\ ~C7
    BY <1>1
<1>7. p.canceled = FALSE /\ p.endBlock < now /\ ~isPassed(p)
        => ~C1 /\ ~C2 /\ ~C3 /\ C4 /\ ~C5 /\ ~C6 /\ ~C7
    BY <1>1
<1>8. p.canceled = FALSE /\ p.endBlock < now /\ isPassed(p) /\ p.eta = 0
        => ~C1 /\ ~C2 /\ ~C3 /\ ~C4 /\ C5 /\ ~C6 /\ ~C7
    BY <1>1
<1>9. p.eta # 0 /\ p.executed # FALSE => ~C1 /\ ~C2 /\ ~C3 /\ ~C4 /\ ~C5 /\ C6 /\ ~C7
  <2>1. p.executed # FALSE => p.executed = TRUE
    BY <1>1
  <2> QED BY <1>1, <2>1
<1>10. p.eta # 0 /\ p.executed = FALSE /\ now >= p.eta + GRACE_PERIOD
        => ~C1 /\ ~C2 /\ ~C3 /\ ~C4 /\ ~C5 /\ ~C6 /\ C7
    BY <1>1
<1>11. p.eta # 0 /\ p.executed = FALSE /\ ~(now >= p.eta + GRACE_PERIOD)
        => ~C1 /\ ~C2 /\ ~C3 /\ ~C4 /\ ~C5 /\ ~C6 /\ ~C7
    BY <1>1
<1> HIDE DEF C1, C2, C3, C4, C5, C6, C7
<1> QED BY <1>3, <1>4, <1>5, <1>6, <1>7, <1>8, <1>9, <1>10, <1>11 DEF st
-----------------------------------------------------------------------------
\* The list of calls of a proposal makes transactions.
LEMMA BatchIsTransactions ==
    ASSUME NEW actions \in Seq(Calls), NEW eta \in 0..MaxTimestamp
    PROVE  transactionsOf(actions, eta) \in SUBSET Transactions
<1>1. ToSet(actions) \subseteq Calls
    BY DEF ToSet
<1> QED BY <1>1 DEF transactionsOf, Transactions

\* What transactions of a batch have in common.
LEMMA BatchEta == ASSUME NEW actions, NEW eta, NEW tx \in transactionsOf(actions, eta) PROVE tx.eta = eta
BY DEF transactionsOf

\* The constants of the vote.
LEMMA CastNumbers ==
    ASSUME AlphaAssumption
    PROVE  /\ votingPeriod \in Nat \ {0} /\ votingDelay \in Nat /\ GRACE_PERIOD \in Nat \ {0}
           /\ MINIMUM_DELAY \in Nat /\ MaxTimestamp \in Nat /\ quorumVotes \in Nat
           /\ VoteTables \subseteq [Actors -> Nat] /\ IsFiniteSet(Actors)
           /\ alpha \in Admins /\ Bundles \subseteq Seq(Calls) /\ NoAdmin \notin Admins
           /\ Successors \subseteq Admins /\ GuardianEtas \subseteq 0..MaxTimestamp
BY DEF AlphaAssumption, TimelockAssumption, GovernorAssumption

\* What every proposal of the list is like.
LEMMA OfEach ==
    ASSUME AlphaInv, NEW id \in ids
    PROVE  proposals[id] \in ProposalRecords /\ IsSound(proposals[id], timestamp, votesAt)
BY DEF AlphaInv, AlphaTypeOK, AllSound, ids, proposalCount

\* Pending and active are the two states before the end.
LEMMA LiveCases ==
    ASSUME AlphaAssumption, NEW p \in ProposalRecords, NEW now \in Nat, NEW tables, IsSound(p, now, tables)
    PROVE  stateOf(p, now) \in {"Pending", "Active"} <=> ~IsOver(p, now)
<1>1. p.startBlock \in Nat /\ p.endBlock \in Nat /\ p.canceled \in BOOLEAN /\ p.executed \in BOOLEAN
    BY ProposalFields
<1>2. /\ p.canceled # FALSE => stateOf(p, now) = "Canceled"
      /\ p.canceled = FALSE /\ now <= p.startBlock => stateOf(p, now) = "Pending"
      /\ p.canceled = FALSE /\ p.startBlock < now /\ now <= p.endBlock => stateOf(p, now) = "Active"
      /\ p.canceled = FALSE /\ p.endBlock < now =>
            stateOf(p, now) \in {"Defeated", "Succeeded", "Executed", "Expired", "Queued"}
  <2>1. votingPeriod \in Nat /\ GRACE_PERIOD \in Nat
    BY CastNumbers
  <2> QED BY <2>1, StateCases, Zenon
<1>3. CASE p.canceled # FALSE
    BY <1>2, <1>3 DEF IsOver
<1>4. CASE p.canceled = FALSE /\ p.endBlock < now
    BY <1>2, <1>4 DEF IsOver
<1>5. CASE p.canceled = FALSE /\ ~(p.endBlock < now)
  <2>1. stateOf(p, now) \in {"Pending", "Active"}
    BY <1>1, <1>2, <1>5
  <2> QED BY <1>5, <2>1, Zenon DEF IsOver
<1> QED BY <1>3, <1>4, <1>5

\* The states from which a proposal can be queued and executed.
LEMMA WaitingCases ==
    ASSUME AlphaAssumption, NEW p \in ProposalRecords, NEW now \in Nat, NEW tables, IsSound(p, now, tables)
    PROVE  /\ stateOf(p, now) = "Queued" => IsWaiting(p)
           /\ stateOf(p, now) = "Succeeded" =>
                p.canceled = FALSE /\ p.endBlock < now /\ isPassed(p) /\ p.eta = 0
<1>1. votingPeriod \in Nat /\ GRACE_PERIOD \in Nat
    BY CastNumbers
<1>2. /\ p.canceled # FALSE => stateOf(p, now) = "Canceled"
      /\ p.canceled = FALSE /\ p.endBlock < now /\ ~isPassed(p) => stateOf(p, now) = "Defeated"
      /\ p.canceled = FALSE /\ p.endBlock < now /\ isPassed(p) /\ p.eta = 0 => stateOf(p, now) = "Succeeded"
      /\ p.eta # 0 /\ p.executed # FALSE => stateOf(p, now) = "Executed"
      /\ p.eta # 0 /\ p.executed = FALSE /\ now >= p.eta + GRACE_PERIOD => stateOf(p, now) = "Expired"
      /\ p.eta # 0 /\ p.executed = FALSE /\ ~(now >= p.eta + GRACE_PERIOD) => stateOf(p, now) = "Queued"
    BY <1>1, StateCases, Zenon
<1>3. stateOf(p, now) \in {"Queued", "Succeeded"} => IsOver(p, now)
    BY LiveCases
<1>4. ASSUME stateOf(p, now) = "Queued" PROVE IsWaiting(p)
    BY <1>2, <1>3, <1>4 DEF IsOver, IsWaiting
<1>5. ASSUME stateOf(p, now) = "Succeeded"
      PROVE  p.canceled = FALSE /\ p.endBlock < now /\ isPassed(p) /\ p.eta = 0
  <2>1. p.canceled = FALSE /\ p.eta = 0
    BY <1>2, <1>5
  <2>2. p.endBlock < now
    BY <1>3, <1>5, <2>1, Zenon DEF IsOver
  <2> QED BY <1>2, <1>5, <2>1, <2>2
<1> QED BY <1>4, <1>5

\* A sound proposal stays sound while nothing happens to it.
LEMMA SoundLater ==
    ASSUME NEW p \in ProposalRecords, NEW now \in Nat, NEW later \in Nat, now <= later,
           NEW tables, NEW more, p.startBlock < now => more[p.startBlock] = tables[p.startBlock],
           IsSound(p, now, tables)
    PROVE  IsSound(p, later, more)
<1>1. p.endBlock \in Nat /\ p.startBlock \in Nat
    BY ProposalFields
<1>2. QueuedHasPassed(p, later)
  <2>1. p.eta # 0 => p.endBlock < later
    BY <1>1 DEF IsSound, QueuedHasPassed
  <2> QED BY <2>1, Zenon DEF IsSound, QueuedHasPassed
<1>3. BallotsCounted(p, later, more)
  <2>1. CASE p.receipts = {}
    <3>1. voters(p) = {}
        BY <2>1 DEF voters, hasVoted
    <3>2. SumFunctionOnSet(tables[p.startBlock], {}) = 0 /\ SumFunctionOnSet(more[p.startBlock], {}) = 0
        BY SumOfNothing
    <3> QED BY <2>1, <3>1, <3>2 DEF IsSound, BallotsCounted
  <2>2. CASE p.receipts # {}
    BY <1>1, <2>2 DEF IsSound, BallotsCounted
  <2> QED BY <2>1, <2>2
<1> QED BY <1>2, <1>3 DEF IsSound

\* A step that leaves the proposals alone, and takes from the queue only what it overrules
\* and adds to it only nominations, keeps the invariant.
LEMMA QuietKeeps ==
    ASSUME AlphaAssumption, AlphaInv, TimelockInv',
           UNCHANGED <<timestamp, proposals, latestProposalIds, votesAt>>,
           overruled \subseteq overruled',
           queuedTransactions \ queuedTransactions' \subseteq overruled',
           \A tx \in queuedTransactions' \ queuedTransactions : tx.eta # 0 /\ IsNomination(tx)
    PROVE  AlphaInv'
<1>1. ids' = ids /\ proposals' = proposals /\ timestamp' = timestamp /\ votesAt' = votesAt
    BY DEF ids, proposalCount
<1>2. AlphaTypeOK' /\ AllSound' /\ LatestIsLive'
    BY <1>1 DEF AlphaInv, AlphaTypeOK, AllSound, LatestIsLive, proposalCount
<1>3. WaitingIsHeld'
    BY <1>1 DEF AlphaInv, WaitingIsHeld
<1>4. WaitingIsApart'
    BY <1>1 DEF AlphaInv, WaitingIsApart
<1>5. QueuedIsProposed'
  <2> SUFFICES ASSUME NEW tx \in queuedTransactions'
               PROVE  /\ tx.eta # 0
                      /\ IsNomination(tx) \/ \E id \in ids : proposals[id].eta # 0 /\ tx \in batch(proposals[id])
    BY <1>1 DEF QueuedIsProposed
  <2>1. CASE tx \in queuedTransactions
    BY <2>1 DEF AlphaInv, QueuedIsProposed
  <2>2. CASE tx \notin queuedTransactions
    BY <2>2
  <2> QED BY <2>1, <2>2
<1> QED BY <1>2, <1>3, <1>4, <1>5 DEF AlphaInv

-----------------------------------------------------------------------------
\* A new proposal.
LEMMA ProposeStep ==
    ASSUME AlphaAssumption, AlphaInv, NEW caller \in Actors, NEW actions \in Bundles,
           propose(caller, actions)
    PROVE  AlphaInv'
<1> DEFINE n == proposalCount + 1
           p == [proposer |-> caller, actions |-> actions, eta |-> 0,
                 startBlock |-> timestamp + votingDelay,
                 endBlock |-> timestamp + votingDelay + votingPeriod,
                 forVotes |-> 0, againstVotes |-> 0, canceled |-> FALSE, executed |-> FALSE,
                 receipts |-> {}]
<1>1. /\ proposals \in Seq(ProposalRecords) /\ latestProposalIds \in [Actors -> 0..proposalCount]
      /\ timestamp \in Nat \ {0} /\ proposalCount \in Nat
    BY DEF AlphaInv, AlphaTypeOK, proposalCount
<1>2. p \in ProposalRecords
    BY <1>1, CastNumbers, SMTT(60) DEF ProposalRecords
<1>3. proposals' = Append(proposals, p)
    BY DEF propose
<1>4. /\ UNCHANGED <<timestamp, votesAt, overruled, queuedTransactions>>
      /\ latestProposalIds' = [latestProposalIds EXCEPT ![caller] = n]
    BY DEF propose, queueVars
<1>5. p.eta = 0 /\ p.proposer = caller /\ p.canceled = FALSE /\ p.executed = FALSE
    OBVIOUS
<1>6. IsSound(p, timestamp, votesAt)
  <2>1. voters(p) = {}
    BY DEF voters, hasVoted
  <2>2. p.forVotes + p.againstVotes = SumFunctionOnSet(votesAt[p.startBlock], voters(p))
    <3>1. SumFunctionOnSet(votesAt[p.startBlock], {}) = 0
        BY SumOfNothing
    <3>2. p.forVotes = 0 /\ p.againstVotes = 0
        OBVIOUS
    <3> HIDE DEF p
    <3> QED BY <2>1, <3>1, <3>2
  <2>3. p.endBlock = p.startBlock + votingPeriod
    OBVIOUS
  <2>4. QueuedHasPassed(p, timestamp) /\ BallotsCounted(p, timestamp, votesAt)
    BY <2>2, Zenon DEF QueuedHasPassed, BallotsCounted
  <2> QED BY <2>3, <2>4, Zenon DEF IsSound
<1> HIDE DEF p
<1>7. /\ proposals' \in Seq(ProposalRecords) /\ proposalCount' = n
      /\ proposals'[n] = p /\ \A i \in ids : proposals'[i] = proposals[i]
    BY <1>1, <1>2, <1>3 DEF proposalCount, ids
<1>8. ids' = ids \cup {n} /\ n \notin ids
    BY <1>1, <1>7 DEF ids
<1> HIDE DEF n
<1>9. TimelockInv'
  <2>1. UNCHANGED timelockVars \/ (lastRun' = {} /\ UNCHANGED <<timestamp, adminVars, queueVars>>)
    BY DEF propose
  <2> QED BY <2>1 DEF AlphaInv, TimelockInv, TimelockTypeOK, QueuedWaits, WaitedItsDelay,
                  timelockVars, adminVars, queueVars, Runs
<1>10. AlphaTypeOK'
  <2>1. latestProposalIds' \in [Actors -> 0..proposalCount']
    BY <1>1, <1>4, <1>7 DEF n
  <2> QED BY <1>1, <1>4, <1>7, <2>1 DEF AlphaInv, AlphaTypeOK
<1>11. AllSound'
    BY <1>4, <1>6, <1>7, <1>8 DEF AlphaInv, AllSound
<1>12. LatestIsLive'
  <2> SUFFICES ASSUME NEW i \in ids'
               PROVE  \/ IsOver(proposals'[i], timestamp)
                      \/ latestProposalIds'[proposals'[i].proposer] = i
    BY <1>4 DEF LatestIsLive
  <2>1. CASE i = n
    BY <1>1, <1>4, <1>5, <1>7, <2>1
  <2>2. CASE i \in ids
    <3>1. proposals[i] \in ProposalRecords /\ IsSound(proposals[i], timestamp, votesAt) /\ proposals'[i] = proposals[i]
        BY <1>7, <2>2, OfEach
    <3>2. \/ IsOver(proposals[i], timestamp)
          \/ latestProposalIds[proposals[i].proposer] = i
        BY <2>2 DEF AlphaInv, LatestIsLive
    <3>3. CASE proposals[i].proposer = caller
      <4>1. i # 0
        BY <2>2 DEF ids
      <4>2. ASSUME latestProposalIds[caller] = i, ~IsOver(proposals[i], timestamp) PROVE FALSE
        <5>1. stateOf(proposals[i], timestamp) \in {"Pending", "Active"}
            BY <1>1, <3>1, <4>2, LiveCases
        <5>2. state(i) \in {"Active", "Pending"}
            BY <5>1, StateIs
        <5> QED BY <4>1, <4>2, <5>2 DEF propose, hasLiveProposal
      <4> QED BY <3>1, <3>2, <3>3, <4>2
    <3>4. CASE proposals[i].proposer # caller
      <4>1. proposals[i].proposer \in Actors
        BY <3>1, ProposalFields
      <4> QED BY <1>1, <1>4, <3>1, <3>2, <3>4, <4>1
    <3> QED BY <3>3, <3>4
  <2> QED BY <1>8, <2>1, <2>2
<1>13. ~IsWaiting(proposals'[n])
    BY <1>5, <1>7 DEF IsWaiting
<1>14. WaitingIsHeld'
    BY <1>4, <1>7, <1>8, <1>13 DEF AlphaInv, WaitingIsHeld
<1>15. WaitingIsApart'
    BY <1>4, <1>7, <1>8, <1>13 DEF AlphaInv, WaitingIsApart
<1>16. QueuedIsProposed'
    BY <1>4, <1>7, <1>8 DEF AlphaInv, QueuedIsProposed
<1> QED BY <1>9, <1>10, <1>11, <1>12, <1>14, <1>15, <1>16 DEF AlphaInv

\* A change to one proposal that leaves it sound.
LEMMA ReviseKeeps ==
    ASSUME AlphaInv, NEW id \in ids, NEW q \in ProposalRecords,
           proposals' = [proposals EXCEPT ![id] = q],
           UNCHANGED <<timestamp, latestProposalIds, votesAt>>,
           IsSound(q, timestamp, votesAt), q.proposer = proposals[id].proposer,
           IsOver(proposals[id], timestamp) => IsOver(q, timestamp)
    PROVE  AlphaTypeOK' /\ AllSound' /\ LatestIsLive'
<1>1. /\ proposals' \in Seq(ProposalRecords) /\ Len(proposals') = Len(proposals) /\ ids' = ids
      /\ proposals'[id] = q /\ \A i \in ids \ {id} : proposals'[i] = proposals[i]
    BY OneProposal DEF AlphaInv
<1>2. AlphaTypeOK'
    BY <1>1 DEF AlphaInv, AlphaTypeOK, proposalCount
<1>3. AllSound'
    BY <1>1 DEF AlphaInv, AllSound
<1>4. LatestIsLive'
    BY <1>1 DEF AlphaInv, LatestIsLive
<1> QED BY <1>2, <1>3, <1>4

\* The same while the queue is what it was, and what the proposal has in it too.
LEMMA ReviseAside ==
    ASSUME AlphaInv, TimelockInv', NEW id \in ids, NEW q \in ProposalRecords,
           proposals' = [proposals EXCEPT ![id] = q],
           UNCHANGED <<timestamp, latestProposalIds, votesAt, queuedTransactions, overruled>>,
           IsSound(q, timestamp, votesAt), q.proposer = proposals[id].proposer,
           IsOver(proposals[id], timestamp) => IsOver(q, timestamp),
           q.eta = proposals[id].eta, q.actions = proposals[id].actions, q.executed = proposals[id].executed
    PROVE  AlphaInv'
<1>1. /\ ids' = ids /\ proposals'[id] = q /\ \A i \in ids \ {id} : proposals'[i] = proposals[i]
    BY OneProposal DEF AlphaInv
<1>2. AlphaTypeOK' /\ AllSound' /\ LatestIsLive'
    BY ReviseKeeps
<1>3. \A i \in ids : /\ IsWaiting(proposals'[i]) <=> IsWaiting(proposals[i])
                     /\ batch(proposals'[i]) = batch(proposals[i])
                     /\ proposals'[i].eta = proposals[i].eta
    BY <1>1 DEF IsWaiting, batch
<1>4. WaitingIsHeld'
    BY <1>1, <1>3 DEF AlphaInv, WaitingIsHeld
<1>5. WaitingIsApart'
    BY <1>1, <1>3 DEF AlphaInv, WaitingIsApart
<1>6. QueuedIsProposed'
    BY <1>1, <1>3 DEF AlphaInv, QueuedIsProposed
<1> QED BY <1>2, <1>4, <1>5, <1>6 DEF AlphaInv

\* The timelock does not notice a vote.
LEMMA TimelockAside ==
    ASSUME AlphaInv, lastRun' = {} \/ lastRun' = lastRun, UNCHANGED <<timestamp, adminVars, queueVars>>
    PROVE  TimelockInv'
BY DEF AlphaInv, TimelockInv, TimelockTypeOK, QueuedWaits, WaitedItsDelay, adminVars, queueVars

\* A ballot: what it adds is what its voter had at the end of the block in which voting opened.
LEMMA CastVoteStep ==
    ASSUME AlphaAssumption, AlphaInv, NEW voter \in Actors, NEW id \in ids, NEW support \in BOOLEAN,
           castVote(voter, id, support)
    PROVE  AlphaInv'
<1> DEFINE p == proposals[id]
           votes == ballot(p, voter)
           f == IF support THEN p.forVotes + votes ELSE p.forVotes
           a == IF support THEN p.againstVotes ELSE p.againstVotes + votes
           receipt == [voter |-> voter, support |-> support, votes |-> votes]
           r == p.receipts \cup {receipt}
           q == withBallot(p, f, a, r)
           table == votesAt[p.startBlock]
<1>1. p \in ProposalRecords /\ IsSound(p, timestamp, votesAt) /\ timestamp \in Nat
    BY OfEach DEF AlphaInv, AlphaTypeOK
<1>2. /\ p.startBlock \in Nat /\ p.endBlock \in Nat /\ p.forVotes \in Nat /\ p.againstVotes \in Nat
      /\ p.receipts \in SUBSET Receipts /\ p.canceled \in BOOLEAN
    BY <1>1, ProposalFields
<1>3. ~IsOver(p, timestamp) /\ p.startBlock < timestamp
  <2>1. stateOf(p, timestamp) = "Active"
    BY StateIs DEF castVote
  <2>2. ~IsOver(p, timestamp)
    BY <1>1, <2>1, LiveCases
  <2>3. timestamp <= p.startBlock => stateOf(p, timestamp) = "Pending"
    <3>1. votingPeriod \in Nat /\ GRACE_PERIOD \in Nat
        BY CastNumbers
    <3>2. p.canceled = FALSE
        BY <2>2, Zenon DEF IsOver
    <3> QED BY <1>1, <3>1, <3>2, StateCases, Zenon
  <2> QED BY <1>1, <1>2, <2>1, <2>2, <2>3
<1>4. table \in [Actors -> Nat] /\ votes = table[voter] /\ votes \in Nat
  <2>1. table \in VoteTables
    BY <1>1, <1>2, <1>3 DEF AlphaInv, AlphaTypeOK
  <2> QED BY <2>1, CastNumbers DEF ballot, tribeVotes
<1>5. ~hasVoted(p, voter)
    BY DEF castVote
<1>6. proposals' = [proposals EXCEPT ![id] = q]
  <2>1. id \in DOMAIN proposals
    BY DEF AlphaInv, AlphaTypeOK, ids, proposalCount
  <2> QED BY <1>1, <2>1 DEF castVote, withBallot
<1>7. /\ UNCHANGED <<timestamp, latestProposalIds, votesAt, queuedTransactions, overruled, adminVars, queueVars>>
      /\ lastRun' = {}
    BY DEF castVote, queueVars
<1>8. receipt \in Receipts
    BY <1>4 DEF Receipts
<1>9. f \in Nat /\ a \in Nat /\ r \in SUBSET Receipts /\ f + a = p.forVotes + p.againstVotes + votes
    BY <1>2, <1>4, <1>8
<1>10. q = withBallot(p, f, a, r) /\ receipt.voter = voter
    OBVIOUS
<1> HIDE DEF p, f, a, r, q, receipt
<1>11. /\ q \in ProposalRecords /\ q.forVotes = f /\ q.againstVotes = a /\ q.receipts = r
       /\ q.proposer = p.proposer /\ q.actions = p.actions /\ q.startBlock = p.startBlock
       /\ q.endBlock = p.endBlock /\ q.canceled = p.canceled
       /\ q.executed = p.executed /\ q.eta = p.eta
  <2>1. IsBallotOf(q, p, f, a, r)
    BY <1>1, <1>9, <1>10, WithBallot, Zenon
  <2> QED BY <2>1 DEF IsBallotOf
<1>20. voters(q) = voters(p) \cup {voter} /\ voter \notin voters(p)
    BY <1>5, <1>10, <1>11 DEF voters, hasVoted, r
<1> HIDE DEF votes, table
<1>12. p.eta = 0
    BY <1>1, <1>3, Zenon DEF IsSound, QueuedHasPassed, IsOver
<1>13. SumFunctionOnSet(table, voters(q)) = votes + SumFunctionOnSet(table, voters(p))
  <2>1. IsFiniteSet(Actors) /\ voters(p) \subseteq Actors
    BY CastNumbers DEF voters
  <2>2. IsFiniteSet(voters(p))
    BY <2>1, FS_Subset
  <2>3. \A x \in voters(p) \cup {voter} : table[x] \in Int
    BY <1>4, <2>1
  <2> QED BY <1>4, <1>20, <2>2, <2>3, SumAdd
<1>14. SumFunctionOnSet(table, voters(p)) = p.forVotes + p.againstVotes
    BY <1>1 DEF IsSound, BallotsCounted, table
<1>15. q.forVotes + q.againstVotes = SumFunctionOnSet(table, voters(q))
    BY <1>2, <1>4, <1>9, <1>11, <1>13, <1>14
<1>16. IsSound(q, timestamp, votesAt)
  <2>1. q.endBlock = q.startBlock + votingPeriod
    BY <1>1, <1>11 DEF IsSound
  <2>2. QueuedHasPassed(q, timestamp)
    BY <1>1, <1>11, <1>12, Zenon DEF IsSound, QueuedHasPassed
  <2>3. BallotsCounted(q, timestamp, votesAt)
    BY <1>3, <1>11, <1>15 DEF BallotsCounted, table
  <2> QED BY <2>1, <2>2, <2>3 DEF IsSound
<1>17. TimelockInv'
    BY <1>7, TimelockAside
<1> QED BY <1>3, <1>6, <1>7, <1>11, <1>16, <1>17, ReviseAside DEF p

\* Cancelling: what can be cancelled is not queued, and stays out of the queue.
LEMMA CancelStep ==
    ASSUME AlphaAssumption, AlphaInv, NEW caller, NEW id \in ids, cancel(caller, id)
    PROVE  AlphaInv'
<1> DEFINE p == proposals[id]
           q == [p EXCEPT !.canceled = TRUE]
           txs == transactionsOf(p.actions, p.eta)
<1>1. p \in ProposalRecords /\ IsSound(p, timestamp, votesAt) /\ timestamp \in Nat
    BY OfEach DEF AlphaInv, AlphaTypeOK
<1>2. ~IsOver(p, timestamp)
  <2>1. stateOf(p, timestamp) \in {"Pending", "Active"}
    BY StateIs DEF cancel, isCancelable
  <2> QED BY <1>1, <2>1, LiveCases
<1>3. p.eta = 0 /\ p.executed = FALSE
    BY <1>1, <1>2, Zenon DEF IsSound, QueuedHasPassed, IsOver
<1>4. txs \in SUBSET Transactions
  <2>1. p.actions \in Seq(Calls) /\ 0 \in 0..MaxTimestamp
    BY <1>1, CastNumbers, ProposalFields
  <2> QED BY <1>3, <2>1, BatchIsTransactions
<1>5. /\ proposals' = [proposals EXCEPT ![id] = q] /\ cancelTransactions(alpha, txs)
      /\ UNCHANGED <<latestProposalIds, votesAt, overruled>>
    BY DEF cancel
<1>6. TimelockInv'
    BY <1>4, <1>5, CancelKeeps DEF AlphaInv
<1>7. queuedTransactions' = queuedTransactions /\ timestamp' = timestamp
  <2>1. \A tx \in queuedTransactions : tx \notin txs
    BY <1>3, BatchEta DEF AlphaInv, QueuedIsProposed
  <2> QED BY <1>5, <2>1 DEF cancelTransactions, dequeue
<1>8. /\ q \in ProposalRecords /\ q.canceled = TRUE
      /\ q.proposer = p.proposer /\ q.actions = p.actions /\ q.startBlock = p.startBlock
      /\ q.endBlock = p.endBlock /\ q.forVotes = p.forVotes /\ q.againstVotes = p.againstVotes
      /\ q.executed = p.executed /\ q.eta = p.eta /\ q.receipts = p.receipts
    BY <1>1, WithCanceled
<1> HIDE DEF p, q, txs
<1>9. IsSound(q, timestamp, votesAt)
  <2>1. voters(q) = voters(p)
    BY <1>8 DEF voters, hasVoted
  <2>2. BallotsCounted(q, timestamp, votesAt)
    BY <1>1, <1>8, <2>1 DEF IsSound, BallotsCounted
  <2>3. QueuedHasPassed(q, timestamp)
    BY <1>3, <1>8, Zenon DEF QueuedHasPassed
  <2> QED BY <1>1, <1>8, <2>2, <2>3 DEF IsSound
<1>10. IsOver(q, timestamp)
    BY <1>8, Zenon DEF IsOver
<1> QED BY <1>5, <1>6, <1>7, <1>8, <1>9, <1>10, ReviseAside DEF p

-----------------------------------------------------------------------------
\* Queueing: the vote is over and was won, and nothing of the proposal was queued before.
LEMMA QueueStep ==
    ASSUME AlphaAssumption, AlphaInv, NEW id \in ids, queue(id)
    PROVE  AlphaInv'
<1> DEFINE p == proposals[id]
           e == timestamp + delay
           q == [p EXCEPT !.eta = e]
           txs == transactionsOf(p.actions, e)
<1>1. p \in ProposalRecords /\ IsSound(p, timestamp, votesAt) /\ timestamp \in Nat \ {0} /\ delay \in Nat
      /\ delay >= MINIMUM_DELAY
    BY OfEach, CastNumbers DEF AlphaInv, AlphaTypeOK, TimelockInv, TimelockTypeOK,
                               AlphaAssumption, TimelockAssumption
<1>2. e \in Nat /\ e # 0 /\ e \in 0..MaxTimestamp
    BY <1>1, CastNumbers DEF queue
<1>3. /\ proposals' = [proposals EXCEPT ![id] = q]
      /\ queueTransactions(alpha, txs)
      /\ txs \cap queuedTransactions = {}
      /\ UNCHANGED <<latestProposalIds, votesAt, overruled>>
    BY DEF queue, queueOrRevert, pausableQueueTransactions
<1>4. txs \in SUBSET Transactions
    BY <1>1, <1>2, ProposalFields, BatchIsTransactions
<1>5. TimelockInv'
    BY <1>3, <1>4, QueueKeeps DEF AlphaInv, AlphaAssumption
<1>6. timestamp' = timestamp /\ queuedTransactions' = queuedTransactions \cup txs
    BY <1>3 DEF queueTransactions, enqueue
<1>7. /\ q \in ProposalRecords /\ q.eta = e
      /\ q.proposer = p.proposer /\ q.actions = p.actions /\ q.startBlock = p.startBlock
      /\ q.endBlock = p.endBlock /\ q.forVotes = p.forVotes /\ q.againstVotes = p.againstVotes
      /\ q.canceled = p.canceled /\ q.executed = p.executed /\ q.receipts = p.receipts
    BY <1>1, <1>2, WithEta
<1>8. stateOf(p, timestamp) = "Succeeded"
    BY StateIs DEF queue
<1> HIDE DEF p, q, e, txs
<1>9. p.canceled = FALSE /\ p.endBlock < timestamp /\ isPassed(p) /\ p.eta = 0
    BY <1>1, <1>8, WaitingCases
<1>10. IsSound(q, timestamp, votesAt)
  <2>1. voters(q) = voters(p)
    BY <1>7 DEF voters, hasVoted
  <2>2. BallotsCounted(q, timestamp, votesAt)
    BY <1>1, <1>7, <2>1 DEF IsSound, BallotsCounted
  <2>3. q.endBlock + MINIMUM_DELAY < q.eta
    BY <1>1, <1>7, <1>9, CastNumbers, ProposalFields DEF e
  <2>4. isPassed(q)
    BY <1>7, <1>9 DEF isPassed
  <2>5. QueuedHasPassed(q, timestamp)
    BY <1>2, <1>7, <1>9, <2>3, <2>4, Zenon DEF QueuedHasPassed
  <2> QED BY <1>1, <1>7, <2>2, <2>5 DEF IsSound
<1>11. IsOver(q, timestamp)
    BY <1>7, <1>9, Zenon DEF IsOver
<1>12. AlphaTypeOK' /\ AllSound' /\ LatestIsLive'
    BY <1>3, <1>6, <1>7, <1>10, <1>11, ReviseKeeps DEF p
<1>13. /\ ids' = ids /\ proposals'[id] = q /\ \A i \in ids \ {id} : proposals'[i] = proposals[i]
    BY <1>3, <1>7, OneProposal DEF AlphaInv
<1>14. batch(q) = txs
    BY <1>7 DEF batch, txs
<1>15. WaitingIsHeld'
    BY <1>3, <1>6, <1>13, <1>14 DEF AlphaInv, WaitingIsHeld
<1>16. WaitingIsApart'
  <2>1. \A i \in ids \ {id} : IsWaiting(proposals[i]) => batch(proposals[i]) \cap txs \subseteq overruled
    BY <1>3 DEF AlphaInv, WaitingIsHeld
  <2> QED BY <1>3, <1>13, <1>14, <2>1 DEF AlphaInv, WaitingIsApart
<1>17. QueuedIsProposed'
  <2> SUFFICES ASSUME NEW tx \in queuedTransactions'
               PROVE  /\ tx.eta # 0
                      /\ IsNomination(tx) \/ \E i \in ids : proposals'[i].eta # 0 /\ tx \in batch(proposals'[i])
    BY <1>13 DEF QueuedIsProposed
  <2>1. CASE tx \in txs
    BY <1>2, <1>7, <1>13, <1>14, <2>1, BatchEta DEF txs
  <2>2. CASE tx \notin txs
    <3>1. tx \in queuedTransactions
        BY <1>6, <2>2
    <3>2. \A i \in ids : proposals[i].eta # 0 => proposals'[i] = proposals[i]
        BY <1>9, <1>13 DEF p
    <3> QED BY <3>1, <3>2 DEF AlphaInv, QueuedIsProposed
  <2> QED BY <2>1, <2>2
<1> QED BY <1>5, <1>12, <1>15, <1>16, <1>17 DEF AlphaInv

\* Execution: what leaves the queue belongs to no other proposal that waits.
LEMMA ExecuteStep ==
    ASSUME AlphaAssumption, AlphaInv, NEW id \in ids, execute(id)
    PROVE  AlphaInv'
<1> DEFINE p == proposals[id]
           q == [p EXCEPT !.executed = TRUE]
           txs == transactionsOf(p.actions, p.eta)
<1>1. p \in ProposalRecords /\ IsSound(p, timestamp, votesAt) /\ timestamp \in Nat
    BY OfEach DEF AlphaInv, AlphaTypeOK
<1>2. /\ proposals' = [proposals EXCEPT ![id] = q]
      /\ executeTransactions(alpha, txs)
      /\ UNCHANGED <<latestProposalIds, votesAt, overruled>>
    BY DEF execute, pausableExecuteTransactions
<1>3. stateOf(p, timestamp) = "Queued"
    BY StateIs DEF execute
<1>4. /\ q \in ProposalRecords /\ q.executed = TRUE
      /\ q.proposer = p.proposer /\ q.actions = p.actions /\ q.startBlock = p.startBlock
      /\ q.endBlock = p.endBlock /\ q.forVotes = p.forVotes /\ q.againstVotes = p.againstVotes
      /\ q.canceled = p.canceled /\ q.eta = p.eta /\ q.receipts = p.receipts
    BY <1>1, WithExecuted
<1> HIDE DEF p, q, txs
<1>5. p.eta # 0 /\ p.executed = FALSE
    BY <1>1, <1>3, WaitingCases DEF IsWaiting
<1>6. p.eta \in 0..MaxTimestamp
    BY <1>1, <1>5 DEF IsSound, QueuedHasPassed
<1>7. txs \in SUBSET Transactions
    BY <1>1, <1>6, ProposalFields, BatchIsTransactions DEF txs
<1>8. TimelockInv'
    BY <1>2, <1>7, ExecuteKeeps DEF AlphaInv, AlphaAssumption
<1>9. timestamp' = timestamp /\ queuedTransactions' = queuedTransactions \ txs
    BY <1>2 DEF executeTransactions, dequeue
<1>10. IsSound(q, timestamp, votesAt)
  <2>1. voters(q) = voters(p)
    BY <1>4 DEF voters, hasVoted
  <2>2. BallotsCounted(q, timestamp, votesAt)
    BY <1>1, <1>4, <2>1 DEF IsSound, BallotsCounted
  <2>3. isPassed(q) <=> isPassed(p)
    BY <1>4 DEF isPassed
  <2>4. QueuedHasPassed(q, timestamp)
    BY <1>1, <1>4, <1>5, <2>3, Zenon DEF IsSound, QueuedHasPassed
  <2> QED BY <1>1, <1>4, <2>2, <2>4 DEF IsSound
<1>11. IsOver(p, timestamp) => IsOver(q, timestamp)
    BY <1>4, Zenon DEF IsOver
<1>12. AlphaTypeOK' /\ AllSound' /\ LatestIsLive'
    BY <1>2, <1>4, <1>9, <1>10, <1>11, ReviseKeeps DEF p
<1>13. /\ ids' = ids /\ proposals'[id] = q /\ \A i \in ids \ {id} : proposals'[i] = proposals[i]
    BY <1>2, <1>4, OneProposal DEF AlphaInv
<1>14. ~IsWaiting(q) /\ IsWaiting(p) /\ batch(q) = txs /\ batch(p) = txs
    BY <1>4, <1>5 DEF IsWaiting, batch, txs
<1>15. WaitingIsHeld'
  <2>1. \A i \in ids \ {id} : IsWaiting(proposals[i]) => batch(proposals[i]) \cap txs \subseteq overruled
    BY <1>14 DEF AlphaInv, WaitingIsApart, p
  <2>2. \A i \in ids \ {id} : IsWaiting(proposals[i]) => batch(proposals[i]) \subseteq queuedTransactions \cup overruled
    BY DEF AlphaInv, WaitingIsHeld
  <2>3. \A i \in ids : IsWaiting(proposals'[i]) => i # id /\ IsWaiting(proposals[i]) /\ proposals'[i] = proposals[i]
    BY <1>13, <1>14
  <2>4. \A i \in ids : IsWaiting(proposals'[i]) => batch(proposals'[i]) \subseteq queuedTransactions' \cup overruled'
    BY <1>2, <1>9, <2>1, <2>2, <2>3
  <2> QED BY <1>13, <2>4 DEF WaitingIsHeld
<1>16. WaitingIsApart'
    BY <1>2, <1>13, <1>14 DEF AlphaInv, WaitingIsApart
<1>17. QueuedIsProposed'
  <2>1. \A i \in ids : proposals'[i].eta = proposals[i].eta /\ batch(proposals'[i]) = batch(proposals[i])
    BY <1>4, <1>13, <1>14 DEF p
  <2> QED BY <1>9, <1>13, <2>1 DEF AlphaInv, QueuedIsProposed
<1> QED BY <1>8, <1>12, <1>15, <1>16, <1>17 DEF AlphaInv

\* A new block: the votes of the blocks before stay what they were.
LEMMA AdvanceBlockStep ==
    ASSUME AlphaAssumption, AlphaInv, AdvanceBlock
    PROVE  AlphaInv'
<1>1. /\ timestamp \in Nat \ {0} /\ votesAt \in [0..timestamp - 1 -> VoteTables]
      /\ proposals \in Seq(ProposalRecords)
    BY DEF AlphaInv, AlphaTypeOK
<1>2. /\ timestamp' = timestamp + 1 /\ AdvanceTimestamp(timestamp + 1)
      /\ UNCHANGED <<proposals, latestProposalIds, overruled, queuedTransactions>>
    BY DEF AdvanceBlock, AdvanceTimestamp, governorVars, queueVars
<1>3. TimelockInv'
    BY <1>1, <1>2, AdvanceTimestampKeeps DEF AlphaInv
<1>4. PICK table \in VoteTables :
        votesAt' = [b \in 0..timestamp |-> IF b = timestamp THEN table ELSE votesAt[b]]
    BY DEF AdvanceBlock
<1>5. votesAt' \in [0..timestamp' - 1 -> VoteTables] /\ \A b \in Nat : b < timestamp => votesAt'[b] = votesAt[b]
    BY <1>1, <1>2, <1>4
<1>6. ids' = ids
    BY <1>2 DEF ids, proposalCount
<1>7. AlphaTypeOK'
    BY <1>1, <1>2, <1>5 DEF AlphaInv, AlphaTypeOK, proposalCount
<1>8. ASSUME NEW i \in ids
      PROVE  /\ IsSound(proposals[i], timestamp', votesAt')
             /\ IsOver(proposals[i], timestamp) => IsOver(proposals[i], timestamp')
  <2>1. proposals[i] \in ProposalRecords /\ IsSound(proposals[i], timestamp, votesAt)
    BY OfEach
  <2>2. proposals[i].startBlock \in Nat /\ proposals[i].endBlock \in Nat
    BY <2>1, ProposalFields
  <2>3. IsSound(proposals[i], timestamp', votesAt')
    BY <1>1, <1>2, <1>5, <2>1, <2>2, SoundLater, SMTT(60)
  <2>4. proposals[i].endBlock < timestamp => proposals[i].endBlock < timestamp'
    BY <1>1, <1>2, <2>2
  <2> QED BY <2>3, <2>4, Zenon DEF IsOver
<1>9. AllSound' /\ LatestIsLive'
    BY <1>2, <1>6, <1>8 DEF AlphaInv, AllSound, LatestIsLive
<1>10. WaitingIsHeld' /\ WaitingIsApart' /\ QueuedIsProposed'
    BY <1>2, <1>6 DEF AlphaInv, WaitingIsHeld, WaitingIsApart, QueuedIsProposed
<1> QED BY <1>3, <1>7, <1>9, <1>10 DEF AlphaInv

-----------------------------------------------------------------------------
\* Taking transactions from the queue without the admin keeps the timelock's invariant.
LEMMA VetoKeeps ==
    ASSUME NEW txs \in SUBSET Transactions, TimelockInv, dequeue(txs), lastRun' = {},
           UNCHANGED <<timestamp, adminVars>>
    PROVE  TimelockInv'
<1>0. TimelockTypeOK /\ QueuedWaits
    BY DEF TimelockInv
<1>1. TimelockTypeOK'
    BY <1>0, DequeueEffect DEF TimelockTypeOK, adminVars
<1>2. QueuedWaits' /\ WaitedItsDelay'
    BY <1>0, DequeueKeepsWaits DEF WaitedItsDelay
<1> QED BY <1>1, <1>2 DEF TimelockInv

\* So does the nomination of an admin by a governor of the protocol.
LEMMA NominateKeeps ==
    ASSUME NEW caller, NEW newAdmin \in Admins, TimelockInv, governorSetPendingAdmin(caller, newAdmin)
    PROVE  TimelockInv'
BY DEF TimelockInv, TimelockTypeOK, QueuedWaits, WaitedItsDelay, governorSetPendingAdmin, queueVars

\* What the guardian of the governor queues or runs is a nomination.
LEMMA NominationFacts ==
    ASSUME AlphaAssumption, NEW newAdmin \in Successors, NEW eta \in GuardianEtas
    PROVE  LET tx == nomination(newAdmin, eta)
           IN  {tx} \in SUBSET Transactions /\ IsNomination(tx) /\ tx.eta = eta /\ eta \in Nat
<1>1. [setPendingAdmin |-> newAdmin] \in Calls
    BY CastNumbers DEF Calls
<1>2. eta \in 0..MaxTimestamp /\ eta \in Nat
    BY CastNumbers
<1>3. nomination(newAdmin, eta) \in Transactions
    BY <1>1, <1>2 DEF nomination, Transactions
<1> QED BY <1>2, <1>3 DEF nomination, IsNomination

\* The guardian queues its nomination in the timelock.
LEMMA GuardianQueueStep ==
    ASSUME AlphaAssumption, AlphaInv, NEW caller, NEW newAdmin \in Successors, NEW eta \in GuardianEtas,
           queueSetTimelockPendingAdmin(caller, newAdmin, eta)
    PROVE  AlphaInv'
<1> DEFINE tx == nomination(newAdmin, eta)
<1>1. {tx} \in SUBSET Transactions /\ IsNomination(tx) /\ tx.eta = eta /\ eta \in Nat
    BY NominationFacts
<1>2. /\ queueTransactions(alpha, {tx})
      /\ UNCHANGED <<proposals, latestProposalIds, votesAt, overruled>>
    BY DEF queueSetTimelockPendingAdmin, pausableQueueTransactions, governorVars
<1> HIDE DEF tx
<1>3. TimelockInv'
    BY <1>1, <1>2, QueueKeeps DEF AlphaInv, AlphaAssumption
<1>4. timestamp' = timestamp /\ queuedTransactions' = queuedTransactions \cup {tx}
    BY <1>2 DEF queueTransactions, enqueue
<1>5. tx.eta # 0
  <2>1. tx.eta >= timestamp + delay
    BY <1>2 DEF queueTransactions
  <2>2. timestamp \in Nat \ {0} /\ delay \in MINIMUM_DELAY..MAXIMUM_DELAY /\ MINIMUM_DELAY \in Nat
    BY CastNumbers DEF AlphaInv, AlphaTypeOK, TimelockInv, TimelockTypeOK
  <2>3. MAXIMUM_DELAY \in Nat
    BY DEF AlphaAssumption, TimelockAssumption
  <2> QED BY <1>1, <2>1, <2>2, <2>3
<1> QED BY <1>1, <1>2, <1>3, <1>4, <1>5, QuietKeeps

\* The guardian executes it.
LEMMA GuardianExecuteStep ==
    ASSUME AlphaAssumption, AlphaInv, NEW caller, NEW newAdmin \in Successors, NEW eta \in GuardianEtas,
           executeSetTimelockPendingAdmin(caller, newAdmin, eta)
    PROVE  AlphaInv'
<1> DEFINE tx == nomination(newAdmin, eta)
<1>1. {tx} \in SUBSET Transactions
    BY NominationFacts
<1>2. /\ executeTransactions(alpha, {tx}) /\ overruled' = overruled \cup {tx}
      /\ UNCHANGED <<proposals, latestProposalIds, votesAt>>
    BY DEF executeSetTimelockPendingAdmin, pausableExecuteTransactions, governorVars
<1> HIDE DEF tx
<1>3. TimelockInv'
    BY <1>1, <1>2, ExecuteKeeps DEF AlphaInv, AlphaAssumption
<1>4. timestamp' = timestamp /\ queuedTransactions' = queuedTransactions \ {tx}
    BY <1>2 DEF executeTransactions, dequeue
<1> QED BY <1>2, <1>3, <1>4, QuietKeeps

\* The timelock's guardian or governor takes a transaction out of the queue.
LEMMA VetoStep ==
    ASSUME AlphaAssumption, AlphaInv, NEW caller, NEW tx \in queuedTransactions, veto(caller, {tx})
    PROVE  AlphaInv'
<1>1. {tx} \in SUBSET Transactions
    BY DEF AlphaInv, TimelockInv, TimelockTypeOK
<1>2. /\ dequeue({tx}) /\ lastRun' = {} /\ overruled' = overruled \cup {tx}
      /\ UNCHANGED <<timestamp, adminVars, proposals, latestProposalIds, votesAt>>
    BY DEF veto, vetoTransactions, governorVars
<1>3. TimelockInv'
    BY <1>1, <1>2, VetoKeeps DEF AlphaInv
<1>4. queuedTransactions' = queuedTransactions \ {tx}
    BY <1>2 DEF dequeue
<1> QED BY <1>2, <1>3, <1>4, QuietKeeps

\* A step that leaves proposals, votes and queue alone.
LEMMA IdleKeeps ==
    ASSUME AlphaAssumption, AlphaInv, TimelockInv',
           UNCHANGED <<timestamp, queuedTransactions, proposals, latestProposalIds, votesAt, overruled>>
    PROVE  AlphaInv'
BY QuietKeeps

\* Steps that concern neither proposals nor the queue.
LEMMA OtherStep ==
    ASSUME AlphaAssumption, AlphaInv,
           \/ \E caller, newGuardian : changeGuardian(caller, newGuardian)
           \/ \E caller : \E newAdmin \in Admins : nominate(caller, newAdmin)
           \/ \E caller : setPaused(caller)
           \/ acceptTimelockAdmin
           \/ \E newAdmin \in Admins : succeed(newAdmin)
    PROVE  AlphaInv'
<1>1. ASSUME NEW caller, NEW newGuardian, changeGuardian(caller, newGuardian) PROVE AlphaInv'
  <2>1. TimelockInv'
    BY <1>1, TimelockAside DEF changeGuardian
  <2> QED BY <1>1, <2>1, IdleKeeps DEF changeGuardian, queueVars
<1>2. ASSUME NEW caller, NEW newAdmin \in Admins, nominate(caller, newAdmin) PROVE AlphaInv'
  <2>1. TimelockInv'
    BY <1>2, NominateKeeps DEF nominate, AlphaInv
  <2> QED BY <1>2, <2>1, IdleKeeps DEF nominate, governorSetPendingAdmin, queueVars, governorVars
<1>3. ASSUME NEW caller, setPaused(caller) PROVE AlphaInv'
  <2>1. TimelockInv'
    BY <1>3, TimelockAside DEF setPaused
  <2> QED BY <1>3, <2>1, IdleKeeps DEF setPaused, queueVars, governorVars
<1>4. ASSUME NEW newAdmin \in Admins, acceptAdmin(newAdmin), UNCHANGED <<governorVars, votesAt, overruled>>
      PROVE AlphaInv'
  <2>1. TimelockInv'
    BY <1>4, AcceptAdminKeeps DEF AlphaInv
  <2> QED BY <1>4, <2>1, IdleKeeps DEF acceptAdmin, queueVars, governorVars
<1>5. ASSUME acceptTimelockAdmin PROVE AlphaInv'
    BY <1>4, <1>5, CastNumbers DEF acceptTimelockAdmin
<1>6. ASSUME NEW newAdmin \in Admins, succeed(newAdmin) PROVE AlphaInv'
    BY <1>4, <1>6 DEF succeed
<1> QED BY <1>1, <1>2, <1>3, <1>5, <1>6

\* The constructor establishes the invariant.
LEMMA AlphaInitInv == AlphaAssumption /\ AlphaInit => AlphaInv
<1> SUFFICES ASSUME AlphaAssumption, AlphaInit PROVE AlphaInv
    OBVIOUS
<1>1. TimelockInv
    BY TimelockInitInv DEF AlphaAssumption, AlphaInit, FeiDAOTimelockInit
<1>2. ids = {}
    BY DEF AlphaInit, ids, proposalCount
<1>3. AlphaTypeOK
  <2>1. timestamp = 1 /\ proposals = <<>> /\ votesAt \in [{0} -> VoteTables]
    BY DEF AlphaInit, FeiDAOTimelockInit, TimelockInit
  <2>2. latestProposalIds \in [Actors -> {0}]
    BY DEF AlphaInit
  <2>3. 0..timestamp - 1 = {0} /\ proposalCount = 0
    BY <2>1 DEF proposalCount
  <2> QED BY <2>1, <2>2, <2>3 DEF AlphaTypeOK
<1>4. AllSound /\ LatestIsLive /\ WaitingIsHeld /\ WaitingIsApart
    BY <1>2 DEF AllSound, LatestIsLive, WaitingIsHeld, WaitingIsApart
<1>5. QueuedIsProposed
    BY DEF AlphaInit, FeiDAOTimelockInit, TimelockInit, QueuedIsProposed
<1> QED BY <1>1, <1>3, <1>4, <1>5 DEF AlphaInv

\* One step of the governor, or of those who reach into its timelock, keeps the invariant.
LEMMA AlphaNextInv ==
    ASSUME AlphaAssumption, AlphaInv, [AlphaNext]_alphaVars
    PROVE  AlphaInv'
<1>1. CASE UNCHANGED alphaVars
  <2>1. TimelockInv'
    BY <1>1, TimelockAside DEF alphaVars, timelockVars
  <2> QED BY <1>1, <2>1, IdleKeeps DEF alphaVars, timelockVars, governorVars, queueVars
<1>2. ASSUME NEW caller \in Actors, NEW actions \in Bundles, propose(caller, actions) PROVE AlphaInv'
    BY <1>2, ProposeStep
<1>3. ASSUME NEW caller \in Actors, NEW id \in 1..proposalCount, cancel(caller, id) PROVE AlphaInv'
    BY <1>3, CancelStep DEF ids
<1>4. ASSUME NEW caller \in Actors, NEW id \in 1..proposalCount, NEW support \in BOOLEAN,
             castVote(caller, id, support)
      PROVE  AlphaInv'
    BY <1>4, CastVoteStep DEF ids
<1>5. ASSUME NEW caller \in Actors, NEW newAdmin \in Successors, NEW eta \in GuardianEtas,
             \/ queueSetTimelockPendingAdmin(caller, newAdmin, eta)
             \/ executeSetTimelockPendingAdmin(caller, newAdmin, eta)
      PROVE  AlphaInv'
    BY <1>5, GuardianQueueStep, GuardianExecuteStep
<1>6. ASSUME NEW caller \in Actors, NEW txs \in {{tx} : tx \in queuedTransactions}, veto(caller, txs)
      PROVE  AlphaInv'
    BY <1>6, VetoStep
<1>7. ASSUME NEW id \in 1..proposalCount, queue(id) \/ execute(id) PROVE AlphaInv'
    BY <1>7, QueueStep, ExecuteStep DEF ids
<1>8. ASSUME AdvanceBlock PROVE AlphaInv'
    BY <1>8, AdvanceBlockStep
<1> QED BY <1>1, <1>2, <1>3, <1>4, <1>5, <1>6, <1>7, <1>8, OtherStep DEF AlphaNext

\* What holds in every state of the governor and its timelock.
THEOREM AlphaInvariant == AlphaAssumption /\ AlphaSpec => []AlphaInv
<1> SUFFICES ASSUME AlphaAssumption PROVE AlphaSpec => []AlphaInv
    OBVIOUS
<1>1. AlphaInit => AlphaInv
    BY AlphaInitInv
<1>2. AlphaInv /\ [AlphaNext]_alphaVars => AlphaInv'
    BY AlphaNextInv
<1> QED BY <1>1, <1>2, PTL DEF AlphaSpec

-----------------------------------------------------------------------------
\* Nobody has two proposals that are pending or voted on (propose asks only about the
\* caller's latest proposal).
THEOREM AlphaOneLiveProposal == AlphaAssumption /\ AlphaSpec => []OneLiveProposal
<1> SUFFICES ASSUME AlphaAssumption PROVE AlphaSpec => []OneLiveProposal
    OBVIOUS
<1>1. AlphaInv => OneLiveProposal
  <2> SUFFICES ASSUME AlphaInv, NEW i \in ids, NEW j \in ids,
                      proposals[i].proposer = proposals[j].proposer,
                      state(i) \in {"Pending", "Active"}, state(j) \in {"Pending", "Active"}
               PROVE  i = j
    BY DEF OneLiveProposal, ids
  <2>1. timestamp \in Nat
    BY DEF AlphaInv, AlphaTypeOK
  <2>2. ASSUME NEW k \in ids, state(k) \in {"Pending", "Active"}
        PROVE  latestProposalIds[proposals[k].proposer] = k
    <3>1. stateOf(proposals[k], timestamp) \in {"Pending", "Active"}
        BY <2>2, StateIs
    <3>2. ~IsOver(proposals[k], timestamp)
        BY <2>1, <3>1, OfEach, LiveCases
    <3> QED BY <3>2 DEF AlphaInv, LatestIsLive
  <2> QED BY <2>2
<1> QED BY <1>1, AlphaInvariant, PTL

\* No proposal collects more votes than there were when voting on it opened (castVote).
THEOREM AlphaNoVoteCountsTwice == AlphaAssumption /\ AlphaSpec => []NoVoteCountsTwice
<1> SUFFICES ASSUME AlphaAssumption PROVE AlphaSpec => []NoVoteCountsTwice
    OBVIOUS
<1>1. AlphaInv => NoVoteCountsTwice
  <2> SUFFICES ASSUME AlphaInv, NEW id \in ids, proposals[id].receipts # {}
               PROVE  proposals[id].forVotes + proposals[id].againstVotes
                        <= SumFunction(votesAt[proposals[id].startBlock])
    BY DEF NoVoteCountsTwice, ids
  <2> DEFINE p == proposals[id]
             table == votesAt[p.startBlock]
  <2>1. p \in ProposalRecords /\ IsSound(p, timestamp, votesAt)
    BY OfEach
  <2>2. p.startBlock \in Nat /\ p.startBlock < timestamp
    BY <2>1, ProposalFields DEF IsSound, BallotsCounted
  <2>3. table \in [Actors -> Nat] /\ IsFiniteSet(Actors)
    BY <2>2, CastNumbers DEF AlphaInv, AlphaTypeOK
  <2>4. p.forVotes + p.againstVotes = SumFunctionOnSet(table, voters(p))
    BY <2>1 DEF IsSound, BallotsCounted
  <2>5. voters(p) \in SUBSET Actors /\ \A a \in Actors : table[a] \in Nat /\ DOMAIN table = Actors
    BY <2>3 DEF voters
  <2> HIDE DEF p, table
  <2>6. SumFunctionOnSet(table, voters(p)) <= SumFunctionOnSet(table, Actors)
    BY <2>3, <2>5, SumSubset
  <2>7. SumFunction(table) = SumFunctionOnSet(table, Actors)
    BY <2>3 DEF SumFunction
  <2> QED BY <2>4, <2>6, <2>7 DEF p, table
<1> QED BY <1>1, AlphaInvariant, PTL

\* What waits in the queue was voted for, but for nominations (queue, __queueSetTimelockPendingAdmin).
THEOREM AlphaQueuePassedVote == AlphaAssumption /\ AlphaSpec => []QueuePassedVote
<1> SUFFICES ASSUME AlphaAssumption PROVE AlphaSpec => []QueuePassedVote
    OBVIOUS
<1>1. AlphaInv => QueuePassedVote
  <2> SUFFICES ASSUME AlphaInv, NEW tx \in queuedTransactions, ~IsNomination(tx)
               PROVE  \E id \in 1..proposalCount :
                        LET p == proposals[id] IN
                        /\ tx \in transactionsOf(p.actions, p.eta)
                        /\ ~p.canceled
                        /\ p.endBlock + MINIMUM_DELAY < p.eta
                        /\ p.forVotes > p.againstVotes /\ p.forVotes >= quorumVotes
    BY DEF QueuePassedVote, IsNomination
  <2>1. PICK id \in ids : proposals[id].eta # 0 /\ tx \in batch(proposals[id])
    BY DEF AlphaInv, QueuedIsProposed
  <2>2. QueuedHasPassed(proposals[id], timestamp)
    BY OfEach DEF IsSound
  <2>3. /\ proposals[id].canceled = FALSE /\ proposals[id].endBlock + MINIMUM_DELAY < proposals[id].eta
        /\ proposals[id].forVotes > proposals[id].againstVotes /\ proposals[id].forVotes >= quorumVotes
    BY <2>1, <2>2, Zenon DEF QueuedHasPassed, isPassed
  <2> QED BY <2>1, <2>3, Zenon DEF batch, ids
<1> QED BY <1>1, AlphaInvariant, PTL

\* What the governor calls queued is in the timelock's queue (execute, cancel, vetoTransactions).
THEOREM AlphaQueuedIsHeld == AlphaAssumption /\ AlphaSpec => []QueuedIsHeld
<1> SUFFICES ASSUME AlphaAssumption PROVE AlphaSpec => []QueuedIsHeld
    OBVIOUS
<1>1. AlphaInv => QueuedIsHeld
  <2> SUFFICES ASSUME AlphaInv, NEW id \in ids, state(id) = "Queued"
               PROVE  batch(proposals[id]) \subseteq queuedTransactions \cup overruled
    BY DEF QueuedIsHeld, ids, batch
  <2> DEFINE p == proposals[id]
  <2>1. p \in ProposalRecords /\ IsSound(p, timestamp, votesAt) /\ timestamp \in Nat
    BY OfEach DEF AlphaInv, AlphaTypeOK
  <2>2. stateOf(p, timestamp) = "Queued"
    BY StateIs
  <2>3. IsWaiting(p)
    BY <2>1, <2>2, WaitingCases
  <2> QED BY <2>3 DEF AlphaInv, WaitingIsHeld
<1> QED BY <1>1, AlphaInvariant, PTL

\* What the governor's timelock runs has waited all the same: pauses, vetoes, nominations by
\* a governor and the guardian's own transactions cut no delay short (FeiDAOTimelock.sol).
THEOREM AlphaWaits == AlphaAssumption /\ AlphaSpec => []WaitedItsDelay
<1>1. AlphaInv => WaitedItsDelay
    BY DEF AlphaInv, TimelockInv
<1> QED BY <1>1, AlphaInvariant, PTL

\* What a step of FeiDAOTimelock may change.  The delay changes only by a transaction that
\* asks for just that and leaves the queue, an admin is nominated so or by a governor who
\* changes nothing else, and only who was nominated becomes admin.
SettingsAreGoverned ==
    /\ delay' # delay =>
        \E tx \in queuedTransactions \ queuedTransactions' :
            tx.call \in [setDelay : {delay'}] /\ tx.eta <= timestamp
    /\ pendingAdmin' \notin {pendingAdmin, NoAdmin} =>
        \/ \E tx \in queuedTransactions \ queuedTransactions' :
            tx.call \in [setPendingAdmin : {pendingAdmin'}] /\ tx.eta <= timestamp
        \/ /\ \E caller \in Actors : isGovernor(caller)
           /\ UNCHANGED <<admin, delay, queueVars>>
    /\ admin' # admin => admin' = pendingAdmin /\ pendingAdmin' = NoAdmin

\* While it is paused the timelock takes nothing in and runs nothing: what is queued can
\* only leave, by a cancellation or a veto, and the delay stays.
PauseHolds ==
    paused => /\ queuedTransactions' \subseteq queuedTransactions
              /\ lastRun' = {}
              /\ delay' = delay

\* A batch that runs sets only what its transactions ask for.
LEMMA ExecuteGoverns ==
    ASSUME NEW txs \in SUBSET Transactions, executeTransactions(alpha, txs)
    PROVE  SettingsAreGoverned
<1>1. \A tx \in txs : tx \in queuedTransactions \ queuedTransactions' /\ tx.eta <= timestamp
    BY DEF executeTransactions, dequeue
<1>2. ASSUME delay' # delay PROVE \E tx \in txs : tx.call \in [setDelay : {delay'}]
  <2>1. delay' \in newDelays(txs)
    BY <1>2 DEF executeTransactions, setDelay
  <2> QED BY <2>1, DelaysOfBatch
<1>3. ASSUME pendingAdmin' \notin {pendingAdmin, NoAdmin}
      PROVE  \E tx \in txs : tx.call \in [setPendingAdmin : {pendingAdmin'}]
  <2>1. pendingAdmin' \in newPendingAdmins(txs)
    BY <1>3 DEF executeTransactions, setPendingAdmin
  <2> QED BY <2>1, AdminsOfBatch
<1>4. admin' = admin
    BY DEF executeTransactions
<1> QED BY <1>1, <1>2, <1>3, <1>4 DEF SettingsAreGoverned

\* A step that touches neither the admins nor the delay has nothing to answer for.
LEMMA NoSettings == UNCHANGED adminVars => SettingsAreGoverned
BY DEF adminVars, SettingsAreGoverned

\* Accepting makes the nominee admin and clears the nomination.
LEMMA AcceptGoverns ==
    ASSUME NEW caller, acceptAdmin(caller)
    PROVE  SettingsAreGoverned
BY DEF acceptAdmin, SettingsAreGoverned

\* The step of a governor of the protocol.
LEMMA NominateGoverns ==
    ASSUME NEW caller \in Actors, NEW newAdmin, nominate(caller, newAdmin)
    PROVE  SettingsAreGoverned
BY DEF nominate, governorSetPendingAdmin, SettingsAreGoverned

\* Delay and admins of the governor's timelock change only by way of its queue, but for the
\* nominations of a governor; and nothing passes while it is paused (FeiDAOTimelock.sol).
THEOREM AlphaGoverns ==
    AlphaAssumption /\ AlphaSpec => [][SettingsAreGoverned /\ PauseHolds]_alphaVars
<1> SUFFICES ASSUME AlphaAssumption
             PROVE  AlphaSpec => [][SettingsAreGoverned /\ PauseHolds]_alphaVars
    OBVIOUS
<1>1. ASSUME AlphaInv, AlphaNext PROVE SettingsAreGoverned
  <2>1. ASSUME NEW caller, NEW actions, propose(caller, actions) PROVE SettingsAreGoverned
    BY <2>1, NoSettings DEF propose
  <2>2. ASSUME NEW caller, NEW id, NEW support, cancel(caller, id) \/ castVote(caller, id, support)
        PROVE  SettingsAreGoverned
    BY <2>2, NoSettings DEF cancel, castVote, cancelTransactions
  <2>3. ASSUME NEW caller, NEW new, changeGuardian(caller, new) \/ setPaused(caller)
        PROVE  SettingsAreGoverned
    BY <2>3, NoSettings DEF changeGuardian, setPaused
  <2>4. ASSUME NEW caller, NEW new, NEW eta, queueSetTimelockPendingAdmin(caller, new, eta)
        PROVE  SettingsAreGoverned
    BY <2>4, NoSettings DEF queueSetTimelockPendingAdmin, pausableQueueTransactions, queueTransactions
  <2>5. ASSUME NEW caller, NEW new \in Successors, NEW eta \in GuardianEtas,
               executeSetTimelockPendingAdmin(caller, new, eta)
        PROVE  SettingsAreGoverned
    <3>1. {nomination(new, eta)} \in SUBSET Transactions
      BY NominationFacts
    <3> QED BY <2>5, <3>1, ExecuteGoverns DEF executeSetTimelockPendingAdmin, pausableExecuteTransactions
  <2>6. ASSUME NEW caller, NEW txs, veto(caller, txs) PROVE SettingsAreGoverned
    BY <2>6, NoSettings DEF veto, vetoTransactions
  <2>7. ASSUME NEW id, queue(id) PROVE SettingsAreGoverned
    BY <2>7, NoSettings DEF queue, queueOrRevert, pausableQueueTransactions, queueTransactions
  <2>8. ASSUME NEW id \in ids, execute(id) PROVE SettingsAreGoverned
    <3> DEFINE txs == transactionsOf(proposals[id].actions, proposals[id].eta)
    <3>1. proposals[id] \in ProposalRecords /\ IsSound(proposals[id], timestamp, votesAt)
      BY <1>1, OfEach
    <3>2. timestamp \in Nat /\ stateOf(proposals[id], timestamp) = "Queued"
      BY <1>1, <2>8, StateIs DEF execute, AlphaInv, AlphaTypeOK
    <3>3. proposals[id].eta # 0
      BY <3>1, <3>2, WaitingCases DEF IsWaiting
    <3>4. proposals[id].eta \in 0..MaxTimestamp /\ proposals[id].actions \in Seq(Calls)
      BY <3>1, <3>3, ProposalFields DEF IsSound, QueuedHasPassed
    <3>5. txs \in SUBSET Transactions
      BY <3>4, BatchIsTransactions
    <3>6. executeTransactions(alpha, txs)
      BY <2>8 DEF execute, pausableExecuteTransactions
    <3> HIDE DEF txs
    <3> QED BY <3>5, <3>6, ExecuteGoverns
  <2>9. ASSUME NEW new, acceptTimelockAdmin \/ succeed(new) PROVE SettingsAreGoverned
    BY <2>9, AcceptGoverns DEF acceptTimelockAdmin, succeed
  <2>10. ASSUME AdvanceBlock PROVE SettingsAreGoverned
    BY <2>10, NoSettings DEF AdvanceBlock, AdvanceTimestamp
  <2> QED BY <1>1, <2>1, <2>2, <2>3, <2>4, <2>5, <2>6, <2>7, <2>8, <2>9, <2>10, NominateGoverns
        DEF AlphaNext, ids
<1>2. ASSUME AlphaNext, paused PROVE PauseHolds
  <2> DEFINE Held == queuedTransactions' \subseteq queuedTransactions /\ lastRun' = {} /\ delay' = delay
  <2>1. ASSUME NEW caller, NEW actions, propose(caller, actions) PROVE Held
    BY <2>1 DEF propose, adminVars, queueVars
  <2>2. ASSUME NEW caller, NEW id, NEW support, cancel(caller, id) \/ castVote(caller, id, support)
        PROVE  Held
    BY <2>2 DEF cancel, castVote, cancelTransactions, dequeue, adminVars, queueVars
  <2>3. ASSUME NEW caller, NEW new, changeGuardian(caller, new) \/ setPaused(caller) \/ nominate(caller, new)
        PROVE  Held
    BY <2>3 DEF changeGuardian, setPaused, nominate, governorSetPendingAdmin, adminVars, queueVars
  <2>4. ASSUME NEW caller, NEW new, NEW eta
        PROVE  /\ ~queueSetTimelockPendingAdmin(caller, new, eta)
               /\ ~executeSetTimelockPendingAdmin(caller, new, eta)
    BY <1>2 DEF queueSetTimelockPendingAdmin, executeSetTimelockPendingAdmin, pausableQueueTransactions,
           pausableExecuteTransactions
  <2>5. ASSUME NEW caller, NEW txs, veto(caller, txs) PROVE Held
    BY <2>5 DEF veto, vetoTransactions, dequeue, adminVars
  <2>6. ASSUME NEW id PROVE ~queue(id) /\ ~execute(id)
    BY <1>2 DEF queue, execute, queueOrRevert, pausableQueueTransactions, pausableExecuteTransactions
  <2>7. ASSUME NEW new, acceptTimelockAdmin \/ succeed(new) PROVE Held
    BY <2>7 DEF acceptTimelockAdmin, succeed, acceptAdmin, queueVars
  <2>8. ASSUME AdvanceBlock PROVE Held
    BY <2>8 DEF AdvanceBlock, AdvanceTimestamp, adminVars, queueVars
  <2>9. Held
    BY <1>2, <2>1, <2>2, <2>3, <2>4, <2>5, <2>6, <2>7, <2>8, Zenon DEF AlphaNext
  <2> QED BY <2>9 DEF PauseHolds
<1>3. AlphaInv /\ [AlphaNext]_alphaVars => [SettingsAreGoverned /\ PauseHolds]_alphaVars
    BY <1>1, <1>2 DEF PauseHolds
<1> QED BY <1>3, AlphaInvariant, PTL DEF AlphaSpec

-----------------------------------------------------------------------------
\* What a proposal is like after the step.
LEMMA OfEachNext ==
    ASSUME AlphaInv', NEW id \in ids'
    PROVE  proposals'[id] \in ProposalRecords /\ IsSound(proposals'[id], timestamp', votesAt')
BY DEF AlphaInv, AlphaTypeOK, AllSound, ids, proposalCount

\* The steps of a proposal's life.
LEMMA FollowsIs ==
    /\ Follows["Pending"] = {"Active", "Canceled"}
    /\ Follows["Active"] = {"Canceled", "Defeated", "Succeeded"}
    /\ Follows["Succeeded"] = {"Queued"}
    /\ Follows["Queued"] = {"Executed", "Expired"}
BY DEF Follows

\* From one block to the next a proposal keeps its state or takes the next one.
LEMMA StateNextBlock ==
    ASSUME AlphaAssumption, NEW p \in ProposalRecords, NEW now \in Nat, NEW tables, NEW more,
           IsSound(p, now, tables), IsSound(p, now + 1, more)
    PROVE  stateOf(p, now + 1) # stateOf(p, now) => stateOf(p, now + 1) \in Follows[stateOf(p, now)]
<1>1. /\ p.startBlock \in Nat /\ p.endBlock \in Nat /\ p.eta \in Nat
      /\ p.canceled \in BOOLEAN /\ p.executed \in BOOLEAN
    BY ProposalFields
<1>2. votingPeriod \in Nat \ {0} /\ GRACE_PERIOD \in Nat
    BY CastNumbers
<1>3. p.endBlock = p.startBlock + votingPeriod
    BY DEF IsSound
<1>4. p.eta # 0 => p.canceled = FALSE /\ p.endBlock < now /\ isPassed(p)
    BY DEF IsSound, QueuedHasPassed
<1> DEFINE st == stateOf(p, now)
           st2 == stateOf(p, now + 1)
           passed == isPassed(p)
<1>5. /\ p.canceled # FALSE => st = "Canceled"
      /\ p.canceled = FALSE /\ now <= p.startBlock => st = "Pending"
      /\ p.canceled = FALSE /\ p.startBlock < now /\ now <= p.endBlock => st = "Active"
      /\ p.canceled = FALSE /\ p.endBlock < now /\ ~passed => st = "Defeated"
      /\ p.canceled = FALSE /\ p.endBlock < now /\ passed /\ p.eta = 0 => st = "Succeeded"
      /\ p.eta # 0 /\ p.executed # FALSE => st = "Executed"
      /\ p.eta # 0 /\ p.executed = FALSE /\ now >= p.eta + GRACE_PERIOD => st = "Expired"
      /\ p.eta # 0 /\ p.executed = FALSE /\ ~(now >= p.eta + GRACE_PERIOD) => st = "Queued"
    BY <1>2, StateCases, Zenon
<1>6. /\ p.canceled # FALSE => st2 = "Canceled"
      /\ p.canceled = FALSE /\ now + 1 <= p.startBlock => st2 = "Pending"
      /\ p.canceled = FALSE /\ p.startBlock < now + 1 /\ now + 1 <= p.endBlock => st2 = "Active"
      /\ p.canceled = FALSE /\ p.endBlock < now + 1 /\ ~passed => st2 = "Defeated"
      /\ p.canceled = FALSE /\ p.endBlock < now + 1 /\ passed /\ p.eta = 0 => st2 = "Succeeded"
      /\ p.eta # 0 /\ p.executed # FALSE => st2 = "Executed"
      /\ p.eta # 0 /\ p.executed = FALSE /\ now + 1 >= p.eta + GRACE_PERIOD => st2 = "Expired"
      /\ p.eta # 0 /\ p.executed = FALSE /\ ~(now + 1 >= p.eta + GRACE_PERIOD) => st2 = "Queued"
  <2>1. now + 1 \in Nat
    OBVIOUS
  <2> QED BY <1>2, <2>1, StateCases, Zenon
<1> HIDE DEF st, st2, passed
<1>7. CASE p.canceled # FALSE
    BY <1>5, <1>6, <1>7 DEF st, st2
<1>8. CASE p.canceled = FALSE /\ now <= p.startBlock
  <2>1. st = "Pending"
    BY <1>5, <1>8
  <2>2. st2 \in {"Pending", "Active"}
    BY <1>1, <1>2, <1>3, <1>6, <1>8
  <2> QED BY <2>1, <2>2, FollowsIs DEF st, st2
<1>9. CASE p.canceled = FALSE /\ p.startBlock < now /\ now <= p.endBlock
  <2>1. st = "Active"
    BY <1>5, <1>9
  <2>2. p.eta = 0
    BY <1>1, <1>4, <1>9
  <2>3. st2 \in {"Active", "Defeated", "Succeeded"}
    BY <1>1, <1>6, <1>9, <2>2
  <2> QED BY <2>1, <2>3, FollowsIs DEF st, st2
<1>10. CASE p.canceled = FALSE /\ p.endBlock < now /\ p.eta = 0
  <2>1. p.endBlock < now + 1
    BY <1>1, <1>10
  <2>2. CASE passed
    <3>1. st = "Succeeded"
        BY <1>5, <1>10, <2>2, Zenon
    <3>2. st2 = "Succeeded"
        BY <1>6, <1>10, <2>1, <2>2, Zenon
    <3> QED BY <3>1, <3>2 DEF st, st2
  <2>3. CASE ~passed
    <3>1. st = "Defeated"
        BY <1>5, <1>10, <2>3, Zenon
    <3>2. st2 = "Defeated"
        BY <1>6, <1>10, <2>1, <2>3, Zenon
    <3> QED BY <3>1, <3>2 DEF st, st2
  <2> QED BY <2>2, <2>3
<1>11. CASE p.eta # 0
  <2>1. CASE p.executed # FALSE
    <3>1. st = "Executed"
        BY <1>5, <1>11, <2>1, Zenon
    <3>2. st2 = "Executed"
        BY <1>6, <1>11, <2>1, Zenon
    <3> QED BY <3>1, <3>2 DEF st, st2
  <2>2. CASE p.executed = FALSE /\ now >= p.eta + GRACE_PERIOD
    <3>1. now + 1 >= p.eta + GRACE_PERIOD
        BY <1>1, <1>2, <2>2
    <3>2. st = "Expired"
        BY <1>5, <1>11, <2>2, Zenon
    <3>3. st2 = "Expired"
        BY <1>6, <1>11, <2>2, <3>1, Zenon
    <3> QED BY <3>2, <3>3 DEF st, st2
  <2>3. CASE p.executed = FALSE /\ ~(now >= p.eta + GRACE_PERIOD)
    <3>1. st = "Queued"
        BY <1>5, <1>11, <2>3, Zenon
    <3>2. st2 = "Queued" \/ st2 = "Expired"
        BY <1>6, <1>11, <2>3, Zenon
    <3>3. st2 # st => st2 \in Follows[st]
        BY <3>1, <3>2, FollowsIs
    <3> QED BY <3>3 DEF st, st2
  <2> QED BY <2>1, <2>2, <2>3
<1>12. (now <= p.startBlock \/ p.startBlock < now) /\ (now <= p.endBlock \/ p.endBlock < now)
    BY <1>1
<1> QED BY <1>7, <1>8, <1>9, <1>10, <1>11, <1>12, Zenon

\* A proposal that the step does not touch, in a step that takes no time.
LEMMA StateKept ==
    ASSUME NEW id, proposals'[id] = proposals[id], timestamp' = timestamp
    PROVE  state(id)' = state(id)
BY StateIs

\* What one step may do to the state of a proposal.
MovesOn(id) == state(id)' # state(id) => state(id)' \in Follows[state(id)]

\* The proposal of the step.
LEMMA ItsEntry ==
    ASSUME AlphaInv, NEW id \in ids, NEW q, proposals' = [proposals EXCEPT ![id] = q]
    PROVE  proposals'[id] = q /\ id \in ids'
BY DEF AlphaInv, AlphaTypeOK, ids, proposalCount

\* A proposal that is not the one of the step keeps its state.
LEMMA OthersKept ==
    ASSUME AlphaInv, NEW id \in ids, NEW q, proposals' = [proposals EXCEPT ![id] = q],
           timestamp' = timestamp, NEW i \in ids, i # id
    PROVE  MovesOn(i)
<1>1. proposals'[i] = proposals[i]
    BY DEF AlphaInv, AlphaTypeOK, ids, proposalCount
<1> QED BY <1>1, StateKept DEF MovesOn

\* A ballot does not change the state of a proposal.
LEMMA CastVoteMoves ==
    ASSUME AlphaAssumption, AlphaInv, AlphaInv', NEW voter \in Actors, NEW id \in ids, NEW support \in BOOLEAN,
           castVote(voter, id, support), NEW i \in ids
    PROVE  MovesOn(i)
<1> DEFINE p == proposals[id]
<1>1. PICK f, a, r : proposals' = [proposals EXCEPT ![id] = [p EXCEPT !.forVotes = f, !.againstVotes = a, !.receipts = r]]
    BY ZenonT(60) DEF castVote
<1>2. timestamp' = timestamp
    BY DEF castVote
<1>3. CASE i = id
  <2>1. proposals'[id] = [p EXCEPT !.forVotes = f, !.againstVotes = a, !.receipts = r] /\ id \in ids'
    BY <1>1, ItsEntry
  <2>2. p \in ProposalRecords
    BY OfEach
  <2> DEFINE q == proposals'[id]
  <2>3. /\ q.startBlock = p.startBlock /\ q.endBlock = p.endBlock /\ q.canceled = p.canceled
        /\ p.startBlock \in Nat /\ p.endBlock \in Nat
    BY <2>1, <2>2 DEF ProposalRecords
  <2>4. q \in ProposalRecords /\ IsSound(q, timestamp, votesAt') /\ timestamp \in Nat
    BY <1>2, <2>1, OfEachNext DEF AlphaInv, AlphaTypeOK
  <2>5. IsSound(p, timestamp, votesAt)
    BY OfEach
  <2>6. stateOf(p, timestamp) = "Active"
    BY StateIs DEF castVote
  <2> HIDE DEF p, q
  <2>7. ~IsOver(p, timestamp)
    BY <2>2, <2>4, <2>5, <2>6, LiveCases
  <2>8. /\ p.canceled = FALSE /\ timestamp <= p.startBlock => stateOf(p, timestamp) = "Pending"
        /\ q.canceled = FALSE /\ q.startBlock < timestamp /\ timestamp <= q.endBlock => stateOf(q, timestamp) = "Active"
    <3>1. votingPeriod \in Nat /\ GRACE_PERIOD \in Nat
        BY CastNumbers
    <3> QED BY <2>2, <2>4, <2>5, <3>1, StateCases, Zenon
  <2>9. p.canceled = FALSE /\ ~(p.endBlock < timestamp)
    BY <2>7, Zenon DEF IsOver
  <2>10. stateOf(q, timestamp) = "Active"
    BY <2>3, <2>4, <2>6, <2>8, <2>9
  <2>11. state(id)' = stateOf(q, timestamp) /\ state(id) = "Active"
    BY <1>2, StateIs DEF q, castVote
  <2> QED BY <1>3, <2>10, <2>11 DEF MovesOn
<1>4. CASE i # id
    BY <1>1, <1>2, <1>4, OthersKept
<1> QED BY <1>3, <1>4

\* What can be cancelled is pending or active.
LEMMA CancelMoves ==
    ASSUME AlphaAssumption, AlphaInv, AlphaInv', NEW caller, NEW id \in ids, cancel(caller, id), NEW i \in ids
    PROVE  MovesOn(i)
<1> DEFINE p == proposals[id]
<1>1. proposals' = [proposals EXCEPT ![id] = [p EXCEPT !.canceled = TRUE]] /\ timestamp' = timestamp
    BY DEF cancel, cancelTransactions
<1>2. CASE i = id
  <2>1. proposals'[id] = [p EXCEPT !.canceled = TRUE]
    BY <1>1, ItsEntry
  <2>2. p \in ProposalRecords
    BY OfEach
  <2>3. proposals'[id].canceled
    BY <2>1, <2>2 DEF ProposalRecords
  <2>4. id \in ids'
    BY <1>1, ItsEntry
  <2>5. proposals'[id] \in ProposalRecords /\ IsSound(proposals'[id], timestamp', votesAt') /\ timestamp' \in Nat
    BY <2>4, OfEachNext DEF AlphaInv, AlphaTypeOK
  <2>6. stateOf(proposals'[id], timestamp') = "Canceled"
    <3>1. votingPeriod \in Nat /\ GRACE_PERIOD \in Nat
        BY CastNumbers
    <3> QED BY <2>3, <2>5, <3>1, StateCases, Zenon
  <2>7. state(id)' = "Canceled" /\ state(id) \in {"Active", "Pending"}
    BY <2>6, StateIs DEF cancel, isCancelable
  <2> QED BY <1>2, <2>7, FollowsIs DEF MovesOn
<1>3. CASE i # id
    BY <1>1, <1>3, OthersKept
<1> QED BY <1>2, <1>3

\* What has succeeded is queued, and its eta has not passed by more than the grace period.
LEMMA QueueMoves ==
    ASSUME AlphaAssumption, AlphaInv, AlphaInv', NEW id \in ids, queue(id), NEW i \in ids
    PROVE  MovesOn(i)
<1> DEFINE p == proposals[id]
           e == timestamp + delay
<1>1. proposals' = [proposals EXCEPT ![id] = [p EXCEPT !.eta = e]] /\ timestamp' = timestamp
    BY DEF queue, queueOrRevert, pausableQueueTransactions, queueTransactions
<1>2. CASE i = id
  <2>1. proposals'[id] = [p EXCEPT !.eta = e] /\ id \in ids'
    BY <1>1, ItsEntry
  <2>2. p \in ProposalRecords /\ IsSound(p, timestamp, votesAt)
    BY OfEach
  <2> DEFINE q == proposals'[id]
  <2>3. q.eta = e /\ q.executed = p.executed
    BY <2>1, <2>2 DEF ProposalRecords
  <2>4. q \in ProposalRecords /\ IsSound(q, timestamp, votesAt')
    BY <1>1, <2>1, OfEachNext
  <2>5. timestamp \in Nat \ {0} /\ delay \in Nat
    BY DEF AlphaInv, AlphaTypeOK, TimelockInv, TimelockTypeOK, AlphaAssumption, TimelockAssumption
  <2>6. stateOf(p, timestamp) = "Succeeded"
    BY StateIs DEF queue
  <2> HIDE DEF p, q
  <2>7. p.eta = 0
    BY <2>2, <2>5, <2>6, WaitingCases
  <2>8. q.executed = FALSE
    BY <2>2, <2>3, <2>7, Zenon DEF IsSound, QueuedHasPassed
  <2>9. GRACE_PERIOD \in Nat \ {0} /\ votingPeriod \in Nat
    BY CastNumbers
  <2>10. q.eta # 0 /\ q.executed = FALSE /\ ~(timestamp >= q.eta + GRACE_PERIOD)
    BY <2>3, <2>5, <2>8, <2>9
  <2>11. stateOf(q, timestamp) = "Queued"
    BY <2>4, <2>5, <2>9, <2>10, StateCases, Zenon
  <2>12. state(id)' = "Queued" /\ state(id) = "Succeeded"
    BY <1>1, <2>11, StateIs DEF queue, q
  <2> QED BY <1>2, <2>12, FollowsIs DEF MovesOn
<1>3. CASE i # id
    BY <1>1, <1>3, OthersKept
<1> QED BY <1>2, <1>3

\* What is queued is executed.
LEMMA ExecuteMoves ==
    ASSUME AlphaAssumption, AlphaInv, AlphaInv', NEW id \in ids, execute(id), NEW i \in ids
    PROVE  MovesOn(i)
<1> DEFINE p == proposals[id]
<1>1. proposals' = [proposals EXCEPT ![id] = [p EXCEPT !.executed = TRUE]] /\ timestamp' = timestamp
    BY DEF execute, pausableExecuteTransactions, executeTransactions
<1>2. CASE i = id
  <2>1. proposals'[id] = [p EXCEPT !.executed = TRUE] /\ id \in ids'
    BY <1>1, ItsEntry
  <2>2. p \in ProposalRecords /\ IsSound(p, timestamp, votesAt) /\ timestamp \in Nat
    BY OfEach DEF AlphaInv, AlphaTypeOK
  <2> DEFINE q == proposals'[id]
  <2>3. q.eta = p.eta /\ q.executed # FALSE
    BY <2>1, <2>2, WithExecuted
  <2>4. q \in ProposalRecords /\ IsSound(q, timestamp, votesAt')
    BY <1>1, <2>1, OfEachNext
  <2>5. stateOf(p, timestamp) = "Queued"
    BY StateIs DEF execute
  <2> HIDE DEF p, q
  <2>6. p.eta # 0
    BY <2>2, <2>5, WaitingCases DEF IsWaiting
  <2>7. votingPeriod \in Nat /\ GRACE_PERIOD \in Nat
    BY CastNumbers
  <2>8. stateOf(q, timestamp) = "Executed"
    BY <2>2, <2>3, <2>4, <2>6, <2>7, StateCases, Zenon
  <2>9. state(id)' = "Executed" /\ state(id) = "Queued"
    BY <1>1, <2>8, StateIs DEF execute, q
  <2> QED BY <1>2, <2>9, FollowsIs DEF MovesOn
<1>3. CASE i # id
    BY <1>1, <1>3, OthersKept
<1> QED BY <1>2, <1>3

\* Time moves every proposal forward only.
LEMMA AdvanceBlockMoves ==
    ASSUME AlphaAssumption, AlphaInv, AlphaInv', AdvanceBlock, NEW i \in ids
    PROVE  MovesOn(i)
<1>1. timestamp' = timestamp + 1 /\ proposals' = proposals /\ ids' = ids
    BY DEF AdvanceBlock, AdvanceTimestamp, governorVars, ids, proposalCount
<1>2. proposals[i] \in ProposalRecords /\ IsSound(proposals[i], timestamp, votesAt) /\ timestamp \in Nat
    BY OfEach DEF AlphaInv, AlphaTypeOK
<1>3. IsSound(proposals[i], timestamp + 1, votesAt')
    BY <1>1, OfEachNext
<1>4. state(i)' = stateOf(proposals[i], timestamp + 1) /\ state(i) = stateOf(proposals[i], timestamp)
    BY <1>1, StateIs
<1>5. stateOf(proposals[i], timestamp + 1) # stateOf(proposals[i], timestamp)
        => stateOf(proposals[i], timestamp + 1) \in Follows[stateOf(proposals[i], timestamp)]
    BY <1>2, <1>3, StateNextBlock
<1> QED BY <1>4, <1>5 DEF MovesOn

\* A proposal only moves forward through its life (state, with every function that changes
\* what it computes from).
THEOREM AlphaStateNeverGoesBack == AlphaAssumption /\ AlphaSpec => StateNeverGoesBack
<1> SUFFICES ASSUME AlphaAssumption PROVE AlphaSpec => StateNeverGoesBack
    OBVIOUS
<1>1. ASSUME AlphaInv, AlphaInv', AlphaNext, NEW i \in ids PROVE MovesOn(i)
  <2>1. ASSUME proposals' = proposals, timestamp' = timestamp PROVE MovesOn(i)
    BY <2>1, StateKept DEF MovesOn
  <2>2. ASSUME NEW caller \in Actors, NEW actions \in Bundles, propose(caller, actions) PROVE MovesOn(i)
    <3>1. proposals'[i] = proposals[i] /\ timestamp' = timestamp
      <4>1. \E p : proposals' = Append(proposals, p)
        BY <2>2 DEF propose
      <4> QED BY <1>1, <2>2, <4>1 DEF propose, ids, proposalCount, AlphaInv, AlphaTypeOK
    <3> QED BY <3>1, StateKept DEF MovesOn
  <2>3. ASSUME NEW caller \in Actors, NEW id \in ids,
               cancel(caller, id) \/ \E support \in BOOLEAN : castVote(caller, id, support)
        PROVE  MovesOn(i)
    BY <1>1, <2>3, CancelMoves, CastVoteMoves
  <2>4. ASSUME NEW id \in ids, queue(id) \/ execute(id) PROVE MovesOn(i)
    BY <1>1, <2>4, QueueMoves, ExecuteMoves
  <2>5. ASSUME AdvanceBlock PROVE MovesOn(i)
    BY <1>1, <2>5, AdvanceBlockMoves
  <2>6. ASSUME NEW caller, NEW newGuardian, changeGuardian(caller, newGuardian) PROVE MovesOn(i)
    BY <2>1, <2>6 DEF changeGuardian
  <2>7. ASSUME NEW caller, NEW newAdmin, NEW eta,
               \/ queueSetTimelockPendingAdmin(caller, newAdmin, eta)
               \/ executeSetTimelockPendingAdmin(caller, newAdmin, eta)
        PROVE  MovesOn(i)
    BY <2>1, <2>7 DEF queueSetTimelockPendingAdmin, executeSetTimelockPendingAdmin, pausableQueueTransactions,
                      pausableExecuteTransactions, queueTransactions, executeTransactions, governorVars
  <2>8. ASSUME NEW caller, NEW txs, veto(caller, txs) PROVE MovesOn(i)
    BY <2>1, <2>8 DEF veto, vetoTransactions, governorVars
  <2>9. ASSUME NEW caller, NEW newAdmin, nominate(caller, newAdmin) PROVE MovesOn(i)
    BY <2>1, <2>9 DEF nominate, governorSetPendingAdmin, governorVars
  <2>10. ASSUME NEW caller, setPaused(caller) PROVE MovesOn(i)
    BY <2>1, <2>10 DEF setPaused, governorVars
  <2>11. ASSUME NEW newAdmin, acceptTimelockAdmin \/ succeed(newAdmin) PROVE MovesOn(i)
    BY <2>1, <2>11 DEF acceptTimelockAdmin, succeed, acceptAdmin, governorVars
  <2> QED BY <1>1, <2>2, <2>3, <2>4, <2>5, <2>6, <2>7, <2>8, <2>9, <2>10, <2>11 DEF AlphaNext, ids
<1>2. AlphaInv /\ AlphaInv' /\ [AlphaNext]_alphaVars
        => [\A id \in 1..proposalCount : state(id)' # state(id) => state(id)' \in Follows[state(id)]]_alphaVars
    BY <1>1 DEF MovesOn, ids
<1> QED BY <1>2, AlphaInvariant, PTL DEF AlphaSpec, StateNeverGoesBack

-----------------------------------------------------------------------------
\* The bisection of getPriorVotes is a recursive function.  That there is one is not a
\* matter of course: it is built interval by interval.
bisected(f, cps, b, interval) ==
    LET lower == interval[1]
        upper == interval[2]
        center == upper - (upper - lower) \div 2
    IN  IF upper <= lower THEN lower
        ELSE IF cps[center].fromBlock = b THEN center
        ELSE IF cps[center].fromBlock < b THEN f[<<center, upper>>]
        ELSE f[<<lower, center - 1>>]

\* What the search may look at.
Intervals(cps) == (1..Len(cps)) \X (1..Len(cps))

\* The function that priorCheckpoint chooses.
IsBisection(f, cps, b) ==
    f = [interval \in Intervals(cps) |-> bisected(f, cps, b, interval)]

\* priorCheckpoint is that function at the whole record.
LEMMA PriorCheckpointIs ==
    ASSUME NEW cps, NEW b
    PROVE  priorCheckpoint(cps, b) = (CHOOSE f : IsBisection(f, cps, b))[<<1, Len(cps)>>]
BY DEF priorCheckpoint, IsBisection, Intervals, bisected

\* The center of an interval of at least two is in it, and not its lower end.
LEMMA CenterIn ==
    ASSUME NEW lower \in Nat, NEW upper \in Nat, lower < upper
    PROVE  LET center == upper - (upper - lower) \div 2
           IN  center \in Nat /\ lower < center /\ center <= upper
OBVIOUS

\* The intervals are pairs of indexes.
LEMMA IntervalsAre ==
    ASSUME NEW cps, NEW l \in 1..Len(cps), NEW u \in 1..Len(cps)
    PROVE  <<l, u>> \in Intervals(cps)
BY DEF Intervals

\* Two searches that agree on every interval below a width.
AgreeBelow(cps, f, g, width) ==
    \A l, u \in 1..Len(cps) : u - l < width => f[<<l, u>>] = g[<<l, u>>]

\* What the search says of an interval depends on the smaller ones only.
LEMMA BisectedAgrees ==
    ASSUME NEW cps, Len(cps) \in Nat, NEW b, NEW f, NEW g,
           NEW lower \in 1..Len(cps), NEW upper \in 1..Len(cps),
           AgreeBelow(cps, f, g, upper - lower)
    PROVE  bisected(f, cps, b, <<lower, upper>>) = bisected(g, cps, b, <<lower, upper>>)
<1> DEFINE center == upper - (upper - lower) \div 2
<1>1. CASE upper <= lower
    BY <1>1 DEF bisected
<1>2. CASE lower < upper
  <2>1. center \in Nat /\ lower < center /\ center <= upper
    BY <1>2, CenterIn
  <2>2. /\ center \in 1..Len(cps) /\ center - 1 \in 1..Len(cps)
        /\ upper - center < upper - lower /\ center - 1 - lower < upper - lower
    BY <2>1
  <2> HIDE DEF center
  <2>3. f[<<center, upper>>] = g[<<center, upper>>] /\ f[<<lower, center - 1>>] = g[<<lower, center - 1>>]
    BY <2>2 DEF AgreeBelow
  <2> QED BY <2>3 DEF bisected, center
<1> QED BY <1>1, <1>2

\* Over any list of checkpoints the bisection of getPriorVotes is defined: by induction on
\* the width of the interval, as a least counterexample.
LEMMA BisectionExists ==
    ASSUME NEW cps, Len(cps) \in Nat, NEW b
    PROVE  \E f : IsBisection(f, cps, b)
<1> DEFINE Upto(f, n) == \A l, u \in 1..Len(cps) :
                u - l <= n => f[<<l, u>>] = bisected(f, cps, b, <<l, u>>)
           Bad == {n \in Nat : ~\E f : Upto(f, n)}
<1>1. Bad = {}
  <2> SUFFICES ASSUME Bad # {} PROVE FALSE
    OBVIOUS
  <2>1. PICK n \in Bad : \A m \in Bad : n <= m
    <3> Bad \in SUBSET Nat
      OBVIOUS
    <3> HIDE DEF Bad
    <3> QED BY LeastNat
  <2>2. n # 0
    <3> DEFINE f == [i \in Intervals(cps) |-> i[1]]
    <3>1. ASSUME NEW l \in 1..Len(cps), NEW u \in 1..Len(cps), u - l <= 0
          PROVE  f[<<l, u>>] = bisected(f, cps, b, <<l, u>>)
      <4>1. f[<<l, u>>] = l
        BY IntervalsAre
      <4>2. u <= l
        BY <3>1
      <4> HIDE DEF f
      <4> QED BY <4>1, <4>2 DEF bisected
    <3>2. Upto(f, 0)
      <4> HIDE DEF f
      <4> QED BY <3>1
    <3> QED BY <3>2, ZenonT(60)
  <2>3. n - 1 \in Nat /\ n - 1 \notin Bad
    <3>1. n \in Nat
      OBVIOUS
    <3> HIDE DEF Bad
    <3> QED BY <2>1, <2>2, <3>1
  <2>4. PICK f : Upto(f, n - 1)
    BY <2>3
  <2> DEFINE g == [i \in Intervals(cps) |->
                    IF i[2] - i[1] <= n - 1 THEN f[i] ELSE bisected(f, cps, b, i)]
  <2>5. ASSUME NEW l \in 1..Len(cps), NEW u \in 1..Len(cps)
        PROVE  g[<<l, u>>] = IF u - l <= n - 1 THEN f[<<l, u>>] ELSE bisected(f, cps, b, <<l, u>>)
    BY IntervalsAre
  <2> HIDE DEF g
  <2>6. ASSUME NEW l \in 1..Len(cps), NEW u \in 1..Len(cps), u - l <= n
        PROVE  g[<<l, u>>] = bisected(g, cps, b, <<l, u>>)
    <3>1. g[<<l, u>>] = bisected(f, cps, b, <<l, u>>)
      BY <2>4, <2>5
    <3>2. AgreeBelow(cps, f, g, u - l)
      BY <2>5, <2>6, SMTT(60) DEF AgreeBelow
    <3> HIDE DEF Bad, Upto
    <3>3. bisected(f, cps, b, <<l, u>>) = bisected(g, cps, b, <<l, u>>)
      BY <3>2, BisectedAgrees, SMTT(60)
    <3> QED BY <3>1, <3>3
  <2>7. Upto(g, n)
    BY <2>6
  <2> QED BY <2>7
<1>2. PICK f : Upto(f, Len(cps))
    BY <1>1
<1>3. ASSUME NEW l \in 1..Len(cps), NEW u \in 1..Len(cps)
      PROVE  f[<<l, u>>] = bisected(f, cps, b, <<l, u>>)
    BY <1>2
<1> DEFINE g == [i \in Intervals(cps) |-> f[i]]
<1> HIDE DEF Bad, Upto
<1>4. ASSUME NEW l \in 1..Len(cps), NEW u \in 1..Len(cps)
      PROVE  g[<<l, u>>] = bisected(g, cps, b, <<l, u>>)
  <2>1. \A x, y \in 1..Len(cps) : f[<<x, y>>] = g[<<x, y>>]
    BY IntervalsAre
  <2> HIDE DEF g
  <2>2. bisected(f, cps, b, <<l, u>>) = bisected(g, cps, b, <<l, u>>)
    <3>1. AgreeBelow(cps, f, g, u - l)
      BY <2>1 DEF AgreeBelow
    <3> QED BY <3>1, BisectedAgrees, SMTT(60)
  <2> QED BY <1>3, <2>1, <2>2
<1>5. g = [i \in Intervals(cps) |-> g[i]]
    OBVIOUS
<1> HIDE DEF g
<1>6. ASSUME NEW i \in Intervals(cps) PROVE g[i] = bisected(g, cps, b, i)
  <2>1. i = <<i[1], i[2]>> /\ i[1] \in 1..Len(cps) /\ i[2] \in 1..Len(cps)
    BY DEF Intervals
  <2> QED BY <1>4, <2>1
<1>7. [i \in Intervals(cps) |-> g[i]] = [i \in Intervals(cps) |-> bisected(g, cps, b, i)]
    BY <1>6, Zenon
<1>8. IsBisection(g, cps, b)
    BY <1>5, <1>7, Zenon DEF IsBisection
<1> QED BY <1>8

\* The limits of the machine integers.
LEMMA UINT32Int == UINT32 \in Int /\ UINT96 \in Int /\ (0..UINT32 - 1) \subseteq Nat /\ uint96 \subseteq Nat
BY TribeAssumption DEF uint96

-----------------------------------------------------------------------------
\* Blocks of the checkpoints are in order, at most one checkpoint each.
Ordered(cps) ==
    \A i, j \in 1..Len(cps) : i < j => cps[i].fromBlock < cps[j].fromBlock

\* k is the last checkpoint that is not after block b.
IsLastAt(cps, b, k) ==
    /\ k \in 1..Len(cps)
    /\ cps[k].fromBlock <= b
    /\ \A i \in 1..Len(cps) : k < i => b < cps[i].fromBlock

\* The bisection of getPriorVotes is correct: it finds the last checkpoint that is not
\* after the block, wherever that is.
LEMMA BisectionFinds ==
    ASSUME NEW cps \in Seq(Checkpoint), Ordered(cps), NEW b \in Nat,
           cps # <<>>, cps[1].fromBlock <= b, NEW f, IsBisection(f, cps, b)
    PROVE  IsLastAt(cps, b, f[<<1, Len(cps)>>])
<1> DEFINE Holds(l, u) == cps[l].fromBlock <= b /\ (\A i \in 1..Len(cps) : u < i => b < cps[i].fromBlock)
           Bad == {n \in Nat : \E l, u \in 1..Len(cps) :
                        l <= u /\ u - l = n /\ Holds(l, u) /\ ~IsLastAt(cps, b, f[<<l, u>>])}
<1>1. Len(cps) \in Nat /\ 1 \in 1..Len(cps) /\ Len(cps) \in 1..Len(cps)
    BY EmptySeq
<1>2. \A i \in 1..Len(cps) : cps[i].fromBlock \in Int
  <2>1. \A i \in 1..Len(cps) : cps[i] \in Checkpoint
    BY ElementOfSeq
  <2> QED BY <2>1, UINT32Int DEF Checkpoint
<1>3. Bad = {}
  <2> SUFFICES ASSUME Bad # {} PROVE FALSE
    OBVIOUS
  <2>1. PICK n \in Bad : \A m \in Bad : n <= m
    <3> Bad \in SUBSET Nat
      OBVIOUS
    <3> HIDE DEF Bad
    <3> QED BY LeastNat
  <2>2. PICK l \in 1..Len(cps), u \in 1..Len(cps) :
            l <= u /\ u - l = n /\ Holds(l, u) /\ ~IsLastAt(cps, b, f[<<l, u>>])
    OBVIOUS
  <2>3. ASSUME NEW x \in 1..Len(cps), NEW y \in 1..Len(cps), x <= y, y - x < u - l, Holds(x, y)
        PROVE  IsLastAt(cps, b, f[<<x, y>>])
    <3>1. y - x \in Nat /\ y - x \notin Bad
      <4>1. y - x \in Nat /\ ~(n <= y - x)
        BY <2>2, <2>3, <1>1, SMTT(60)
      <4> HIDE DEF Bad
      <4> QED BY <2>1, <4>1
    <3> QED BY <2>3, <3>1
  <2>4. f[<<l, u>>] = bisected(f, cps, b, <<l, u>>)
    <3>1. <<l, u>> \in Intervals(cps)
      BY IntervalsAre
    <3> QED BY <3>1, Zenon DEF IsBisection
  <2>5. CASE u <= l
    <3>1. f[<<l, u>>] = l /\ l = u
      BY <2>2, <2>4, <2>5 DEF bisected
    <3>2. IsLastAt(cps, b, l)
      BY <2>2, <3>1 DEF IsLastAt
    <3> QED BY <2>2, <3>1, <3>2
  <2>6. CASE l < u
    <3> DEFINE c == u - (u - l) \div 2
    <3>1. c \in Nat /\ l < c /\ c <= u
      BY <2>6, CenterIn
    <3>2. c \in 1..Len(cps) /\ c - 1 \in 1..Len(cps) /\ l <= c - 1
      BY <3>1
    <3>3. f[<<l, u>>] = IF cps[c].fromBlock = b THEN c
                        ELSE IF cps[c].fromBlock < b THEN f[<<c, u>>] ELSE f[<<l, c - 1>>]
      BY <2>4, <2>6 DEF bisected
    <3> HIDE DEF c
    <3>4. CASE cps[c].fromBlock = b
      <4>1. IsLastAt(cps, b, c)
        BY <1>1, <1>2, <3>2, <3>4 DEF IsLastAt, Ordered
      <4> QED BY <2>2, <3>3, <3>4, <4>1
    <3>5. CASE cps[c].fromBlock < b
      <4>1. IsLastAt(cps, b, f[<<c, u>>])
        <5>1. Holds(c, u)
          BY SMTT(60), <1>2, <2>2, <3>2, <3>5
        <5>2. u - c < u - l
          BY <3>1
        <5> QED BY <2>3, <3>1, <3>2, <5>1, <5>2
      <4> QED BY <1>2, <2>2, <3>2, <3>3, <3>5, <4>1
    <3>6. CASE cps[c].fromBlock > b
      <4>1. IsLastAt(cps, b, f[<<l, c - 1>>])
        <5>1. Holds(l, c - 1)
          <6>1. ASSUME NEW i \in 1..Len(cps), c - 1 < i PROVE b < cps[i].fromBlock
            BY <1>2, <3>2, <3>6, <6>1, SMTT(60) DEF Ordered
          <6> QED BY <2>2, <6>1
        <5>2. c - 1 - l < u - l
          BY <3>1
        <5> QED BY <2>3, <3>2, <5>1, <5>2
      <4> QED BY <1>2, <2>2, <3>2, <3>3, <3>6, <4>1
    <3> QED BY <1>2, <3>2, <3>4, <3>5, <3>6
  <2> QED BY <2>2, <2>5, <2>6
<1>4. Holds(1, Len(cps)) /\ Len(cps) - 1 \in Nat /\ 1 <= Len(cps)
    BY <1>1
<1> QED BY <1>1, <1>3, <1>4

-----------------------------------------------------------------------------
\* The votes in the record cps of one account: now, and at the end of block b.
votesNow(cps) == IF cps = <<>> THEN 0 ELSE cps[Len(cps)].votes

\* What the record says of the end of block b.
votesRecorded(cps, b) ==
    IF cps = <<>> THEN 0
    ELSE IF cps[Len(cps)].fromBlock <= b THEN cps[Len(cps)].votes
    ELSE IF cps[1].fromBlock > b THEN 0
    ELSE cps[priorCheckpoint(cps, b)].votes

\* The record once votes are written in block now.
written(cps, votes, now) ==
    IF Len(cps) > 0 /\ cps[Len(cps)].fromBlock = now
    THEN [cps EXCEPT ![Len(cps)].votes = votes]
    ELSE Append(cps, [fromBlock |-> now, votes |-> votes])

\* A record that is in order and not ahead of the block.
GoodRecord(cps, now) ==
    /\ cps \in Seq(Checkpoint)
    /\ Ordered(cps)
    /\ \A i \in 1..Len(cps) : cps[i].fromBlock <= now

\* A record consists of numbers.
LEMMA RecordNumbers ==
    ASSUME NEW cps \in Seq(Checkpoint)
    PROVE  /\ Len(cps) \in Nat
           /\ cps # <<>> <=> Len(cps) > 0
           /\ \A i \in 1..Len(cps) :
                cps[i] \in Checkpoint /\ cps[i].fromBlock \in Nat /\ cps[i].votes \in uint96
           /\ votesNow(cps) \in uint96
<1>1. Len(cps) \in Nat /\ (cps # <<>> <=> Len(cps) > 0)
    BY EmptySeq
<1>2. \A i \in 1..Len(cps) : cps[i] \in Checkpoint
    BY ElementOfSeq
<1>3. \A i \in 1..Len(cps) : cps[i].fromBlock \in Nat /\ cps[i].votes \in uint96
    BY <1>2, UINT32Int DEF Checkpoint
<1>4. 0 \in uint96
    BY TribeAssumption DEF uint96
<1>5. votesNow(cps) \in uint96
    BY <1>1, <1>3, <1>4 DEF votesNow
<1> QED BY <1>1, <1>2, <1>3, <1>5

\* The look-up of a past block returns what its last checkpoint says.
LEMMA VotesRecordedLast ==
    ASSUME NEW cps \in Seq(Checkpoint), Ordered(cps), NEW b \in Nat, NEW k, IsLastAt(cps, b, k)
    PROVE  votesRecorded(cps, b) = cps[k].votes
<1>1. /\ Len(cps) \in Nat
      /\ \A i \in 1..Len(cps) : cps[i].fromBlock \in Nat
      /\ k \in 1..Len(cps) /\ 1 \in 1..Len(cps) /\ Len(cps) \in 1..Len(cps) /\ cps # <<>>
    BY RecordNumbers DEF IsLastAt
<1>2. CASE cps[Len(cps)].fromBlock <= b
  <2>1. k = Len(cps)
    BY <1>1, <1>2 DEF IsLastAt
  <2> QED BY <1>1, <1>2, <2>1 DEF votesRecorded
<1>3. CASE ~(cps[Len(cps)].fromBlock <= b)
  <2>1. cps[1].fromBlock <= cps[k].fromBlock
    BY <1>1 DEF Ordered
  <2>2. cps[1].fromBlock <= b
    BY <1>1, <2>1 DEF IsLastAt
  <2> DEFINE f == CHOOSE c : IsBisection(c, cps, b)
             n == priorCheckpoint(cps, b)
  <2>3. IsBisection(f, cps, b)
    BY <1>1, BisectionExists
  <2>4. n = f[<<1, Len(cps)>>]
    BY PriorCheckpointIs
  <2> HIDE DEF f, n
  <2>5. IsLastAt(cps, b, n)
    BY <1>1, <2>2, <2>3, <2>4, BisectionFinds
  <2>6. n = k
    BY <1>1, <2>5 DEF IsLastAt
  <2> QED BY <1>1, <1>3, <2>2, <2>6 DEF votesRecorded, n
<1> QED BY <1>2, <1>3

\* Before the first checkpoint there are no votes.
LEMMA VotesRecordedNone ==
    ASSUME NEW cps \in Seq(Checkpoint), NEW b \in Nat, \A i \in 1..Len(cps) : cps[i].fromBlock > b
    PROVE  votesRecorded(cps, b) = 0
<1>1. CASE cps = <<>>
    BY <1>1 DEF votesRecorded
<1>2. CASE cps # <<>>
  <2>1. 1 \in 1..Len(cps) /\ Len(cps) \in 1..Len(cps) /\ cps[Len(cps)].fromBlock \in Nat
    BY <1>2, RecordNumbers
  <2> QED BY <1>2, <2>1 DEF votesRecorded
<1> QED BY <1>1, <1>2

\* One or the other is the case.
LEMMA LastExists ==
    ASSUME NEW cps \in Seq(Checkpoint), Ordered(cps), NEW b \in Nat
    PROVE  (\E k : IsLastAt(cps, b, k)) \/ \A i \in 1..Len(cps) : cps[i].fromBlock > b
<1>0. Len(cps) \in Nat /\ \A i \in 1..Len(cps) : cps[i].fromBlock \in Nat
    BY RecordNumbers
<1>1. CASE cps = <<>> \/ cps[1].fromBlock > b
    BY <1>0, <1>1, RecordNumbers DEF Ordered
<1>2. CASE cps # <<>> /\ cps[1].fromBlock <= b
    BY <1>0, <1>2, BisectionExists, BisectionFinds
<1>3. cps # <<>> => 1 \in 1..Len(cps)
    BY <1>0, RecordNumbers
<1> QED BY <1>0, <1>1, <1>2, <1>3

\* The votes of the block that is ending are the current ones.
LEMMA VotesRecordedEnd ==
    ASSUME NEW now \in Nat, NEW cps, GoodRecord(cps, now)
    PROVE  votesRecorded(cps, now) = votesNow(cps)
<1>1. cps # <<>> => Len(cps) \in 1..Len(cps)
    BY RecordNumbers DEF GoodRecord
<1> QED BY <1>1 DEF votesRecorded, votesNow, GoodRecord

\* Writing a checkpoint keeps the record in order, sets the current votes and changes
\* those of no past block, whether it overwrites the checkpoint of this block or appends.
LEMMA WrittenRecord ==
    ASSUME NEW now \in 0..UINT32 - 1, NEW cps, GoodRecord(cps, now), NEW votes \in uint96,
           NEW w, w = written(cps, votes, now)
    PROVE  /\ GoodRecord(w, now)
           /\ votesNow(w) = votes
           /\ \A b \in Nat : b < now => votesRecorded(w, b) = votesRecorded(cps, b)
<1> DEFINE n == Len(cps)
<1>1. /\ cps \in Seq(Checkpoint) /\ Ordered(cps) /\ n \in Nat /\ now \in Nat
      /\ \A i \in 1..n : /\ cps[i] \in Checkpoint /\ cps[i].fromBlock \in Nat /\ cps[i].votes \in uint96
                         /\ cps[i].fromBlock <= now
    BY RecordNumbers, UINT32Int DEF GoodRecord
\* k checkpoints of the record stay as they are, and one of this block follows.
<1>2. PICK k \in Nat :
        /\ k <= n /\ n <= k + 1
        /\ \A i \in 1..n : k < i => cps[i].fromBlock = now
        /\ w \in Seq(Checkpoint) /\ Len(w) = k + 1
        /\ \A i \in 1..k : w[i] = cps[i] /\ w[i].fromBlock < now
        /\ w[k + 1].fromBlock = now /\ w[k + 1].votes = votes
  <2>1. CASE n > 0 /\ cps[n].fromBlock = now
    <3> DEFINE e == [cps[n] EXCEPT !.votes = votes]
    <3>1. w = [cps EXCEPT ![n] = e]
      BY <2>1 DEF written
    <3>2. n \in 1..n /\ cps[n] \in Checkpoint
      BY <1>1, <2>1
    <3>3. e \in Checkpoint /\ e.fromBlock = now /\ e.votes = votes
      BY <2>1, <3>2 DEF Checkpoint
    <3> HIDE DEF e, n
    <3>4. w \in Seq(Checkpoint) /\ Len(w) = n /\ w[n] = e /\ \A i \in 1..n : i # n => w[i] = cps[i]
      BY <1>1, <3>1, <3>2, <3>3, ExceptSeq DEF n
    <3>5. \A i \in 1..n - 1 : w[i] = cps[i] /\ w[i].fromBlock < now
      <4>1. ASSUME NEW i \in 1..n - 1 PROVE i \in 1..n /\ i # n /\ i < n
        BY <1>1
      <4> QED BY <2>1, <3>2, <3>4, <4>1, <1>1 DEF Ordered, n
    <3>6. \A i \in 1..n : n - 1 < i => i = n
      BY <1>1
    <3>7. n - 1 \in Nat /\ n - 1 <= n /\ n <= (n - 1) + 1 /\ (n - 1) + 1 = n
      BY <1>1, <2>1
    <3> QED BY <2>1, <3>3, <3>4, <3>5, <3>6, <3>7
  <2>2. CASE ~(n > 0 /\ cps[n].fromBlock = now)
    <3> DEFINE e == [fromBlock |-> now, votes |-> votes]
    <3>1. w = Append(cps, e)
      BY <2>2 DEF written
    <3>2. e \in Checkpoint /\ e.fromBlock = now /\ e.votes = votes
      BY DEF Checkpoint
    <3> HIDE DEF e, n
    <3>3. w \in Seq(Checkpoint) /\ Len(w) = n + 1 /\ w[n + 1] = e /\ \A i \in 1..n : w[i] = cps[i]
      BY <1>1, <3>1, <3>2 DEF n
    <3>4. \A i \in 1..n : cps[i].fromBlock < now
      <4>1. ASSUME NEW i \in 1..n PROVE n \in 1..n /\ n > 0 /\ (i < n \/ i = n)
        BY <1>1
      <4>2. ASSUME NEW i \in 1..n PROVE cps[i].fromBlock <= cps[n].fromBlock
        BY <4>1, <1>1 DEF Ordered, n
      <4>3. ASSUME NEW i \in 1..n PROVE cps[n].fromBlock \in Nat /\ cps[n].fromBlock <= now /\ cps[n].fromBlock # now
        BY <4>1, <1>1, <2>2
      <4> QED BY SMTT(60), <4>2, <4>3, <1>1
    <3>5. n \in Nat /\ n <= n /\ n <= n + 1 /\ \A i \in 1..n : ~(n < i)
      BY <1>1
    <3> QED BY <3>2, <3>3, <3>4, <3>5
  <2> QED BY <2>1, <2>2
<1> HIDE DEF n
<1>3. \A i \in 1..Len(w) : i \in 1..k \/ i = k + 1
    BY <1>2
<1>4. \A i \in 1..Len(w) : w[i].fromBlock \in Nat
    BY <1>2, RecordNumbers
<1>5. \A i \in 1..k : i \in 1..n /\ i \in 1..Len(w)
    BY <1>1, <1>2
<1>6. k + 1 \in 1..Len(w)
    BY <1>2
<1>7. Ordered(w)
  <2> SUFFICES ASSUME NEW i \in 1..Len(w), NEW j \in 1..Len(w), i < j
               PROVE  w[i].fromBlock < w[j].fromBlock
    BY DEF Ordered
  <2>1. i \in 1..k
    BY <1>2, <1>3
  <2>2. CASE j \in 1..k
    <3>1. cps[i].fromBlock < cps[j].fromBlock
      BY <1>1, <1>5, <2>1, <2>2 DEF Ordered, n
    <3> QED BY <1>2, <2>1, <2>2, <3>1
  <2>3. CASE j = k + 1
    BY <1>2, <2>1, <2>3
  <2> QED BY <1>3, <2>2, <2>3
<1>8. GoodRecord(w, now)
  <2>1. \A i \in 1..Len(w) : w[i].fromBlock <= now
    BY <1>1, <1>2, <1>3, <1>4
  <2> QED BY <1>2, <1>7, <2>1 DEF GoodRecord
<1>9. votesNow(w) = votes
  <2>1. w # <<>>
    BY <1>2, RecordNumbers
  <2> QED BY <1>2, <2>1 DEF votesNow
<1>10. ASSUME NEW b \in Nat, b < now PROVE votesRecorded(w, b) = votesRecorded(cps, b)
  <2>1. CASE \E j : IsLastAt(cps, b, j)
    <3>1. PICK j : IsLastAt(cps, b, j)
      BY <2>1
    <3>2. j \in 1..n /\ cps[j].fromBlock <= b
      BY <3>1 DEF IsLastAt, n
    <3>3. j \in 1..k
      BY <1>1, <1>2, <1>10, <3>2
    <3>4. ASSUME NEW i \in 1..Len(w), j < i PROVE b < w[i].fromBlock
      <4>1. CASE i \in 1..k
        BY <1>2, <1>5, <3>1, <3>4, <4>1 DEF IsLastAt, n
      <4>2. CASE i = k + 1
        BY <1>2, <1>10, <4>2
      <4> QED BY <1>3, <4>1, <4>2
    <3>5. IsLastAt(w, b, j)
      BY <1>2, <1>5, <3>2, <3>3, <3>4 DEF IsLastAt
    <3>6. votesRecorded(w, b) = w[j].votes /\ votesRecorded(cps, b) = cps[j].votes
      BY <1>1, <1>2, <1>7, <3>1, <3>5, VotesRecordedLast
    <3> QED BY <1>2, <3>3, <3>6
  <2>2. CASE \A j \in 1..Len(cps) : cps[j].fromBlock > b
    <3>1. ASSUME NEW i \in 1..Len(w) PROVE w[i].fromBlock > b
      <4>1. CASE i \in 1..k
        BY <1>2, <1>5, <2>2, <4>1 DEF n
      <4>2. CASE i = k + 1
        BY <1>2, <1>10, <4>2
      <4> QED BY <1>3, <4>1, <4>2
    <3>2. votesRecorded(w, b) = 0 /\ votesRecorded(cps, b) = 0
      BY <1>1, <1>2, <2>2, <3>1, VotesRecordedNone
    <3> QED BY <3>2
  <2> QED BY <1>1, <2>1, <2>2, LastExists
<1> QED BY <1>8, <1>9, <1>10

-----------------------------------------------------------------------------
\* The records of all accounts.
GoodRecords(c, now) ==
    /\ c \in [Accounts -> Seq(Checkpoint)]
    /\ \A a \in Accounts : GoodRecord(c[a], now)

\* Two records agree on all blocks before now.
SamePast(c, d, now) == \A a \in Accounts, b \in Nat : b < now => votesRecorded(d[a], b) = votesRecorded(c[a], b)

\* A checkpoint written for one delegate changes that record only, and not its past.
LEMMA WriteOne ==
    ASSUME NEW c, GoodRecords(c, block), block \in 0..UINT32 - 1,
           NEW rep \in Accounts, NEW votes \in uint96, NEW d, d = writeCheckpoint(c, rep, votes)
    PROVE  /\ GoodRecords(d, block) /\ SamePast(c, d, block)
           /\ votesNow(d[rep]) = votes
           /\ \A a \in Accounts \ {rep} : d[a] = c[a]
<1> DEFINE w == written(c[rep], votes, block)
<1>1. d = [c EXCEPT ![rep] = w]
    BY DEF writeCheckpoint, written, GoodRecords
<1>2. GoodRecord(c[rep], block)
    BY DEF GoodRecords
<1>3. /\ GoodRecord(w, block) /\ votesNow(w) = votes
      /\ \A b \in Nat : b < block => votesRecorded(w, b) = votesRecorded(c[rep], b)
    BY <1>2, WrittenRecord
<1> HIDE DEF w
<1>4. /\ d \in [Accounts -> Seq(Checkpoint)]
      /\ d[rep] = w /\ \A a \in Accounts \ {rep} : d[a] = c[a]
    BY <1>1, <1>3 DEF GoodRecords, GoodRecord
<1>5. \A a \in Accounts : GoodRecord(d[a], block)
    BY <1>3, <1>4 DEF GoodRecords
<1>6. SamePast(c, d, block)
    BY <1>3, <1>4 DEF SamePast
<1> QED BY <1>3, <1>4, <1>5, <1>6 DEF GoodRecords

\* What a move of votes takes from an account.
Taken(a, src, amount) == IF a = src THEN amount ELSE 0

\* Moving votes takes them from one delegate and gives them to the other, and leaves the
\* past alone (_moveDelegates).
LEMMA VotesMove ==
    ASSUME GoodRecords(checkpoints, block), block \in Nat, NoAddress \notin Accounts,
           NEW src \in Accounts \cup {NoAddress}, NEW dst \in Accounts \cup {NoAddress},
           NEW amount \in Nat, moveDelegates(src, dst, amount)
    PROVE  /\ GoodRecords(checkpoints', block) /\ SamePast(checkpoints, checkpoints', block)
           /\ \A a \in Accounts :
                votesNow(checkpoints'[a])
                    = votesNow(checkpoints[a]) - Taken(a, src, amount) + Taken(a, dst, amount)
<1>0. /\ \A a \in Accounts : getCurrentVotes(a) = votesNow(checkpoints[a])
      /\ \A a \in Accounts : votesNow(checkpoints[a]) \in uint96 /\ votesNow(checkpoints[a]) \in Nat
      /\ checkpoints' = votesMoved(src, dst, amount)
      /\ votesMovable(src, dst, amount)
  <2>1. \A a \in Accounts : getCurrentVotes(a) = votesNow(checkpoints[a])
    BY DEF getCurrentVotes, votesNow
  <2>2. \A a \in Accounts : votesNow(checkpoints[a]) \in uint96
    BY RecordNumbers DEF GoodRecords
  <2> QED BY <2>1, <2>2, UINT32Int DEF moveDelegates
<1>1. CASE src = dst \/ amount = 0
  <2>1. checkpoints' = checkpoints
    BY <1>0, <1>1 DEF votesMoved
  <2> QED BY <1>0, <1>1, <2>1 DEF SamePast, Taken
<1>2. CASE src # dst /\ amount # 0
  <2>0. /\ block \in 0..UINT32 - 1
        /\ src # NoAddress => amount <= votesNow(checkpoints[src])
        /\ dst # NoAddress => votesNow(checkpoints[dst]) + amount < UINT96
    BY <1>0, <1>2, UINT32Int DEF votesMovable
  <2> DEFINE less == votesNow(checkpoints[src]) - amount
             more == votesNow(checkpoints[dst]) + amount
             taken == IF src = NoAddress THEN checkpoints ELSE writeCheckpoint(checkpoints, src, less)
  <2>1. /\ src # NoAddress => less \in uint96
        /\ dst # NoAddress => more \in uint96
    BY <1>0, <2>0, UINT32Int DEF uint96
  <2>2. /\ src = NoAddress => taken = checkpoints
        /\ src # NoAddress => taken = writeCheckpoint(checkpoints, src, less)
        /\ dst = NoAddress => checkpoints' = taken
        /\ dst # NoAddress => checkpoints' = writeCheckpoint(taken, dst, more)
    BY <1>0, <1>2 DEF votesMoved
  <2>3. /\ GoodRecords(taken, block) /\ SamePast(checkpoints, taken, block)
        /\ \A a \in Accounts : a # src => taken[a] = checkpoints[a]
        /\ src # NoAddress => votesNow(taken[src]) = less
    <3> HIDE DEF less, more, taken
    <3>1. CASE src = NoAddress
      BY <2>2, <3>1 DEF SamePast
    <3>2. CASE src # NoAddress
      BY <2>0, <2>1, <2>2, <3>2, WriteOne
    <3> QED BY <3>1, <3>2
  <2>4. /\ GoodRecords(checkpoints', block) /\ SamePast(taken, checkpoints', block)
        /\ \A a \in Accounts : a # dst => checkpoints'[a] = taken[a]
        /\ dst # NoAddress => votesNow(checkpoints'[dst]) = more
    <3> HIDE DEF less, more, taken
    <3>1. CASE dst = NoAddress
      BY <2>2, <2>3, <3>1 DEF SamePast
    <3>2. CASE dst # NoAddress
      BY <2>0, <2>1, <2>2, <2>3, <3>2, WriteOne, SMTT(60)
    <3> QED BY <3>1, <3>2
  <2>5. SamePast(checkpoints, checkpoints', block)
    BY <2>3, <2>4 DEF SamePast
  <2>6. ASSUME NEW a \in Accounts
        PROVE  votesNow(checkpoints'[a])
                 = votesNow(checkpoints[a]) - Taken(a, src, amount) + Taken(a, dst, amount)
    <3> HIDE DEF taken
    <3>1. CASE a = src
      BY <1>0, <1>2, <2>3, <2>4, <3>1 DEF Taken
    <3>2. CASE a = dst
      BY <1>0, <1>2, <2>3, <2>4, <3>2 DEF Taken
    <3>3. CASE a # src /\ a # dst
      BY <1>0, <2>3, <2>4, <3>3 DEF Taken
    <3> QED BY <3>1, <3>2, <3>3
  <2> QED BY <2>4, <2>5, <2>6
<1> QED BY <1>1, <1>2

-----------------------------------------------------------------------------
\* The balances delegated to rep.
delegated(bal, del, rep) == SumFunctionOnSet(bal, {a \in Accounts : del[a] = rep})

\* The inductive invariant: every delegate has the votes delegated to it, and all balances
\* add up to the supply, which is what keeps the additions of votes below 2^96.
TribeInv ==
    /\ TribeTypeOK
    /\ GoodRecords(checkpoints, block)
    /\ totalSupply = SumFunctionOnSet(balances, Accounts)
    /\ \A rep \in Accounts : votesNow(checkpoints[rep]) = delegated(balances, delegates, rep)

\* Finitely many delegate to an account.
LEMMA DelegatorsFinite ==
    ASSUME NEW del, NEW rep
    PROVE  IsFiniteSet({a \in Accounts : del[a] = rep})
BY TribeAssumption, FS_Subset

\* From bal to bal2 the balance of who grows by d.
IsCredit(bal, bal2, who, d) ==
    /\ who \in Accounts /\ d \in Int
    /\ \A a \in Accounts : bal[a] \in Int /\ bal2[a] = IF a = who THEN bal[a] + d ELSE bal[a]

\* One balance grows by d: so do the sums it is part of.
LEMMA CreditOne ==
    ASSUME NEW bal, NEW bal2, NEW who, NEW d, IsCredit(bal, bal2, who, d)
    PROVE  /\ SumFunctionOnSet(bal2, Accounts) = SumFunctionOnSet(bal, Accounts) + d
           /\ \A del, rep : delegated(bal2, del, rep)
                                = delegated(bal, del, rep) + (IF del[who] = rep THEN d ELSE 0)
           /\ SumFunctionOnSet(bal, Accounts) \in Int
           /\ \A del, rep : delegated(bal, del, rep) \in Int
<1> USE DEF IsCredit
<1>1. SumFunctionOnSet(bal2, Accounts) = SumFunctionOnSet(bal, Accounts) + d
    BY TribeAssumption, SumCredit
<1>2. ASSUME NEW del, NEW rep
      PROVE  delegated(bal2, del, rep) = delegated(bal, del, rep) + (IF del[who] = rep THEN d ELSE 0)
  <2> DEFINE S == {a \in Accounts : del[a] = rep}
  <2>1. IsFiniteSet(S) /\ S \subseteq Accounts /\ (who \in S <=> del[who] = rep)
    BY DelegatorsFinite
  <2>2. /\ \A x \in S : bal[x] \in Int
        /\ \A x \in S : bal2[x] = IF x = who THEN bal[x] + d ELSE bal[x]
    OBVIOUS
  <2> HIDE DEF S
  <2>3. SumFunctionOnSet(bal2, S) = SumFunctionOnSet(bal, S) + (IF who \in S THEN d ELSE 0)
    BY <2>1, <2>2, SumCredit
  <2> QED BY <2>1, <2>3 DEF delegated, S
<1>3. ASSUME NEW del, NEW rep PROVE delegated(bal, del, rep) \in Int
  <2>1. IsFiniteSet({a \in Accounts : del[a] = rep})
    BY DelegatorsFinite
  <2> QED BY <2>1, SumInt DEF delegated
<1>4. SumFunctionOnSet(bal, Accounts) \in Int
    BY TribeAssumption, SumInt
<1> QED BY <1>1, <1>2, <1>3, <1>4

\* From del to del2 who delegates to another.
IsDelegation(bal, del, del2, who, to) ==
    /\ who \in Accounts /\ \A a \in Accounts : bal[a] \in Int
    /\ \A a \in Accounts : del2[a] = IF a = who THEN to ELSE del[a]

\* One account delegates to another: its balance changes sides.
LEMMA DelegateOne ==
    ASSUME NEW bal, NEW del, NEW del2, NEW who, NEW to, IsDelegation(bal, del, del2, who, to), NEW rep
    PROVE  delegated(bal, del2, rep)
            = delegated(bal, del, rep) - Taken(rep, del[who], bal[who]) + Taken(rep, to, bal[who])
<1> USE DEF IsDelegation
<1> DEFINE S == {a \in Accounts : del[a] = rep}
           R == S \ {who}
           T == {a \in Accounts : del2[a] = rep}
<1>1. IsFiniteSet(S) /\ IsFiniteSet(R) /\ IsFiniteSet(T)
  <2>1. IsFiniteSet(S) /\ IsFiniteSet(T)
    BY DelegatorsFinite
  <2> HIDE DEF S
  <2> QED BY <2>1, FS_Subset
<1>2. /\ S = IF del[who] = rep THEN R \cup {who} ELSE R
      /\ T = IF to = rep THEN R \cup {who} ELSE R
      /\ who \notin R /\ \A x \in R \cup {who} : bal[x] \in Int
    OBVIOUS
<1> HIDE DEF S, R, T
<1>3. SumFunctionOnSet(bal, R \cup {who}) = bal[who] + SumFunctionOnSet(bal, R)
    BY <1>1, <1>2, SumAdd
<1>4. SumFunctionOnSet(bal, R) \in Int /\ bal[who] \in Int
    BY <1>1, <1>2, SumInt
<1>5. SumFunctionOnSet(bal, S) = SumFunctionOnSet(bal, R) + Taken(rep, del[who], bal[who])
    BY <1>2, <1>3, <1>4 DEF Taken
<1>6. SumFunctionOnSet(bal, T) = SumFunctionOnSet(bal, R) + Taken(rep, to, bal[who])
    BY <1>2, <1>3, <1>4 DEF Taken
<1>7. Taken(rep, del[who], bal[who]) \in Int /\ Taken(rep, to, bal[who]) \in Int
    BY <1>4 DEF Taken
<1>8. delegated(bal, del2, rep) = SumFunctionOnSet(bal, T) /\ delegated(bal, del, rep) = SumFunctionOnSet(bal, S)
    BY DEF delegated, S, T
<1> QED BY <1>4, <1>5, <1>6, <1>7, <1>8

\* The token starts in its invariant: the whole supply with the treasury, nobody delegating.
LEMMA TribeInitial == TribeInit => TribeInv
<1> SUFFICES ASSUME TribeInit PROVE TribeInv
    OBVIOUS
<1> USE DEF TribeInit
<1>0. InitialSupply \in uint96 /\ 0 \in uint96 /\ IsFiniteSet(Accounts) /\ Treasury \in Accounts
    BY TribeAssumption DEF uint96
<1>1. /\ balances \in [Accounts -> uint96] /\ allowances \in [Accounts -> [Spenders -> uint96]]
      /\ checkpoints \in [Accounts -> Seq(Checkpoint)] /\ totalSupply \in uint96
    BY <1>0
<1>2. TribeTypeOK
    BY <1>1, TribeAssumption DEF TribeTypeOK
<1>3. GoodRecords(checkpoints, block)
    BY <1>1 DEF GoodRecords, GoodRecord, Ordered
<1> DEFINE none == [a \in Accounts |-> 0]
<1>4. SumFunctionOnSet(none, Accounts) = 0
    BY <1>0, SumZero
<1>5. SumFunctionOnSet(balances, Accounts) = InitialSupply
  <2>1. \A a \in Accounts : balances[a] = IF a = Treasury THEN none[a] + InitialSupply ELSE none[a]
    BY <1>0, UINT32Int
  <2>2. \A a \in Accounts : none[a] \in Int
    OBVIOUS
  <2>3. InitialSupply \in Int
    BY <1>0, UINT32Int
  <2> HIDE DEF none, TribeInit
  <2>4. SumFunctionOnSet(balances, Accounts) = SumFunctionOnSet(none, Accounts) + InitialSupply
    BY <1>0, <2>1, <2>2, <2>3, SumCredit
  <2> QED BY <1>4, <2>3, <2>4
<1>6. ASSUME NEW rep \in Accounts PROVE votesNow(checkpoints[rep]) = delegated(balances, delegates, rep)
  <2>1. {a \in Accounts : delegates[a] = rep} = {}
    BY TribeAssumption
  <2>2. votesNow(checkpoints[rep]) = 0
    BY DEF votesNow
  <2> QED BY <2>1, <2>2, SumOfNothing DEF delegated
<1> QED BY <1>2, <1>3, <1>5, <1>6 DEF TribeInv

-----------------------------------------------------------------------------
\* What every step that keeps the block does to the records.
PastKept == block' = block /\ SamePast(checkpoints, checkpoints', block)

\* The numbers of the token.
LEMMA InvNumbers ==
    ASSUME TribeInv
    PROVE  /\ block \in Nat /\ totalSupply \in Nat /\ totalSupply < UINT96
           /\ \A a \in Accounts : balances[a] \in Nat /\ balances[a] < UINT96
           /\ DOMAIN balances = Accounts
           /\ \A rep \in Accounts : votesNow(checkpoints[rep]) \in Nat
           /\ NoAddress \notin Accounts
<1>1. \A rep \in Accounts : votesNow(checkpoints[rep]) \in uint96
    BY RecordNumbers DEF TribeInv, GoodRecords
<1>2. \A x \in uint96 : x \in Nat /\ x < UINT96
    BY UINT32Int DEF uint96
<1> QED BY <1>1, <1>2, TribeAssumption DEF TribeInv, TribeTypeOK

\* Whatever touches neither balances nor delegates nor records.
LEMMA PaperKeeps ==
    ASSUME TribeInv, TribeTypeOK',
           UNCHANGED <<block, totalSupply, balances, delegates, checkpoints>>
    PROVE  TribeInv' /\ PastKept
BY DEF TribeInv, PastKept, SamePast

\* A mint.
LEMMA MintKeeps ==
    ASSUME TribeInv, NEW caller, NEW dst \in Accounts, NEW amount \in Nat, mint(caller, dst, amount)
    PROVE  TribeInv' /\ PastKept
<1>0. /\ block' = block /\ delegates' = delegates /\ totalSupply' = totalSupply + amount
      /\ balances' = [balances EXCEPT ![dst] = @ + amount]
      /\ totalSupply + amount < UINT96 /\ balances[dst] + amount < UINT96
      /\ moveDelegates(NoAddress, delegates[dst], amount)
      /\ delegates[dst] \in Accounts \cup {NoAddress}
    BY DEF mint, TribeInv, TribeTypeOK
<1>1. /\ GoodRecords(checkpoints', block) /\ SamePast(checkpoints, checkpoints', block)
      /\ \A a \in Accounts :
            votesNow(checkpoints'[a])
                = votesNow(checkpoints[a]) - Taken(a, NoAddress, amount) + Taken(a, delegates[dst], amount)
    BY <1>0, InvNumbers, VotesMove DEF TribeInv
<1>2. \A a \in Accounts : balances'[a] = IF a = dst THEN balances[a] + amount ELSE balances[a]
    BY <1>0, InvNumbers
<1>3. /\ SumFunctionOnSet(balances', Accounts) = SumFunctionOnSet(balances, Accounts) + amount
      /\ \A rep \in Accounts : delegated(balances', delegates, rep)
            = delegated(balances, delegates, rep) + (IF delegates[dst] = rep THEN amount ELSE 0)
  <2>1. IsCredit(balances, balances', dst, amount)
    BY <1>2, InvNumbers DEF IsCredit
  <2> QED BY <2>1, CreditOne
<1>4. TribeTypeOK'
  <2>1. totalSupply' \in uint96 /\ balances' \in [Accounts -> uint96]
    <3>1. totalSupply + amount \in uint96 /\ balances[dst] + amount \in uint96
      BY <1>0, InvNumbers, UINT32Int DEF uint96
    <3> QED BY <1>0, <3>1 DEF TribeInv, TribeTypeOK
  <2>2. checkpoints' \in [Accounts -> Seq(Checkpoint)]
    BY <1>1 DEF GoodRecords
  <2> QED BY <2>1, <2>2 DEF mint, TribeInv, TribeTypeOK
<1>5. ASSUME NEW rep \in Accounts PROVE votesNow(checkpoints'[rep]) = delegated(balances', delegates, rep)
  <2>1. Taken(rep, NoAddress, amount) = 0
        /\ Taken(rep, delegates[dst], amount) = IF delegates[dst] = rep THEN amount ELSE 0
    BY InvNumbers DEF Taken
  <2> QED BY <1>1, <1>3, <2>1, InvNumbers DEF TribeInv
<1> QED BY <1>0, <1>1, <1>3, <1>4, <1>5 DEF TribeInv, PastKept

\* A transfer.
LEMMA TransferKeeps ==
    ASSUME TribeInv, NEW src \in Accounts, NEW dst \in Accounts, NEW amount \in Nat,
           transferTokens(src, dst, amount), allowances' \in [Accounts -> [Spenders -> uint96]]
    PROVE  TribeInv' /\ PastKept
<1> DEFINE debited == [balances EXCEPT ![src] = @ - amount]
<1>0. /\ block' = block /\ delegates' = delegates /\ totalSupply' = totalSupply
      /\ amount <= balances[src] /\ debited[dst] + amount < UINT96
      /\ balances' = [debited EXCEPT ![dst] = @ + amount]
      /\ moveDelegates(delegates[src], delegates[dst], amount)
      /\ delegates[src] \in Accounts \cup {NoAddress}
      /\ delegates[dst] \in Accounts \cup {NoAddress}
    BY DEF transferTokens, TribeInv, TribeTypeOK
<1>1. /\ GoodRecords(checkpoints', block) /\ SamePast(checkpoints, checkpoints', block)
      /\ \A a \in Accounts :
            votesNow(checkpoints'[a])
                = votesNow(checkpoints[a]) - Taken(a, delegates[src], amount) + Taken(a, delegates[dst], amount)
    BY <1>0, InvNumbers, VotesMove DEF TribeInv
<1>2. /\ \A a \in Accounts : debited[a] = IF a = src THEN balances[a] + (-amount) ELSE balances[a]
      /\ DOMAIN debited = Accounts
      /\ \A a \in Accounts : debited[a] \in uint96 /\ debited[a] \in Nat
  <2>1. balances \in [Accounts -> uint96] /\ \A a \in Accounts : balances[a] \in Nat
    BY InvNumbers DEF TribeInv, TribeTypeOK
  <2>2. balances[src] - amount \in uint96 /\ balances[src] - amount = balances[src] + (-amount)
    BY <1>0, <2>1, InvNumbers, UINT32Int DEF uint96
  <2> QED BY <2>1, <2>2, UINT32Int
<1> HIDE DEF debited
<1>3. /\ \A a \in Accounts : balances'[a] = IF a = dst THEN debited[a] + amount ELSE debited[a]
      /\ balances' \in [Accounts -> uint96]
  <2>1. debited[dst] + amount \in uint96
    BY <1>0, <1>2, UINT32Int DEF uint96
  <2>2. debited \in [Accounts -> uint96]
    BY <1>2 DEF debited
  <2> QED BY <1>0, <2>1, <2>2
<1>4. /\ SumFunctionOnSet(debited, Accounts) = SumFunctionOnSet(balances, Accounts) + (-amount)
      /\ \A rep \in Accounts : delegated(debited, delegates, rep)
            = delegated(balances, delegates, rep) + (IF delegates[src] = rep THEN -amount ELSE 0)
      /\ SumFunctionOnSet(balances, Accounts) \in Int
  <2>1. IsCredit(balances, debited, src, -amount)
    BY <1>2, InvNumbers DEF IsCredit
  <2> QED BY <2>1, CreditOne
<1>5. /\ SumFunctionOnSet(balances', Accounts) = SumFunctionOnSet(debited, Accounts) + amount
      /\ \A rep \in Accounts : delegated(balances', delegates, rep)
            = delegated(debited, delegates, rep) + (IF delegates[dst] = rep THEN amount ELSE 0)
  <2>1. IsCredit(debited, balances', dst, amount)
    BY <1>2, <1>3 DEF IsCredit
  <2> QED BY <2>1, CreditOne
<1>6. TribeTypeOK'
  <2>1. checkpoints' \in [Accounts -> Seq(Checkpoint)]
    BY <1>1 DEF GoodRecords
  <2> QED BY <1>3, <2>1 DEF transferTokens, TribeInv, TribeTypeOK
<1>7. ASSUME NEW rep \in Accounts PROVE votesNow(checkpoints'[rep]) = delegated(balances', delegates, rep)
  <2>1. /\ votesNow(checkpoints[rep]) = delegated(balances, delegates, rep)
        /\ votesNow(checkpoints[rep]) \in Nat
    BY InvNumbers DEF TribeInv
  <2> QED BY <1>1, <1>4, <1>5, <2>1 DEF Taken
<1>8. SumFunctionOnSet(balances', Accounts) = totalSupply
    BY <1>4, <1>5 DEF TribeInv
<1> QED BY <1>0, <1>1, <1>6, <1>7, <1>8 DEF TribeInv, PastKept

\* A delegation.
LEMMA DelegateKeeps ==
    ASSUME TribeInv, NEW delegator \in Accounts, NEW delegatee \in Accounts \cup {NoAddress},
           setDelegate(delegator, delegatee), nonces' \in [Accounts -> Nat]
    PROVE  TribeInv' /\ PastKept
<1>0. /\ block' = block /\ balances' = balances /\ totalSupply' = totalSupply
      /\ delegates' = [delegates EXCEPT ![delegator] = delegatee]
      /\ moveDelegates(delegates[delegator], delegatee, balances[delegator])
      /\ delegates[delegator] \in Accounts \cup {NoAddress} /\ balances[delegator] \in Nat
    BY InvNumbers DEF setDelegate, TribeInv, TribeTypeOK
<1>1. /\ GoodRecords(checkpoints', block) /\ SamePast(checkpoints, checkpoints', block)
      /\ \A a \in Accounts :
            votesNow(checkpoints'[a])
                = votesNow(checkpoints[a]) - Taken(a, delegates[delegator], balances[delegator])
                    + Taken(a, delegatee, balances[delegator])
    BY <1>0, InvNumbers, VotesMove DEF TribeInv
<1>2. \A a \in Accounts : delegates'[a] = IF a = delegator THEN delegatee ELSE delegates[a]
    BY <1>0 DEF TribeInv, TribeTypeOK
<1>3. ASSUME NEW rep \in Accounts
      PROVE  delegated(balances, delegates', rep)
                = delegated(balances, delegates, rep) - Taken(rep, delegates[delegator], balances[delegator])
                    + Taken(rep, delegatee, balances[delegator])
  <2>1. IsDelegation(balances, delegates, delegates', delegator, delegatee)
    BY <1>2, InvNumbers DEF IsDelegation
  <2> QED BY <2>1, DelegateOne
<1>4. TribeTypeOK'
  <2>1. checkpoints' \in [Accounts -> Seq(Checkpoint)]
    BY <1>1 DEF GoodRecords
  <2> QED BY <1>0, <2>1 DEF setDelegate, TribeInv, TribeTypeOK
<1>5. \A rep \in Accounts : votesNow(checkpoints'[rep]) = delegated(balances, delegates', rep)
    BY <1>1, <1>3 DEF TribeInv
<1> QED BY <1>0, <1>1, <1>4, <1>5 DEF TribeInv, PastKept

\* The next block.
LEMMA AdvanceKeeps ==
    ASSUME TribeInv, MineBlock
    PROVE  TribeInv'
<1>1. block' = block + 1 /\ block' \in 1..MaxBlock /\ checkpoints' = checkpoints
    BY TribeAssumption DEF MineBlock, TribeInv, TribeTypeOK
<1>2. GoodRecords(checkpoints', block')
  <2>1. ASSUME NEW a \in Accounts PROVE GoodRecord(checkpoints[a], block + 1)
    <3>1. GoodRecord(checkpoints[a], block)
      BY DEF TribeInv, GoodRecords
    <3>2. \A i \in 1..Len(checkpoints[a]) : checkpoints[a][i].fromBlock \in Nat
      BY <3>1, RecordNumbers DEF GoodRecord
    <3> QED BY <3>1, <3>2, InvNumbers DEF GoodRecord
  <2> QED BY <1>1, <2>1 DEF TribeInv, GoodRecords
<1> QED BY <1>1, <1>2 DEF MineBlock, TribeInv, TribeTypeOK

-----------------------------------------------------------------------------
\* Allowances and signatures, on which votes do not depend.
LEMMA Paperwork ==
    ASSUME TribeInv, NEW owner \in Accounts, NEW spender \in Spenders, NEW rawAmount \in Approvals,
           approveSpender(owner, spender, rawAmount)
    PROVE  allowances' \in [Accounts -> [Spenders -> uint96]]
<1>1. (IF rawAmount = Infinite THEN UINT96 - 1 ELSE rawAmount) \in uint96
    BY TribeAssumption DEF approveSpender, uint96
<1>2. allowances \in [Accounts -> [Spenders -> uint96]]
    BY DEF TribeInv, TribeTypeOK
<1> QED BY <1>1, <1>2 DEF approveSpender

\* A signature is used up.
LEMMA SignatureUsed ==
    ASSUME TribeInv, NEW signatory \in Accounts, NEW nonce, NEW deadline,
           useSignature(signatory, nonce, deadline)
    PROVE  nonces' \in [Accounts -> Nat]
BY DEF useSignature, TribeInv, TribeTypeOK

\* What a holder does keeps the invariant and the past.
LEMMA HolderKeeps ==
    ASSUME TribeInv, NEW holder \in Accounts, HolderStep(holder)
    PROVE  TribeInv' /\ PastKept
<1>0. /\ allowances \in [Accounts -> [Spenders -> uint96]] /\ nonces \in [Accounts -> Nat]
      /\ Amounts \subseteq Nat
    BY TribeAssumption DEF TribeInv, TribeTypeOK
<1>1. ASSUME NEW amount \in Amounts, NEW dst \in Accounts, transfer(holder, dst, amount)
      PROVE  TribeInv' /\ PastKept
    BY <1>0, <1>1, TransferKeeps DEF transfer
<1>2. ASSUME NEW spender \in Spenders, NEW amount \in Amounts, NEW dst \in Accounts,
             transferFrom(spender, holder, dst, amount)
      PROVE  TribeInv' /\ PastKept
  <2>1. allowances' \in [Accounts -> [Spenders -> uint96]]
    <3>1. CASE UNCHANGED allowances
      BY <1>0, <3>1
    <3>2. CASE /\ amount <= allowances[holder][spender]
               /\ allowances' = [allowances EXCEPT ![holder][spender] = @ - amount]
      <4>1. allowances[holder][spender] \in uint96
        BY <1>0
      <4>2. allowances[holder][spender] - amount \in uint96
        BY <1>0, <3>2, <4>1, UINT32Int DEF uint96
      <4> QED BY <1>0, <3>2, <4>2
    <3> QED BY <1>2, <3>1, <3>2 DEF transferFrom
  <2> QED BY <1>0, <1>2, <2>1, TransferKeeps DEF transferFrom
<1>3. ASSUME NEW spender \in Spenders, NEW rawAmount \in Approvals, approve(holder, spender, rawAmount)
      PROVE  TribeInv' /\ PastKept
  <2>1. allowances' \in [Accounts -> [Spenders -> uint96]]
    BY <1>3, Paperwork DEF approve
  <2>2. TribeTypeOK' /\ UNCHANGED <<block, totalSupply, balances, delegates, checkpoints>>
    BY <1>3, <2>1 DEF approve, TribeInv, TribeTypeOK
  <2> QED BY <2>2, PaperKeeps
<1>4. ASSUME NEW delegatee \in Accounts \cup {NoAddress}, delegate(holder, delegatee)
      PROVE  TribeInv' /\ PastKept
    BY <1>0, <1>4, DelegateKeeps DEF delegate
<1>5. ASSUME NEW nonce, NEW deadline, NEW spender \in Spenders, NEW rawAmount \in Approvals,
             permit(holder, spender, rawAmount, nonce, deadline)
      PROVE  TribeInv' /\ PastKept
  <2>1. allowances' \in [Accounts -> [Spenders -> uint96]] /\ nonces' \in [Accounts -> Nat]
    BY <1>5, Paperwork, SignatureUsed DEF permit
  <2>2. TribeTypeOK' /\ UNCHANGED <<block, totalSupply, balances, delegates, checkpoints>>
    BY <1>5, <2>1 DEF permit, TribeInv, TribeTypeOK
  <2> QED BY <2>2, PaperKeeps
<1>6. ASSUME NEW nonce, NEW deadline, NEW delegatee \in Accounts \cup {NoAddress},
             delegateBySig(holder, delegatee, nonce, deadline)
      PROVE  TribeInv' /\ PastKept
  <2>1. nonces' \in [Accounts -> Nat]
    BY <1>6, SignatureUsed DEF delegateBySig
  <2> QED BY <1>6, <2>1, DelegateKeeps DEF delegateBySig
<1> QED BY <1>1, <1>2, <1>3, <1>4, <1>5, <1>6 DEF HolderStep

\* Every step keeps the invariant.
LEMMA TribeKeeps == TribeInv /\ [TribeNext]_tribeVars => TribeInv'
<1> SUFFICES ASSUME TribeInv, [TribeNext]_tribeVars PROVE TribeInv'
    OBVIOUS
<1>1. ASSUME NEW caller \in Minters, NEW newMinter \in Minters, setMinter(caller, newMinter)
      PROVE  TribeInv'
  <2>1. TribeTypeOK' /\ UNCHANGED <<block, totalSupply, balances, delegates, checkpoints>>
    BY <1>1 DEF setMinter, TribeInv, TribeTypeOK
  <2> QED BY <2>1, PaperKeeps
<1>2. ASSUME NEW caller \in Minters, NEW dst \in Accounts, NEW amount \in Amounts, mint(caller, dst, amount)
      PROVE  TribeInv'
    BY <1>2, TribeAssumption, MintKeeps
<1>3. CASE \E holder \in Accounts : HolderStep(holder)
    BY <1>3, HolderKeeps
<1>4. CASE MineBlock
    BY <1>4, AdvanceKeeps
<1>5. CASE UNCHANGED tribeVars
    BY <1>5 DEF tribeVars, TribeInv, TribeTypeOK, GoodRecords
<1> QED BY <1>1, <1>2, <1>3, <1>4, <1>5 DEF TribeNext

\* Type correctness, and with it: the record of every delegate is in order and holds what is
\* delegated to it, and the balances add up to the supply.
THEOREM TribeInvariant == TribeSpec => []TribeInv
<1> QED BY TribeInitial, TribeKeeps, PTL DEF TribeSpec

\* A holder's balance is part of its delegate's votes, and with the votes of any other
\* delegate part of the supply.
LEMMA VotesSuffice == TribeInv => VotesFollowBalances
<1> SUFFICES ASSUME TribeInv, block < UINT32, NEW a \in Accounts, NEW rep \in Accounts \cup {NoAddress},
                    delegates[a] # rep
             PROVE  votesMovable(delegates[a], rep, balances[a])
    BY DEF VotesFollowBalances, votesMovable
<1> DEFINE Of(r) == {x \in Accounts : delegates[x] = r}
<1>1. /\ \A x \in Accounts : balances[x] \in Nat
      /\ \A r \in Accounts : getCurrentVotes(r) = SumFunctionOnSet(balances, Of(r))
      /\ delegates[a] \in Accounts \cup {NoAddress}
    BY InvNumbers DEF TribeInv, TribeTypeOK, votesNow, getCurrentVotes, delegated
<1>2. \A r : IsFiniteSet(Of(r)) /\ Of(r) \subseteq Accounts
    BY DelegatorsFinite
<1>3. SumFunctionOnSet(balances, {a}) = balances[a]
  <2>1. /\ IsFiniteSet({}) /\ a \notin {} /\ {} \cup {a} = {a} /\ \A x \in {} \cup {a} : balances[x] \in Int
    BY <1>1, FS_EmptySet
  <2>2. SumFunctionOnSet(balances, {} \cup {a}) = balances[a] + SumFunctionOnSet(balances, {})
    BY <2>1, SumAdd
  <2> QED BY <1>1, <2>1, <2>2, SumOfNothing
<1>4. delegates[a] # NoAddress => balances[a] <= getCurrentVotes(delegates[a])
  <2>1. a \in Of(delegates[a])
    OBVIOUS
  <2>2. IsFiniteSet(Of(delegates[a])) /\ \A x \in Of(delegates[a]) : balances[x] \in Nat
    BY <1>1, <1>2
  <2> HIDE DEF Of
  <2>3. SumFunctionOnSet(balances, {a}) <= SumFunctionOnSet(balances, Of(delegates[a]))
    BY <2>1, <2>2, SumSubset
  <2> QED BY <1>1, <1>3, <2>3
<1>5. rep # NoAddress => getCurrentVotes(rep) + balances[a] < UINT96
  <2>1. a \notin Of(rep) /\ Of(rep) \cup {a} \in SUBSET Accounts
    OBVIOUS
  <2>2. \A x \in Of(rep) \cup {a} : balances[x] \in Int
    BY <1>1
  <2> HIDE DEF Of
  <2>3. SumFunctionOnSet(balances, Of(rep) \cup {a}) = balances[a] + SumFunctionOnSet(balances, Of(rep))
    BY <1>2, <2>1, <2>2, SumAdd
  <2>4. SumFunctionOnSet(balances, Of(rep) \cup {a}) <= SumFunctionOnSet(balances, Accounts)
    BY <1>1, <2>1, TribeAssumption, SumSubset
  <2>5. SumFunctionOnSet(balances, Of(rep)) \in Nat
    BY <1>1, <1>2, SumNat
  <2>6. SumFunctionOnSet(balances, Accounts) = totalSupply /\ totalSupply < UINT96 /\ totalSupply \in Nat
    BY InvNumbers DEF TribeInv
  <2> QED BY <1>1, <2>3, <2>4, <2>5, <2>6, UINT32Int
<1> QED BY <1>4, <1>5 DEF votesMovable

\* No record of votes ever stands in the way of tokens: for every number of holders, of
\* any balances, delegating to each other in any way.
THEOREM TribeVotesFollow == TribeSpec => []VotesFollowBalances
<1> QED BY TribeInvariant, VotesSuffice, PTL

-----------------------------------------------------------------------------
\* The votes of all past blocks, as getPriorVotes tells them.
past == [b \in 1..block - 1 |-> [a \in Accounts |-> getPriorVotes(a, b)]]

\* getPriorVotes reads the account's own checkpoints and nothing else.
LEMMA PriorVotesIs == \A a \in Accounts : \A b : getPriorVotes(a, b) = votesRecorded(checkpoints[a], b)
BY DEF getPriorVotes, votesRecorded

\* The past stays what it was.
LEMMA PastIsKept == TribeInv /\ PastKept => past' = past
<1> SUFFICES ASSUME TribeInv, PastKept PROVE past' = past
    OBVIOUS
<1>1. \A a \in Accounts : \A b : getPriorVotes(a, b)' = votesRecorded(checkpoints'[a], b)
    BY DEF getPriorVotes, votesRecorded
<1>2. \A b \in 1..block - 1 : b \in Nat /\ b < block
    BY InvNumbers
<1>3. ASSUME NEW b \in 1..block - 1
      PROVE  [a \in Accounts |-> getPriorVotes(a, b)'] = [a \in Accounts |-> getPriorVotes(a, b)]
    BY <1>1, <1>2, PriorVotesIs DEF PastKept, SamePast
<1>4. block' = block
    BY DEF PastKept
<1> QED BY <1>3, <1>4 DEF past

\* The block that ends adds its votes to the past.
LEMMA PastGrows ==
    ASSUME TribeInv, MineBlock
    PROVE  past' = Append(past, [a \in Accounts |-> delegated(balances, delegates, a)])
<1> DEFINE last == [a \in Accounts |-> delegated(balances, delegates, a)]
           at(b) == [a \in Accounts |-> votesRecorded(checkpoints[a], b)]
<1>1. block \in Nat /\ block > 0 /\ block' = block + 1 /\ checkpoints' = checkpoints
    BY InvNumbers DEF MineBlock, TribeInv, TribeTypeOK
<1>2. past = [b \in 1..block - 1 |-> at(b)]
    BY PriorVotesIs DEF past
<1>3. past' = [b \in 1..block |-> at(b)]
  <2>1. \A a \in Accounts : \A b : getPriorVotes(a, b)' = votesRecorded(checkpoints[a], b)
    BY <1>1 DEF getPriorVotes, votesRecorded
  <2>2. block' - 1 = block
    BY <1>1
  <2> QED BY <2>1, <2>2 DEF past
<1>4. at(block) = last
  <2>1. ASSUME NEW a \in Accounts PROVE votesRecorded(checkpoints[a], block) = delegated(balances, delegates, a)
    <3>1. votesRecorded(checkpoints[a], block) = votesNow(checkpoints[a])
      BY <1>1, VotesRecordedEnd DEF TribeInv, GoodRecords
    <3> QED BY <3>1 DEF TribeInv
  <2> QED BY <2>1
<1> DEFINE T == {at(b) : b \in 1..block}
<1>5. past \in Seq(T) /\ Len(past) = block - 1 /\ \A b \in 1..block - 1 : past[b] = at(b)
  <2> HIDE DEF at
  <2> QED BY <1>1, <1>2
<1>6. past' \in Seq(T) /\ Len(past') = block /\ \A b \in 1..block : past'[b] = at(b)
  <2> HIDE DEF at
  <2> QED BY <1>1, <1>3
<1>7. last \in T
  <2> HIDE DEF at, last
  <2> QED BY <1>1, <1>4
<1> DEFINE next == Append(past, last)
<1>8. next \in Seq(T) /\ Len(next) = block /\ \A b \in 1..block : next[b] = IF b = block THEN last ELSE past[b]
  <2> HIDE DEF T, at, last
  <2> QED BY <1>1, <1>5, <1>7
<1>9. \A b \in 1..block : past'[b] = next[b]
  <2> HIDE DEF next, last, at, T
  <2> QED BY <1>1, <1>4, <1>5, <1>6, <1>8
<1>10. past' = next
  <2> HIDE DEF next, last, at, T
  <2> QED BY <1>6, <1>8, <1>9, SeqEqual
<1> QED BY <1>10

-----------------------------------------------------------------------------
\* The steps of the token are steps of the history of votes.
LEMMA HistoryDelegated ==
    \A a \in Accounts : History!delegatedTo(a) = delegated(balances, delegates, a)
BY DEF History!delegatedTo, delegated, SumFunctionOnSet, FoldFunctionOnSet, MapThenFoldSet,
       History!SumFunctionOnSet, History!FoldFunctionOnSet, History!MapThenFoldSet

\* The refinement at the start.
LEMMA HistoryInitial == TribeInit => History!Init
<1> SUFFICES ASSUME TribeInit PROVE History!Init
    OBVIOUS
<1>1. balances \in [Accounts -> Nat]
    BY TribeAssumption DEF TribeInit
<1>2. [b \in 1..block - 1 |-> [a \in Accounts |-> getPriorVotes(a, b)]] = <<>>
  <2>1. 1..block - 1 = {}
    BY DEF TribeInit
  <2> QED BY <2>1
<1> QED BY <1>1, <1>2 DEF TribeInit, History!Init

\* A step that keeps the past, the balances and the delegates is no step of the history.
LEMMA HistoryStutters ==
    ASSUME TribeInv, PastKept, UNCHANGED <<balances, delegates>>
    PROVE  UNCHANGED History!voteVars
<1>1. past' = past
    BY PastIsKept
<1> QED BY <1>1 DEF History!voteVars, past, PastKept

\* A mint is a mint of the history,
LEMMA MintMaps ==
    ASSUME TribeInv, NEW caller, NEW dst \in Accounts, NEW amount \in Nat, mint(caller, dst, amount)
    PROVE  [History!Next]_(History!voteVars)
<1>0. /\ PastKept /\ past' = past /\ block' = block /\ delegates' = delegates
      /\ balances' = [balances EXCEPT ![dst] = @ + amount]
      /\ balances[dst] \in Nat /\ balances \in [Accounts -> uint96]
    BY MintKeeps, PastIsKept, InvNumbers DEF mint, TribeInv, TribeTypeOK
<1>1. CASE amount = 0
  <2>1. balances' = balances
    BY <1>0, <1>1
  <2> QED BY <1>0, <2>1, HistoryStutters
<1>2. CASE amount > 0
  <2>1. balances'[dst] = balances[dst] + amount
    BY <1>0
  <2>2. balances'[dst] > balances[dst] /\ balances' = [balances EXCEPT ![dst] = balances'[dst]]
    BY <1>0, <1>2, <2>1
  <2>3. History!Mint
    BY <1>0, <2>2 DEF History!Mint, past
  <2> QED BY <2>3 DEF History!Next
<1> QED BY <1>1, <1>2

\* a transfer is a transfer or changes nothing,
LEMMA TransferMaps ==
    ASSUME TribeInv, NEW src \in Accounts, NEW dst \in Accounts, NEW amount \in Nat,
           transferTokens(src, dst, amount), PastKept
    PROVE  [History!Next]_(History!voteVars)
<1>0. /\ past' = past /\ block' = block /\ delegates' = delegates
      /\ balances' = [[balances EXCEPT ![src] = @ - amount] EXCEPT ![dst] = @ + amount]
      /\ balances[src] \in Nat /\ amount <= balances[src] /\ balances \in [Accounts -> uint96]
      /\ \A a \in Accounts : balances[a] \in Nat
    BY PastIsKept, InvNumbers DEF transferTokens, TribeInv, TribeTypeOK
<1>1. CASE amount = 0
  <2>1. balances' = balances
    BY <1>0, <1>1
  <2> QED BY <1>0, <2>1, HistoryStutters
<1>2. CASE amount > 0
  <2>1. amount \in 1..balances[src]
    BY <1>0, <1>2
  <2>2. History!Transfer
    BY <1>0, <2>1 DEF History!Transfer, past
  <2> QED BY <2>2 DEF History!Next
<1> QED BY <1>1, <1>2

\* a delegation is one,
LEMMA DelegateMaps ==
    ASSUME TribeInv, NEW delegator \in Accounts, NEW delegatee \in Accounts \cup {NoAddress},
           setDelegate(delegator, delegatee), PastKept
    PROVE  [History!Next]_(History!voteVars)
<1>1. History!Delegate
    BY PastIsKept DEF setDelegate, History!Delegate, past
<1> QED BY <1>1 DEF History!Next

\* the next block ends one,
LEMMA AdvanceMaps ==
    ASSUME TribeInv, MineBlock
    PROVE  [History!Next]_(History!voteVars)
<1>1. past' = Append(past, [a \in Accounts |-> History!delegatedTo(a)])
    BY PastGrows, HistoryDelegated
<1>2. History!EndBlock
    BY <1>1 DEF MineBlock, History!EndBlock, past
<1> QED BY <1>2 DEF History!Next

\* and so is whatever a holder does.
LEMMA HolderMaps ==
    ASSUME TribeInv, NEW holder \in Accounts, HolderStep(holder)
    PROVE  [History!Next]_(History!voteVars)
<1>0. PastKept /\ Amounts \subseteq Nat
    BY HolderKeeps, TribeAssumption
<1>1. ASSUME NEW amount \in Amounts, NEW dst \in Accounts, transferTokens(holder, dst, amount)
      PROVE  [History!Next]_(History!voteVars)
    BY <1>0, <1>1, TransferMaps
<1>2. ASSUME NEW delegatee \in Accounts \cup {NoAddress}, setDelegate(holder, delegatee)
      PROVE  [History!Next]_(History!voteVars)
    BY <1>0, <1>2, DelegateMaps
<1>3. CASE UNCHANGED <<balances, delegates>>
    BY <1>0, <1>3, HistoryStutters
<1> QED BY <1>1, <1>2, <1>3
        DEF HolderStep, transfer, transferFrom, approve, delegate, permit, delegateBySig

\* Every step of the token is one of the history, or none.
LEMMA HistoryStep == TribeInv /\ [TribeNext]_tribeVars => [History!Next]_(History!voteVars)
<1> SUFFICES ASSUME TribeInv, [TribeNext]_tribeVars PROVE [History!Next]_(History!voteVars)
    OBVIOUS
<1>1. ASSUME NEW caller \in Minters, NEW newMinter \in Minters, setMinter(caller, newMinter)
      PROVE  [History!Next]_(History!voteVars)
    BY <1>1 DEF setMinter, History!voteVars, getPriorVotes
<1>2. ASSUME NEW caller \in Minters, NEW dst \in Accounts, NEW amount \in Amounts, mint(caller, dst, amount)
      PROVE  [History!Next]_(History!voteVars)
    BY <1>2, TribeAssumption, MintMaps
<1>3. CASE \E holder \in Accounts : HolderStep(holder)
    BY <1>3, HolderMaps
<1>4. CASE MineBlock
    BY <1>4, AdvanceMaps
<1>5. CASE UNCHANGED tribeVars
    BY <1>5 DEF tribeVars, History!voteVars, getPriorVotes
<1> QED BY <1>1, <1>2, <1>3, <1>4, <1>5 DEF TribeNext

\* The refinement, for any number of accounts, blocks and checkpoints: getPriorVotes returns
\* for every past block what was delegated at its end, and keeps returning it.
THEOREM TribeImplementsHistory == TribeSpec => ImplementsVoteHistory
<1>1. TribeSpec => History!Init
    BY HistoryInitial DEF TribeSpec
<1>2. TribeSpec => [][History!Next]_(History!voteVars)
    BY TribeInvariant, HistoryStep, PTL DEF TribeSpec
<1> QED BY <1>1, <1>2 DEF ImplementsVoteHistory, History!Spec

(***************************************************************************)
(* The history of the protocol (GovernanceHistory.tla): no call of the     *)
(* record, by whomever and in whatever world, gives one of the bodies that *)
(* act without a vote a major role, and a world where none has one keeps   *)
(* it that way under any batch of theirs.                                  *)
(***************************************************************************)
\* What the proofs read of a world: its roles, which are triples, and who administers them.
IsWorld(w) ==
    /\ "roles" \in DOMAIN w /\ "roleAdmin" \in DOMAIN w
    /\ \A t \in w.roles : t = <<t[1], t[2], t[3]>>

\* A world that is otherwise different.
SameRoles(w, v) == IsWorld(v) /\ v.roles = w.roles /\ v.roleAdmin = w.roleAdmin

\* No change at all.
LEMMA NoField == ASSUME NEW w, IsWorld(w) PROVE SameRoles(w, w)
BY DEF SameRoles

\* One change after the other.
LEMMA SameRolesTwice ==
    ASSUME NEW u, NEW v, NEW w, SameRoles(u, v), SameRoles(v, w)
    PROVE  SameRoles(u, w)
BY DEF SameRoles

\* The effects of the calls that are not about roles: deposits,
LEMMA DepositsQuiet ==
    ASSUME NEW w, IsWorld(w), NEW S, NEW v, v \in CountDeposits(w, S) \/ v \in DropDeposits(w, S)
    PROVE  SameRoles(w, v)
BY DEF CountDeposits, DropDeposits, When, SameRoles, IsWorld

\* one deposit in place of another,
LEMMA ReplaceQuiet ==
    ASSUME NEW w, IsWorld(w), NEW c, NEW v \in ReplaceDeposit(w, c)
    PROVE  SameRoles(w, v)
<1>1. PICK u \in DropDeposits(w, {c.old}) : v \in CountDeposits(u, {c.new})
    BY DEF ReplaceDeposit
<1>2. SameRoles(w, u) /\ IsWorld(u)
    BY DepositsQuiet DEF SameRoles
<1> QED BY <1>1, <1>2, DepositsQuiet, SameRolesTwice

\* the list of safe addresses and the move to one of them,
LEMMA SafeQuiet ==
    ASSUME NEW w, IsWorld(w), NEW c, NEW v,
           v \in MakeSafe(w, c) \/ v \in MakeUnsafe(w, c) \/ v \in MoveToSafety(w, c)
    PROVE  SameRoles(w, v)
<1>1. ASSUME v \in MakeSafe(w, c) PROVE SameRoles(w, v)
    BY <1>1 DEF MakeSafe, When, SameRoles, IsWorld
<1>2. ASSUME v \in MakeUnsafe(w, c) PROVE SameRoles(w, v)
    BY <1>2 DEF MakeUnsafe, When, SameRoles, IsWorld
<1>3. ASSUME v \in MoveToSafety(w, c) PROVE SameRoles(w, v)
    BY <1>3 DEF MoveToSafety, When, SameRoles, IsWorld
<1> QED BY <1>1, <1>2, <1>3

\* pauses, withdrawals and whatever only checks something,
LEMMA PausesQuiet ==
    ASSUME NEW w, IsWorld(w), NEW c, NEW v
    PROVE  /\ \A g : v \in When(g, w) => SameRoles(w, v)
           /\ \A what : v \in PauseOf(w, c, what) => SameRoles(w, v)
           /\ \A side : v \in PauseSide(w, c, side) => SameRoles(w, v)
           /\ v \in Unpause(w, c) => SameRoles(w, v)
           /\ v \in Withdraw(w, c) \/ v \in MoveRatio(w, c) \/ v \in InitDistributor(w, c)
                => SameRoles(w, v)
           /\ v \in SetCore(w) => SameRoles(w, v)
<1>1. \A g : v \in When(g, w) => SameRoles(w, v)
    BY NoField DEF When
<1>2. ASSUME NEW what, v \in PauseOf(w, c, what) PROVE SameRoles(w, v)
    BY <1>2 DEF PauseOf, When, SameRoles, IsWorld
<1>3. ASSUME NEW side, v \in PauseSide(w, c, side) PROVE SameRoles(w, v)
    BY <1>3 DEF PauseSide, When, SameRoles, IsWorld
<1>4. v \in Unpause(w, c) => SameRoles(w, v)
    BY DEF Unpause, When, SameRoles, IsWorld
<1>5. v \in Withdraw(w, c) \/ v \in MoveRatio(w, c) \/ v \in InitDistributor(w, c) => SameRoles(w, v)
    BY <1>1, Zenon DEF Withdraw, MoveRatio, InitDistributor
<1>6. v \in SetCore(w) => SameRoles(w, v)
    BY DEF SetCore, When, SameRoles, IsWorld
<1> QED BY <1>1, <1>2, <1>3, <1>4, <1>5, <1>6

\* pools, wrappers and static deposits,
LEMMA PoolsQuiet ==
    ASSUME NEW w, IsWorld(w), NEW c, NEW v
    PROVE  /\ v \in NewPool(w, c) => SameRoles(w, v)
           /\ v \in SetAllocPoint(w, c) => SameRoles(w, v)
           /\ v \in WireWrapper(w, c) => SameRoles(w, v)
           /\ v \in RemoveStaticDeposit(w, c) => SameRoles(w, v)
<1>1. v \in NewPool(w, c) => SameRoles(w, v)
    BY DEF NewPool, SameRoles, IsWorld
<1>2. v \in SetAllocPoint(w, c) => SameRoles(w, v)
    BY DEF SetAllocPoint, When, SameRoles, IsWorld
<1>3. v \in WireWrapper(w, c) => SameRoles(w, v)
    BY DEF WireWrapper, When, SameRoles, IsWorld
<1>4. v \in RemoveStaticDeposit(w, c) => SameRoles(w, v)
    BY DEF RemoveStaticDeposit, When, SameRoles, IsWorld
<1> QED BY <1>1, <1>2, <1>3, <1>4

\* contracts that change hands, and the admin roles of contracts.
LEMMA OwnersQuiet ==
    ASSUME NEW w, IsWorld(w), NEW by, NEW c, NEW v
    PROVE  /\ v \in SetContractAdmin(w, c) => SameRoles(w, v)
           /\ v \in NameNextOwner(w, by, c) => SameRoles(w, v)
           /\ v \in AcceptOwnership(w, by, c) => SameRoles(w, v)
           /\ v \in HandOver(w, by, c) => SameRoles(w, v)
<1>1. v \in SetContractAdmin(w, c) => SameRoles(w, v)
    BY DEF SetContractAdmin, When, SameRoles, IsWorld
<1>2. v \in NameNextOwner(w, by, c) => SameRoles(w, v)
    BY DEF NameNextOwner, When, SameRoles, IsWorld
<1>3. v \in AcceptOwnership(w, by, c) => SameRoles(w, v)
    BY DEF AcceptOwnership, When, SameRoles, IsWorld
<1>4. v \in HandOver(w, by, c) => SameRoles(w, v)
    BY DEF HandOver, When, SameRoles, IsWorld
<1> QED BY <1>1, <1>2, <1>3, <1>4

\* What a call may do to roles, and by which function.
RoleEffect(w, by, c, v) ==
    \/ SameRoles(w, v)
    \/ c.fn = "createRole" /\ v \in CreateRoleOf(w, c)
    \/ c.fn = "grantRole" /\ v \in GrantRole(w, by, c)
    \/ c.fn = "revokeRole" /\ v \in RevokeRole(w, by, c)
    \/ v \in BecomeAdmin(w, by, c)
    \/ c.to = "delayedPCVMoverWethUniToBal" /\ v \in MoveOnce(w, c)

\* Every effect of a call is one of these.
LEMMA EffectIs ==
    ASSUME NEW w, IsWorld(w), NEW by, NEW c, NEW v \in Effect(w, by, c)
    PROVE  RoleEffect(w, by, c, v)
<1>1. \/ c.fn = "createRole" /\ v \in CreateRoleOf(w, c)
      \/ c.fn = "grantRole" /\ v \in GrantRole(w, by, c)
      \/ c.fn = "revokeRole" /\ v \in RevokeRole(w, by, c)
      \/ v \in BecomeAdmin(w, by, c)
      \/ c.to = "delayedPCVMoverWethUniToBal" /\ v \in MoveOnce(w, c)
      \/ v \in SetContractAdmin(w, c) \/ v \in CountDeposits(w, c.deposits)
      \/ v \in DropDeposits(w, c.deposits) \/ v \in ReplaceDeposit(w, c)
      \/ v \in ReadOracles(w, c)
      \/ v \in MakeSafe(w, c) \/ v \in MakeUnsafe(w, c) \/ v \in MoveToSafety(w, c)
      \/ v \in MoveRatio(w, c) \/ v \in PauseOf(w, c, "all") \/ v \in Unpause(w, c)
      \/ v \in PauseSide(w, c, "redeem") \/ v \in PauseSide(w, c, "mint")
      \/ v \in NewPool(w, c) \/ v \in SetAllocPoint(w, c) \/ v \in WireWrapper(w, c)
      \/ v \in InitDistributor(w, c) \/ v \in RemoveStaticDeposit(w, c)
      \/ v \in NameNextOwner(w, by, c) \/ v \in AcceptOwnership(w, by, c)
      \/ v \in AcceptOwnership(w, "fuseAdmin", [c EXCEPT !.to = "rariPool8Comptroller"])
      \/ v \in AcceptOwnership(w, c.to, [c EXCEPT !.to = "rariTimelock"])
      \/ v \in HandOver(w, by, c) \/ v \in SetCore(w) \/ v \in Withdraw(w, c)
      \/ (\E g : v \in When(g, w)) \/ v \in {w}
    BY SMTT(60) DEF Effect
<1>2. v \in ReadOracles(w, c) => SameRoles(w, v)
    BY DEF ReadOracles, SameRoles, IsWorld
<1> QED BY <1>1, <1>2, NoField, DepositsQuiet, ReplaceQuiet, SafeQuiet, PausesQuiet, PoolsQuiet,
           OwnersQuiet DEF RoleEffect

-----------------------------------------------------------------------------
\* What the proofs show of every world: governors administer the major roles, no delegate
\* holds one, Core is a governor and the guardian a guardian.
IsGoverned(w) ==
    /\ IsWorld(w)
    /\ \A role \in MajorRoles :
        /\ RoleAdmin(w, role) = "GOVERN_ROLE"
        /\ \A who \in Delegates : ~HasRole(w, role, who)
    /\ HasRole(w, "GOVERN_ROLE", "core")
    /\ HasRole(w, "GUARDIAN_ROLE", "guardianMultisig")

\* A call that does not give a delegate a major role, nor the administration of one, nor
\* takes Core's or the guardian's role.
IsHarmless(c) ==
    /\ c.fn = "createRole" => c.role \notin MajorRoles
    /\ c.fn = "grantRole" /\ c.to = "core" => c.role \notin MajorRoles \/ c.who \notin Delegates
    /\ c.fn = "revokeRole" /\ c.to = "core" =>
        <<c.role, c.who>> \notin {<<"GOVERN_ROLE", "core">>, <<"GUARDIAN_ROLE", "guardianMultisig">>}

\* Who holds and who administers the major roles, but for the mover that gives up its own.
MajorRolesStay(w, v) ==
    \A role \in MajorRoles :
        /\ RoleAdmin(v, role) = RoleAdmin(w, role)
        /\ \A who : HasRole(v, role, who) => HasRole(w, role, who)
        /\ \A who : HasRole(w, role, who) /\ who # "delayedPCVMoverWethUniToBal" => HasRole(v, role, who)

\* The names that are major roles, and those that are not.
LEMMA RoleNames ==
    /\ "GOVERN_ROLE" \in MajorRoles /\ "GUARDIAN_ROLE" \in MajorRoles
    /\ \A reg : RegisterAdmin(reg) \notin MajorRoles
BY DEF MajorRoles, RegisterAdmin

\* A world with the roles of another one.
LEMMA SameGoverned ==
    ASSUME NEW w, IsGoverned(w), NEW v, SameRoles(w, v)
    PROVE  IsGoverned(v) /\ MajorRolesStay(w, v)
BY DEF IsGoverned, SameRoles, RoleAdmin, HasRole, MajorRolesStay

\* A contract that becomes admin of a timelock, and the mover that empties a deposit.
LEMMA OwnRolesGoverned ==
    ASSUME NEW w, IsGoverned(w), NEW by, NEW c, NEW v,
           \/ v \in BecomeAdmin(w, by, c)
           \/ c.to = "delayedPCVMoverWethUniToBal" /\ v \in MoveOnce(w, c)
    PROVE  IsGoverned(v) /\ MajorRolesStay(w, v)
<1>1. ASSUME v \in BecomeAdmin(w, by, c) PROVE IsGoverned(v) /\ MajorRolesStay(w, v)
  <2>1. v.roleAdmin = w.roleAdmin /\ v.roles = w.roles \cup {<<c.to, RegisterAdmin(c.to), by>>} /\ IsWorld(v)
    BY <1>1 DEF BecomeAdmin, IsGoverned, IsWorld
  <2> QED BY <2>1, RoleNames DEF IsGoverned, RoleAdmin, HasRole, MajorRolesStay
<1>2. ASSUME c.to = "delayedPCVMoverWethUniToBal", v \in MoveOnce(w, c)
      PROVE  IsGoverned(v) /\ MajorRolesStay(w, v)
  <2>1. v.roleAdmin = w.roleAdmin /\ v.roles = w.roles \ {<<"core", "PCV_CONTROLLER_ROLE", c.to>>} /\ IsWorld(v)
    BY <1>2 DEF MoveOnce, When, IsGoverned, IsWorld
  <2> QED BY <1>2, <2>1 DEF IsGoverned, RoleAdmin, HasRole, MajorRolesStay
<1> QED BY <1>1, <1>2

\* Creating, granting and revoking roles.
LEMMA RolesGoverned ==
    ASSUME NEW w, IsGoverned(w), NEW by, NEW c, IsHarmless(c), NEW v,
           \/ c.fn = "createRole" /\ v \in CreateRoleOf(w, c)
           \/ c.fn = "grantRole" /\ v \in GrantRole(w, by, c)
           \/ c.fn = "revokeRole" /\ v \in RevokeRole(w, by, c)
    PROVE  IsGoverned(v)
<1>1. ASSUME c.fn = "createRole", v \in CreateRoleOf(w, c) PROVE IsGoverned(v)
  <2>1. v.roleAdmin = With(w.roleAdmin, c.role, c.admin) /\ v.roles = w.roles /\ IsWorld(v)
    BY <1>1 DEF CreateRoleOf, IsGoverned, IsWorld
  <2>2. \A role \in MajorRoles : role # c.role
    BY <1>1 DEF IsHarmless
  <2>3. \A role \in MajorRoles : RoleAdmin(v, role) = RoleAdmin(w, role)
    BY <2>1, <2>2 DEF RoleAdmin, With
  <2> QED BY <2>1, <2>3 DEF IsGoverned, HasRole
<1>2. ASSUME c.fn = "grantRole", v \in GrantRole(w, by, c) PROVE IsGoverned(v)
  <2>1. v.roleAdmin = w.roleAdmin /\ v.roles = w.roles \cup {<<c.to, c.role, c.who>>} /\ IsWorld(v)
    BY <1>2 DEF GrantRole, When, IsGoverned, IsWorld
  <2> QED BY <1>2, <2>1 DEF IsGoverned, RoleAdmin, HasRole, IsHarmless
<1>3. ASSUME c.fn = "revokeRole", v \in RevokeRole(w, by, c) PROVE IsGoverned(v)
  <2>1. v.roleAdmin = w.roleAdmin /\ v.roles = w.roles \ {<<c.to, c.role, c.who>>} /\ IsWorld(v)
    BY <1>3 DEF RevokeRole, When, IsGoverned, IsWorld
  <2> QED BY <1>3, <2>1 DEF IsGoverned, RoleAdmin, HasRole, IsHarmless
<1> QED BY <1>1, <1>2, <1>3

\* One call of a batch.
LEMMA StepGoverned ==
    ASSUME NEW W, \A w \in W : IsGoverned(w), NEW by, NEW c, IsHarmless(c), NEW v \in Step(by, c, W)
    PROVE  IsGoverned(v)
<1>1. PICK w \in W : v \in Effect(w, by, c)
    BY DEF Step
<1>2. RoleEffect(w, by, c, v)
    BY <1>1, EffectIs DEF IsGoverned
<1> QED BY <1>1, <1>2, SameGoverned, OwnRolesGoverned, RolesGoverned DEF RoleEffect

-----------------------------------------------------------------------------
\* A call to change who holds or administers a role of Core goes to Core.
IsAddressed(c) == c.fn = "createRole" => c.to = "core"

\* Nobody who is no governor creates a role.
LEMMA CreateNeedsGovernor ==
    ASSUME NEW w, NEW by, NEW c, c.fn = "createRole", c.to = "core", Admits(w, by, c)
    PROVE  HasRole(w, "GOVERN_ROLE", by)
<1>1. /\ c.to \notin ThirdParties /\ c.to \notin LBPSwappers
      /\ c.fn \in GovernorCalls /\ c.fn \notin GovernorOrAdminCalls
      /\ c.fn \notin GovernorGuardianOrAdminCalls /\ c.fn \notin ControllerCalls
      /\ c.fn \notin GaugeCalls
    BY DEF ThirdParties, LBPSwappers, GovernorCalls, GovernorOrAdminCalls,
           GovernorGuardianOrAdminCalls, ControllerCalls, GaugeCalls
<1>2. RolesFor(w, c) = {"GOVERN_ROLE"}
    BY <1>1 DEF RolesFor
<1> QED BY <1>2 DEF Admits

\* What a delegate calls changes no major role.
LEMMA DelegateStep ==
    ASSUME NEW W, NEW u, \A w \in W : IsGoverned(w) /\ MajorRolesStay(u, w),
           NEW by \in Delegates, NEW c, IsAddressed(c), NEW v \in Step(by, c, W)
    PROVE  IsGoverned(v) /\ MajorRolesStay(u, v)
<1>1. PICK w \in W : v \in Effect(w, by, c) /\ Admits(w, by, c)
    BY DEF Step
<1>2. RoleEffect(w, by, c, v) /\ IsGoverned(w) /\ MajorRolesStay(u, w)
    BY <1>1, EffectIs DEF IsGoverned
<1>3. ~HasRole(w, "GOVERN_ROLE", by)
    BY <1>2, RoleNames DEF IsGoverned
<1>4. ~(c.fn = "createRole" /\ v \in CreateRoleOf(w, c))
    BY <1>1, <1>3, CreateNeedsGovernor DEF IsAddressed
<1>5. ASSUME c.fn = "grantRole", v \in GrantRole(w, by, c) PROVE IsGoverned(v) /\ MajorRolesStay(w, v)
  <2>1. /\ v.roleAdmin = w.roleAdmin /\ v.roles = w.roles \cup {<<c.to, c.role, c.who>>} /\ IsWorld(v)
        /\ c.to = "core" => HasRole(w, RoleAdmin(w, c.role), by)
    BY <1>2, <1>5 DEF GrantRole, When, IsGoverned, IsWorld, Administers
  <2>2. ~(c.to = "core" /\ c.role \in MajorRoles)
    BY <1>2, <1>3, <2>1 DEF IsGoverned
  <2> QED BY <1>2, <2>1, <2>2 DEF IsGoverned, RoleAdmin, HasRole, MajorRolesStay
<1>6. ASSUME c.fn = "revokeRole", v \in RevokeRole(w, by, c) PROVE IsGoverned(v) /\ MajorRolesStay(w, v)
  <2>1. /\ v.roleAdmin = w.roleAdmin /\ v.roles = w.roles \ {<<c.to, c.role, c.who>>} /\ IsWorld(v)
        /\ c.to = "core" => HasRole(w, RoleAdmin(w, c.role), by)
    BY <1>2, <1>6 DEF RevokeRole, When, IsGoverned, IsWorld, Administers
  <2>2. ~(c.to = "core" /\ c.role \in MajorRoles)
    BY <1>2, <1>3, <2>1 DEF IsGoverned
  <2> QED BY <1>2, <2>1, <2>2, RoleNames DEF IsGoverned, RoleAdmin, HasRole, MajorRolesStay
<1>7. IsGoverned(v) /\ MajorRolesStay(w, v)
    BY <1>2, <1>4, <1>5, <1>6, SameGoverned, OwnRolesGoverned DEF RoleEffect
<1> QED BY <1>2, <1>7 DEF MajorRolesStay

-----------------------------------------------------------------------------
\* The worlds after each call of a batch, as Run defines them.
IsTrace(f, by, calls, w, n) ==
    f = [i \in 0..n |-> IF i = 0 THEN {w} ELSE Step(by, calls[i], f[i - 1])]

\* There is one for every batch.
LEMMA TraceExists ==
    ASSUME NEW by, NEW calls, NEW w, NEW n \in Nat
    PROVE  \E f : IsTrace(f, by, calls, w, n)
<1> DEFINE Bad == {k \in Nat : ~\E f : IsTrace(f, by, calls, w, k)}
<1> SUFFICES ASSUME Bad # {} PROVE FALSE
    OBVIOUS
<1>1. PICK m \in Bad : \A k \in Bad : m <= k
  <2>1. Bad \in SUBSET Nat
    OBVIOUS
  <2> HIDE DEF Bad
  <2> QED BY <2>1, LeastNat
<1>2. m # 0
  <2> DEFINE f == [i \in 0..0 |-> {w}]
  <2>1. f = [i \in 0..0 |-> IF i = 0 THEN {w} ELSE Step(by, calls[i], f[i - 1])]
    OBVIOUS
  <2> HIDE DEF f
  <2>2. IsTrace(f, by, calls, w, 0)
    BY <2>1 DEF IsTrace
  <2> QED BY <2>2
<1>3. m - 1 \in Nat /\ m - 1 \notin Bad
  <2>1. m \in Nat
    OBVIOUS
  <2> HIDE DEF Bad
  <2> QED BY <1>1, <1>2, <2>1
<1>4. PICK f : IsTrace(f, by, calls, w, m - 1)
    BY <1>3
<1> DEFINE g == [i \in 0..m |-> IF i = m THEN Step(by, calls[m], f[m - 1]) ELSE f[i]]
<1>5. ASSUME NEW i \in 0..m PROVE g[i] = IF i = 0 THEN {w} ELSE Step(by, calls[i], g[i - 1])
  <2>1. \A j \in 0..m - 1 : g[j] = f[j]
    BY <1>3
  <2>2. CASE i = m
    <3>1. g[i] = Step(by, calls[m], f[m - 1]) /\ m - 1 \in 0..m - 1
      BY <1>3, <2>2
    <3> HIDE DEF g
    <3> QED BY <1>2, <2>1, <2>2, <3>1
  <2>3. CASE i # m
    <3>1. i \in 0..m - 1 /\ (i # 0 => i - 1 \in 0..m - 1)
      BY <1>3, <2>3
    <3>2. f[i] = IF i = 0 THEN {w} ELSE Step(by, calls[i], f[i - 1])
      BY <1>4, <3>1 DEF IsTrace
    <3> HIDE DEF g
    <3> QED BY <2>1, <3>1, <3>2
  <2> QED BY <2>2, <2>3
<1>6. g = [i \in 0..m |-> g[i]]
    OBVIOUS
<1> HIDE DEF g
<1>7. IsTrace(g, by, calls, w, m)
    BY <1>5, <1>6, Zenon DEF IsTrace
<1> QED BY <1>7

\* The worlds that lead from one to another.
LeadsTo(f, by, calls, w, v) ==
    /\ f[0] = {w} /\ v \in f[Len(calls)]
    /\ \A i \in 1..Len(calls) : f[i] = Step(by, calls[i], f[i - 1])

\* What Run leads to is the last of them.
LEMMA RunIs ==
    ASSUME NEW by, NEW calls, NEW w, Len(calls) \in Nat, NEW v \in Run(by, calls, w)
    PROVE  \E f : LeadsTo(f, by, calls, w, v)
<1> DEFINE f == CHOOSE f : IsTrace(f, by, calls, w, Len(calls))
<1>1. IsTrace(f, by, calls, w, Len(calls))
    BY TraceExists
<1>2. Run(by, calls, w) = f[Len(calls)]
    BY Zenon DEF Run, IsTrace
<1> HIDE DEF f
<1>3. \A i \in 0..Len(calls) : f[i] = IF i = 0 THEN {w} ELSE Step(by, calls[i], f[i - 1])
    BY <1>1 DEF IsTrace
<1>4. 0 \in 0..Len(calls) /\ \A i \in 1..Len(calls) : i \in 0..Len(calls) /\ i # 0
    OBVIOUS
<1>5. f[0] = {w} /\ \A i \in 1..Len(calls) : f[i] = Step(by, calls[i], f[i - 1])
    BY <1>3, <1>4, Zenon
<1> QED BY <1>2, <1>5, Zenon DEF LeadsTo

\* A batch of harmless calls, whoever runs it.
LEMMA RunGoverned ==
    ASSUME NEW by, NEW calls, Len(calls) \in Nat, \A i \in 1..Len(calls) : IsHarmless(calls[i]),
           NEW w, IsGoverned(w), NEW v \in Run(by, calls, w)
    PROVE  IsGoverned(v)
<1>0. PICK f : LeadsTo(f, by, calls, w, v)
    BY RunIs
<1>1. /\ f[0] = {w} /\ v \in f[Len(calls)]
      /\ \A i \in 1..Len(calls) : f[i] = Step(by, calls[i], f[i - 1])
    BY <1>0 DEF LeadsTo
<1> DEFINE Bad == {k \in 0..Len(calls) : ~\A u \in f[k] : IsGoverned(u)}
<1>2. ASSUME Bad # {} PROVE FALSE
  <2>1. PICK m \in Bad : \A k \in Bad : m <= k
    <3>1. Bad \in SUBSET Nat
      OBVIOUS
    <3> HIDE DEF Bad
    <3> QED BY <1>2, <3>1, LeastNat
  <2>2. m \in 0..Len(calls) /\ m # 0
    BY <1>1
  <2>3. m - 1 \in 0..Len(calls) /\ m - 1 \notin Bad /\ m \in 1..Len(calls)
    <3> HIDE DEF Bad
    <3> QED BY <2>1, <2>2
  <2>4. \A u \in f[m - 1] : IsGoverned(u)
    BY <2>3
  <2>5. \A u \in f[m] : IsGoverned(u)
    BY <1>1, <2>3, <2>4, StepGoverned
  <2> QED BY <2>5
<1>3. \A u \in f[Len(calls)] : IsGoverned(u)
    BY <1>2
<1> QED BY <1>1, <1>3

\* Whatever batch a delegate runs, every major role stays with its holders, and with its admin.
LEMMA DelegateRun ==
    ASSUME NEW by \in Delegates, NEW calls, Len(calls) \in Nat,
           \A i \in 1..Len(calls) : IsAddressed(calls[i]),
           NEW w, IsGoverned(w), NEW v \in Run(by, calls, w)
    PROVE  MajorRolesStay(w, v)
<1>0. PICK f : LeadsTo(f, by, calls, w, v)
    BY RunIs
<1>1. /\ f[0] = {w} /\ v \in f[Len(calls)]
      /\ \A i \in 1..Len(calls) : f[i] = Step(by, calls[i], f[i - 1])
    BY <1>0 DEF LeadsTo
<1> DEFINE Bad == {k \in 0..Len(calls) : ~\A u \in f[k] : IsGoverned(u) /\ MajorRolesStay(w, u)}
<1>2. ASSUME Bad # {} PROVE FALSE
  <2>1. PICK m \in Bad : \A k \in Bad : m <= k
    <3>1. Bad \in SUBSET Nat
      OBVIOUS
    <3> HIDE DEF Bad
    <3> QED BY <1>2, <3>1, LeastNat
  <2>2. m \in 0..Len(calls) /\ m # 0
    <3>1. MajorRolesStay(w, w)
      BY DEF MajorRolesStay
    <3> QED BY <1>1, <3>1
  <2>3. m - 1 \in 0..Len(calls) /\ m - 1 \notin Bad /\ m \in 1..Len(calls)
    <3> HIDE DEF Bad
    <3> QED BY <2>1, <2>2
  <2>4. \A u \in f[m - 1] : IsGoverned(u) /\ MajorRolesStay(w, u)
    BY <2>3
  <2>5. \A u \in f[m] : IsGoverned(u) /\ MajorRolesStay(w, u)
    BY <1>1, <2>3, <2>4, DelegateStep
  <2> QED BY <2>5
<1>3. \A u \in f[Len(calls)] : MajorRolesStay(w, u)
    BY <1>2
<1> QED BY <1>1, <1>3

\* The calls that are harmless by their function, by their register or by their arguments.
LEMMA HarmlessCalls ==
    /\ \A to, fn : fn \notin {"createRole", "grantRole", "revokeRole"} => IsHarmless(Call(to, fn))
    /\ \A role, by : role \notin MajorRoles => IsHarmless(CreateRole(role, by))
    /\ \A role, who : role \notin MajorRoles \/ who \notin Delegates => IsHarmless(Grant(role, who))
    /\ \A role, who : role # "GOVERN_ROLE" /\ role # "GUARDIAN_ROLE" => IsHarmless(Revoke(role, who))
    /\ \A role, who : who # "core" /\ who # "guardianMultisig" => IsHarmless(Revoke(role, who))
    /\ \A reg, role, who : reg # "core" => IsHarmless(GrantIn(reg, role, who)) /\ IsHarmless(RevokeIn(reg, role, who))
    /\ \A c, role : IsHarmless(SetContractAdminRole(c, role))
    /\ \A S : IsHarmless(AddDeposits(S)) /\ IsHarmless(RemoveDeposits(S)) /\ IsHarmless(SetOracles(S))
    /\ \A a, b : IsHarmless(SwapDeposit(a, b))
    /\ \A g, S : IsHarmless(SetSafe(g, S)) /\ IsHarmless(UnsetSafe(g, S))
    /\ \A g, a, b : IsHarmless(SafeMove(g, a, b))
    /\ \A g, a : IsHarmless(RatioMove(g, a)) /\ IsHarmless(RatioMoveERC20(g, a))
    /\ \A a : IsHarmless(AddPool(a)) /\ IsHarmless(RemoveStatic(a)) /\ IsHarmless(AcceptAdmin(a))
    /\ \A a : IsHarmless(SetPool(a, TRUE)) /\ IsHarmless(SetPool(a, FALSE))
    /\ \A a, b : IsHarmless(InitWrapper(a, b)) /\ IsHarmless(SetPendingAdmin(a, b))
    /\ \A a, b : IsHarmless(TransferOwnership(a, b))
    /\ \A a : IsHarmless(UpdateTimelock(a))
<1>1. \A to, fn : fn \notin {"createRole", "grantRole", "revokeRole"} => IsHarmless(Call(to, fn))
    BY DEF IsHarmless, Call
<1>2. \A role, by : role \notin MajorRoles => IsHarmless(CreateRole(role, by))
    BY DEF IsHarmless, CreateRole
<1>3. \A role, who : role \notin MajorRoles \/ who \notin Delegates => IsHarmless(Grant(role, who))
    BY DEF IsHarmless, Grant
<1>4. \A role, who : role # "GOVERN_ROLE" /\ role # "GUARDIAN_ROLE" => IsHarmless(Revoke(role, who))
    BY DEF IsHarmless, Revoke
<1>5. \A role, who : who # "core" /\ who # "guardianMultisig" => IsHarmless(Revoke(role, who))
    BY DEF IsHarmless, Revoke
<1>6. \A reg, role, who : reg # "core" => IsHarmless(GrantIn(reg, role, who)) /\ IsHarmless(RevokeIn(reg, role, who))
    BY DEF IsHarmless, GrantIn, RevokeIn, Grant, Revoke
<1>7. \A c, role : IsHarmless(SetContractAdminRole(c, role))
    BY DEF IsHarmless, SetContractAdminRole
<1>8. \A S : IsHarmless(AddDeposits(S)) /\ IsHarmless(RemoveDeposits(S)) /\ IsHarmless(SetOracles(S))
    BY DEF IsHarmless, AddDeposits, RemoveDeposits, SetOracles, OracleCall
<1>9. /\ \A a, b : IsHarmless(SwapDeposit(a, b))
      /\ \A g, S : IsHarmless(SetSafe(g, S)) /\ IsHarmless(UnsetSafe(g, S))
    BY DEF IsHarmless, SwapDeposit, SetSafe, UnsetSafe
<1>10. /\ \A g, a, b : IsHarmless(SafeMove(g, a, b))
       /\ \A g, a : IsHarmless(RatioMove(g, a)) /\ IsHarmless(RatioMoveERC20(g, a))
    BY DEF IsHarmless, SafeMove, RatioMove, RatioMoveERC20
<1>11. /\ \A a : IsHarmless(AddPool(a)) /\ IsHarmless(RemoveStatic(a)) /\ IsHarmless(AcceptAdmin(a))
       /\ \A a : IsHarmless(SetPool(a, TRUE)) /\ IsHarmless(SetPool(a, FALSE))
    /\ \A a, b : IsHarmless(InitWrapper(a, b)) /\ IsHarmless(SetPendingAdmin(a, b))
    BY DEF IsHarmless, AddPool, RemoveStatic, AcceptAdmin, SetPool, InitWrapper, SetPendingAdmin
<1>12. \A a, b : IsHarmless(TransferOwnership(a, b))
    BY DEF IsHarmless, TransferOwnership
<1>13. \A a : IsHarmless(UpdateTimelock(a))
    BY DEF IsHarmless, TransferOwnership, UpdateTimelock
<1> QED BY <1>1, <1>2, <1>3, <1>4, <1>5, <1>6, <1>7, <1>8, <1>9, <1>10, <1>11, <1>12, <1>13

\* A batch of such calls.
IsHarmlessBatch(calls) ==
    /\ Len(calls) \in Nat
    /\ calls \in Seq({calls[i] : i \in 1..Len(calls)})
    /\ \A i \in 1..Len(calls) : IsHarmless(calls[i])


\* One batch after the other.
LEMMA ConcatHarmless ==
    ASSUME NEW s, NEW t, IsHarmlessBatch(s), IsHarmlessBatch(t)
    PROVE  IsHarmlessBatch(s \o t)
<1> DEFINE S == {s[i] : i \in 1..Len(s)} \cup {t[i] : i \in 1..Len(t)}
<1>1. s \in Seq({s[i] : i \in 1..Len(s)}) /\ t \in Seq({t[i] : i \in 1..Len(t)})
      /\ (\A i \in 1..Len(s) : IsHarmless(s[i])) /\ (\A i \in 1..Len(t) : IsHarmless(t[i]))
    BY DEF IsHarmlessBatch
<1>2. \A c \in S : IsHarmless(c)
    BY <1>1
<1>3. s \in Seq(S) /\ t \in Seq(S)
    BY <1>1
<1> HIDE DEF S
<1>4. s \o t \in Seq(S)
    BY <1>3
<1>5. Len(s \o t) \in Nat /\ \A i \in 1..Len(s \o t) : (s \o t)[i] \in S
    BY <1>4
<1>6. \A u \in Seq(S) : u \in Seq({u[i] : i \in 1..Len(u)})
  <2> TAKE u \in Seq(S)
  <2> DEFINE T == {u[i] : i \in 1..Len(u)}
  <2>1. \A i \in 1..Len(u) : u[i] \in T
    OBVIOUS
  <2> HIDE DEF T
  <2>2. u \in Seq(T)
    BY <2>1
  <2> QED BY <2>2 DEF T
<1> QED BY <1>2, <1>4, <1>5, <1>6 DEF IsHarmlessBatch

\* Pools that are rewarded from now on, and pools that are not.
rewards(pid) == SetPool(pid, TRUE)
stops(pid) == SetPool(pid, FALSE)

\* Every batch of the record, call by call.
LEMMA RecordHarmless == \A p \in DOMAIN Proposals : IsHarmlessBatch(Proposals[p])
<1>pools. \A pid : IsHarmless(rewards(pid)) /\ IsHarmless(stops(pid))
    BY HarmlessCalls DEF rewards, stops
<1>fip_60c. IsHarmlessBatch(fip_60c)
  <2>1. fip_60c =
        << rewards(16), Call("rariPool128FeiPCVDeposit", "deposit"),
        AddDeposits({"rariPool90FeiPCVDepositWrapper", "rariPool91FeiPCVDepositWrapper",
        "rariPool79FeiPCVDepositWrapper", "rariPool72FeiPCVDepositWrapper",
        "rariPool128FeiPCVDepositWrapper", "rariPool22FeiPCVDepositWrapper",
        "rariPool28FeiPCVDepositWrapper", "rariPool31FeiPCVDepositWrapper"}),
        RemoveDeposits({"rariPool90FeiPCVDeposit", "rariPool91FeiPCVDeposit",
        "rariPool79FeiPCVDeposit", "rariPool72FeiPCVDeposit", "rariPool28FeiPCVDeposit",
        "rariPool31FeiPCVDeposit"}) >>
    BY Zenon DEF fip_60c, rewards, stops
  <2> QED BY <1>pools, <2>1, HarmlessCalls DEF IsHarmlessBatch, MajorRoles, Delegates
<1>fip_77. IsHarmlessBatch(fip_77)
  <2>1. fip_77 =
        << stops(1), rewards(14), Call("fuseGuardian", "_setMarketSupplyCapsByUnderlying")
        >>
    BY Zenon DEF fip_77, rewards, stops
  <2> QED BY <1>pools, <2>1, HarmlessCalls DEF IsHarmlessBatch, MajorRoles, Delegates
<1>end_tribe_incentives_pools. IsHarmlessBatch(end_tribe_incentives_pools)
  <2>1. end_tribe_incentives_pools =
        << Grant("TRIBAL_CHIEF_ADMIN_ROLE", "tribalCouncilTimelock"), rewards(0),
        stops(1), stops(2), stops(3), stops(4), stops(5), stops(6), stops(7), stops(8),
        stops(9), stops(10), stops(11), stops(12), stops(13), stops(14), stops(15),
        stops(16), stops(17) >>
    BY Zenon DEF end_tribe_incentives_pools, rewards, stops
  <2> QED BY <1>pools, <2>1, HarmlessCalls DEF IsHarmlessBatch, MajorRoles, Delegates
<1> USE HarmlessCalls DEF IsHarmlessBatch, MajorRoles, Delegates
<1>fip_37. IsHarmlessBatch(fip_37) BY DEF fip_37
<1>fip_38. IsHarmlessBatch(fip_38) BY DEF fip_38
<1>fip_33. IsHarmlessBatch(fip_33) BY DEF fip_33
<1>fip_41. IsHarmlessBatch(fip_41) BY DEF fip_41
<1>fip_45. IsHarmlessBatch(fip_45) BY DEF fip_45
<1>fip_48. IsHarmlessBatch(fip_48) BY DEF fip_48
<1>fip_33b. IsHarmlessBatch(fip_33b) BY DEF fip_33b
<1>fip_53. IsHarmlessBatch(fip_53) BY DEF fip_53
<1>fip_50. IsHarmlessBatch(fip_50) BY DEF fip_50
<1>mergerRari. IsHarmlessBatch(mergerRari) BY DEF mergerRari
<1>merger. IsHarmlessBatch(merger) BY DEF merger
<1>fip_52. IsHarmlessBatch(fip_52) BY DEF fip_52
<1>fip_bribe. IsHarmlessBatch(fip_bribe) BY DEF fip_bribe
<1>fip_55. IsHarmlessBatch(fip_55) BY DEF fip_55
<1>fip_56. IsHarmlessBatch(fip_56) BY DEF fip_56
<1>fip_61. IsHarmlessBatch(fip_61) BY DEF fip_61
<1>fip_60. IsHarmlessBatch(fip_60) BY DEF fip_60
<1>fip_60b. IsHarmlessBatch(fip_60b) BY DEF fip_60b
<1>oracle_upkeep. IsHarmlessBatch(oracle_upkeep) BY DEF oracle_upkeep
<1>fip_62. IsHarmlessBatch(fip_62) BY DEF fip_62
<1>fip_54. IsHarmlessBatch(fip_54) BY DEF fip_54
<1>fip_64. IsHarmlessBatch(fip_64) BY DEF fip_64
<1>fip_67. IsHarmlessBatch(fip_67) BY DEF fip_67
<1>fip_68. IsHarmlessBatch(fip_68) BY DEF fip_68
<1>fip_70. IsHarmlessBatch(fip_70) BY DEF fip_70
<1>fip_72. IsHarmlessBatch(fip_72) BY DEF fip_72
<1>fip_73. IsHarmlessBatch(fip_73) BY DEF fip_73
<1>fip_73b. IsHarmlessBatch(fip_73b) BY DEF fip_73b
<1>fip_73d. IsHarmlessBatch(fip_73d) BY DEF fip_73d
<1>fip_76a. IsHarmlessBatch(fip_76a) BY DEF fip_76a
<1>mover_paused. IsHarmlessBatch(mover_paused) BY DEF mover_paused
<1>fip_76b. IsHarmlessBatch(fip_76b) BY DEF fip_76b
<1>fip_78a_roles. IsHarmlessBatch(fip_78a_roles) BY DEF fip_78a_roles
<1>fip_78a_angle. IsHarmlessBatch(fip_78a_angle) BY DEF fip_78a_angle
<1>fip_79. IsHarmlessBatch(fip_79) BY DEF fip_79
<1>fip_82_roles. IsHarmlessBatch(fip_82_roles) BY DEF fip_82_roles
<1>fip_82_pod. IsHarmlessBatch(fip_82_pod) BY DEF fip_82_pod
<1>fip_83. IsHarmlessBatch(fip_83) BY DEF fip_83
<1>fip_84a. IsHarmlessBatch(fip_84a) BY DEF fip_84a
<1>fip_84b. IsHarmlessBatch(fip_84b) BY DEF fip_84b
<1>fip_84c. IsHarmlessBatch(fip_84c) BY DEF fip_84c
<1>fip_85. IsHarmlessBatch(fip_85) BY DEF fip_85
<1>fip_87. IsHarmlessBatch(fip_87) BY DEF fip_87
<1>fip_92. IsHarmlessBatch(fip_92) BY DEF fip_92
<1>fip_94. IsHarmlessBatch(fip_94) BY DEF fip_94
<1>fip_97. IsHarmlessBatch(fip_97) BY DEF fip_97
<1>fip_98. IsHarmlessBatch(fip_98) BY DEF fip_98
<1>fip_99. IsHarmlessBatch(fip_99) BY DEF fip_99
<1>bribe_pool. IsHarmlessBatch(bribe_pool) BY DEF bribe_pool
<1>fip_82b_createRoles. IsHarmlessBatch(fip_82b_createRoles) BY DEF fip_82b_createRoles
<1>fip_82b_contractAdmins. IsHarmlessBatch(fip_82b_contractAdmins) BY DEF fip_82b_contractAdmins
<1>fip_82b_grants. IsHarmlessBatch(fip_82b_grants) BY DEF fip_82b_grants
<1>fip_82b_guardian. IsHarmlessBatch(fip_82b_guardian) BY DEF fip_82b_guardian
<1>fip_104. IsHarmlessBatch(fip_104) BY DEF fip_104
<1>fip_visor. IsHarmlessBatch(fip_visor) BY DEF fip_visor
<1>minter_paused. IsHarmlessBatch(minter_paused) BY DEF minter_paused
<1>buyback_newpool. IsHarmlessBatch(buyback_newpool) BY DEF buyback_newpool
<1>balancer_gauge_fix. IsHarmlessBatch(balancer_gauge_fix) BY DEF balancer_gauge_fix
<1>oa_cr_fix. IsHarmlessBatch(oa_cr_fix) BY DEF oa_cr_fix
<1>pod_exec_v2. IsHarmlessBatch(pod_exec_v2) BY DEF pod_exec_v2
<1>register_proposal. IsHarmlessBatch(register_proposal) BY DEF register_proposal
<1>withdraw_d3_pool. IsHarmlessBatch(withdraw_d3_pool) BY DEF withdraw_d3_pool
<1>tokemak_withdraw. IsHarmlessBatch(tokemak_withdraw) BY DEF tokemak_withdraw
<1>fip_104b. IsHarmlessBatch(fip_104b) BY DEF fip_104b
<1>eth_lbp. IsHarmlessBatch(eth_lbp) BY DEF eth_lbp
<1>clawback. IsHarmlessBatch(clawback) BY DEF clawback
<1>end_tribe_incentives_roles. IsHarmlessBatch(end_tribe_incentives_roles) BY DEF end_tribe_incentives_roles
<1>tip_111. IsHarmlessBatch(tip_111) BY DEF tip_111
<1>tip_112. IsHarmlessBatch(tip_112) BY DEF tip_112
<1>tip_115. IsHarmlessBatch(tip_115) BY DEF tip_115
<1>buybacks_paused. IsHarmlessBatch(buybacks_paused) BY DEF buybacks_paused
<1>tip_117_roles. IsHarmlessBatch(tip_117_roles) BY DEF tip_117_roles
<1>tip_117_withdrawals. IsHarmlessBatch(tip_117_withdrawals) BY DEF tip_117_withdrawals
<1>tip_117_cleanup. IsHarmlessBatch(tip_117_cleanup) BY DEF tip_117_cleanup
<1>psms_switched. IsHarmlessBatch(psms_switched) BY DEF psms_switched
<1>tip_118_psm. IsHarmlessBatch(tip_118_psm) BY DEF tip_118_psm
<1>tip_118_incentives. IsHarmlessBatch(tip_118_incentives) BY DEF tip_118_incentives
<1>tip_118_angle. IsHarmlessBatch(tip_118_angle) BY DEF tip_118_angle
<1>tip_118_cleanup. IsHarmlessBatch(tip_118_cleanup) BY DEF tip_118_cleanup
<1>tip_119. IsHarmlessBatch(tip_119) BY DEF tip_119
<1>phase_1. IsHarmlessBatch(phase_1) BY DEF phase_1
<1>tip_121a_swaps. IsHarmlessBatch(tip_121a_swaps) BY DEF tip_121a_swaps
<1>tip_121a_cleanup. IsHarmlessBatch(tip_121a_cleanup) BY DEF tip_121a_cleanup
<1>tc_consolidate. IsHarmlessBatch(tc_consolidate) BY DEF tc_consolidate
<1>tip_121a_cont. IsHarmlessBatch(tip_121a_cont) BY DEF tip_121a_cont
<1> HIDE HarmlessCalls DEF IsHarmlessBatch, MajorRoles, Delegates
<1>fip_78a. IsHarmlessBatch(fip_78a)
        BY <1>fip_78a_roles, <1>fip_78a_angle, ConcatHarmless, Zenon DEF fip_78a
<1>fip_82. IsHarmlessBatch(fip_82)
        BY <1>fip_82_roles, <1>fip_82_pod, ConcatHarmless, Zenon DEF fip_82
<1>fip_82b. IsHarmlessBatch(fip_82b)
        BY <1>fip_82b_createRoles, <1>fip_82b_contractAdmins, <1>fip_82b_grants,
       <1>fip_82b_guardian, ConcatHarmless, Zenon DEF fip_82b
<1>end_tribe_incentives. IsHarmlessBatch(end_tribe_incentives)
        BY <1>end_tribe_incentives_pools, <1>end_tribe_incentives_roles, ConcatHarmless,
       Zenon DEF end_tribe_incentives
<1>tip_117. IsHarmlessBatch(tip_117)
        BY <1>tip_117_roles, <1>tip_117_withdrawals, <1>tip_117_cleanup, ConcatHarmless,
       Zenon DEF tip_117
<1>tip_118. IsHarmlessBatch(tip_118)
        BY <1>tip_118_psm, <1>tip_118_incentives, <1>tip_118_angle, <1>tip_118_cleanup,
       ConcatHarmless, Zenon DEF tip_118
<1>tip_121a. IsHarmlessBatch(tip_121a)
        BY <1>tip_121a_swaps, <1>tip_121a_cleanup, ConcatHarmless, Zenon DEF tip_121a
<1>part1. \A p \in {"fip_37", "fip_38", "fip_33", "fip_41", "fip_45", "fip_48", "fip_33b",
               "fip_53", "fip_50", "mergerRari", "merger", "fip_52", "fip_bribe", "fip_55",
               "fip_56"} :
        IsHarmlessBatch(Proposals[p])
    BY <1>fip_37, <1>fip_38, <1>fip_33, <1>fip_41, <1>fip_45, <1>fip_48, <1>fip_33b,
       <1>fip_53, <1>fip_50, <1>mergerRari, <1>merger, <1>fip_52, <1>fip_bribe, <1>fip_55,
       <1>fip_56
       DEF Proposals
<1>part2. \A p \in {"fip_61", "fip_60", "fip_60b", "oracle_upkeep", "fip_60c", "fip_62", "fip_54",
               "fip_64", "fip_67", "fip_68", "fip_70", "fip_72", "fip_73", "fip_73b",
               "fip_73d"} :
        IsHarmlessBatch(Proposals[p])
    BY <1>fip_61, <1>fip_60, <1>fip_60b, <1>oracle_upkeep, <1>fip_60c, <1>fip_62, <1>fip_54,
       <1>fip_64, <1>fip_67, <1>fip_68, <1>fip_70, <1>fip_72, <1>fip_73, <1>fip_73b,
       <1>fip_73d
       DEF Proposals
<1>part3. \A p \in {"fip_76a", "mover_paused", "fip_76b", "fip_77", "fip_78a", "fip_79", "fip_82",
               "fip_83", "fip_84a", "fip_84b", "fip_84c", "fip_85", "fip_87", "fip_92",
               "fip_94"} :
        IsHarmlessBatch(Proposals[p])
    BY <1>fip_76a, <1>mover_paused, <1>fip_76b, <1>fip_77, <1>fip_78a, <1>fip_79, <1>fip_82,
       <1>fip_83, <1>fip_84a, <1>fip_84b, <1>fip_84c, <1>fip_85, <1>fip_87, <1>fip_92,
       <1>fip_94
       DEF Proposals
<1>part4. \A p \in {"fip_97", "fip_98", "fip_99", "bribe_pool", "fip_82b", "fip_104", "fip_visor",
               "minter_paused", "buyback_newpool", "balancer_gauge_fix", "oa_cr_fix",
               "pod_exec_v2", "register_proposal", "withdraw_d3_pool", "tokemak_withdraw"} :
        IsHarmlessBatch(Proposals[p])
    BY <1>fip_97, <1>fip_98, <1>fip_99, <1>bribe_pool, <1>fip_82b, <1>fip_104, <1>fip_visor,
       <1>minter_paused, <1>buyback_newpool, <1>balancer_gauge_fix, <1>oa_cr_fix,
       <1>pod_exec_v2, <1>register_proposal, <1>withdraw_d3_pool, <1>tokemak_withdraw
       DEF Proposals
<1>part5. \A p \in {"fip_104b", "eth_lbp", "clawback", "end_tribe_incentives", "tip_111",
               "tip_112", "tip_115", "buybacks_paused", "tip_117", "psms_switched", "tip_118",
               "tip_119", "phase_1", "tip_121a", "tc_consolidate", "tip_121a_cont"} :
        IsHarmlessBatch(Proposals[p])
    BY <1>fip_104b, <1>eth_lbp, <1>clawback, <1>end_tribe_incentives, <1>tip_111, <1>tip_112,
       <1>tip_115, <1>buybacks_paused, <1>tip_117, <1>psms_switched, <1>tip_118, <1>tip_119,
       <1>phase_1, <1>tip_121a, <1>tc_consolidate, <1>tip_121a_cont
       DEF Proposals
<1>names. DOMAIN Proposals =
        {"fip_37", "fip_38", "fip_33", "fip_41", "fip_45", "fip_48", "fip_33b", "fip_53",
         "fip_50", "mergerRari", "merger", "fip_52", "fip_bribe", "fip_55", "fip_56",
         "fip_61", "fip_60", "fip_60b", "oracle_upkeep", "fip_60c", "fip_62", "fip_54",
         "fip_64", "fip_67", "fip_68", "fip_70", "fip_72", "fip_73", "fip_73b", "fip_73d",
         "fip_76a", "mover_paused", "fip_76b", "fip_77", "fip_78a", "fip_79", "fip_82",
         "fip_83", "fip_84a", "fip_84b", "fip_84c", "fip_85", "fip_87", "fip_92", "fip_94",
         "fip_97", "fip_98", "fip_99", "bribe_pool", "fip_82b", "fip_104", "fip_visor",
         "minter_paused", "buyback_newpool", "balancer_gauge_fix", "oa_cr_fix", "pod_exec_v2",
         "register_proposal", "withdraw_d3_pool", "tokemak_withdraw", "fip_104b", "eth_lbp",
         "clawback", "end_tribe_incentives", "tip_111", "tip_112", "tip_115", "buybacks_paused", "tip_117",
         "psms_switched", "tip_118", "tip_119", "phase_1", "tip_121a", "tc_consolidate",
         "tip_121a_cont"}
    BY DEF Proposals
<1> QED BY <1>names, <1>part1, <1>part2, <1>part3, <1>part4, <1>part5

-----------------------------------------------------------------------------
\* What the proofs show of every state of the history.
RecordInv ==
    /\ submitted \in Nat
    /\ pending \subseteq DOMAIN Proposals
    /\ IsGoverned(world)

\* The protocol before the first proposal of the record.
LEMMA GenesisGoverned == IsGoverned(Genesis)
<1> DEFINE inCore == {{<<"core", role, who>> : who \in genesisHolders[role]} : role \in DOMAIN genesisHolders}
           own == {<<"rewardsDistributorAdmin", "DEFAULT_ADMIN_ROLE", "optimisticTimelock">>,
                   <<"rewardsDistributorAdmin", "AUTO_REWARDS_DISTRIBUTOR_ROLE", "autoRewardsDistributor">>,
                   <<"optimisticTimelock", "TIMELOCK_ADMIN_ROLE", "optimisticTimelock">>,
                   <<"optimisticTimelock", "EXECUTOR_ROLE", "tribalChiefSync">>,
                   <<"tribalCouncilTimelock", "EXECUTOR_ROLE", "podExecutor">>,
                   <<"tribalCouncilTimelock", "CANCELLER_ROLE", "podAdminGateway">>,
                   <<"tribalCouncilTimelock", "PROPOSER_ROLE", "tribalCouncilSafe">>,
                   <<"tribalCouncilTimelock", "EXECUTOR_ROLE", "tribalCouncilSafe">>,
                   <<"tribalCouncilTimelock", "CANCELLER_ROLE", "tribalCouncilSafe">>}
<1>1. Genesis.roles = genesisRoles /\ Genesis.roleAdmin = setupAdmins
      /\ "roles" \in DOMAIN Genesis /\ "roleAdmin" \in DOMAIN Genesis
    BY DEF Genesis
<1>2. genesisRoles = (UNION inCore) \cup own
    BY DEF genesisRoles
<1>3. \A t \in UNION inCore : \E role \in DOMAIN genesisHolders :
        \E who \in genesisHolders[role] : t = <<"core", role, who>>
  <2> TAKE t \in UNION inCore
  <2>1. PICK s \in inCore : t \in s
      OBVIOUS
  <2>2. PICK role \in DOMAIN genesisHolders : s = {<<"core", role, who>> : who \in genesisHolders[role]}
      OBVIOUS
  <2> QED BY <2>1, <2>2
<1>4. \A role \in DOMAIN genesisHolders : \A who \in genesisHolders[role] :
        <<"core", role, who>> \in UNION inCore
  <2> TAKE role \in DOMAIN genesisHolders
  <2> TAKE who \in genesisHolders[role]
  <2>1. <<"core", role, who>> \in {<<"core", role, other>> : other \in genesisHolders[role]}
      OBVIOUS
  <2>2. {<<"core", role, other>> : other \in genesisHolders[role]} \in inCore
      OBVIOUS
  <2> QED BY <2>1, <2>2
<1>5. \A t \in own : t = <<t[1], t[2], t[3]>> /\ t[1] # "core"
    OBVIOUS
<1> HIDE DEF inCore, own
<1>6. \A t \in genesisRoles : t = <<t[1], t[2], t[3]>>
  <2> TAKE t \in genesisRoles
  <2>1. CASE t \in own
      BY <2>1, <1>5
  <2>2. CASE t \in UNION inCore
    <3>1. PICK role \in DOMAIN genesisHolders : \E who \in genesisHolders[role] : t = <<"core", role, who>>
        BY <2>2, <1>3
    <3> QED BY <3>1
  <2> QED BY <2>1, <2>2, <1>2
<1>7. \A role \in MajorRoles : RoleAdmin(Genesis, role) = "GOVERN_ROLE"
    BY <1>1 DEF RoleAdmin, setupAdmins
<1>8. \A role \in MajorRoles, who \in Delegates : <<"core", role, who>> \notin genesisRoles
  <2>1. \A role \in MajorRoles : role \in DOMAIN genesisHolders /\ genesisHolders[role] \cap Delegates = {}
      BY DEF genesisHolders, MajorRoles, Delegates
  <2> SUFFICES ASSUME NEW role \in MajorRoles, NEW who \in Delegates,
                      <<"core", role, who>> \in UNION inCore
               PROVE  FALSE
      BY <1>2, <1>5
  <2>2. PICK other \in DOMAIN genesisHolders : \E one \in genesisHolders[other] :
          <<"core", role, who>> = <<"core", other, one>>
      BY <1>3
  <2> QED BY <2>1, <2>2
<1>9. /\ <<"core", "GOVERN_ROLE", "core">> \in genesisRoles
      /\ <<"core", "GUARDIAN_ROLE", "guardianMultisig">> \in genesisRoles
  <2>1. /\ "GOVERN_ROLE" \in DOMAIN genesisHolders /\ "core" \in genesisHolders["GOVERN_ROLE"]
        /\ "GUARDIAN_ROLE" \in DOMAIN genesisHolders /\ "guardianMultisig" \in genesisHolders["GUARDIAN_ROLE"]
      BY DEF genesisHolders
  <2> QED BY <1>2, <1>4, <2>1
<1> QED BY <1>1, <1>6, <1>7, <1>8, <1>9 DEF IsGoverned, IsWorld, HasRole

\* Deploying contracts changes no role.
LEMMA DeployGoverned ==
    ASSUME NEW w, IsGoverned(w), NEW p, NEW v \in deploy(p, w)
    PROVE  IsGoverned(v)
<1>1. SameRoles(w, v)
    BY DEF deploy, When, SameRoles, IsGoverned, IsWorld
<1> QED BY <1>1, SameGoverned

\* Executing a proposal of the record.
LEMMA ExecuteGoverned ==
    ASSUME NEW w, IsGoverned(w), NEW p \in DOMAIN Proposals, NEW v \in execProposal(p, w)
    PROVE  IsGoverned(v)
<1>1. PICK by : v \in Run(by, Proposals[p], w)
    BY DEF execProposal
<1>2. IsHarmlessBatch(Proposals[p])
    BY RecordHarmless
<1> QED BY <1>1, <1>2, RunGoverned DEF IsHarmlessBatch

\* The guardian's own calls.
LEMMA GuardianGoverned ==
    ASSUME NEW w, IsGoverned(w), NEW c, NEW fn \in {"pause", "unpause"},
           NEW v \in Step("guardianMultisig", Call(c, fn), {w})
    PROVE  IsGoverned(v)
<1>1. IsHarmless(Call(c, fn))
    BY HarmlessCalls
<1> QED BY <1>1, StepGoverned

\* One step of the history.
LEMMA RecordKeeps == HistoryAssumption /\ RecordInv /\ [Next]_vars => RecordInv'
<1> SUFFICES ASSUME HistoryAssumption, RecordInv, [Next]_vars PROVE RecordInv'
    OBVIOUS
<1>1. CASE Submit
  <2>1. submitted + 1 \in 1..Len(order) /\ order \in Seq(DOMAIN Proposals)
    BY <1>1 DEF Submit, RecordInv, HistoryAssumption
  <2>2. order[submitted + 1] \in DOMAIN Proposals
    BY <2>1
  <2>3. IsGoverned(world')
    BY <1>1, DeployGoverned DEF Submit, RecordInv
  <2> QED BY <1>1, <2>2, <2>3 DEF Submit, RecordInv
<1>2. ASSUME NEW p \in pending, Execute(p) \/ Lapse(p) PROVE RecordInv'
  <2>1. IsGoverned(world')
    BY <1>2, ExecuteGoverned DEF Execute, Lapse, RecordInv
  <2> QED BY <1>2, <2>1 DEF Execute, Lapse, RecordInv
<1>3. ASSUME NEW c, GuardianPause(c) \/ GuardianUnpause(c) PROVE RecordInv'
  <2>1. IsGoverned(world')
    BY <1>3, GuardianGoverned DEF GuardianPause, GuardianUnpause, RecordInv
  <2> QED BY <1>3, <2>1 DEF GuardianPause, GuardianUnpause, RecordInv
<1>4. CASE UNCHANGED vars
    BY <1>4 DEF vars, RecordInv
<1> QED BY <1>1, <1>2, <1>3, <1>4 DEF Next

\* The invariant in every state, for every order of the proposals of the record.
THEOREM RecordInvariant == HistoryAssumption /\ Spec => []RecordInv
<1> SUFFICES ASSUME HistoryAssumption PROVE Spec => []RecordInv
    OBVIOUS
<1>1. Init => RecordInv
    BY GenesisGoverned DEF Init, RecordInv
<1>2. RecordInv /\ [Next]_vars => RecordInv'
    BY RecordKeeps
<1> QED BY <1>1, <1>2, PTL DEF Spec

\* Who holds a role, and the role that holds it.
LEMMA HoldersAre ==
    ASSUME NEW w, IsWorld(w), NEW role, NEW who
    PROVE  who \in Holders(w, role) <=> HasRole(w, role, who)
BY DEF IsWorld, Holders, HasRole

\* However the proposals of the record are ordered, overlap, lapse and meet pauses, no body
\* that acts without a vote holds a major role or administers one (Core, Permissions).
THEOREM RecordDelegatesStayMinor == HistoryAssumption /\ Spec => []DelegatesStayMinor
<1>1. RecordInv => DelegatesStayMinor
  <2> SUFFICES ASSUME IsGoverned(world), NEW role \in MajorRoles
               PROVE  /\ Holders(world, role) \cap Delegates = {}
                      /\ Holders(world, RoleAdmin(world, role)) \cap Delegates = {}
    BY DEF DelegatesStayMinor, RecordInv
  <2>1. \A r \in MajorRoles : Holders(world, r) \cap Delegates = {}
    BY HoldersAre DEF IsGoverned
  <2> QED BY <2>1, RoleNames DEF IsGoverned
<1> QED BY <1>1, RecordInvariant, PTL

\* The guardian can take any major role but the governor's from whoever abuses it, through
\* Core, in every state (Core.revokeOverride, Permissions).
THEOREM RecordGuardianCanRevoke == HistoryAssumption /\ Spec => []GuardianCanRevoke
<1>1. RecordInv => GuardianCanRevoke
    BY HoldersAre, RoleNames DEF RecordInv, IsGoverned, GuardianCanRevoke
<1> QED BY <1>1, RecordInvariant, PTL

\* Whatever calls a delegate may batch, whenever it runs them, every major role keeps its
\* holders and its admin, but for a mover that gives up its own: what the TribalCouncil or an optimistic timelock decides alone
\* stays within the minor roles (Permissions, onlyGovernor).
DelegatesAreConfined ==
    \A by \in Delegates : \A S : \A calls \in Seq(S) :
        (\A c \in S : IsAddressed(c)) => \A w \in Run(by, calls, world) : MajorRolesStay(world, w)

\* A delegate's batch leaves every major role to its holders and its admin, in every world
\* the record of proposals can reach.
THEOREM RecordDelegatesConfined == HistoryAssumption /\ Spec => []DelegatesAreConfined
<1>1. RecordInv => DelegatesAreConfined
  <2> SUFFICES ASSUME IsGoverned(world), NEW by \in Delegates, NEW S, NEW calls \in Seq(S),
                      \A c \in S : IsAddressed(c), NEW w \in Run(by, calls, world)
               PROVE  MajorRolesStay(world, w)
    BY DEF DelegatesAreConfined, RecordInv
  <2>1. Len(calls) \in Nat /\ \A i \in 1..Len(calls) : IsAddressed(calls[i])
    OBVIOUS
  <2> QED BY <2>1, DelegateRun
<1> QED BY <1>1, RecordInvariant, PTL
=============================================================================
