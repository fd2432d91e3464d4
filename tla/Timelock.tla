------------------------------ MODULE Timelock ------------------------------
(***************************************************************************)
(* dao/timelock/Timelock.sol: its admin queues calls with a moment (eta)   *)
(* before which they do not run; a call runs at most GRACE_PERIOD after    *)
(* it.  The timelock's own delay and pending admin change only through     *)
(* calls it makes to itself.                                               *)
(*                                                                         *)
(* A call is a record; a call that the timelock makes to itself names the  *)
(* function and its argument, every other one is the name of its payload.  *)
(* A call that reverts makes the whole transaction revert: no step.        *)
(***************************************************************************)
EXTENDS Integers, Sequences

CONSTANTS
    Admins,             \* the addresses that may be admin
    NoAdmin,            \* address(0)
    FirstAdmin,         \* admin_ of the constructor
    MINIMUM_DELAY, MAXIMUM_DELAY, GRACE_PERIOD,
    Delays,             \* values for the delay
    Payloads,           \* calls to other contracts
    MaxTimestamp        \* bound

ASSUME TimelockAssumption ==
    /\ MINIMUM_DELAY \in Nat /\ MAXIMUM_DELAY \in Nat /\ GRACE_PERIOD \in Nat
    /\ MINIMUM_DELAY <= MAXIMUM_DELAY
    /\ Delays \subseteq Nat
    /\ NoAdmin \notin Admins /\ FirstAdmin \in Admins
    /\ MaxTimestamp \in Nat \ {0}

VARIABLES
    timestamp,          \* block.timestamp
    admin, pendingAdmin, delay,
    queuedTransactions, \* the transactions whose hash maps to true
    \* History: when each queued transaction was queued and under which delay, and the
    \* same of those that ran in the last step.
    queuedAt, lastRun

adminVars == <<admin, pendingAdmin, delay>>
queueVars == <<queuedTransactions, queuedAt>>
timelockVars == <<timestamp, adminVars, queueVars, lastRun>>

Calls ==
    [setDelay : Delays] \cup [setPendingAdmin : Admins \cup {NoAdmin}] \cup [payload : Payloads]

\* A transaction is identified by the hash of all its fields.
Transactions == [call : Calls, eta : 0..MaxTimestamp]

Runs == [at : Nat, delay : Nat, eta : Nat, ran : Nat]

NotQueued == [at |-> 0, delay |-> 0]

-----------------------------------------------------------------------------
TimelockInit ==
    /\ timestamp = 1
    /\ admin = FirstAdmin
    /\ pendingAdmin = NoAdmin
    /\ delay \in {d \in Delays : MINIMUM_DELAY <= d /\ d <= MAXIMUM_DELAY}
    /\ queuedTransactions = {}
    /\ queuedAt = [tx \in Transactions |-> NotQueued]
    /\ lastRun = {}

acceptAdmin(caller) ==
    /\ caller = pendingAdmin
    /\ admin' = caller
    /\ pendingAdmin' = NoAdmin
    /\ lastRun' = {}
    /\ UNCHANGED <<timestamp, delay, queueVars>>

\* What the mapping of queued transactions becomes, here and below.
enqueue(txs) ==
    /\ queuedTransactions' = queuedTransactions \cup txs
    /\ queuedAt' = [tx \in Transactions |->
            IF tx \in txs THEN [at |-> timestamp, delay |-> delay] ELSE queuedAt[tx]]

dequeue(txs) ==
    /\ queuedTransactions' = queuedTransactions \ txs
    /\ queuedAt' = [tx \in Transactions |-> IF tx \in txs THEN NotQueued ELSE queuedAt[tx]]

\* Mutation: the delay is not enforced.
queueTransactionsEarly(caller, txs) ==
    /\ caller = admin
    /\ \A tx \in txs : tx.eta >= timestamp
    /\ enqueue(txs)
    /\ lastRun' = {}
    /\ UNCHANGED <<timestamp, adminVars>>

\* queueTransaction, for all transactions of one call of the admin.
queueTransactions(caller, txs) ==
    /\ caller = admin
    /\ \A tx \in txs : tx.eta >= timestamp + delay
    /\ enqueue(txs)
    /\ lastRun' = {}
    /\ UNCHANGED <<timestamp, adminVars>>

cancelTransactions(caller, txs) ==
    /\ caller = admin
    /\ dequeue(txs)
    /\ lastRun' = {}
    /\ UNCHANGED <<timestamp, adminVars>>

\* The values that a batch of transactions asks for.  The order inside a batch is left
\* open: a batch that sets one thing twice may end with either value.
newDelays(txs) == {tx.call.setDelay : tx \in {t \in txs : "setDelay" \in DOMAIN t.call}}

newPendingAdmins(txs) ==
    {tx.call.setPendingAdmin : tx \in {t \in txs : "setPendingAdmin" \in DOMAIN t.call}}

setDelay(txs) ==
    /\ \A new \in newDelays(txs) : new >= MINIMUM_DELAY /\ new <= MAXIMUM_DELAY
    /\ IF newDelays(txs) = {} THEN delay' = delay ELSE delay' \in newDelays(txs)

setPendingAdmin(txs) ==
    IF newPendingAdmins(txs) = {}
    THEN pendingAdmin' = pendingAdmin
    ELSE pendingAdmin' \in newPendingAdmins(txs)

ran(txs) ==
    {[at |-> queuedAt[tx].at, delay |-> queuedAt[tx].delay, eta |-> tx.eta, ran |-> timestamp] : tx \in txs}

\* Mutation: the transactions stay queued.
executeAgain(caller, txs) ==
    /\ caller = admin
    /\ \A tx \in txs :
        /\ tx \in queuedTransactions
        /\ tx.eta <= timestamp /\ timestamp <= tx.eta + GRACE_PERIOD
    /\ setDelay(txs)
    /\ setPendingAdmin(txs)
    /\ lastRun' = ran(txs)
    /\ UNCHANGED <<timestamp, admin, queueVars>>

\* executeTransaction, for all transactions of one call of the admin.
executeTransactions(caller, txs) ==
    /\ caller = admin
    /\ \A tx \in txs :
        /\ tx \in queuedTransactions
        /\ tx.eta <= timestamp /\ timestamp <= tx.eta + GRACE_PERIOD
    /\ dequeue(txs)
    /\ setDelay(txs)
    /\ setPendingAdmin(txs)
    /\ lastRun' = ran(txs)
    /\ UNCHANGED <<timestamp, admin>>

AdvanceTimestamp(t) ==
    /\ timestamp < t
    /\ timestamp' = t
    /\ lastRun' = {}
    /\ UNCHANGED <<adminVars, queueVars>>

-----------------------------------------------------------------------------
\* The timelock on its own, its admin free to call anything.
TimelockNext ==
    \/ \E caller \in Admins :
        \/ acceptAdmin(caller)
        \/ \E tx \in Transactions :
            \/ queueTransactions(caller, {tx})
            \/ cancelTransactions(caller, {tx})
            \/ executeTransactions(caller, {tx})
    \/ \E t \in 1..MaxTimestamp : AdvanceTimestamp(t)

TimelockSpec == TimelockInit /\ [][TimelockNext]_timelockVars

-----------------------------------------------------------------------------
TimelockTypeOK ==
    /\ timestamp \in Nat
    /\ admin \in Admins
    /\ pendingAdmin \in Admins \cup {NoAdmin}
    /\ delay \in MINIMUM_DELAY..MAXIMUM_DELAY
    /\ queuedTransactions \subseteq Transactions
    /\ queuedAt \in [Transactions -> [at : Nat, delay : Nat]]
    /\ lastRun \subseteq Runs

\* What ran had waited, since it was queued last, for the delay that was in force then
\* and for the minimum delay, however often it was cancelled and queued again and however
\* the delay has changed since; and it was not stale.
WaitedItsDelay ==
    \A run \in lastRun :
        /\ run.ran >= run.at + run.delay
        /\ run.ran >= run.at + MINIMUM_DELAY
        /\ run.ran <= run.eta + GRACE_PERIOD

\* The inductive strengthening: so will whatever is queued.
QueuedWaits ==
    \A tx \in queuedTransactions :
        /\ queuedAt[tx].delay >= MINIMUM_DELAY
        /\ tx.eta >= queuedAt[tx].at + queuedAt[tx].delay

\* The delay changes, and an admin is nominated, only by a transaction that asks for just
\* that and that leaves the queue in this very step: no such transaction counts twice.
QueueGovernsSettings ==
    [][pendingAdmin' \notin {pendingAdmin, NoAdmin} \/ delay' # delay
        => \E tx \in queuedTransactions \ queuedTransactions' :
            tx.call \in [setDelay : {delay'}] \cup [setPendingAdmin : {pendingAdmin'}]]_timelockVars
=============================================================================
