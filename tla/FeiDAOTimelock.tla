--------------------------- MODULE FeiDAOTimelock ---------------------------
(***************************************************************************)
(* dao/timelock/FeiDAOTimelock.sol: the Timelock with a pause for queueing *)
(* and running, a veto for a guardian, and a governor that may nominate    *)
(* the next admin at once.  rollback, which always reverts since its       *)
(* deadline passed in 2021, is left out.                                   *)
(***************************************************************************)
EXTENDS Timelock, CoreRef

pausableQueueTransactions(caller, txs) ==
    /\ ~paused
    /\ queueTransactions(caller, txs)
    /\ UNCHANGED coreRefVars

pausableExecuteTransactions(caller, txs) ==
    /\ ~paused
    /\ executeTransactions(caller, txs)
    /\ UNCHANGED coreRefVars

vetoTransactions(caller, txs) ==
    /\ onlyGuardianOrGovernor(caller)
    /\ dequeue(txs)
    /\ lastRun' = {}
    /\ UNCHANGED <<timestamp, adminVars, coreRefVars>>

governorSetPendingAdmin(caller, newAdmin) ==
    /\ isGovernor(caller)
    /\ pendingAdmin' = newAdmin
    /\ lastRun' = {}
    /\ UNCHANGED <<timestamp, admin, delay, queueVars, coreRefVars>>

FeiDAOTimelockInit == TimelockInit /\ CoreRefInit
=============================================================================
