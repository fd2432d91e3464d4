----------------------------- MODULE MCTimelock -----------------------------
(***************************************************************************)
(* A small timelock: two possible admins, a delay that is too short, the   *)
(* shortest and the longest, and one call to another contract.             *)
(***************************************************************************)
EXTENDS Timelock, FiniteSets

\* Bound on the queue: no more than this many transactions are queued at a time.
CONSTANT MaxQueued

BoundedQueue == Cardinality(queuedTransactions) <= MaxQueued
=============================================================================
