--------------------------- MODULE MCGovernorAlpha ---------------------------
(***************************************************************************)
(* Two holders in two situations.  Votes move: between two holders without *)
(* a role, of whom the one who is left without votes can have his proposal *)
(* cancelled.  Or the votes stay, and the second holder is the guardian of *)
(* the governor, and a guardian and governor of the protocol; one proposal *)
(* is enough for them to meet.                                             *)
(***************************************************************************)
EXTENDS GovernorAlpha

MCActors == {"holder", "guardian"}

NoRoles == [role \in TribeRoles |-> {}]

GuardianRoles ==
    [role \in TribeRoles |-> IF role \in {"GOVERNOR", "GUARDIAN"} THEN {"guardian"} ELSE {}]

SteadyVotes == {[account \in MCActors |-> IF account = "holder" THEN 3 ELSE 2]}

MovingVotes ==
    {[account \in MCActors |-> IF account = "holder" THEN 3 ELSE 0],
     [account \in MCActors |-> IF account = "holder" THEN 1 ELSE 2]}

upgrade == [payload |-> "upgrade"]

OneBundle == {<<upgrade>>}

SlowerUpgrade == {<<[setDelay |-> 2], upgrade>>}

Guarded == INSTANCE GovernorAlpha WITH
    roleMembers <- GuardianRoles, FirstGuardian <- "guardian", VoteTables <- SteadyVotes,
    Bundles <- SlowerUpgrade, votingPeriod <- 1, MaxProposals <- 1, MaxTimestamp <- 4

VARIABLE situation

MCInit ==
    \/ situation = "votes move" /\ AlphaInit /\ delay = MINIMUM_DELAY
    \/ situation = "guarded" /\ Guarded!AlphaInit

MCNext ==
    /\ situation' = situation
    /\ \/ situation = "votes move" /\ AlphaNext
       \/ situation = "guarded" /\ Guarded!AlphaNext

MCSpec == MCInit /\ [][MCNext]_<<alphaVars, situation>>

\* Bound: no more than this many transactions are queued at a time.
CONSTANT MaxQueued

BoundedQueue == Cardinality(queuedTransactions) <= MaxQueued

\* Bounds for the guarded situation, which is not about counting: no proposal gets more
\* than one ballot, which is for it, and once the guardian has handed over to the holder,
\* nothing more is looked at.
QuietVote ==
    situation = "guarded" =>
        /\ guardian # "holder"
        /\ \A id \in 1..proposalCount :
            proposals[id].againstVotes = 0 /\ Cardinality(proposals[id].receipts) <= 1
=============================================================================
