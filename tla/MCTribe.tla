------------------------------- MODULE MCTribe -------------------------------
EXTENDS Tribe

\* Bound: one owner at a time has an allowance out or has used a signature, and the
\* minter is replaced only when none has: what votes depend on varies freely.
LittlePaperwork ==
    Cardinality({a \in Accounts : nonces[a] > 0 \/ \E s \in Spenders : allowances[a][s] > 0})
        + (IF minter = FirstMinter THEN 0 ELSE 1) <= 1
=============================================================================
