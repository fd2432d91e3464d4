----------------------- MODULE CollateralizationOracle -----------------------
(***************************************************************************)
(* oracle/collateralization/CollateralizationOracle.sol: the deposits that *)
(* make up the protocol controlled value.  They are kept in three indexes  *)
(* (token of a deposit, deposits of a token, tokens held) that every       *)
(* change has to keep in step, because a reading walks two of them and the *)
(* checks use the third.  The lists that addDeposits, removeDeposits and   *)
(* setOracles take are runs of the single calls; update only forwards to   *)
(* the feeds.                                                              *)
(***************************************************************************)
EXTENDS CoreRef, FiniteSetsExt

CONSTANTS
    Tokens, NoToken,
    Oracles, NoOracle,
    Deposits,
    ONE,            \* the scale of a price
    Readings        \* what deposits, feeds and FEI may report at one moment

ASSUME CollateralizationAssumption ==
    /\ IsFiniteSet(Deposits) /\ IsFiniteSet(Tokens)
    /\ NoToken \notin Tokens /\ NoOracle \notin Oracles
    /\ ONE \in Nat \ {0}
    /\ Readings \subseteq
        [balance : [Deposits -> Nat], fei : [Deposits -> Nat],
         price : [Oracles -> Nat], valid : [Oracles -> BOOLEAN], totalSupply : Nat]

VARIABLES
    indexes,        \* depositToToken, tokenToDeposits and tokensInPcv
    tokenToOracle

coVars == <<indexes, tokenToOracle, coreRefVars>>

COTypeOK ==
    /\ indexes \in [depositToToken : [Deposits -> Tokens \cup {NoToken}],
                    tokenToDeposits : [Tokens -> SUBSET Deposits],
                    tokensInPcv : SUBSET Tokens]
    /\ tokenToOracle \in [Tokens -> Oracles \cup {NoOracle}]
    /\ CoreRefTypeOK

-----------------------------------------------------------------------------
COInit ==
    /\ indexes = [depositToToken |-> [d \in Deposits |-> NoToken],
                  tokenToDeposits |-> [t \in Tokens |-> {}],
                  tokensInPcv |-> {}]
    /\ tokenToOracle = [t \in Tokens |-> NoOracle]
    /\ paused = FALSE
    /\ contractAdminRole = "ORACLE_ADMIN_ROLE"

addable(idx, deposit, token) ==
    /\ idx.depositToToken[deposit] = NoToken
    /\ tokenToOracle[token] # NoOracle

added(idx, deposit, token) ==
    [depositToToken |-> [idx.depositToToken EXCEPT ![deposit] = token],
     tokenToDeposits |-> [idx.tokenToDeposits EXCEPT ![token] = @ \cup {deposit}],
     tokensInPcv |-> idx.tokensInPcv \cup {token}]

\* Mutation: the token leaves with any of its last two deposits.
removedEarly(idx, deposit) ==
    LET token == idx.depositToToken[deposit]
        rest == idx.tokenToDeposits[token] \ {deposit}
    IN  [depositToToken |-> [idx.depositToToken EXCEPT ![deposit] = NoToken],
         tokenToDeposits |-> [idx.tokenToDeposits EXCEPT ![token] = rest],
         tokensInPcv |-> IF Cardinality(rest) <= 1 THEN idx.tokensInPcv \ {token} ELSE idx.tokensInPcv]

removed(idx, deposit) ==
    LET token == idx.depositToToken[deposit]
        rest == idx.tokenToDeposits[token] \ {deposit}
    IN  [depositToToken |-> [idx.depositToToken EXCEPT ![deposit] = NoToken],
         tokenToDeposits |-> [idx.tokenToDeposits EXCEPT ![token] = rest],
         tokensInPcv |-> IF rest = {} THEN idx.tokensInPcv \ {token} ELSE idx.tokensInPcv]

\* token is what the deposit reports in when it is added; the deposit may change its mind.
addDeposit(caller, deposit, token) ==
    /\ onlyGovernorOrAdmin(caller)
    /\ addable(indexes, deposit, token)
    /\ indexes' = added(indexes, deposit, token)
    /\ UNCHANGED <<tokenToOracle, coreRefVars>>

removeDeposit(caller, deposit) ==
    /\ onlyGovernorOrAdmin(caller)
    /\ indexes.depositToToken[deposit] # NoToken
    /\ indexes' = removed(indexes, deposit)
    /\ UNCHANGED <<tokenToOracle, coreRefVars>>

swapDeposit(caller, oldDeposit, newDeposit, token) ==
    /\ onlyGovernorOrAdmin(caller)
    /\ indexes.depositToToken[oldDeposit] # NoToken
    /\ addable(removed(indexes, oldDeposit), newDeposit, token)
    /\ indexes' = added(removed(indexes, oldDeposit), newDeposit, token)
    /\ UNCHANGED <<tokenToOracle, coreRefVars>>

setOracle(caller, token, oracle) ==
    /\ onlyGovernorOrAdmin(caller)
    /\ tokenToOracle' = [tokenToOracle EXCEPT ![token] = oracle]
    /\ UNCHANGED <<indexes, coreRefVars>>

CONext ==
    \E caller \in Actors :
        \/ \E token \in Tokens, deposit \in Deposits :
            \/ addDeposit(caller, deposit, token)
            \/ \E newDeposit \in Deposits : swapDeposit(caller, deposit, newDeposit, token)
        \/ \E deposit \in Deposits : removeDeposit(caller, deposit)
        \/ \E token \in Tokens, oracle \in Oracles : setOracle(caller, token, oracle)
        \/ CoreRefStep(caller) /\ UNCHANGED <<indexes, tokenToOracle>>

COSpec == COInit /\ [][CONext]_coVars

-----------------------------------------------------------------------------
\* pcvStats, on what the deposits and the feeds report at the moment of the call.
tokenBalance(r, token) == SumFunctionOnSet(r.balance, indexes.tokenToDeposits[token])

\* The value of the tokens of which there is any, of a balance each.
value(r, balance) ==
    SumFunction([t \in {t \in DOMAIN balance : balance[t] # 0} |->
                    (r.price[tokenToOracle[t]] * balance[t]) \div ONE])

protocolControlledValue(r) == value(r, [t \in indexes.tokensInPcv |-> tokenBalance(r, t)])

protocolControlledFei(r) ==
    SumFunction([t \in indexes.tokensInPcv |-> SumFunctionOnSet(r.fei, indexes.tokenToDeposits[t])])

statsValid(r) ==
    /\ ~paused
    /\ \A t \in indexes.tokensInPcv : tokenBalance(r, t) # 0 => r.valid[tokenToOracle[t]]

-----------------------------------------------------------------------------
\* The deposits that were added and not removed since, by the token each reported then.
Listed(token) == {d \in Deposits : indexes.depositToToken[d] = token}

\* Whatever was added, removed and swapped, a reading counts every listed deposit exactly
\* once, at the price of its own token, and no other; it never needs the price of a token
\* without a feed, and is valid just when it is not paused and every feed it used is
\* (addDeposit, removeDeposit, swapDeposit, setOracle, pcvStats).
CountsEachDepositOnce ==
    /\ \A d \in Deposits : indexes.depositToToken[d] # NoToken =>
        tokenToOracle[indexes.depositToToken[d]] # NoOracle
    /\ \A r \in Readings :
        LET held == [t \in Tokens |-> SumFunctionOnSet(r.balance, Listed(t))]
            used == {t \in Tokens : held[t] # 0}
        IN  /\ protocolControlledValue(r) =
                SumFunction([t \in used |-> (r.price[tokenToOracle[t]] * held[t]) \div ONE])
            /\ protocolControlledFei(r) = SumFunctionOnSet(r.fei, Deposits \ Listed(NoToken))
            /\ statsValid(r) <=> ~paused /\ \A t \in used : r.valid[tokenToOracle[t]]
=============================================================================
