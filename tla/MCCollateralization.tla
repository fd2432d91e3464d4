-------------------------- MODULE MCCollateralization --------------------------
(***************************************************************************)
(* The oracle and its cache, each on its own: three deposits and two       *)
(* tokens, so that a token with two deposits loses one of them; or a cache *)
(* over an oracle that reads zero, little and much, and is sometimes       *)
(* invalid.  The address that holds the oracle admin role is the guardian  *)
(* contract of the cache.                                                  *)
(***************************************************************************)
EXTENDS CollateralizationOracle, CollateralizationOracleWrapper

MCRoles == [role \in TribeRoles |->
    CASE role = "GOVERNOR"          -> {"governor"}
      [] role = "GUARDIAN"          -> {"guardian"}
      [] role = "ORACLE_ADMIN_ROLE" -> {"oracleGuardian"}
      [] OTHER                      -> {}]

\* Every mix of empty and full deposits, either token the dear one, one feed at most invalid.
MCReadings ==
    [balance : [Deposits -> {0, 3}], fei : [Deposits -> {1}],
     price : {f \in [Oracles -> {1, 3}] : f["o1"] # f["o2"]},
     valid : {f \in [Oracles -> BOOLEAN] : \E o \in Oracles : f[o]}, totalSupply : {9}]

MCSources == {[pcv |-> 0, fei |-> 2, valid |-> TRUE], [pcv |-> 2, fei |-> 3, valid |-> TRUE],
              [pcv |-> 4, fei |-> 0, valid |-> TRUE], [pcv |-> 4, fei |-> 2, valid |-> FALSE]}

MCEquities == {-1}

\* The variables that only one of the two contracts has.
oracleVars == <<indexes, tokenToOracle>>
cacheOnlyVars == <<now, initialized, source, settings, cacheVars, historyVars>>

VARIABLE situation

MCInit ==
    \/ situation = "oracle" /\ COInit
        /\ now = 1 /\ initialized = FALSE /\ source = [pcv |-> 0, fei |-> 2, valid |-> TRUE]
        /\ startTime = 0 /\ duration = 2 /\ cached = [pcv |-> 0, fei |-> 0, equity |-> 0]
        /\ deviationThresholdBasisPoints = 0 /\ readPauseOverride = FALSE
        /\ guardianStartTime = 1 /\ guardianThreshold = 3 /\ base = [pcv |-> 0, fei |-> 0, since |-> 1]
    \/ situation = "cache" /\ WrapperInit
        /\ indexes = [depositToToken |-> [d \in Deposits |-> NoToken],
                      tokenToDeposits |-> [t \in Tokens |-> {}], tokensInPcv |-> {}]
        /\ tokenToOracle = [t \in Tokens |-> NoOracle]

MCNext ==
    /\ situation' = situation
    /\ \/ situation = "oracle" /\ CONext /\ UNCHANGED cacheOnlyVars
       \/ situation = "cache" /\ WrapperNext /\ UNCHANGED oracleVars

MCSpec == MCInit /\ [][MCNext]_<<coVars, wrapperVars, situation>>
=============================================================================
