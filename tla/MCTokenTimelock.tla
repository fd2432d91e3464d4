--------------------------- MODULE MCTokenTimelock ---------------------------
(***************************************************************************)
(* Two members of the family: a lock whose beneficiary delegates to        *)
(* others, who are interchangeable because their names are never compared  *)
(* or paid to; and a lock with a clawback admin who is a governor too.     *)
(* Each starts at once or later.                                           *)
(***************************************************************************)
EXTENDS TokenTimelock, TLC

DelegateeSymmetry == Permutations(Delegatees)

VARIABLE member

Clawback == INSTANCE TokenTimelock WITH
    Delegatees <- {}, clawbackAdmin <- "admin", Governors <- {"admin"}, Amounts <- {1, 2, 5},
    MaxReceived <- 8, MaxTime <- 6

MCInit ==
    \/ member = "sub-delegating" /\ TTInit
    \/ member = "clawback" /\ Clawback!TTInit

MCNext ==
    /\ member' = member
    /\ \/ member = "sub-delegating" /\ TTNext
       \/ member = "clawback" /\ Clawback!TTNext

MCSpec == MCInit /\ [][MCNext]_<<ttVars, member>>
=============================================================================
