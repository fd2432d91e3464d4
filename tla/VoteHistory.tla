----------------------------- MODULE VoteHistory -----------------------------
(***************************************************************************)
(* What tribe/Tribe.sol promises to those who count votes: the votes of an *)
(* account at the end of a block are the balances delegated to it then,    *)
(* and no later transfer, mint or delegation changes them.                 *)
(***************************************************************************)
EXTENDS Integers, Sequences, FiniteSetsExt

CONSTANTS Accounts, NoAddress

VARIABLES balances, delegates, block,
    priorVotes      \* priorVotes[b]: the votes of every account at the end of block b

voteVars == <<balances, delegates, block, priorVotes>>

delegatedTo(account) ==
    SumFunctionOnSet(balances, {a \in Accounts : delegates[a] = account})

Init ==
    /\ balances \in [Accounts -> Nat]
    /\ delegates = [a \in Accounts |-> NoAddress]
    /\ block = 1
    /\ priorVotes = <<>>

Mint ==
    /\ \E dst \in Accounts :
        /\ balances'[dst] > balances[dst]
        /\ balances' = [balances EXCEPT ![dst] = balances'[dst]]
    /\ UNCHANGED <<delegates, block, priorVotes>>

Transfer ==
    /\ \E src, dst \in Accounts : \E amount \in 1..balances[src] :
        LET debited == [balances EXCEPT ![src] = @ - amount]
        IN  balances' = [debited EXCEPT ![dst] = @ + amount]
    /\ UNCHANGED <<delegates, block, priorVotes>>

Delegate ==
    /\ \E a \in Accounts, d \in Accounts \cup {NoAddress} : delegates' = [delegates EXCEPT ![a] = d]
    /\ UNCHANGED <<balances, block, priorVotes>>

EndBlock ==
    /\ block' = block + 1
    /\ priorVotes' = Append(priorVotes, [a \in Accounts |-> delegatedTo(a)])
    /\ UNCHANGED <<balances, delegates>>

Next == Mint \/ Transfer \/ Delegate \/ EndBlock

Spec == Init /\ [][Next]_voteVars
=============================================================================
