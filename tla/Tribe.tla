-------------------------------- MODULE Tribe --------------------------------
(***************************************************************************)
(* tribe/Tribe.sol: the governance token.  Balances, allowances and votes  *)
(* have 96 bits.  Holders delegate the votes of their balance; for every   *)
(* delegate the contract keeps a checkpoint per block in which its votes   *)
(* changed, and looks up the votes of a past block by bisection.           *)
(*                                                                         *)
(* One block is one unit of time.  A signature is an arbitrary choice of   *)
(* its nonce and its deadline: owners sign whatever they like.             *)
(***************************************************************************)
EXTENDS Integers, Sequences, FiniteSetsExt

CONSTANTS
    Accounts, NoAddress,
    Spenders,           \* who may be approved, beyond the owner itself
    Treasury,           \* account of the constructor
    FirstMinter, Minters,
    InitialSupply,      \* 10^9 TRIBE in the code
    UINT96, UINT32,     \* 2^96 and 2^32
    Infinite,           \* 2^256 - 1
    Amounts, Approvals, Deadlines, MaxBlock, MaxNonce  \* bounds

ASSUME TribeAssumption ==
    /\ IsFiniteSet(Accounts) /\ NoAddress \notin Accounts /\ Treasury \in Accounts
    /\ FirstMinter \in Minters
    /\ UINT96 \in Nat \ {0} /\ UINT32 \in Nat \ {0} /\ InitialSupply \in 0..UINT96 - 1
    /\ Infinite \in Nat /\ Infinite >= UINT96
    /\ Amounts \subseteq Nat /\ Approvals \subseteq Nat
    /\ Deadlines \subseteq Nat /\ MaxBlock \in Nat \ {0} /\ MaxNonce \in Nat

VARIABLES
    block, totalSupply, minter, balances, allowances, delegates, nonces,
    checkpoints     \* per account, the checkpoints in the order of their blocks

tribeVars == <<block, totalSupply, minter, balances, allowances, delegates, nonces, checkpoints>>

uint96 == 0..UINT96 - 1

Checkpoint == [fromBlock : 0..UINT32 - 1, votes : uint96]

TribeTypeOK ==
    /\ block \in 1..MaxBlock /\ totalSupply \in uint96 /\ minter \in Minters
    /\ balances \in [Accounts -> uint96]
    /\ allowances \in [Accounts -> [Spenders -> uint96]]
    /\ delegates \in [Accounts -> Accounts \cup {NoAddress}]
    /\ nonces \in [Accounts -> Nat]
    /\ checkpoints \in [Accounts -> Seq(Checkpoint)]

TribeInit ==
    /\ block = 1
    /\ totalSupply = InitialSupply
    /\ minter = FirstMinter
    /\ balances = [a \in Accounts |-> IF a = Treasury THEN InitialSupply ELSE 0]
    /\ allowances = [a \in Accounts |-> [s \in Spenders |-> 0]]
    /\ delegates = [a \in Accounts |-> NoAddress]
    /\ nonces = [a \in Accounts |-> 0]
    /\ checkpoints = [a \in Accounts |-> <<>>]

-----------------------------------------------------------------------------
getCurrentVotes(account) ==
    LET cps == checkpoints[account] IN IF cps = <<>> THEN 0 ELSE cps[Len(cps)].votes

\* The bisection of getPriorVotes among the checkpoints lower..upper, of which the first
\* is not after blockNumber.
priorCheckpoint(cps, blockNumber) ==
    LET bisect[interval \in (1..Len(cps)) \X (1..Len(cps))] ==
            LET lower == interval[1]
                upper == interval[2]
                center == upper - (upper - lower) \div 2
            IN  IF upper <= lower THEN lower
                ELSE IF cps[center].fromBlock = blockNumber THEN center
                ELSE IF cps[center].fromBlock < blockNumber THEN bisect[<<center, upper>>]
                ELSE bisect[<<lower, center - 1>>]
    IN  bisect[<<1, Len(cps)>>]

\* The votes at the end of a block before this one.
getPriorVotes(account, blockNumber) ==
    LET cps == checkpoints[account]
    IN  IF cps = <<>> THEN 0
        ELSE IF cps[Len(cps)].fromBlock <= blockNumber THEN cps[Len(cps)].votes
        ELSE IF cps[1].fromBlock > blockNumber THEN 0
        ELSE cps[priorCheckpoint(cps, blockNumber)].votes

-----------------------------------------------------------------------------
\* Mutation: the last checkpoint is overwritten, whichever block it is of.
writeCheckpointAlways(cps, rep, votes) ==
    LET n == Len(cps[rep])
    IN  IF n > 0 THEN [cps EXCEPT ![rep][n].votes = votes]
        ELSE [cps EXCEPT ![rep] = Append(@, [fromBlock |-> block, votes |-> votes])]

\* The checkpoints cps once the votes of rep are recorded: one checkpoint per block.
writeCheckpoint(cps, rep, votes) ==
    LET n == Len(cps[rep])
    IN  IF n > 0 /\ cps[rep][n].fromBlock = block
        THEN [cps EXCEPT ![rep][n].votes = votes]
        ELSE [cps EXCEPT ![rep] = Append(@, [fromBlock |-> block, votes |-> votes])]

votesMovable(srcRep, dstRep, amount) ==
    srcRep # dstRep /\ amount > 0 =>
        /\ block < UINT32
        /\ srcRep # NoAddress => amount <= getCurrentVotes(srcRep)
        /\ dstRep # NoAddress => getCurrentVotes(dstRep) + amount < UINT96

votesMoved(srcRep, dstRep, amount) ==
    LET taken == IF srcRep = NoAddress THEN checkpoints
                 ELSE writeCheckpoint(checkpoints, srcRep, getCurrentVotes(srcRep) - amount)
    IN  IF srcRep = dstRep \/ amount = 0 THEN checkpoints
        ELSE IF dstRep = NoAddress THEN taken
        ELSE writeCheckpoint(taken, dstRep, getCurrentVotes(dstRep) + amount)

\* _moveDelegates: votes go from one delegate to another, either of which may be nobody.
moveDelegates(srcRep, dstRep, amount) ==
    /\ votesMovable(srcRep, dstRep, amount)
    /\ checkpoints' = votesMoved(srcRep, dstRep, amount)

-----------------------------------------------------------------------------
setMinter(caller, newMinter) ==
    /\ caller = minter
    /\ minter' = newMinter
    /\ UNCHANGED <<block, totalSupply, balances, allowances, delegates, nonces, checkpoints>>

\* Mutation: the delegate of dst is forgotten.
mintWithoutVotes(caller, dst, amount) ==
    /\ caller = minter
    /\ amount < UINT96 /\ totalSupply + amount < UINT96 /\ balances[dst] + amount < UINT96
    /\ totalSupply' = totalSupply + amount
    /\ balances' = [balances EXCEPT ![dst] = @ + amount]
    /\ UNCHANGED <<block, minter, allowances, delegates, nonces, checkpoints>>

mint(caller, dst, amount) ==
    /\ caller = minter
    /\ amount < UINT96 /\ totalSupply + amount < UINT96 /\ balances[dst] + amount < UINT96
    /\ totalSupply' = totalSupply + amount
    /\ balances' = [balances EXCEPT ![dst] = @ + amount]
    /\ moveDelegates(NoAddress, delegates[dst], amount)
    /\ UNCHANGED <<block, minter, allowances, delegates, nonces>>

transferTokens(src, dst, amount) ==
    /\ amount <= balances[src]
    /\ LET debited == [balances EXCEPT ![src] = @ - amount]
       IN  /\ debited[dst] + amount < UINT96
           /\ balances' = [debited EXCEPT ![dst] = @ + amount]
    /\ moveDelegates(delegates[src], delegates[dst], amount)
    /\ UNCHANGED <<block, totalSupply, minter, delegates, nonces>>

transfer(src, dst, amount) ==
    /\ amount < UINT96
    /\ transferTokens(src, dst, amount)
    /\ UNCHANGED allowances

\* The largest allowance is never used up.
transferFrom(spender, src, dst, amount) ==
    LET spenderAllowance == allowances[src][spender]
    IN  /\ amount < UINT96
        /\ IF spenderAllowance = UINT96 - 1 THEN UNCHANGED allowances
           ELSE /\ amount <= spenderAllowance
                /\ allowances' = [allowances EXCEPT ![src][spender] = @ - amount]
        /\ transferTokens(src, dst, amount)

approveSpender(owner, spender, rawAmount) ==
    /\ rawAmount = Infinite \/ rawAmount < UINT96
    /\ allowances' = [allowances EXCEPT ![owner][spender] = IF rawAmount = Infinite THEN UINT96 - 1 ELSE rawAmount]

approve(owner, spender, rawAmount) ==
    /\ approveSpender(owner, spender, rawAmount)
    /\ UNCHANGED <<block, totalSupply, minter, balances, delegates, nonces, checkpoints>>

\* Permits and delegations of one owner are numbered together.
useSignature(signatory, nonce, deadline) ==
    /\ nonce = nonces[signatory]
    /\ block <= deadline
    /\ nonces' = [nonces EXCEPT ![signatory] = @ + 1]

permit(owner, spender, rawAmount, nonce, deadline) ==
    /\ useSignature(owner, nonce, deadline)
    /\ approveSpender(owner, spender, rawAmount)
    /\ UNCHANGED <<block, totalSupply, minter, balances, delegates, checkpoints>>

setDelegate(delegator, delegatee) ==
    /\ delegates' = [delegates EXCEPT ![delegator] = delegatee]
    /\ moveDelegates(delegates[delegator], delegatee, balances[delegator])
    /\ UNCHANGED <<block, totalSupply, minter, balances, allowances>>

delegate(delegator, delegatee) ==
    setDelegate(delegator, delegatee) /\ UNCHANGED nonces

delegateBySig(signatory, delegatee, nonce, expiry) ==
    useSignature(signatory, nonce, expiry) /\ setDelegate(signatory, delegatee)

MineBlock ==
    /\ block < MaxBlock
    /\ block' = block + 1
    /\ UNCHANGED <<totalSupply, minter, balances, allowances, delegates, nonces, checkpoints>>

\* What an account may do by itself or by a signature.
HolderStep(holder) ==
    \/ \E amount \in Amounts, dst \in Accounts : transfer(holder, dst, amount)
    \/ \E spender \in Spenders :
        \/ \E amount \in Amounts, dst \in Accounts : transferFrom(spender, holder, dst, amount)
        \/ \E rawAmount \in Approvals : approve(holder, spender, rawAmount)
    \/ \E delegatee \in Accounts \cup {NoAddress} : delegate(holder, delegatee)
    \/ \E nonce \in 0..MaxNonce, deadline \in Deadlines :
        \/ \E spender \in Spenders, rawAmount \in Approvals : permit(holder, spender, rawAmount, nonce, deadline)
        \/ \E delegatee \in Accounts \cup {NoAddress} : delegateBySig(holder, delegatee, nonce, deadline)

TribeNext ==
    \/ \E caller \in Minters :
        \/ \E newMinter \in Minters : setMinter(caller, newMinter)
        \/ \E dst \in Accounts, amount \in Amounts : mint(caller, dst, amount)
    \/ \E holder \in Accounts : HolderStep(holder)
    \/ MineBlock

TribeSpec == TribeInit /\ [][TribeNext]_tribeVars

-----------------------------------------------------------------------------
History == INSTANCE VoteHistory WITH
    priorVotes <- [b \in 1..block - 1 |-> [a \in Accounts |-> getPriorVotes(a, b)]]

\* The checkpoints implement the history of votes: whatever is minted, transferred and
\* delegated in whatever order, several times in a block included, getPriorVotes returns
\* for every past block what was delegated at its end, and keeps returning it
\* (_moveDelegates, _writeCheckpoint, getPriorVotes).
ImplementsVoteHistory == History!Spec

\* The records of votes never stand in the way of tokens: a holder can always move all of
\* its balance and change its delegate, the votes of no delegate under- or overflowing
\* (_moveDelegates, sub96, add96).
VotesFollowBalances ==
    block < UINT32 =>
        \A a \in Accounts : \A rep \in Accounts \cup {NoAddress} :
            votesMovable(delegates[a], rep, balances[a])
=============================================================================
