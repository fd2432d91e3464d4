---------------------------- MODULE LedgerProofs -----------------------------
(***************************************************************************)
(* Proofs about the contracts that keep accounts, for every set of         *)
(* deposits, tokens, users, pools and amounts.                             *)
(* CollateralizationOracle.tla: a reading counts every deposit once.       *)
(* CollateralizationOracleWrapper.tla: how far its guardian moves a cached *)
(* value.  TribalChief.tla: stakes are held, rewards are covered,          *)
(* allocation points add up, what is locked stays put, and nothing the     *)
(* contract keeps stands between a user and a stake.                       *)
(* TribalChiefSync.tla: the calls that update all pools and then change    *)
(* something keep all this, and every block is credited what it was worth. *)
(***************************************************************************)
EXTENDS CollateralizationOracle, CollateralizationOracleWrapper, TribalChiefSync, SumProofs, SequenceTheorems

\* The three indexes say the same of every deposit.
InStep(idx) ==
    /\ idx \in [depositToToken : [Deposits -> Tokens \cup {NoToken}],
                tokenToDeposits : [Tokens -> SUBSET Deposits],
                tokensInPcv : SUBSET Tokens]
    /\ \A t \in Tokens, d \in Deposits : d \in idx.tokenToDeposits[t] <=> idx.depositToToken[d] = t
    /\ \A t \in Tokens : t \in idx.tokensInPcv <=> idx.tokenToDeposits[t] # {}

\* The inductive invariant: the indexes are in step and every token held has a feed.
COInv ==
    /\ COTypeOK
    /\ InStep(indexes)
    /\ \A t \in indexes.tokensInPcv : tokenToOracle[t] # NoOracle

\* A deposit that is added,
LEMMA AddedInStep ==
    ASSUME NEW idx, InStep(idx), NEW d \in Deposits, NEW t \in Tokens, idx.depositToToken[d] = NoToken
    PROVE  /\ InStep(added(idx, d, t))
           /\ added(idx, d, t).tokensInPcv = idx.tokensInPcv \cup {t}
<1> DEFINE new == added(idx, d, t)
<1>0. NoToken \notin Tokens
    BY CollateralizationAssumption
<1>1. /\ new.depositToToken = [idx.depositToToken EXCEPT ![d] = t]
      /\ new.tokenToDeposits = [idx.tokenToDeposits EXCEPT ![t] = @ \cup {d}]
      /\ new.tokensInPcv = idx.tokensInPcv \cup {t}
      /\ new = [depositToToken |-> new.depositToToken, tokenToDeposits |-> new.tokenToDeposits,
                tokensInPcv |-> new.tokensInPcv]
    BY DEF added
<1> HIDE DEF new
<1>2. /\ idx.depositToToken \in [Deposits -> Tokens \cup {NoToken}]
      /\ idx.tokenToDeposits \in [Tokens -> SUBSET Deposits]
      /\ idx.tokensInPcv \in SUBSET Tokens
    BY DEF InStep
<1>3. /\ new.depositToToken \in [Deposits -> Tokens \cup {NoToken}]
      /\ new.tokenToDeposits \in [Tokens -> SUBSET Deposits]
      /\ new.tokensInPcv \in SUBSET Tokens
    BY <1>1, <1>2
<1>4. /\ \A c \in Deposits : new.depositToToken[c] = IF c = d THEN t ELSE idx.depositToToken[c]
      /\ \A s \in Tokens : new.tokenToDeposits[s] =
            IF s = t THEN idx.tokenToDeposits[s] \cup {d} ELSE idx.tokenToDeposits[s]
    BY <1>1, <1>2
<1>5. ASSUME NEW s \in Tokens, NEW c \in Deposits
      PROVE  c \in new.tokenToDeposits[s] <=> new.depositToToken[c] = s
  <2>1. c \in idx.tokenToDeposits[s] <=> idx.depositToToken[c] = s
    BY DEF InStep
  <2> QED BY <1>0, <1>4, <2>1
<1>6. \A s \in Tokens : s \in new.tokensInPcv <=> new.tokenToDeposits[s] # {}
    BY <1>1, <1>4 DEF InStep
<1>7. InStep(new)
    BY <1>1, <1>3, <1>5, <1>6 DEF InStep
<1> QED BY <1>1, <1>7 DEF new

\* and one that is removed, leave the indexes in step.
LEMMA RemovedInStep ==
    ASSUME NEW idx, InStep(idx), NEW d \in Deposits, idx.depositToToken[d] # NoToken
    PROVE  /\ InStep(removed(idx, d))
           /\ removed(idx, d).tokensInPcv \subseteq idx.tokensInPcv
<1> DEFINE new == removed(idx, d)
           t == idx.depositToToken[d]
           rest == idx.tokenToDeposits[t] \ {d}
<1>0. NoToken \notin Tokens
    BY CollateralizationAssumption
<1>1. /\ new.depositToToken = [idx.depositToToken EXCEPT ![d] = NoToken]
      /\ new.tokenToDeposits = [idx.tokenToDeposits EXCEPT ![t] = rest]
      /\ new.tokensInPcv = IF rest = {} THEN idx.tokensInPcv \ {t} ELSE idx.tokensInPcv
      /\ new = [depositToToken |-> new.depositToToken, tokenToDeposits |-> new.tokenToDeposits,
                tokensInPcv |-> new.tokensInPcv]
    BY DEF removed
<1>2. /\ idx.depositToToken \in [Deposits -> Tokens \cup {NoToken}]
      /\ idx.tokenToDeposits \in [Tokens -> SUBSET Deposits]
      /\ idx.tokensInPcv \in SUBSET Tokens
      /\ t \in Tokens
    BY DEF InStep
<1> HIDE DEF new, t
<1>3. /\ new.depositToToken \in [Deposits -> Tokens \cup {NoToken}]
      /\ new.tokenToDeposits \in [Tokens -> SUBSET Deposits]
      /\ new.tokensInPcv \in SUBSET Tokens
    BY <1>1, <1>2
<1>4. /\ \A c \in Deposits : new.depositToToken[c] = IF c = d THEN NoToken ELSE idx.depositToToken[c]
      /\ \A s \in Tokens : new.tokenToDeposits[s] = IF s = t THEN rest ELSE idx.tokenToDeposits[s]
    BY <1>1, <1>2
<1>5. ASSUME NEW s \in Tokens, NEW c \in Deposits
      PROVE  c \in new.tokenToDeposits[s] <=> new.depositToToken[c] = s
  <2>1. c \in idx.tokenToDeposits[s] <=> idx.depositToToken[c] = s
    BY DEF InStep
  <2> QED BY <1>0, <1>4, <2>1 DEF t
<1>6. ASSUME NEW s \in Tokens PROVE s \in new.tokensInPcv <=> new.tokenToDeposits[s] # {}
  <2>1. s \in idx.tokensInPcv <=> idx.tokenToDeposits[s] # {}
    BY DEF InStep
  <2> QED BY <1>1, <1>4, <2>1
<1>7. InStep(new)
    BY <1>1, <1>3, <1>5, <1>6 DEF InStep
<1> QED BY <1>1, <1>7 DEF new

\* The empty oracle.
LEMMA OracleInitial == COInit => COInv
<1> SUFFICES ASSUME COInit PROVE COInv
    OBVIOUS
<1>1. COTypeOK
    BY DEF COInit, COTypeOK, CoreRefTypeOK, TribeRoles
<1>2. InStep(indexes)
    BY CollateralizationAssumption DEF COInit, InStep
<1> QED BY <1>1, <1>2 DEF COInv, COInit

\* The flag and the admin role stay what they are.
LEMMA RolesKeep ==
    ASSUME CoreRefTypeOK, NEW caller, CoreRefStep(caller) \/ UNCHANGED coreRefVars
    PROVE  CoreRefTypeOK'
BY RolesAssumption
   DEF CoreRefTypeOK, CoreRefStep, pause, unpause, setContractAdminRole, coreRefVars

\* Every step of the oracle keeps the invariant.
LEMMA OracleKeeps == COInv /\ [CONext]_coVars => COInv'
<1> SUFFICES ASSUME COInv, [CONext]_coVars PROVE COInv'
    OBVIOUS
<1>0. /\ CoreRefTypeOK /\ InStep(indexes)
      /\ tokenToOracle \in [Tokens -> Oracles \cup {NoOracle}]
      /\ \A t \in indexes.tokensInPcv : t \in Tokens /\ tokenToOracle[t] # NoOracle
    BY DEF COInv, COTypeOK
\* A change of the indexes that keeps them in step and brings in no token without a feed.
<1>1. ASSUME InStep(indexes'), \A t \in indexes'.tokensInPcv : tokenToOracle[t] # NoOracle,
             UNCHANGED <<tokenToOracle, coreRefVars>>
      PROVE  COInv'
  <2>1. CoreRefTypeOK'
    BY <1>0, <1>1 DEF CoreRefTypeOK, coreRefVars
  <2> QED BY <1>0, <1>1, <2>1 DEF COInv, COTypeOK, InStep
<1>2. ASSUME NEW caller, NEW token \in Tokens, NEW listed \in Deposits, addDeposit(caller, listed, token)
      PROVE  COInv'
  <2>1. InStep(indexes') /\ indexes'.tokensInPcv = indexes.tokensInPcv \cup {token}
    BY <1>0, <1>2, AddedInStep DEF addDeposit, addable
  <2>2. tokenToOracle[token] # NoOracle /\ UNCHANGED <<tokenToOracle, coreRefVars>>
    BY <1>2 DEF addDeposit, addable
  <2> QED BY <1>0, <1>1, <2>1, <2>2
<1>3. ASSUME NEW caller, NEW listed \in Deposits, removeDeposit(caller, listed)
      PROVE  COInv'
  <2>1. InStep(indexes') /\ indexes'.tokensInPcv \subseteq indexes.tokensInPcv
    BY <1>0, <1>3, RemovedInStep DEF removeDeposit
  <2>2. UNCHANGED <<tokenToOracle, coreRefVars>>
    BY <1>3 DEF removeDeposit
  <2> QED BY <1>0, <1>1, <2>1, <2>2
<1>4. ASSUME NEW caller, NEW token \in Tokens, NEW listed \in Deposits, NEW newDeposit \in Deposits,
             swapDeposit(caller, listed, newDeposit, token)
      PROVE  COInv'
  <2> DEFINE between == removed(indexes, listed)
  <2>1. InStep(between) /\ between.tokensInPcv \subseteq indexes.tokensInPcv
    BY <1>0, <1>4, RemovedInStep DEF swapDeposit
  <2>2. /\ between.depositToToken[newDeposit] = NoToken /\ tokenToOracle[token] # NoOracle
        /\ indexes' = added(between, newDeposit, token) /\ UNCHANGED <<tokenToOracle, coreRefVars>>
    BY <1>4 DEF swapDeposit, addable
  <2> HIDE DEF between
  <2>3. InStep(indexes') /\ indexes'.tokensInPcv = between.tokensInPcv \cup {token}
    BY <2>1, <2>2, AddedInStep
  <2> QED BY <1>0, <1>1, <2>1, <2>2, <2>3
<1>5. ASSUME NEW caller, NEW token \in Tokens, NEW oracle \in Oracles, setOracle(caller, token, oracle)
      PROVE  COInv'
  <2>1. /\ tokenToOracle' \in [Tokens -> Oracles \cup {NoOracle}] /\ oracle # NoOracle
        /\ \A t \in Tokens : tokenToOracle'[t] = IF t = token THEN oracle ELSE tokenToOracle[t]
        /\ indexes' = indexes
    BY <1>0, <1>5, CollateralizationAssumption DEF setOracle
  <2>2. CoreRefTypeOK'
    BY <1>0, <1>5, RolesKeep DEF setOracle
  <2> QED BY <1>0, <2>1, <2>2 DEF COInv, COTypeOK
<1>6. ASSUME NEW caller, CoreRefStep(caller) /\ UNCHANGED <<indexes, tokenToOracle>>
      PROVE  COInv'
  <2>1. CoreRefTypeOK'
    BY <1>0, <1>6, RolesKeep
  <2> QED BY <1>6, <2>1 DEF COInv, COTypeOK
<1>7. CASE UNCHANGED coVars
    BY <1>0, <1>1, <1>7 DEF coVars
<1> QED BY <1>2, <1>3, <1>4, <1>5, <1>6, <1>7 DEF CONext

\* Type correctness, and with it: the three indexes stay in step and no token is held
\* whose price the oracle could not ask for.
THEOREM OracleInvariant == COSpec => []COInv
<1> QED BY OracleInitial, OracleKeeps, PTL DEF COSpec

\* Two lists of balances that agree, one of them with more tokens of which there is
\* nothing, have the same value.
LEMMA SameValue ==
    ASSUME NEW r, NEW S \in SUBSET Tokens, NEW f, NEW g, DOMAIN f = S, DOMAIN g = Tokens,
           \A t \in S : f[t] = g[t], \A t \in Tokens \ S : g[t] = 0
    PROVE  value(r, f) = value(r, g)
<1>1. {t \in DOMAIN f : f[t] # 0} = {t \in DOMAIN g : g[t] # 0}
    OBVIOUS
<1> DEFINE U == {t \in DOMAIN f : f[t] # 0}
<1>2. \A t \in U : f[t] = g[t]
    OBVIOUS
<1> HIDE DEF U
<1>3. [t \in U |-> (r.price[tokenToOracle[t]] * f[t]) \div ONE]
        = [t \in U |-> (r.price[tokenToOracle[t]] * g[t]) \div ONE]
    BY <1>2, Zenon
<1> QED BY <1>1, <1>3, Zenon DEF value, U

\* The invariant makes every reading right.
LEMMA ReadingsRight == COInv => CountsEachDepositOnce
<1> SUFFICES ASSUME COInv PROVE CountsEachDepositOnce
    OBVIOUS
<1>0. /\ IsFiniteSet(Deposits) /\ IsFiniteSet(Tokens) /\ NoToken \notin Tokens
      /\ indexes.depositToToken \in [Deposits -> Tokens \cup {NoToken}]
      /\ indexes.tokensInPcv \in SUBSET Tokens
      /\ \A t \in Tokens : indexes.tokenToDeposits[t] \in SUBSET Deposits
      /\ \A t \in Tokens : indexes.tokenToDeposits[t] = Listed(t)
      /\ \A t \in Tokens : t \in indexes.tokensInPcv <=> Listed(t) # {}
  <2>1. /\ indexes.depositToToken \in [Deposits -> Tokens \cup {NoToken}]
        /\ indexes.tokensInPcv \in SUBSET Tokens
        /\ \A t \in Tokens : indexes.tokenToDeposits[t] \in SUBSET Deposits
    BY DEF COInv, InStep
  <2>2. ASSUME NEW t \in Tokens PROVE indexes.tokenToDeposits[t] = Listed(t)
    BY <2>1 DEF COInv, InStep, Listed
  <2>3. ASSUME NEW t \in Tokens PROVE t \in indexes.tokensInPcv <=> Listed(t) # {}
    BY <2>2 DEF COInv, InStep
  <2> QED BY <2>1, <2>2, <2>3, CollateralizationAssumption
<1>1. ASSUME NEW d \in Deposits, indexes.depositToToken[d] # NoToken
      PROVE  tokenToOracle[indexes.depositToToken[d]] # NoOracle
  <2>1. d \in Listed(indexes.depositToToken[d])
    BY DEF Listed
  <2>2. indexes.depositToToken[d] \in Tokens /\ indexes.depositToToken[d] \in indexes.tokensInPcv
    BY <1>0, <1>1, <2>1
  <2> QED BY <2>2 DEF COInv
<1>2. ASSUME NEW r \in Readings, NEW held, held = [t \in Tokens |-> SumFunctionOnSet(r.balance, Listed(t))],
             NEW used, used = {t \in Tokens : held[t] # 0}
      PROVE  /\ protocolControlledValue(r) =
                    SumFunction([t \in used |-> (r.price[tokenToOracle[t]] * held[t]) \div ONE])
             /\ protocolControlledFei(r) = SumFunctionOnSet(r.fei, Deposits \ Listed(NoToken))
             /\ statsValid(r) <=> ~paused /\ \A t \in used : r.valid[tokenToOracle[t]]
  <2>0. \A d \in Deposits : r.fei[d] \in Int
    BY CollateralizationAssumption
  <2>1. /\ \A t \in indexes.tokensInPcv : tokenBalance(r, t) = held[t]
        /\ \A t \in Tokens \ indexes.tokensInPcv : held[t] = 0
    BY <1>0, <1>2, SumOfNothing DEF tokenBalance
  <2>2. protocolControlledValue(r) = value(r, held)
    <3> DEFINE f == [t \in indexes.tokensInPcv |-> tokenBalance(r, t)]
    <3>1. DOMAIN f = indexes.tokensInPcv /\ DOMAIN held = Tokens /\ \A t \in indexes.tokensInPcv : f[t] = held[t]
      BY <1>2, <2>1
    <3>2. protocolControlledValue(r) = value(r, f)
      BY DEF protocolControlledValue
    <3> HIDE DEF f
    <3>3. value(r, f) = value(r, held)
      BY <1>0, <2>1, <3>1, SameValue
    <3> QED BY <3>2, <3>3
  <2>3. protocolControlledFei(r) = SumFunctionOnSet(r.fei, Deposits \ Listed(NoToken))
    <3> DEFINE total == [t \in indexes.tokensInPcv |-> SumFunctionOnSet(r.fei, indexes.tokenToDeposits[t])]
    <3>1. \A t \in indexes.tokensInPcv : total[t] = SumFunctionOnSet(r.fei, {d \in Deposits : indexes.depositToToken[d] = t})
      BY <1>0 DEF Listed
    <3>2. protocolControlledFei(r) = SumFunctionOnSet(total, indexes.tokensInPcv)
      <4>1. DOMAIN total = indexes.tokensInPcv
        OBVIOUS
      <4> QED BY <4>1 DEF protocolControlledFei, SumFunction
    <3> HIDE DEF total
    <3>3. IsFiniteSet(indexes.tokensInPcv)
      BY <1>0, FS_Subset
    <3>4. IsGrouping(Deposits, indexes.tokensInPcv, r.fei, indexes.depositToToken, total)
      BY <1>0, <2>0, <3>1, <3>3 DEF IsGrouping
    <3>5. SumFunctionOnSet(total, indexes.tokensInPcv)
            = SumFunctionOnSet(r.fei, {d \in Deposits : indexes.depositToToken[d] \in indexes.tokensInPcv})
      BY <3>4, SumOfGroups
    <3>6. {d \in Deposits : indexes.depositToToken[d] \in indexes.tokensInPcv} = Deposits \ Listed(NoToken)
      <4>1. ASSUME NEW d \in Deposits
            PROVE  indexes.depositToToken[d] \in indexes.tokensInPcv <=> indexes.depositToToken[d] # NoToken
        <5>1. d \in Listed(indexes.depositToToken[d])
          BY DEF Listed
        <5> QED BY <1>0, <5>1
      <4> QED BY <4>1 DEF Listed
    <3> QED BY <3>2, <3>5, <3>6
  <2>4. statsValid(r) <=> ~paused /\ \A t \in used : r.valid[tokenToOracle[t]]
    BY <1>0, <1>2, <2>1 DEF statsValid
  <2>5. value(r, held) = SumFunction([t \in used |-> (r.price[tokenToOracle[t]] * held[t]) \div ONE])
    <3>1. {t \in DOMAIN held : held[t] # 0} = used
      BY <1>2
    <3> QED BY <3>1, Zenon DEF value
  <2> QED BY <2>2, <2>3, <2>4, <2>5
<1> QED BY <1>1, <1>2 DEF CountsEachDepositOnce

\* Whatever is added, removed and swapped, in any order, and whatever deposits and feeds
\* report: a reading of pcvStats counts every listed deposit once, and no other.
THEOREM OracleCountsOnce == COSpec => []CountsEachDepositOnce
<1> QED BY OracleInvariant, ReadingsRight, PTL

-----------------------------------------------------------------------------
\* The records of TribalChief.
Pool == [virtualTotalSupply : Nat, accTribePerShare : Nat, lastRewardBlock : Nat, allocPoint : Nat, unlocked : BOOLEAN]
User == [rewardDebt : Int, virtualAmount : Nat]
Deposit == [amount : Nat, unlockBlock : Nat, multiplier : Nat]
Entry == [emitted : Nat, paid : Nat, roundings : Nat]

\* What a user is owed, in units of TRIBE / ACC_TRIBE_PRECISION.  A debt that is ahead of
\* what has accumulated is not money the contract can count on: emergencyWithdraw and the
\* next deposit leave it behind.
owed(pool, info) ==
    LET claim == info.virtualAmount * pool.accTribePerShare - ACC_TRIBE_PRECISION * info.rewardDebt
    IN  IF claim > 0 THEN claim ELSE 0

\* What the users of a pool are owed, weigh and have staked.
dues(pool, users) == [u \in Users |-> owed(pool, users[u])]
weights(users) == [u \in Users |-> users[u].virtualAmount]
stakes(deps) == [u \in Users |-> amountOf(deps[u], DOMAIN deps[u])]

\* What holds of one pool.
PoolTyped(pool, users, deps, held, entry) ==
    /\ pool \in Pool
    /\ users \in [Users -> User]
    /\ deps \in [Users -> Seq(Deposit)]
    /\ held \in Nat
    /\ entry \in Entry

\* The weight of the pool covers its users', a user's covers its deposits', stakes are
\* held, and before any rounding nothing is owed that was not credited.
PoolCovered(pool, users, deps, held, entry) ==
    /\ pool.virtualTotalSupply >= SumFunctionOnSet(weights(users), Users)
    /\ \A u \in Users : users[u].virtualAmount >= virtualOf(deps[u], DOMAIN deps[u])
    /\ held = SumFunctionOnSet(stakes(deps), Users)
    /\ ACC_TRIBE_PRECISION * entry.paid + SumFunctionOnSet(dues(pool, users), Users)
            <= ACC_TRIBE_PRECISION * (entry.emitted + entry.roundings)

\* What holds of one pool, types included.
PoolInv(pool, users, deps, held, entry) ==
    PoolTyped(pool, users, deps, held, entry) /\ PoolCovered(pool, users, deps, held, entry)

\* Type correctness of TribalChief.
ChiefTypeOK ==
    /\ block \in Nat /\ totalAllocPoint \in Nat /\ tribePerBlock \in Nat /\ tribeBalance \in Nat
    /\ poolInfo \in Seq(Pool)
    /\ rewardMultipliers \in [pids -> [LockLengths -> Nat]]
    /\ userInfo \in [pids -> [Users -> User]]
    /\ depositInfo \in [pids -> [Users -> Seq(Deposit)]]
    /\ stakedBalance \in [pids -> Nat]
    /\ ledger \in [pids -> Entry]
    /\ CoreRefTypeOK

\* The inductive invariant.
ChiefInv ==
    /\ ChiefTypeOK
    /\ AllocPointsSum
    /\ \A pid \in pids :
        PoolInv(poolInfo[pid], userInfo[pid], depositInfo[pid], stakedBalance[pid], ledger[pid])

-----------------------------------------------------------------------------
\* Integer division and its remainder.
LEMMA DivParts ==
    ASSUME NEW x \in Nat, NEW y \in Nat, y > 0
    PROVE  /\ x \div y \in Nat /\ x % y \in Nat
           /\ x % y < y /\ x = y * (x \div y) + (x % y)
BY SMT

\* Parts that are rounded down on their own are together at most the whole.
LEMMA FloorAdds ==
    ASSUME NEW x \in Nat, NEW y \in Nat, NEW d \in Nat, d > 0
    PROVE  x \div d + y \div d <= (x + y) \div d
<1> DEFINE p == x \div d
           q == y \div d
           r == (x + y) \div d
<1>1. /\ p \in Nat /\ q \in Nat /\ r \in Nat
      /\ d * p <= x /\ d * q <= y /\ x + y < d * r + d
    BY DivParts
<1> HIDE DEF p, q, r
<1>2. d * (p + q) < d * (r + 1)
    BY <1>1
<1>3. ASSUME r + 1 <= p + q PROVE FALSE
  <2>1. d * (r + 1) <= d * (p + q)
    BY <1>1, <1>3
  <2> QED BY <1>1, <1>2, <2>1
<1> QED BY <1>1, <1>3 DEF p, q, r

\* Products of naturals.
LEMMA TimesNat == \A x, y \in Nat : x * y \in Nat
OBVIOUS

\* The weight of a stake is a natural,
LEMMA VirtualNat ==
    ASSUME NEW amount \in Nat, NEW multiplier \in Nat
    PROVE  virtual(amount, multiplier) \in Nat
BY TribalChiefAssumption, TimesNat, DivParts DEF virtual

\* and nothing weighs nothing.
LEMMA VirtualZero == virtual(0, 0) = 0
BY TribalChiefAssumption DEF virtual

\* What is left of a deposit weighs at most what the part taken left of its weight.
LEMMA VirtualSplits ==
    ASSUME NEW whole \in Nat, NEW part \in Nat, part <= whole, NEW m \in Nat
    PROVE  virtual(whole - part, m) <= virtual(whole, m) - virtual(part, m)
<1>1. whole - part \in Nat /\ (whole - part) * m \in Nat /\ part * m \in Nat
    BY TimesNat
<1>2. (whole - part) * m + part * m = whole * m
    BY SMT
<1>3. virtual(whole - part, m) + virtual(part, m) <= virtual(whole, m)
    BY <1>1, <1>2, FloorAdds, TribalChiefAssumption DEF virtual
<1> QED BY <1>1, <1>3, VirtualNat

-----------------------------------------------------------------------------
\* What a weighing of its elements makes of a sequence, by index and in total.
measure(w, s) == [i \in DOMAIN s |-> w[s[i]]]
total(w, s) == SumFunctionOnSet(measure(w, s), DOMAIN s)

\* What the operations make of a sequence s: an element is appended, one is replaced, or
\* all with an index of I are.
Appended(s2, s, e) == s2 = Append(s, e)
Replaced(s2, s, index, e) == s2 = [s EXCEPT ![index] = e]
Emptied(s2, s, I, e) ==
    /\ I \in SUBSET DOMAIN s
    /\ s2 = [i \in DOMAIN s |-> IF i \in I THEN e ELSE s[i]]

\* Elements of a sequence give way to one that weighs nothing.
EmptiedOf(T, w, s2, s, I, e) ==
    w \in [T -> Nat] /\ s \in Seq(T) /\ e \in T /\ w[e] = 0 /\ Emptied(s2, s, I, e)

\* The measures of a sequence are natural numbers, one for each of finitely many indexes.
LEMMA MeasureFacts ==
    ASSUME NEW T, NEW w \in [T -> Nat], NEW s \in Seq(T)
    PROVE  /\ DOMAIN s = 1..Len(s) /\ Len(s) \in Nat /\ IsFiniteSet(DOMAIN s)
           /\ \A i \in DOMAIN s : s[i] \in T /\ measure(w, s)[i] = w[s[i]] /\ measure(w, s)[i] \in Nat
<1>1. DOMAIN s = 1..Len(s) /\ Len(s) \in Nat
    BY LenProperties
<1>2. IsFiniteSet(1..Len(s))
    BY <1>1, FS_Interval
<1>3. ASSUME NEW i \in DOMAIN s
      PROVE  s[i] \in T /\ measure(w, s)[i] = w[s[i]] /\ measure(w, s)[i] \in Nat
  <2>1. s[i] \in T
    BY <1>1, ElementOfSeq
  <2> QED BY <2>1 DEF measure
<1> QED BY <1>1, <1>2, <1>3

\* A part of the total is a natural number and at most the whole.
LEMMA PartOfTotal ==
    ASSUME NEW T, NEW w \in [T -> Nat], NEW s \in Seq(T), NEW I \in SUBSET DOMAIN s
    PROVE  /\ IsFiniteSet(I)
           /\ SumFunctionOnSet(measure(w, s), I) \in Nat
           /\ SumFunctionOnSet(measure(w, s), I) <= total(w, s)
           /\ total(w, s) \in Nat
<1>1. IsFiniteSet(I) /\ IsFiniteSet(DOMAIN s)
    BY MeasureFacts, FS_Subset
<1>2. (\A i \in DOMAIN s : measure(w, s)[i] \in Nat) /\ \A i \in I : measure(w, s)[i] \in Nat
    BY MeasureFacts
<1>3. SumFunctionOnSet(measure(w, s), I) \in Nat
    BY <1>1, <1>2, SumNat
<1>4. total(w, s) \in Nat
    BY <1>1, <1>2, SumNat DEF total
<1>5. SumFunctionOnSet(measure(w, s), I) <= total(w, s)
    BY <1>1, <1>2, SumSubset DEF total
<1> QED BY <1>1, <1>3, <1>4, <1>5

\* The total of no elements is zero.
LEMMA TotalOfNothing == ASSUME NEW w PROVE total(w, <<>>) = 0
<1>1. DOMAIN <<>> = {}
    OBVIOUS
<1> QED BY <1>1, SumOfNothing DEF total

\* An element that is appended adds its weight.
LEMMA TotalAppended ==
    ASSUME NEW T, NEW w \in [T -> Nat], NEW s \in Seq(T), NEW e \in T, NEW s2, Appended(s2, s, e)
    PROVE  s2 \in Seq(T) /\ total(w, s2) = total(w, s) + w[e]
<1> DEFINE n == Len(s) + 1
<1>1. /\ s2 \in Seq(T) /\ Len(s) \in Nat /\ Len(s2) = n /\ s2[n] = e
      /\ \A i \in 1..Len(s) : s2[i] = s[i]
    BY DEF Appended
<1>2. DOMAIN s = 1..Len(s) /\ DOMAIN s2 = 1..n
    BY <1>1, MeasureFacts
<1>3. /\ DOMAIN s2 = DOMAIN s \cup {n} /\ n \notin DOMAIN s /\ n \in DOMAIN s2
      /\ \A i \in DOMAIN s : s2[i] = s[i] /\ i \in DOMAIN s2
    BY <1>1, <1>2
<1> HIDE DEF n
<1>4. measure(w, s2)[n] = w[e]
    BY <1>1, <1>3 DEF measure
<1>5. \A i \in DOMAIN s2 : measure(w, s2)[i] \in Nat
    BY <1>1, MeasureFacts
<1>6. \A i \in DOMAIN s : measure(w, s2)[i] = measure(w, s)[i]
    BY <1>3 DEF measure
<1>7. IsFiniteSet(DOMAIN s)
    BY MeasureFacts
<1>8. \A i \in DOMAIN s \cup {n} : measure(w, s2)[i] \in Int
    BY <1>3, <1>5
<1>9. SumFunctionOnSet(measure(w, s2), DOMAIN s \cup {n})
        = measure(w, s2)[n] + SumFunctionOnSet(measure(w, s2), DOMAIN s)
    BY <1>3, <1>7, <1>8, SumAdd
<1>10. SumFunctionOnSet(measure(w, s2), DOMAIN s) = SumFunctionOnSet(measure(w, s), DOMAIN s)
    BY <1>6, <1>7, SumEqual
<1>11. total(w, s2) = w[e] + total(w, s)
    BY <1>3, <1>4, <1>9, <1>10 DEF total
<1>12. total(w, s) \in Nat /\ w[e] \in Nat
    BY PartOfTotal
<1> QED BY <1>1, <1>11, <1>12

\* An element that is replaced leaves its weight to the new one.
LEMMA TotalReplaced ==
    ASSUME NEW T, NEW w \in [T -> Nat], NEW s \in Seq(T), NEW index \in DOMAIN s, NEW e \in T,
           NEW s2, Replaced(s2, s, index, e)
    PROVE  s2 \in Seq(T) /\ total(w, s2) = total(w, s) - w[s[index]] + w[e]
<1>1. DOMAIN s = 1..Len(s) /\ Len(s) \in Nat /\ IsFiniteSet(DOMAIN s) /\ index \in 1..Len(s)
    BY MeasureFacts
<1>2. /\ s2 \in Seq(T) /\ DOMAIN s2 = DOMAIN s /\ s2[index] = e
      /\ \A i \in DOMAIN s \ {index} : s2[i] = s[i]
    BY <1>1, ExceptSeq DEF Replaced
<1>3. measure(w, s)[index] = w[s[index]] /\ measure(w, s2)[index] = w[e]
    BY <1>2 DEF measure
<1>4. \A i \in DOMAIN s : measure(w, s)[i] \in Nat
    BY MeasureFacts
<1>5. \A i \in DOMAIN s2 : measure(w, s2)[i] \in Nat
    BY <1>2, MeasureFacts
<1>6. ASSUME NEW i \in DOMAIN s PROVE measure(w, s)[i] \in Int /\ measure(w, s2)[i] \in Int
  <2>1. measure(w, s)[i] \in Nat /\ measure(w, s2)[i] \in Nat
    BY <1>2, <1>4, <1>5
  <2> QED BY <2>1
<1>7. \A i \in DOMAIN s \ {index} : measure(w, s)[i] = measure(w, s2)[i]
    BY <1>2 DEF measure
<1>8. SumFunctionOnSet(measure(w, s2), DOMAIN s)
        = SumFunctionOnSet(measure(w, s), DOMAIN s) - measure(w, s)[index] + measure(w, s2)[index]
  <2>1. IsChange(DOMAIN s, measure(w, s), measure(w, s2), index)
    BY <1>1, <1>6, <1>7 DEF IsChange
  <2> QED BY <2>1, SumChanged
<1> QED BY <1>2, <1>3, <1>8 DEF total

\* Elements that are replaced by one of no weight take theirs out of the total.
LEMMA TotalEmptied ==
    ASSUME NEW T, NEW w, NEW s, NEW I, NEW e, NEW s2, EmptiedOf(T, w, s2, s, I, e)
    PROVE  s2 \in Seq(T) /\ total(w, s2) = total(w, s) - SumFunctionOnSet(measure(w, s), I)
<1>0. /\ w \in [T -> Nat] /\ s \in Seq(T) /\ I \in SUBSET DOMAIN s /\ e \in T /\ w[e] = 0
      /\ Emptied(s2, s, I, e)
    BY DEF EmptiedOf, Emptied
<1> DEFINE rest == DOMAIN s \ I
<1>1. DOMAIN s = 1..Len(s) /\ Len(s) \in Nat /\ (\A i \in DOMAIN s : s[i] \in T)
    BY <1>0, MeasureFacts
<1>2. /\ s2 \in Seq(T) /\ DOMAIN s2 = DOMAIN s
      /\ \A i \in I : s2[i] = e
      /\ \A i \in rest : s2[i] = s[i]
    BY <1>0, <1>1 DEF Emptied
<1>3. /\ IsFiniteSet(I) /\ IsFiniteSet(rest) /\ I \cap rest = {} /\ DOMAIN s = I \cup rest
      /\ rest \in SUBSET DOMAIN s
  <2>1. IsFiniteSet(DOMAIN s)
    BY <1>0, MeasureFacts
  <2> QED BY <1>0, <2>1, FS_Subset
<1>4. \A i \in I : measure(w, s2)[i] = 0
    BY <1>0, <1>2 DEF measure
<1>5. \A i \in rest : measure(w, s2)[i] = measure(w, s)[i]
    BY <1>2 DEF measure
<1> HIDE DEF rest
<1>6. ASSUME NEW i \in I \cup rest PROVE measure(w, s)[i] \in Int /\ measure(w, s2)[i] \in Int
  <2>1. i \in DOMAIN s /\ i \in DOMAIN s2
    BY <1>2, <1>3
  <2>2. measure(w, s)[i] \in Nat
    BY <1>0, <2>1, MeasureFacts
  <2>3. measure(w, s2)[i] \in Nat
    BY <1>0, <1>2, <2>1, MeasureFacts
  <2> QED BY <2>2, <2>3
<1>7. SumFunctionOnSet(measure(w, s), I \cup rest)
        = SumFunctionOnSet(measure(w, s), I) + SumFunctionOnSet(measure(w, s), rest)
    BY <1>3, <1>6, SumUnion
<1>8. SumFunctionOnSet(measure(w, s2), I \cup rest)
        = SumFunctionOnSet(measure(w, s2), I) + SumFunctionOnSet(measure(w, s2), rest)
    BY <1>3, <1>6, SumUnion
<1>9. SumFunctionOnSet(measure(w, s2), I) = 0
    BY <1>3, <1>4, SumZero
<1>10. SumFunctionOnSet(measure(w, s2), rest) = SumFunctionOnSet(measure(w, s), rest)
    BY <1>3, <1>5, SumEqual
<1>11. SumFunctionOnSet(measure(w, s), I) \in Nat /\ SumFunctionOnSet(measure(w, s), rest) \in Nat
    BY <1>0, <1>3, PartOfTotal
<1>12. total(w, s2) = SumFunctionOnSet(measure(w, s2), I \cup rest)
       /\ total(w, s) = SumFunctionOnSet(measure(w, s), I \cup rest)
    BY <1>2, <1>3 DEF total
<1> QED BY <1>2, <1>7, <1>8, <1>9, <1>10, <1>11, <1>12

-----------------------------------------------------------------------------
\* The amount of a deposit and its weight.
amountW == [d \in Deposit |-> d.amount]
virtualW == [d \in Deposit |-> virtual(d.amount, d.multiplier)]
staked(deps) == total(amountW, deps)
weight(deps) == total(virtualW, deps)

\* Both weigh every deposit.
LEMMA Weighings == amountW \in [Deposit -> Nat] /\ virtualW \in [Deposit -> Nat]
<1>1. \A d \in Deposit : d.amount \in Nat /\ d.multiplier \in Nat
    BY DEF Deposit
<1>2. \A d \in Deposit : virtual(d.amount, d.multiplier) \in Nat
    BY <1>1, VirtualNat
<1> QED BY <1>1, <1>2 DEF amountW, virtualW

\* The contract's sums are sums of these weighings.
LEMMA DepositSums ==
    ASSUME NEW deps \in Seq(Deposit), NEW I \in SUBSET DOMAIN deps
    PROVE  /\ amountOf(deps, I) = SumFunctionOnSet(measure(amountW, deps), I)
           /\ virtualOf(deps, I) = SumFunctionOnSet(measure(virtualW, deps), I)
           /\ amountOf(deps, I) \in Nat /\ virtualOf(deps, I) \in Nat
           /\ amountOf(deps, I) <= staked(deps) /\ virtualOf(deps, I) <= weight(deps)
<1> DEFINE f == [i \in I |-> deps[i].amount]
           g == [i \in I |-> virtual(deps[i].amount, deps[i].multiplier)]
<1>1. amountOf(deps, I) = SumFunctionOnSet(f, I) /\ virtualOf(deps, I) = SumFunctionOnSet(g, I)
    BY DEF amountOf, virtualOf, SumFunction
<1>2. ASSUME NEW i \in I PROVE f[i] = measure(amountW, deps)[i] /\ g[i] = measure(virtualW, deps)[i]
  <2>1. deps[i] \in Deposit
    BY Weighings, MeasureFacts
  <2> QED BY <2>1 DEF measure, amountW, virtualW
<1>3. IsFiniteSet(I)
    BY Weighings, PartOfTotal
<1> HIDE DEF f, g
<1>4. SumFunctionOnSet(f, I) = SumFunctionOnSet(measure(amountW, deps), I)
    BY <1>2, <1>3, SumEqual
<1>5. SumFunctionOnSet(g, I) = SumFunctionOnSet(measure(virtualW, deps), I)
    BY <1>2, <1>3, SumEqual
<1>6. /\ SumFunctionOnSet(measure(amountW, deps), I) \in Nat
      /\ SumFunctionOnSet(measure(amountW, deps), I) <= staked(deps)
    BY Weighings, PartOfTotal DEF staked
<1>7. /\ SumFunctionOnSet(measure(virtualW, deps), I) \in Nat
      /\ SumFunctionOnSet(measure(virtualW, deps), I) <= weight(deps)
    BY Weighings, PartOfTotal DEF weight
<1> QED BY <1>1, <1>4, <1>5, <1>6, <1>7

\* All deposits of a user.
LEMMA AllSums ==
    ASSUME NEW deps \in Seq(Deposit)
    PROVE  /\ amountOf(deps, DOMAIN deps) = staked(deps) /\ staked(deps) \in Nat
           /\ virtualOf(deps, DOMAIN deps) = weight(deps) /\ weight(deps) \in Nat
BY DepositSums DEF staked, weight, total

\* A user without deposits.
LEMMA NoDeposits == <<>> \in Seq(Deposit) /\ staked(<<>>) = 0 /\ weight(<<>>) = 0
BY TotalOfNothing DEF staked, weight

\* A new deposit.
LEMMA DepositAppended ==
    ASSUME NEW deps \in Seq(Deposit), NEW d \in Deposit, NEW deps2, Appended(deps2, deps, d)
    PROVE  /\ deps2 \in Seq(Deposit)
           /\ staked(deps2) = staked(deps) + d.amount
           /\ weight(deps2) = weight(deps) + virtual(d.amount, d.multiplier)
<1>0. amountW \in [Deposit -> Nat] /\ virtualW \in [Deposit -> Nat]
    BY Weighings
<1>1. deps2 \in Seq(Deposit)
    BY <1>0, TotalAppended
<1>3. total(amountW, deps2) = total(amountW, deps) + amountW[d]
    BY <1>0, TotalAppended, SMTT(60)
<1>2. total(virtualW, deps2) = total(virtualW, deps) + virtualW[d]
    BY <1>0, TotalAppended
<1> QED BY <1>1, <1>2, <1>3 DEF amountW, virtualW, staked, weight

\* Deposits that are withdrawn whole leave empty records.
LEMMA DepositsEmptied ==
    ASSUME NEW deps \in Seq(Deposit), NEW free \in SUBSET DOMAIN deps, NEW deps2,
           Emptied(deps2, deps, free, [amount |-> 0, unlockBlock |-> 0, multiplier |-> 0])
    PROVE  /\ deps2 \in Seq(Deposit)
           /\ staked(deps2) = staked(deps) - amountOf(deps, free)
           /\ weight(deps2) = weight(deps) - virtualOf(deps, free)
<1> DEFINE none == [amount |-> 0, unlockBlock |-> 0, multiplier |-> 0]
<1>1. none \in Deposit /\ amountW[none] = 0 /\ virtualW[none] = 0
    BY VirtualZero DEF Deposit, amountW, virtualW
<1>2. Emptied(deps2, deps, free, none) /\ amountW \in [Deposit -> Nat] /\ virtualW \in [Deposit -> Nat]
    BY Weighings
<1> HIDE DEF none
<1> SUFFICES /\ deps2 \in Seq(Deposit)
             /\ total(amountW, deps2) = total(amountW, deps) - amountOf(deps, free)
             /\ total(virtualW, deps2) = total(virtualW, deps) - virtualOf(deps, free)
    BY DEF staked, weight
<1>3. /\ deps2 \in Seq(Deposit)
      /\ total(amountW, deps2) = total(amountW, deps) - SumFunctionOnSet(measure(amountW, deps), free)
  <2>1. EmptiedOf(Deposit, amountW, deps2, deps, free, none)
    BY <1>1, <1>2 DEF EmptiedOf
  <2> QED BY <2>1, TotalEmptied
<1>4. total(virtualW, deps2) = total(virtualW, deps) - SumFunctionOnSet(measure(virtualW, deps), free)
  <2>1. EmptiedOf(Deposit, virtualW, deps2, deps, free, none)
    BY <1>1, <1>2 DEF EmptiedOf
  <2> QED BY <2>1, TotalEmptied
<1> QED BY <1>3, <1>4, DepositSums

\* A part of one deposit is withdrawn.
LEMMA DepositReduced ==
    ASSUME NEW deps \in Seq(Deposit), NEW index \in DOMAIN deps, NEW amount \in Nat,
           amount <= deps[index].amount, NEW deps2,
           Replaced(deps2, deps, index, [deps[index] EXCEPT !.amount = @ - amount])
    PROVE  /\ deps2 \in Seq(Deposit)
           /\ staked(deps2) = staked(deps) - amount
           /\ weight(deps2) <= weight(deps) - virtual(amount, deps[index].multiplier)
           /\ virtual(amount, deps[index].multiplier) \in Nat
<1> DEFINE d == [deps[index] EXCEPT !.amount = @ - amount]
           m == deps[index].multiplier
<1>1. deps[index] \in Deposit
    BY Weighings, MeasureFacts
<1>2. deps[index].amount \in Nat /\ m \in Nat /\ deps[index].amount - amount \in Nat
    BY <1>1 DEF Deposit
<1>3. d \in Deposit /\ d.amount = deps[index].amount - amount /\ d.multiplier = m
    BY <1>1, <1>2 DEF Deposit
<1>4. Replaced(deps2, deps, index, d) /\ amountW \in [Deposit -> Nat] /\ virtualW \in [Deposit -> Nat]
    BY Weighings
<1> HIDE DEF d
<1>5. deps2 \in Seq(Deposit) /\ total(amountW, deps2) = total(amountW, deps) - amountW[deps[index]] + amountW[d]
    BY <1>3, <1>4, TotalReplaced, SMTT(60)
<1>6. total(virtualW, deps2) = total(virtualW, deps) - virtualW[deps[index]] + virtualW[d]
    BY <1>3, <1>4, TotalReplaced, SMTT(60)
<1>7. /\ amountW[deps[index]] = deps[index].amount /\ amountW[d] = deps[index].amount - amount
      /\ virtualW[deps[index]] = virtual(deps[index].amount, m)
      /\ virtualW[d] = virtual(deps[index].amount - amount, m)
    BY <1>1, <1>3 DEF amountW, virtualW
<1> HIDE DEF m
<1>8. virtual(deps[index].amount - amount, m) <= virtual(deps[index].amount, m) - virtual(amount, m)
    BY <1>2, VirtualSplits
<1>9. deps[index].amount - amount \in Nat
    BY <1>2
<1>10. /\ virtual(deps[index].amount - amount, m) \in Nat
       /\ virtual(deps[index].amount, m) \in Nat /\ virtual(amount, m) \in Nat
    BY <1>2, <1>9, VirtualNat
<1>11. staked(deps) \in Nat /\ weight(deps) \in Nat
    BY AllSums
<1>12. staked(deps2) = staked(deps) - amount
    BY <1>2, <1>5, <1>7, <1>11 DEF staked
<1>13. weight(deps2) <= weight(deps) - virtual(amount, m)
    BY <1>6, <1>7, <1>8, <1>10, <1>11 DEF weight
<1> QED BY <1>5, <1>10, <1>12, <1>13 DEF m

-----------------------------------------------------------------------------
\* Products distribute over sums.
LEMMA Expands == \A x, y, z \in Int : x * (y + z) = x * y + x * z /\ (y + z) * x = y * x + z * x /\ x * y \in Int
BY SMT

\* What is owed is a natural number and at least the claim.
LEMMA OwedNumbers ==
    ASSUME NEW pool \in Pool, NEW info \in User, NEW claim,
           claim = info.virtualAmount * pool.accTribePerShare - ACC_TRIBE_PRECISION * info.rewardDebt
    PROVE  /\ claim \in Int /\ owed(pool, info) \in Nat
           /\ owed(pool, info) = IF claim > 0 THEN claim ELSE 0
<1>1. /\ info.virtualAmount \in Int /\ info.rewardDebt \in Int
      /\ pool.accTribePerShare \in Int /\ ACC_TRIBE_PRECISION \in Int
    BY TribalChiefAssumption DEF Pool, User
<1>2. info.virtualAmount * pool.accTribePerShare \in Int /\ ACC_TRIBE_PRECISION * info.rewardDebt \in Int
    BY <1>1, Expands
<1> QED BY <1>2 DEF owed

\* The sums of a pool are over finitely many natural numbers.
LEMMA PoolNumbers ==
    ASSUME NEW pool \in Pool, NEW users \in [Users -> User], NEW deps \in [Users -> Seq(Deposit)]
    PROVE  /\ \A u \in Users : dues(pool, users)[u] = owed(pool, users[u]) /\ dues(pool, users)[u] \in Nat
           /\ \A u \in Users : weights(users)[u] = users[u].virtualAmount /\ weights(users)[u] \in Nat
           /\ \A u \in Users : stakes(deps)[u] = staked(deps[u]) /\ stakes(deps)[u] \in Nat
           /\ SumFunctionOnSet(dues(pool, users), Users) \in Nat
           /\ SumFunctionOnSet(weights(users), Users) \in Nat
           /\ SumFunctionOnSet(stakes(deps), Users) \in Nat
<1>0. IsFiniteSet(Users)
    BY TribalChiefAssumption
<1>1. ASSUME NEW u \in Users
      PROVE  dues(pool, users)[u] = owed(pool, users[u]) /\ dues(pool, users)[u] \in Nat
  <2>1. owed(pool, users[u]) \in Nat
    BY OwedNumbers
  <2> QED BY <2>1 DEF dues
<1>2. ASSUME NEW u \in Users
      PROVE  weights(users)[u] = users[u].virtualAmount /\ weights(users)[u] \in Nat
    BY DEF weights, User
<1>3. ASSUME NEW u \in Users
      PROVE  stakes(deps)[u] = staked(deps[u]) /\ stakes(deps)[u] \in Nat
  <2>1. deps[u] \in Seq(Deposit)
    OBVIOUS
  <2>2. amountOf(deps[u], DOMAIN deps[u]) = staked(deps[u]) /\ staked(deps[u]) \in Nat
    BY <2>1, AllSums
  <2> QED BY <2>2 DEF stakes
<1>4. /\ \A u \in Users : dues(pool, users)[u] \in Nat
      /\ \A u \in Users : weights(users)[u] \in Nat
      /\ \A u \in Users : stakes(deps)[u] \in Nat
    BY <1>1, <1>2, <1>3
<1>5. SumFunctionOnSet(dues(pool, users), Users) \in Nat
    BY <1>0, <1>4, SumNat
<1>6. SumFunctionOnSet(weights(users), Users) \in Nat
    BY <1>0, <1>4, SumNat
<1>7. SumFunctionOnSet(stakes(deps), Users) \in Nat
    BY <1>0, <1>4, SumNat
<1> QED BY <1>1, <1>2, <1>3, <1>5, <1>6, <1>7

\* Products keep the order of their factors.
LEMMA TimesMonotone == \A x, y, z \in Nat : y <= z => x * y <= x * z
BY SMT

\* When the accumulator grows, a user is owed at most the weight times the growth more.
LEMMA OwedGrows ==
    ASSUME NEW pool \in Pool, NEW pool2 \in Pool, NEW info \in User, NEW a \in Nat,
           pool2.accTribePerShare = pool.accTribePerShare + a
    PROVE  owed(pool2, info) <= owed(pool, info) + a * info.virtualAmount
<1> DEFINE v == info.virtualAmount
           acc == pool.accTribePerShare
           debt == ACC_TRIBE_PRECISION * info.rewardDebt
<1>1. v \in Nat /\ acc \in Nat /\ info.rewardDebt \in Int /\ ACC_TRIBE_PRECISION \in Int
    BY TribalChiefAssumption DEF Pool, User
<1>2. debt \in Int
    BY <1>1, Expands
<1>3. /\ owed(pool, info) = IF v * acc - debt > 0 THEN v * acc - debt ELSE 0
      /\ owed(pool2, info) = IF v * (acc + a) - debt > 0 THEN v * (acc + a) - debt ELSE 0
    BY DEF owed
<1> HIDE DEF v, acc, debt
<1>4. v * (acc + a) = v * acc + v * a /\ v * a = a * v /\ a * v \in Nat /\ v * acc \in Nat
    BY <1>1, Expands, TimesNat
<1> QED BY <1>2, <1>3, <1>4 DEF v

\* updatePool: the pool is credited its reward, and its users together at most that.
LEMMA UpdateKeeps ==
    ASSUME NEW pool, NEW users, NEW deps, NEW st, NEW entry, PoolInv(pool, users, deps, st, entry),
           block \in Nat, totalAllocPoint \in Nat, tribePerBlock \in Nat
    PROVE  /\ tribeReward(pool) \in Nat
           /\ PoolInv(updated(pool), users, deps, st, [entry EXCEPT !.emitted = @ + tribeReward(pool)])
           /\ updated(pool).virtualTotalSupply = pool.virtualTotalSupply
           /\ updated(pool).allocPoint = pool.allocPoint
           /\ updated(pool).unlocked = pool.unlocked
<1> DEFINE reward == tribeReward(pool)
           pool2 == updated(pool)
           vts == pool.virtualTotalSupply
           P == ACC_TRIBE_PRECISION
           a == IF vts > 0 THEN (reward * P) \div vts ELSE 0
<1>1. /\ pool \in Pool /\ users \in [Users -> User] /\ deps \in [Users -> Seq(Deposit)]
      /\ st \in Nat /\ entry \in Entry
    BY DEF PoolInv, PoolTyped
<1>2. /\ vts \in Nat /\ pool.accTribePerShare \in Nat /\ pool.lastRewardBlock \in Nat
      /\ pool.allocPoint \in Nat /\ P \in Nat /\ P > 0
    BY <1>1, TribalChiefAssumption DEF Pool
<1>3. reward \in Nat
  <2>1. CASE block > pool.lastRewardBlock /\ totalAllocPoint # 0
    <3>1. (block - pool.lastRewardBlock) \in Nat /\ totalAllocPoint > 0
      BY <1>2, <2>1
    <3>2. (block - pool.lastRewardBlock) * tribePerBlock \in Nat
      BY <3>1, TimesNat
    <3>3. ((block - pool.lastRewardBlock) * tribePerBlock) * pool.allocPoint \in Nat
      BY <1>2, <3>2, TimesNat
    <3>4. (((block - pool.lastRewardBlock) * tribePerBlock) * pool.allocPoint) \div totalAllocPoint \in Nat
      BY <3>1, <3>3, DivParts
    <3> QED BY <3>4 DEF tribeReward
  <2>2. CASE ~(block > pool.lastRewardBlock /\ totalAllocPoint # 0)
    BY <2>2 DEF tribeReward
  <2> QED BY <2>1, <2>2
<1>4. vts = 0 => reward = 0
    BY <1>2 DEF tribeReward
<1> HIDE DEF reward
<1>5. a \in Nat /\ a * vts <= reward * P /\ a * vts \in Nat /\ reward * P \in Nat
  <2>1. reward * P \in Nat
    BY <1>2, <1>3, TimesNat
  <2>2. CASE vts > 0
    <3>1. (reward * P) \div vts \in Nat /\ vts * ((reward * P) \div vts) <= reward * P
      BY <1>2, <2>1, <2>2, SMT
    <3>2. a = (reward * P) \div vts
      BY <2>2
    <3> HIDE DEF a, P, vts
    <3>3. a \in Nat /\ vts * a <= reward * P
      BY <3>1, <3>2
    <3>4. vts * a = a * vts /\ a * vts \in Nat
      BY <1>2, <3>3, TimesNat
    <3> QED BY <2>1, <3>3, <3>4
  <2>3. CASE vts = 0
    BY <1>2, <2>1, <2>3
  <2> QED BY <1>2, <2>2, <2>3
<1>6. /\ pool2 \in Pool
      /\ pool2.virtualTotalSupply = vts /\ pool2.allocPoint = pool.allocPoint /\ pool2.unlocked = pool.unlocked
      /\ pool2.accTribePerShare = pool.accTribePerShare + a
  <2>1. CASE vts > 0
    <3>1. pool2 = [pool EXCEPT !.accTribePerShare = @ + a, !.lastRewardBlock = block]
      BY <2>1 DEF updated, reward
    <3>2. pool.accTribePerShare + a \in Nat
      BY <1>2, <1>5
    <3> HIDE DEF pool2, a
    <3> QED BY <1>1, <3>1, <3>2 DEF Pool
  <2>2. CASE vts = 0
    BY <1>1, <1>2, <2>2 DEF updated, Pool
  <2> HIDE DEF pool2, vts, a
  <2> QED BY <1>2, <2>1, <2>2
<1> DEFINE f == dues(pool2, users)
           g == dues(pool, users)
           v == weights(users)
           entry2 == [entry EXCEPT !.emitted = @ + reward]
<1> HIDE DEF pool2, a, P
<1>7. ASSUME NEW u \in Users
      PROVE  f[u] \in Int /\ g[u] \in Int /\ v[u] \in Int /\ 1 * f[u] <= g[u] + a * v[u]
  <2>1. /\ f[u] = owed(pool2, users[u]) /\ g[u] = owed(pool, users[u]) /\ v[u] = users[u].virtualAmount
        /\ f[u] \in Nat /\ g[u] \in Nat /\ v[u] \in Nat
    BY <1>1, <1>6, PoolNumbers
  <2>2. users[u] \in User
    BY <1>1
  <2>3. owed(pool2, users[u]) <= owed(pool, users[u]) + a * users[u].virtualAmount
    BY <1>1, <1>5, <1>6, <2>2, OwedGrows
  <2> HIDE DEF f, g, v
  <2> QED BY <2>1, <2>3
<1>8. /\ SumFunctionOnSet(f, Users) \in Nat /\ SumFunctionOnSet(g, Users) \in Nat
      /\ SumFunctionOnSet(v, Users) \in Nat
    BY <1>1, <1>6, PoolNumbers
<1>9. vts >= SumFunctionOnSet(v, Users)
    BY DEF PoolInv, PoolCovered
<1>10. P * entry.paid + SumFunctionOnSet(g, Users) <= P * (entry.emitted + entry.roundings)
    BY DEF PoolInv, PoolCovered, P
<1>11. entry.paid \in Nat /\ entry.emitted \in Nat /\ entry.roundings \in Nat
    BY <1>1 DEF Entry
<1>12. /\ entry2 \in Entry /\ entry2.paid = entry.paid /\ entry2.roundings = entry.roundings
       /\ entry2.emitted = entry.emitted + reward
    BY <1>1, <1>3, <1>11 DEF Entry
<1> HIDE DEF f, g, v, entry2, vts
<1>13. SumFunctionOnSet(f, Users) <= SumFunctionOnSet(g, Users) + a * SumFunctionOnSet(v, Users)
  <2>1. IsFiniteSet(Users)
    BY TribalChiefAssumption
  <2>2. ScaledAtMost(Users, 1, f, g, a, v)
    BY <1>5, <1>7, <2>1 DEF ScaledAtMost
  <2>3. 1 * SumFunctionOnSet(f, Users) <= SumFunctionOnSet(g, Users) + a * SumFunctionOnSet(v, Users)
    BY <2>2, SumScaled
  <2> QED BY <1>8, <2>3
<1>14. a * SumFunctionOnSet(v, Users) <= a * vts /\ a * SumFunctionOnSet(v, Users) \in Nat
    BY <1>2, <1>5, <1>8, <1>9, TimesMonotone, TimesNat
<1>15. P * entry.paid + SumFunctionOnSet(f, Users) <= P * (entry.emitted + reward + entry.roundings)
  <2>1. P * (entry.emitted + reward + entry.roundings) = P * (entry.emitted + entry.roundings) + reward * P
    BY <1>2, <1>3, <1>11, SMT
  <2>2. P * (entry.emitted + entry.roundings) \in Nat /\ P * entry.paid \in Nat
    BY <1>2, <1>11, TimesNat
  <2> QED BY <1>5, <1>8, <1>10, <1>13, <1>14, <2>1, <2>2
<1>16. PoolTyped(pool2, users, deps, st, entry2)
    BY <1>1, <1>6, <1>12 DEF PoolTyped
<1>17. PoolCovered(pool2, users, deps, st, entry2)
  <2>1. /\ \A u \in Users : users[u].virtualAmount >= virtualOf(deps[u], DOMAIN deps[u])
        /\ st = SumFunctionOnSet(stakes(deps), Users)
    BY DEF PoolInv, PoolCovered
  <2> QED BY <1>6, <1>9, <1>12, <1>15, <2>1 DEF PoolCovered, P, f, v
<1> QED BY <1>3, <1>6, <1>16, <1>17 DEF PoolInv, pool2, entry2, reward, vts

-----------------------------------------------------------------------------
\* What an operation of one user does to the records of a pool.
IsUserStep(u, pool, users, deps, held, entry, pool2, info, ds, held2, entry2) ==
    /\ u \in Users /\ pool2 \in Pool /\ info \in User /\ ds \in Seq(Deposit) /\ entry2 \in Entry
    /\ pool2.accTribePerShare = pool.accTribePerShare
    /\ pool2.virtualTotalSupply >= pool.virtualTotalSupply - users[u].virtualAmount + info.virtualAmount
    /\ info.virtualAmount >= weight(ds)
    /\ held2 = held - staked(deps[u]) + staked(ds)
    /\ ACC_TRIBE_PRECISION * entry2.paid + owed(pool, info)
          + ACC_TRIBE_PRECISION * (entry.emitted + entry.roundings)
       <= ACC_TRIBE_PRECISION * entry.paid + owed(pool, users[u])
          + ACC_TRIBE_PRECISION * (entry2.emitted + entry2.roundings)

\* Such an operation keeps what holds of the pool.
LEMMA UserStepKeeps ==
    ASSUME NEW u, NEW pool, NEW users, NEW deps, NEW held, NEW entry, NEW pool2, NEW info, NEW ds,
           NEW held2, NEW entry2, PoolInv(pool, users, deps, held, entry),
           IsUserStep(u, pool, users, deps, held, entry, pool2, info, ds, held2, entry2)
    PROVE  PoolInv(pool2, [users EXCEPT ![u] = info], [deps EXCEPT ![u] = ds], held2, entry2)
<1> DEFINE users2 == [users EXCEPT ![u] = info]
           deps2 == [deps EXCEPT ![u] = ds]
           P == ACC_TRIBE_PRECISION
<1>1. /\ pool \in Pool /\ users \in [Users -> User] /\ deps \in [Users -> Seq(Deposit)]
      /\ held \in Nat /\ entry \in Entry
    BY DEF PoolInv, PoolTyped
<1>2. /\ u \in Users /\ pool2 \in Pool /\ info \in User /\ ds \in Seq(Deposit) /\ entry2 \in Entry
      /\ pool2.accTribePerShare = pool.accTribePerShare
    BY DEF IsUserStep
<1>3. /\ users2 \in [Users -> User] /\ users2[u] = info /\ \A x \in Users \ {u} : users2[x] = users[x]
      /\ deps2 \in [Users -> Seq(Deposit)] /\ deps2[u] = ds /\ \A x \in Users \ {u} : deps2[x] = deps[x]
    BY <1>1, <1>2
<1> HIDE DEF users2, deps2
<1>4. \A x \in Users : owed(pool2, users2[x]) = owed(pool, users2[x])
    BY <1>2 DEF owed
<1> DEFINE f == dues(pool, users)
           g == dues(pool2, users2)
           v == weights(users)
           w == weights(users2)
           s == stakes(deps)
           t == stakes(deps2)
<1>5. IsFiniteSet(Users)
    BY TribalChiefAssumption
<1>6. /\ \A x \in Users : f[x] = owed(pool, users[x]) /\ f[x] \in Nat
      /\ \A x \in Users : v[x] = users[x].virtualAmount /\ v[x] \in Nat
      /\ \A x \in Users : s[x] = staked(deps[x]) /\ s[x] \in Nat
      /\ SumFunctionOnSet(f, Users) \in Nat
      /\ SumFunctionOnSet(v, Users) \in Nat
      /\ SumFunctionOnSet(s, Users) \in Nat
    BY <1>1, PoolNumbers
<1>7. /\ \A x \in Users : g[x] = owed(pool2, users2[x]) /\ g[x] \in Nat
      /\ \A x \in Users : w[x] = users2[x].virtualAmount /\ w[x] \in Nat
      /\ \A x \in Users : t[x] = staked(deps2[x]) /\ t[x] \in Nat
      /\ SumFunctionOnSet(g, Users) \in Nat
      /\ SumFunctionOnSet(w, Users) \in Nat
      /\ SumFunctionOnSet(t, Users) \in Nat
    BY <1>2, <1>3, PoolNumbers
<1> HIDE DEF f, g, v, w, s, t
<1>8. IsChange(Users, f, g, u)
  <2>1. ASSUME NEW x \in Users PROVE f[x] \in Int /\ g[x] \in Int
    BY <1>6, <1>7
  <2>2. ASSUME NEW x \in Users \ {u} PROVE f[x] = g[x]
    <3>1. users2[x] = users[x]
      BY <1>3
    <3>2. f[x] = owed(pool, users[x]) /\ g[x] = owed(pool, users2[x])
      BY <1>4, <1>6, <1>7
    <3> QED BY <3>1, <3>2
  <2> QED BY <1>2, <1>5, <2>1, <2>2 DEF IsChange
<1>9. IsChange(Users, v, w, u)
  <2>1. ASSUME NEW x \in Users PROVE v[x] \in Int /\ w[x] \in Int
    BY <1>6, <1>7
  <2>2. ASSUME NEW x \in Users \ {u} PROVE v[x] = w[x]
    <3>1. users2[x] = users[x]
      BY <1>3
    <3>2. v[x] = users[x].virtualAmount /\ w[x] = users2[x].virtualAmount
      BY <1>6, <1>7, Zenon
    <3> QED BY <3>1, <3>2
  <2> QED BY <1>2, <1>5, <2>1, <2>2 DEF IsChange
<1>10. IsChange(Users, s, t, u)
  <2>1. ASSUME NEW x \in Users PROVE s[x] \in Int /\ t[x] \in Int
    BY <1>6, <1>7
  <2>2. ASSUME NEW x \in Users \ {u} PROVE s[x] = t[x]
    <3>1. deps2[x] = deps[x]
      BY <1>3
    <3>2. s[x] = staked(deps[x]) /\ t[x] = staked(deps2[x])
      BY <1>6, <1>7, Zenon
    <3> QED BY <3>1, <3>2
  <2> QED BY <1>2, <1>5, <2>1, <2>2 DEF IsChange
<1>11. /\ SumFunctionOnSet(g, Users) = SumFunctionOnSet(f, Users) - f[u] + g[u]
       /\ SumFunctionOnSet(w, Users) = SumFunctionOnSet(v, Users) - v[u] + w[u]
       /\ SumFunctionOnSet(t, Users) = SumFunctionOnSet(s, Users) - s[u] + t[u]
  <2>1. SumFunctionOnSet(g, Users) = SumFunctionOnSet(f, Users) - f[u] + g[u]
    BY <1>8, SumChanged
  <2>2. SumFunctionOnSet(w, Users) = SumFunctionOnSet(v, Users) - v[u] + w[u]
    BY <1>9, SumChanged
  <2>3. SumFunctionOnSet(t, Users) = SumFunctionOnSet(s, Users) - s[u] + t[u]
    BY <1>10, SumChanged
  <2> QED BY <2>1, <2>2, <2>3
<1>12. /\ f[u] = owed(pool, users[u]) /\ f[u] \in Nat
       /\ g[u] = owed(pool, info) /\ g[u] \in Nat
       /\ v[u] = users[u].virtualAmount /\ v[u] \in Nat
       /\ w[u] = info.virtualAmount /\ w[u] \in Nat
       /\ s[u] = staked(deps[u]) /\ s[u] \in Nat
       /\ t[u] = staked(ds) /\ t[u] \in Nat
    BY <1>2, <1>3, <1>4, <1>6, <1>7
<1>13. pool.virtualTotalSupply \in Nat /\ pool2.virtualTotalSupply \in Nat
    BY <1>1, <1>2 DEF Pool
<1>14. pool2.virtualTotalSupply >= SumFunctionOnSet(w, Users)
  <2>1. pool.virtualTotalSupply >= SumFunctionOnSet(v, Users)
    BY DEF PoolInv, PoolCovered, v
  <2>2. pool2.virtualTotalSupply >= pool.virtualTotalSupply - users[u].virtualAmount + info.virtualAmount
    BY DEF IsUserStep
  <2> QED BY <1>6, <1>7, <1>11, <1>12, <1>13, <2>1, <2>2
<1>15. ASSUME NEW x \in Users
       PROVE  users2[x].virtualAmount >= virtualOf(deps2[x], DOMAIN deps2[x])
  <2>1. CASE x = u
    <3>1. info.virtualAmount >= weight(ds)
      BY DEF IsUserStep
    <3>2. virtualOf(ds, DOMAIN ds) = weight(ds)
      BY <1>2, AllSums
    <3> QED BY <1>3, <2>1, <3>1, <3>2
  <2>2. CASE x # u
    BY <1>3, <2>2 DEF PoolInv, PoolCovered
  <2> QED BY <2>1, <2>2
<1>16. held2 = SumFunctionOnSet(t, Users)
  <2>1. held = SumFunctionOnSet(s, Users)
    BY DEF PoolInv, PoolCovered, s
  <2>2. held2 = held - staked(deps[u]) + staked(ds)
    BY DEF IsUserStep
  <2> QED BY <1>6, <1>7, <1>11, <1>12, <2>1, <2>2
<1>17. P * entry2.paid + SumFunctionOnSet(g, Users) <= P * (entry2.emitted + entry2.roundings)
  <2>1. P * entry.paid + SumFunctionOnSet(f, Users) <= P * (entry.emitted + entry.roundings)
    BY DEF PoolInv, PoolCovered, f
  <2>2. P * entry2.paid + g[u] + P * (entry.emitted + entry.roundings)
            <= P * entry.paid + f[u] + P * (entry2.emitted + entry2.roundings)
    BY <1>12 DEF IsUserStep
  <2>3. /\ entry.paid \in Nat /\ entry.emitted + entry.roundings \in Nat
        /\ entry2.paid \in Nat /\ entry2.emitted + entry2.roundings \in Nat
    BY <1>1, <1>2 DEF Entry
  <2>4. P \in Nat
    BY TribalChiefAssumption
  <2> HIDE DEF P
  <2>5. /\ P * entry.paid \in Nat /\ P * (entry.emitted + entry.roundings) \in Nat
        /\ P * entry2.paid \in Nat /\ P * (entry2.emitted + entry2.roundings) \in Nat
    BY <2>3, <2>4, TimesNat
  <2> QED BY <1>6, <1>7, <1>11, <1>12, <2>1, <2>2, <2>5
<1>18. PoolTyped(pool2, users2, deps2, held2, entry2)
    BY <1>2, <1>3, <1>7, <1>16 DEF PoolTyped
<1>19. PoolCovered(pool2, users2, deps2, held2, entry2)
    BY <1>14, <1>15, <1>16, <1>17 DEF PoolCovered, P, g, w, t
<1> QED BY <1>18, <1>19 DEF PoolInv, users2, deps2

-----------------------------------------------------------------------------
\* Where a product is rounded down.
LEMMA Rounding ==
    ASSUME NEW pool \in Pool, NEW amount \in Nat
    PROVE  /\ accumulated(pool, amount) \in Nat /\ rounded(pool, amount) \in {0, 1}
           /\ amount * pool.accTribePerShare \in Nat
           /\ ACC_TRIBE_PRECISION * accumulated(pool, amount) \in Nat
           /\ ACC_TRIBE_PRECISION * accumulated(pool, amount) <= amount * pool.accTribePerShare
           /\ amount * pool.accTribePerShare
                <= ACC_TRIBE_PRECISION * accumulated(pool, amount) + ACC_TRIBE_PRECISION * rounded(pool, amount)
<1> DEFINE x == amount * pool.accTribePerShare
           P == ACC_TRIBE_PRECISION
           q == x \div P
           m == x % P
<1>1. P \in Nat /\ P > 0 /\ pool.accTribePerShare \in Nat
    BY TribalChiefAssumption DEF Pool
<1>2. x \in Nat
    BY <1>1, TimesNat
<1>3. accumulated(pool, amount) = q /\ rounded(pool, amount) = IF m = 0 THEN 0 ELSE 1
    BY DEF accumulated, rounded
<1> HIDE DEF x, P
<1>4. q \in Nat /\ m \in Nat /\ m < P /\ x = P * q + m
    BY <1>1, <1>2, DivParts
<1> HIDE DEF q, m
<1>5. P * q \in Nat
    BY <1>1, <1>4, TimesNat
<1>6. rounded(pool, amount) \in {0, 1} /\ x <= P * q + P * rounded(pool, amount)
    BY <1>1, <1>3, <1>4, <1>5
<1> QED BY <1>2, <1>3, <1>4, <1>5, <1>6 DEF x, P

\* A deposit adds to what its user is owed at most what is lost in the rounding of its debt.
LEMMA OwedAfterDeposit ==
    ASSUME NEW pool \in Pool, NEW info \in User, NEW delta \in Nat, NEW info2 \in User,
           info2.virtualAmount = info.virtualAmount + delta,
           info2.rewardDebt = info.rewardDebt + accumulated(pool, delta)
    PROVE  owed(pool, info2) <= owed(pool, info) + ACC_TRIBE_PRECISION * rounded(pool, delta)
<1> DEFINE P == ACC_TRIBE_PRECISION
           acc == pool.accTribePerShare
           v == info.virtualAmount
           debt == info.rewardDebt
           q == accumulated(pool, delta)
           k == P * rounded(pool, delta)
<1>1. /\ P \in Nat /\ acc \in Nat /\ v \in Nat /\ debt \in Int
    BY TribalChiefAssumption DEF Pool, User
<1>2. q \in Nat /\ P * q \in Nat /\ delta * acc \in Nat /\ delta * acc <= P * q + k /\ k \in Nat
  <2>1. rounded(pool, delta) \in Nat
    BY Rounding
  <2> QED BY <1>1, <2>1, Rounding, TimesNat
<1>3. /\ owed(pool, info) = IF v * acc - P * debt > 0 THEN v * acc - P * debt ELSE 0
      /\ owed(pool, info2)
            = IF (v + delta) * acc - P * (debt + q) > 0 THEN (v + delta) * acc - P * (debt + q) ELSE 0
    BY DEF owed
<1> HIDE DEF P, acc, v, debt, q, k
<1>4. (v + delta) * acc = v * acc + delta * acc /\ v * acc \in Int /\ delta * acc \in Int
    BY <1>1, Expands
<1>5. P * (debt + q) = P * debt + P * q /\ P * debt \in Int
    BY <1>1, <1>2, Expands
<1> QED BY <1>2, <1>3, <1>4, <1>5 DEF k, P

\* A withdrawal of a part adds nothing to it.
LEMMA OwedAfterWithdrawal ==
    ASSUME NEW pool \in Pool, NEW info \in User, NEW delta \in Nat, delta <= info.virtualAmount,
           NEW info2 \in User,
           info2.virtualAmount = info.virtualAmount - delta,
           info2.rewardDebt = info.rewardDebt - accumulated(pool, delta)
    PROVE  owed(pool, info2) <= owed(pool, info)
<1> DEFINE P == ACC_TRIBE_PRECISION
           acc == pool.accTribePerShare
           v == info.virtualAmount
           debt == info.rewardDebt
           q == accumulated(pool, delta)
           r == v - delta
           e == debt - q
<1>1. /\ P \in Nat /\ acc \in Nat /\ v \in Nat /\ debt \in Int
    BY TribalChiefAssumption DEF Pool, User
<1>2. q \in Nat /\ P * q \in Nat /\ delta * acc \in Nat /\ P * q <= delta * acc
    BY Rounding
<1>3. /\ owed(pool, info) = IF v * acc - P * debt > 0 THEN v * acc - P * debt ELSE 0
      /\ owed(pool, info2) = IF r * acc - P * e > 0 THEN r * acc - P * e ELSE 0
    BY DEF owed
<1>4. r \in Int /\ v = r + delta /\ e \in Int /\ debt = e + q
    BY <1>1, <1>2
<1> HIDE DEF P, acc, v, debt, q, r, e
<1>5. (r + delta) * acc = r * acc + delta * acc /\ r * acc \in Int
    BY <1>1, <1>4, Expands
<1>6. P * (e + q) = P * e + P * q /\ P * e \in Int
    BY <1>1, <1>2, <1>4, Expands
<1>7. v * acc = r * acc + delta * acc /\ P * debt = P * e + P * q
    BY <1>4, <1>5, <1>6
<1> QED BY <1>2, <1>3, <1>5, <1>6, <1>7

\* What a user is paid was owed.
LEMMA PendingOwed ==
    ASSUME NEW pool \in Pool, NEW info \in User, NEW pending \in Nat,
           pending = accumulated(pool, info.virtualAmount) - info.rewardDebt
    PROVE  ACC_TRIBE_PRECISION * pending <= owed(pool, info) /\ ACC_TRIBE_PRECISION * pending \in Nat
<1> DEFINE P == ACC_TRIBE_PRECISION
           acc == pool.accTribePerShare
           v == info.virtualAmount
           debt == info.rewardDebt
           q == accumulated(pool, v)
<1>1. /\ P \in Nat /\ acc \in Nat /\ v \in Nat /\ debt \in Int
    BY TribalChiefAssumption DEF Pool, User
<1>2. q \in Nat /\ P * q \in Nat /\ v * acc \in Nat /\ P * q <= v * acc
    BY <1>1, Rounding
<1>3. owed(pool, info) = IF v * acc - P * debt > 0 THEN v * acc - P * debt ELSE 0
    BY DEF owed
<1>4. q = debt + pending
    BY <1>1, <1>2
<1> HIDE DEF P, acc, v, debt, q
<1>5. P * (debt + pending) = P * debt + P * pending /\ P * debt \in Int /\ P * pending \in Nat
    BY <1>1, Expands, TimesNat
<1> QED BY <1>2, <1>3, <1>4, <1>5 DEF P

\* harvest: after it what was paid is not owed any more.
LEMMA OwedAfterHarvest ==
    ASSUME NEW pool \in Pool, NEW info \in User, NEW pending \in Nat,
           pending = accumulated(pool, info.virtualAmount) - info.rewardDebt,
           NEW info2 \in User, info2.virtualAmount = info.virtualAmount,
           info2.rewardDebt = info.rewardDebt + pending
    PROVE  ACC_TRIBE_PRECISION * pending + owed(pool, info2) <= owed(pool, info)
<1> DEFINE P == ACC_TRIBE_PRECISION
           acc == pool.accTribePerShare
           v == info.virtualAmount
           debt == info.rewardDebt
<1>1. /\ P \in Nat /\ acc \in Nat /\ v \in Nat /\ debt \in Int
    BY TribalChiefAssumption DEF Pool, User
<1>2. /\ owed(pool, info) = IF v * acc - P * debt > 0 THEN v * acc - P * debt ELSE 0
      /\ owed(pool, info2) = IF v * acc - P * (debt + pending) > 0 THEN v * acc - P * (debt + pending) ELSE 0
    BY DEF owed
<1>3. P * pending <= owed(pool, info) /\ P * pending \in Nat
    BY PendingOwed
<1> HIDE DEF P, acc, v, debt
<1>4. /\ P * (debt + pending) = P * debt + P * pending /\ P * debt \in Int
      /\ v * acc \in Int
    BY <1>1, Expands
<1> QED BY <1>2, <1>3, <1>4 DEF P

\* withdrawAllAndHarvest: what is left starts with a debt of its own.
LEMMA OwedAfterReset ==
    ASSUME NEW pool \in Pool, NEW info2 \in User,
           info2.rewardDebt = accumulated(pool, info2.virtualAmount)
    PROVE  owed(pool, info2) <= ACC_TRIBE_PRECISION * rounded(pool, info2.virtualAmount)
<1> DEFINE P == ACC_TRIBE_PRECISION
           acc == pool.accTribePerShare
           v == info2.virtualAmount
           q == accumulated(pool, v)
           k == P * rounded(pool, v)
<1>1. /\ P \in Nat /\ acc \in Nat /\ v \in Nat
    BY TribalChiefAssumption DEF Pool, User
<1>2. q \in Nat /\ P * q \in Nat /\ v * acc \in Nat /\ v * acc <= P * q + k /\ k \in Nat
  <2> HIDE DEF v
  <2>1. rounded(pool, v) \in {0, 1}
    BY <1>1, Rounding
  <2>2. rounded(pool, v) \in Nat
    BY <2>1
  <2> QED BY <1>1, <2>2, Rounding, TimesNat
<1>3. owed(pool, info2) = IF v * acc - P * q > 0 THEN v * acc - P * q ELSE 0
    BY DEF owed
<1> HIDE DEF P, acc, v, q, k
<1> QED BY <1>2, <1>3 DEF k, P, v

\* A user without weight and debt is owed nothing.
LEMMA NothingOwed ==
    ASSUME NEW pool \in Pool
    PROVE  NoUser \in User /\ owed(pool, NoUser) = 0
<1>1. pool.accTribePerShare \in Int /\ ACC_TRIBE_PRECISION \in Int
    BY TribalChiefAssumption DEF Pool
<1>2. 0 * pool.accTribePerShare = 0 /\ ACC_TRIBE_PRECISION * 0 = 0
    BY <1>1
<1> QED BY <1>2 DEF owed, NoUser, User

-----------------------------------------------------------------------------
\* The allocation points of the pools.
allocW == [pool \in Pool |-> pool.allocPoint]

\* AllocPointsSum is about the total of these.
LEMMA AllocTotal ==
    ASSUME NEW pools \in Seq(Pool)
    PROVE  /\ allocW \in [Pool -> Nat]
           /\ SumFunction([pid \in DOMAIN pools |-> pools[pid].allocPoint]) = total(allocW, pools)
           /\ total(allocW, pools) \in Nat
<1> DEFINE f == [pid \in DOMAIN pools |-> pools[pid].allocPoint]
<1>1. allocW \in [Pool -> Nat]
    BY DEF allocW, Pool
<1>2. ASSUME NEW i \in DOMAIN pools PROVE f[i] = measure(allocW, pools)[i]
  <2>1. pools[i] \in Pool
    BY <1>1, MeasureFacts
  <2> QED BY <2>1 DEF measure, allocW
<1>3. IsFiniteSet(DOMAIN pools)
    BY <1>1, MeasureFacts
<1>4. DOMAIN f = DOMAIN pools
    OBVIOUS
<1> HIDE DEF f
<1>5. SumFunctionOnSet(f, DOMAIN pools) = total(allocW, pools)
    BY <1>2, <1>3, SumEqual DEF total
<1>6. SumFunction(f) = SumFunctionOnSet(f, DOMAIN pools)
    BY <1>4 DEF SumFunction
<1>7. DOMAIN pools \in SUBSET DOMAIN pools
    OBVIOUS
<1>8. total(allocW, pools) \in Nat
    BY <1>1, <1>7, PartOfTotal
<1> QED BY <1>1, <1>5, <1>6, <1>8 DEF f

\* What the invariant says of one pool.
LEMMA PoolFacts ==
    ASSUME ChiefInv, NEW pid \in pids
    PROVE  /\ PoolInv(poolInfo[pid], userInfo[pid], depositInfo[pid], stakedBalance[pid], ledger[pid])
           /\ poolInfo[pid] \in Pool /\ userInfo[pid] \in [Users -> User]
           /\ depositInfo[pid] \in [Users -> Seq(Deposit)] /\ stakedBalance[pid] \in Nat
           /\ ledger[pid] \in Entry
           /\ block \in Nat /\ totalAllocPoint \in Nat /\ tribePerBlock \in Nat /\ tribeBalance \in Nat
BY DEF ChiefInv, ChiefTypeOK, PoolInv, PoolTyped

\* A step that changes the records of one pool.
IsPoolStep(pid, pool2, users2, deps2, held2, entry2) ==
    /\ PoolInv(pool2, users2, deps2, held2, entry2)
    /\ poolInfo' = [poolInfo EXCEPT ![pid] = pool2]
    /\ userInfo' = [userInfo EXCEPT ![pid] = users2]
    /\ depositInfo' = [depositInfo EXCEPT ![pid] = deps2]
    /\ stakedBalance' = [stakedBalance EXCEPT ![pid] = held2]
    /\ ledger' = [ledger EXCEPT ![pid] = entry2]
    /\ totalAllocPoint' = totalAllocPoint - poolInfo[pid].allocPoint + pool2.allocPoint
    /\ tribePerBlock' \in Nat /\ tribeBalance' \in Nat
    /\ rewardMultipliers' \in [pids -> [LockLengths -> Nat]]
    /\ UNCHANGED <<block, coreRefVars>>

\* Such a step keeps the invariant.
LEMMA PoolStepKeeps ==
    ASSUME ChiefInv, NEW pid \in pids, NEW pool2, NEW users2, NEW deps2, NEW held2, NEW entry2,
           IsPoolStep(pid, pool2, users2, deps2, held2, entry2)
    PROVE  ChiefInv'
<1>1. /\ pool2 \in Pool /\ users2 \in [Users -> User] /\ deps2 \in [Users -> Seq(Deposit)]
      /\ held2 \in Nat /\ entry2 \in Entry
    BY DEF IsPoolStep, PoolInv, PoolTyped
<1>2. ChiefTypeOK /\ AllocPointsSum
    BY DEF ChiefInv
<1>3. /\ poolInfo' = [poolInfo EXCEPT ![pid] = pool2]
      /\ userInfo' = [userInfo EXCEPT ![pid] = users2]
      /\ depositInfo' = [depositInfo EXCEPT ![pid] = deps2]
      /\ stakedBalance' = [stakedBalance EXCEPT ![pid] = held2]
      /\ ledger' = [ledger EXCEPT ![pid] = entry2]
      /\ totalAllocPoint' = totalAllocPoint - poolInfo[pid].allocPoint + pool2.allocPoint
      /\ tribePerBlock' \in Nat /\ tribeBalance' \in Nat
      /\ rewardMultipliers' \in [pids -> [LockLengths -> Nat]]
      /\ block' = block /\ paused' = paused /\ contractAdminRole' = contractAdminRole
    BY DEF IsPoolStep, coreRefVars
<1>4. pids' = pids
    BY <1>3 DEF pids
<1>5. /\ poolInfo' \in Seq(Pool)
      /\ total(allocW, poolInfo') = total(allocW, poolInfo) - allocW[poolInfo[pid]] + allocW[pool2]
  <2>1. poolInfo \in Seq(Pool) /\ pid \in DOMAIN poolInfo
    BY <1>2 DEF ChiefTypeOK, pids
  <2>2. Replaced(poolInfo', poolInfo, pid, pool2)
    BY <1>3 DEF Replaced
  <2>3. allocW \in [Pool -> Nat]
    BY <2>1, AllocTotal
  <2> QED BY <1>1, <2>1, <2>2, <2>3, TotalReplaced
<1>6. totalAllocPoint' \in Nat /\ AllocPointsSum'
  <2>1. poolInfo \in Seq(Pool) /\ poolInfo[pid] \in Pool
    BY <1>2, PoolFacts DEF ChiefTypeOK
  <2>2. allocW[poolInfo[pid]] = poolInfo[pid].allocPoint /\ allocW[pool2] = pool2.allocPoint
    BY <1>1, <2>1 DEF allocW
  <2>3. totalAllocPoint = total(allocW, poolInfo)
    BY <1>2, <2>1, AllocTotal DEF AllocPointsSum, pids
  <2>4. totalAllocPoint' = total(allocW, poolInfo')
    BY <1>3, <1>5, <2>2, <2>3
  <2> QED BY <1>5, <2>4, AllocTotal DEF AllocPointsSum, pids
<1>7. ChiefTypeOK'
  <2>1. /\ userInfo' \in [pids -> [Users -> User]]
        /\ depositInfo' \in [pids -> [Users -> Seq(Deposit)]]
        /\ stakedBalance' \in [pids -> Nat]
        /\ ledger' \in [pids -> Entry]
    BY <1>1, <1>2, <1>3 DEF ChiefTypeOK
  <2>2. CoreRefTypeOK'
    BY <1>2, <1>3, Zenon DEF ChiefTypeOK, CoreRefTypeOK
  <2>3. block' \in Nat
    BY <1>2, <1>3 DEF ChiefTypeOK
  <2> QED BY <1>3, <1>4, <1>5, <1>6, <2>1, <2>2, <2>3 DEF ChiefTypeOK
<1>8. ASSUME NEW p \in pids
      PROVE  PoolInv(poolInfo'[p], userInfo'[p], depositInfo'[p], stakedBalance'[p], ledger'[p])
  <2>0. p \in DOMAIN poolInfo /\ p \in DOMAIN userInfo /\ p \in DOMAIN depositInfo
        /\ p \in DOMAIN stakedBalance /\ p \in DOMAIN ledger
    BY <1>2 DEF ChiefTypeOK, pids
  <2>1. CASE p = pid
    <3>1. /\ poolInfo'[p] = pool2 /\ userInfo'[p] = users2 /\ depositInfo'[p] = deps2
          /\ stakedBalance'[p] = held2 /\ ledger'[p] = entry2
      BY <1>3, <2>0, <2>1
    <3>2. PoolInv(pool2, users2, deps2, held2, entry2)
      BY DEF IsPoolStep
    <3> QED BY <3>1, <3>2
  <2>2. CASE p # pid
    <3>1. /\ poolInfo'[p] = poolInfo[p] /\ userInfo'[p] = userInfo[p] /\ depositInfo'[p] = depositInfo[p]
          /\ stakedBalance'[p] = stakedBalance[p] /\ ledger'[p] = ledger[p]
      BY <1>3, <2>0, <2>2
    <3>2. PoolInv(poolInfo[p], userInfo[p], depositInfo[p], stakedBalance[p], ledger[p])
      BY PoolFacts
    <3> QED BY <3>1, <3>2
  <2> QED BY <2>1, <2>2
<1> QED BY <1>4, <1>6, <1>7, <1>8 DEF ChiefInv

-----------------------------------------------------------------------------
\* An operation of a user: updatePool, then the records of that user, a payment and a debt
\* that may be rounded down.
IsUserOp(user, pid, pool2, info, ds, held2, pay, kept) ==
    /\ pool2 \in Pool /\ info \in User /\ ds \in Seq(Deposit)
    /\ pay \in Nat /\ kept \in Nat
    /\ pool2.accTribePerShare = updated(poolInfo[pid]).accTribePerShare
    /\ pool2.allocPoint = poolInfo[pid].allocPoint
    /\ pool2.virtualTotalSupply
            >= poolInfo[pid].virtualTotalSupply - userInfo[pid][user].virtualAmount + info.virtualAmount
    /\ info.virtualAmount >= weight(ds)
    /\ held2 = stakedBalance[pid] - staked(depositInfo[pid][user]) + staked(ds)
    /\ ACC_TRIBE_PRECISION * pay + owed(updated(poolInfo[pid]), info)
            <= owed(updated(poolInfo[pid]), userInfo[pid][user]) + ACC_TRIBE_PRECISION * kept
    /\ poolInfo' = [poolInfo EXCEPT ![pid] = pool2]
    /\ userInfo' = [userInfo EXCEPT ![pid][user] = info]
    /\ depositInfo' = [depositInfo EXCEPT ![pid][user] = ds]
    /\ stakedBalance' = [stakedBalance EXCEPT ![pid] = held2]
    /\ ledger' = entered(pid, pay, kept)
    /\ tribeBalance' \in Nat
    /\ UNCHANGED <<rewardMultipliers, rewardVars, block, coreRefVars>>

\* Such an operation keeps the invariant.
LEMMA UserOpKeeps ==
    ASSUME ChiefInv, NEW pid \in pids, NEW user \in Users,
           NEW pool2, NEW info, NEW ds, NEW held2, NEW pay, NEW kept,
           IsUserOp(user, pid, pool2, info, ds, held2, pay, kept)
    PROVE  ChiefInv'
<1> DEFINE pool == updated(poolInfo[pid])
           reward == tribeReward(poolInfo[pid])
           users == userInfo[pid]
           deps == depositInfo[pid]
           held == stakedBalance[pid]
           entry == [ledger[pid] EXCEPT !.emitted = @ + reward]
           entry2 == [emitted |-> ledger[pid].emitted + reward, paid |-> ledger[pid].paid + pay,
                      roundings |-> ledger[pid].roundings + kept]
           P == ACC_TRIBE_PRECISION
<1>1. /\ PoolInv(poolInfo[pid], users, deps, held, ledger[pid])
      /\ poolInfo[pid] \in Pool /\ users \in [Users -> User]
      /\ deps \in [Users -> Seq(Deposit)] /\ held \in Nat
      /\ ledger[pid] \in Entry
      /\ block \in Nat /\ totalAllocPoint \in Nat /\ tribePerBlock \in Nat
    BY PoolFacts
<1>2. /\ reward \in Nat /\ PoolInv(pool, users, deps, held, entry)
      /\ pool.virtualTotalSupply = poolInfo[pid].virtualTotalSupply
      /\ pool.allocPoint = poolInfo[pid].allocPoint
    BY <1>1, UpdateKeeps
<1>3. /\ pool2 \in Pool /\ info \in User /\ ds \in Seq(Deposit) /\ pay \in Nat /\ kept \in Nat
      /\ P * pay + owed(pool, info) <= owed(pool, users[user]) + P * kept
    BY DEF IsUserOp
<1>4. pool \in Pool
    BY <1>2 DEF PoolInv, PoolTyped
<1>5. owed(pool, info) \in Nat /\ owed(pool, users[user]) \in Nat
    BY <1>1, <1>3, <1>4, OwedNumbers
<1> HIDE DEF pool, reward
<1>6. /\ entry2 \in Entry /\ entry.paid = ledger[pid].paid /\ entry.emitted = ledger[pid].emitted + reward
      /\ entry.roundings = ledger[pid].roundings
      /\ ledger[pid].paid \in Nat /\ entry.emitted \in Nat /\ ledger[pid].roundings \in Nat
  <2>1. ledger[pid].paid \in Nat /\ ledger[pid].emitted \in Nat /\ ledger[pid].roundings \in Nat
    BY <1>1 DEF Entry
  <2>2. entry2 \in Entry
    BY <1>2, <1>3, <2>1, SMTT(60) DEF Entry
  <2>3. /\ entry.paid = ledger[pid].paid /\ entry.emitted = ledger[pid].emitted + reward
        /\ entry.roundings = ledger[pid].roundings
    BY <1>1 DEF Entry
  <2> QED BY <1>2, <2>1, <2>2, <2>3
<1>7. entry2.paid = entry.paid + pay /\ entry2.emitted = entry.emitted /\ entry2.roundings = entry.roundings + kept
    BY <1>6
<1> HIDE DEF entry, entry2
<1>8. P * entry2.paid + owed(pool, info) + P * (entry.emitted + entry.roundings)
        <= P * entry.paid + owed(pool, users[user]) + P * (entry2.emitted + entry2.roundings)
  <2>1. P \in Nat
    BY TribalChiefAssumption
  <2> HIDE DEF P
  <2>2. P * (entry.paid + pay) = P * entry.paid + P * pay /\ P * entry.paid \in Int /\ P * pay \in Int
    <3>1. entry.paid \in Int /\ pay \in Int /\ P \in Int
      BY <1>3, <1>6, <2>1
    <3> QED BY <3>1, Expands
  <2>3. /\ P * ((entry.emitted + entry.roundings) + kept) = P * (entry.emitted + entry.roundings) + P * kept
        /\ P * (entry.emitted + entry.roundings) \in Int /\ P * kept \in Int
    BY <1>3, <1>6, <2>1, Expands
  <2>4. entry2.emitted + entry2.roundings = (entry.emitted + entry.roundings) + kept
    BY <1>3, <1>6, <1>7
  <2>5. /\ P * entry2.paid = P * entry.paid + P * pay
        /\ P * (entry2.emitted + entry2.roundings) = P * (entry.emitted + entry.roundings) + P * kept
    BY <1>7, <2>2, <2>3, <2>4
  <2> QED BY <1>3, <1>5, <2>2, <2>3, <2>5, SMTT(60)
<1>9. IsUserStep(user, pool, users, deps, held, entry, pool2, info, ds, held2, entry2)
  <2>1. pool2.accTribePerShare = pool.accTribePerShare
    BY DEF IsUserOp, pool
  <2>2. pool2.virtualTotalSupply >= pool.virtualTotalSupply - users[user].virtualAmount + info.virtualAmount
    BY <1>2 DEF IsUserOp
  <2>3. info.virtualAmount >= weight(ds) /\ held2 = held - staked(deps[user]) + staked(ds)
    BY DEF IsUserOp
  <2> QED BY <1>3, <1>6, <1>8, <2>1, <2>2, <2>3 DEF IsUserStep, P
<1> DEFINE users2 == [users EXCEPT ![user] = info]
           deps2 == [deps EXCEPT ![user] = ds]
<1>10. PoolInv(pool2, users2, deps2, held2, entry2)
    BY <1>2, <1>9, UserStepKeeps
<1>11. /\ poolInfo' = [poolInfo EXCEPT ![pid] = pool2]
       /\ userInfo' = [userInfo EXCEPT ![pid] = users2]
       /\ depositInfo' = [depositInfo EXCEPT ![pid] = deps2]
       /\ stakedBalance' = [stakedBalance EXCEPT ![pid] = held2]
    BY DEF IsUserOp
<1>12. ledger' = [ledger EXCEPT ![pid] = entry2]
    BY DEF IsUserOp, entered, entry2, reward
<1>13. totalAllocPoint' = totalAllocPoint - poolInfo[pid].allocPoint + pool2.allocPoint
  <2>1. totalAllocPoint' = totalAllocPoint /\ pool2.allocPoint = poolInfo[pid].allocPoint
    BY DEF IsUserOp, rewardVars
  <2>2. poolInfo[pid].allocPoint \in Nat
    BY <1>1 DEF Pool
  <2> QED BY <1>1, <2>1, <2>2
<1>14. /\ tribePerBlock' \in Nat /\ tribeBalance' \in Nat
       /\ rewardMultipliers' \in [pids -> [LockLengths -> Nat]]
       /\ UNCHANGED <<block, coreRefVars>>
    BY DEF IsUserOp, rewardVars, ChiefInv, ChiefTypeOK
<1> HIDE DEF users2, deps2
<1>15. IsPoolStep(pid, pool2, users2, deps2, held2, entry2)
    BY <1>10, <1>11, <1>12, <1>13, <1>14 DEF IsPoolStep
<1> QED BY <1>15, PoolStepKeeps

-----------------------------------------------------------------------------
\* What a user's operation starts from.
LEMMA UserFacts ==
    ASSUME ChiefInv, NEW pid \in pids, NEW user \in Users,
           NEW pool, pool = updated(poolInfo[pid]), NEW info, info = userInfo[pid][user],
           NEW deps, deps = depositInfo[pid][user]
    PROVE  /\ pool \in Pool /\ info \in User /\ deps \in Seq(Deposit)
           /\ pool.virtualTotalSupply = poolInfo[pid].virtualTotalSupply
           /\ pool.allocPoint = poolInfo[pid].allocPoint
           /\ pool.virtualTotalSupply \in Nat /\ info.virtualAmount \in Nat /\ info.rewardDebt \in Int
           /\ info.virtualAmount >= weight(deps)
           /\ weight(deps) \in Nat /\ staked(deps) \in Nat
           /\ stakedBalance[pid] \in Nat /\ tribeBalance \in Nat /\ block \in Nat
           /\ owed(pool, info) \in Nat
<1>1. /\ PoolInv(poolInfo[pid], userInfo[pid], depositInfo[pid], stakedBalance[pid], ledger[pid])
      /\ userInfo[pid] \in [Users -> User] /\ depositInfo[pid] \in [Users -> Seq(Deposit)]
      /\ stakedBalance[pid] \in Nat
      /\ block \in Nat /\ totalAllocPoint \in Nat /\ tribePerBlock \in Nat /\ tribeBalance \in Nat
    BY PoolFacts
<1>2. /\ PoolInv(pool, userInfo[pid], depositInfo[pid], stakedBalance[pid],
                 [ledger[pid] EXCEPT !.emitted = @ + tribeReward(poolInfo[pid])])
      /\ pool.virtualTotalSupply = poolInfo[pid].virtualTotalSupply
      /\ pool.allocPoint = poolInfo[pid].allocPoint
    BY <1>1, UpdateKeeps
<1>3. /\ pool \in Pool
      /\ userInfo[pid][user].virtualAmount >= virtualOf(depositInfo[pid][user], DOMAIN depositInfo[pid][user])
    BY <1>2 DEF PoolInv, PoolTyped, PoolCovered
<1>4. info \in User /\ deps \in Seq(Deposit)
    BY <1>1
<1>5. info.virtualAmount >= weight(deps) /\ weight(deps) \in Nat /\ staked(deps) \in Nat
    BY <1>3, <1>4, AllSums
<1>6. pool.virtualTotalSupply \in Nat /\ info.virtualAmount \in Nat /\ info.rewardDebt \in Int
    BY <1>3, <1>4 DEF Pool, User
<1>7. owed(pool, info) \in Nat
    BY <1>3, <1>4, OwedNumbers
<1> QED BY <1>1, <1>2, <1>3, <1>4, <1>5, <1>6, <1>7

\* A pool of which only the weight changes.
LEMMA Reweighed ==
    ASSUME NEW pool \in Pool, NEW n \in Nat, NEW pool2, pool2 = [pool EXCEPT !.virtualTotalSupply = n]
    PROVE  /\ pool2 \in Pool /\ pool2.virtualTotalSupply = n
           /\ pool2.accTribePerShare = pool.accTribePerShare /\ pool2.allocPoint = pool.allocPoint
BY DEF Pool

\* A deposit.
LEMMA DepositKeeps ==
    ASSUME ChiefInv, NEW pid \in pids, NEW user \in Users, NEW amount \in Amounts, NEW lock \in LockLengths,
           deposit(user, pid, amount, lock), UNCHANGED <<block, coreRefVars>>
    PROVE  ChiefInv'
<1> DEFINE multiplier == rewardMultipliers[pid][lock]
           delta == virtual(amount, multiplier)
           pool == updated(poolInfo[pid])
           info == userInfo[pid][user]
           deps == depositInfo[pid][user]
           dep == [amount |-> amount, unlockBlock |-> lock + block, multiplier |-> multiplier]
           info2 == [virtualAmount |-> info.virtualAmount + delta,
                     rewardDebt |-> info.rewardDebt + accumulated(pool, delta)]
           pool2 == [pool EXCEPT !.virtualTotalSupply = @ + delta]
           ds == Append(deps, dep)
           held2 == stakedBalance[pid] + amount
           kept == rounded(pool, delta)
<1>1. /\ pool \in Pool /\ info \in User /\ deps \in Seq(Deposit)
      /\ pool.virtualTotalSupply = poolInfo[pid].virtualTotalSupply
      /\ pool.allocPoint = poolInfo[pid].allocPoint
      /\ pool.virtualTotalSupply \in Nat /\ info.virtualAmount \in Nat /\ info.rewardDebt \in Int
      /\ info.virtualAmount >= weight(deps)
      /\ weight(deps) \in Nat /\ staked(deps) \in Nat
      /\ stakedBalance[pid] \in Nat /\ tribeBalance \in Nat /\ block \in Nat
      /\ owed(pool, info) \in Nat
    BY UserFacts
<1>2. amount \in Nat /\ lock \in Nat /\ multiplier \in Nat
    BY TribalChiefAssumption DEF ChiefInv, ChiefTypeOK
<1>3. delta \in Nat
    BY <1>2, VirtualNat
<1>4. /\ userInfo' = [userInfo EXCEPT ![pid][user] = info2]
      /\ depositInfo' = [depositInfo EXCEPT ![pid][user] = ds]
      /\ poolInfo' = [poolInfo EXCEPT ![pid] = pool2]
      /\ stakedBalance' = [stakedBalance EXCEPT ![pid] = held2]
      /\ ledger' = entered(pid, 0, kept)
      /\ UNCHANGED <<rewardMultipliers, rewardVars, block, coreRefVars>> /\ tribeBalance' \in Nat
  <2>1. userInfo' = [userInfo EXCEPT ![pid][user] =
                        [virtualAmount |-> @.virtualAmount + delta, rewardDebt |-> @.rewardDebt + accumulated(pool, delta)]]
    BY DEF deposit
  <2>2. depositInfo' = [depositInfo EXCEPT ![pid][user] = Append(@, dep)]
    BY DEF deposit
  <2>3. /\ poolInfo' = [poolInfo EXCEPT ![pid] = [pool EXCEPT !.virtualTotalSupply = @ + delta]]
        /\ stakedBalance' = [stakedBalance EXCEPT ![pid] = @ + amount]
        /\ ledger' = entered(pid, 0, rounded(pool, delta))
        /\ UNCHANGED <<rewardMultipliers, rewardVars, tribeBalance>>
    BY DEF deposit
  <2> HIDE DEF delta, dep, pool
  <2> QED BY <1>1, <2>1, <2>2, <2>3
<1> HIDE DEF delta, multiplier, pool
<1>5. dep \in Deposit /\ dep.amount = amount /\ dep.multiplier = multiplier
    BY <1>1, <1>2 DEF Deposit
<1> HIDE DEF dep
<1>6. /\ ds \in Seq(Deposit) /\ staked(ds) = staked(deps) + amount /\ weight(ds) = weight(deps) + delta
  <2>1. Appended(ds, deps, dep)
    BY DEF Appended
  <2> HIDE DEF ds
  <2>2. /\ ds \in Seq(Deposit) /\ staked(ds) = staked(deps) + dep.amount
        /\ weight(ds) = weight(deps) + virtual(dep.amount, dep.multiplier)
    BY <1>1, <1>5, <2>1, DepositAppended
  <2> QED BY <1>5, <2>2 DEF delta
<1> HIDE DEF ds
<1>7. accumulated(pool, delta) \in Nat /\ kept \in {0, 1}
    BY <1>1, <1>3, Rounding
<1>8. /\ info2 \in User /\ info2.virtualAmount = info.virtualAmount + delta
      /\ info2.rewardDebt = info.rewardDebt + accumulated(pool, delta)
    BY <1>1, <1>3, <1>7, SMTT(60) DEF User
<1> HIDE DEF info2
<1>9. owed(pool, info2) <= owed(pool, info) + ACC_TRIBE_PRECISION * kept
    BY <1>1, <1>3, <1>8, OwedAfterDeposit
<1>10. /\ pool2 \in Pool /\ pool2.virtualTotalSupply = pool.virtualTotalSupply + delta
       /\ pool2.accTribePerShare = pool.accTribePerShare /\ pool2.allocPoint = pool.allocPoint
  <2>1. pool.virtualTotalSupply + delta \in Nat
    BY <1>1, <1>3
  <2> QED BY <1>1, <2>1, Reweighed
<1> HIDE DEF pool2
<1>11. ACC_TRIBE_PRECISION * 0 + owed(pool, info2) <= owed(pool, info) + ACC_TRIBE_PRECISION * kept
  <2>1. owed(pool, info2) \in Nat
    BY <1>1, <1>8, OwedNumbers
  <2>2. ACC_TRIBE_PRECISION * 0 = 0
    BY TribalChiefAssumption
  <2> HIDE DEF info, kept
  <2> QED BY <1>9, <2>1, <2>2
<1>12. /\ pool2.virtualTotalSupply >= poolInfo[pid].virtualTotalSupply - info.virtualAmount + info2.virtualAmount
       /\ info2.virtualAmount >= weight(ds)
       /\ held2 = stakedBalance[pid] - staked(deps) + staked(ds)
  <2> HIDE DEF info, deps
  <2>1. pool2.virtualTotalSupply >= poolInfo[pid].virtualTotalSupply - info.virtualAmount + info2.virtualAmount
    BY <1>1, <1>3, <1>8, <1>10
  <2>2. info2.virtualAmount >= weight(ds)
    BY <1>1, <1>3, <1>6, <1>8
  <2>3. held2 = stakedBalance[pid] - staked(deps) + staked(ds)
    BY <1>1, <1>2, <1>6
  <2> QED BY <2>1, <2>2, <2>3
<1>13. kept \in Nat /\ 0 \in Nat
    BY <1>7
<1> HIDE DEF held2, kept
<1>14. IsUserOp(user, pid, pool2, info2, ds, held2, 0, kept)
    BY <1>1, <1>4, <1>6, <1>8, <1>10, <1>11, <1>12, <1>13 DEF IsUserOp, pool
<1> QED BY <1>14, UserOpKeeps

\* A harvest.
LEMMA HarvestKeeps ==
    ASSUME ChiefInv, NEW pid \in pids, NEW user \in Users,
           harvest(user, pid), UNCHANGED <<block, coreRefVars>>
    PROVE  ChiefInv'
<1> DEFINE pool == updated(poolInfo[pid])
           info == userInfo[pid][user]
           deps == depositInfo[pid][user]
           pending == pendingTribe(pid, user)
           info2 == [info EXCEPT !.rewardDebt = @ + pending]
           held == stakedBalance[pid]
<1>1. /\ pool \in Pool /\ info \in User /\ deps \in Seq(Deposit)
      /\ pool.virtualTotalSupply = poolInfo[pid].virtualTotalSupply
      /\ pool.allocPoint = poolInfo[pid].allocPoint
      /\ pool.virtualTotalSupply \in Nat /\ info.virtualAmount \in Nat /\ info.rewardDebt \in Int
      /\ info.virtualAmount >= weight(deps)
      /\ weight(deps) \in Nat /\ staked(deps) \in Nat
      /\ stakedBalance[pid] \in Nat /\ tribeBalance \in Nat /\ block \in Nat
      /\ owed(pool, info) \in Nat
    BY UserFacts
<1>2. /\ pending \in 0..tribeBalance
      /\ poolInfo' = [poolInfo EXCEPT ![pid] = pool]
      /\ userInfo' = [userInfo EXCEPT ![pid][user].rewardDebt = @ + pending]
      /\ tribeBalance' = tribeBalance - pending
      /\ ledger' = entered(pid, pending, 0)
      /\ UNCHANGED <<rewardMultipliers, depositInfo, rewardVars, stakedBalance>>
    BY DEF harvest, harvestable
<1>3. pending = accumulated(pool, info.virtualAmount) - info.rewardDebt
    BY DEF pendingTribe
<1> HIDE DEF pool, pending
<1>4. /\ userInfo' = [userInfo EXCEPT ![pid][user] = info2]
      /\ depositInfo' = [depositInfo EXCEPT ![pid][user] = deps]
      /\ stakedBalance' = [stakedBalance EXCEPT ![pid] = held]
    BY <1>2 DEF ChiefInv, ChiefTypeOK
<1>5. pending \in Nat /\ tribeBalance' \in Nat
    BY <1>1, <1>2
<1>6. /\ info2 \in User /\ info2.virtualAmount = info.virtualAmount
      /\ info2.rewardDebt = info.rewardDebt + pending
    BY <1>1, <1>5, SMTT(60) DEF User
<1> HIDE DEF info2
<1>7. ACC_TRIBE_PRECISION * pending + owed(pool, info2) <= owed(pool, info)
    BY <1>1, <1>3, <1>5, <1>6, OwedAfterHarvest
<1>8. ACC_TRIBE_PRECISION * pending + owed(pool, info2) <= owed(pool, info) + ACC_TRIBE_PRECISION * 0
  <2>1. ACC_TRIBE_PRECISION * 0 = 0
    BY TribalChiefAssumption
  <2> HIDE DEF info
  <2> QED BY <1>1, <1>7, <2>1
<1>9. /\ pool.virtualTotalSupply >= poolInfo[pid].virtualTotalSupply - info.virtualAmount + info2.virtualAmount
      /\ info2.virtualAmount >= weight(deps)
      /\ held = stakedBalance[pid] - staked(deps) + staked(deps)
  <2> HIDE DEF deps
  <2> QED BY <1>1, <1>6
<1>10. 0 \in Nat
    OBVIOUS
<1> HIDE DEF held
<1>11. IsUserOp(user, pid, pool, info2, deps, held, pending, 0)
    BY <1>1, <1>2, <1>4, <1>5, <1>6, <1>8, <1>9, <1>10 DEF IsUserOp, pool
<1> QED BY <1>11, UserOpKeeps

\* A withdrawal of everything that is unlocked.
LEMMA WithdrawAllKeeps ==
    ASSUME ChiefInv, NEW pid \in pids, NEW user \in Users,
           withdrawAllAndHarvest(user, pid), UNCHANGED <<block, coreRefVars>>
    PROVE  ChiefInv'
<1> DEFINE pool == updated(poolInfo[pid])
           info == userInfo[pid][user]
           deps == depositInfo[pid][user]
           pending == pendingTribe(pid, user)
           free == {i \in DOMAIN deps : unlocked(pool, deps[i])}
           gone == virtualOf(deps, free)
           taken == amountOf(deps, free)
           left == info.virtualAmount - gone
           pool2 == [pool EXCEPT !.virtualTotalSupply = @ - gone]
           held2 == stakedBalance[pid] - taken
           none == [amount |-> 0, unlockBlock |-> 0, multiplier |-> 0]
           emptied == [i \in DOMAIN deps |-> IF i \in free THEN none ELSE deps[i]]
<1>1. /\ pool \in Pool /\ info \in User /\ deps \in Seq(Deposit)
      /\ pool.virtualTotalSupply = poolInfo[pid].virtualTotalSupply
      /\ pool.allocPoint = poolInfo[pid].allocPoint
      /\ pool.virtualTotalSupply \in Nat /\ info.virtualAmount \in Nat /\ info.rewardDebt \in Int
      /\ info.virtualAmount >= weight(deps)
      /\ weight(deps) \in Nat /\ staked(deps) \in Nat
      /\ stakedBalance[pid] \in Nat /\ tribeBalance \in Nat /\ block \in Nat
      /\ owed(pool, info) \in Nat
    BY UserFacts
<1>2. /\ free \in SUBSET DOMAIN deps /\ gone \in Nat /\ taken \in Nat
      /\ (free = DOMAIN deps => gone = weight(deps) /\ taken = staked(deps))
  <2>1. free \in SUBSET DOMAIN deps
    OBVIOUS
  <2> HIDE DEF free, deps
  <2>2. gone \in Nat /\ taken \in Nat
    BY <1>1, <2>1, DepositSums
  <2>3. virtualOf(deps, DOMAIN deps) = weight(deps) /\ amountOf(deps, DOMAIN deps) = staked(deps)
    BY <1>1, AllSums
  <2> QED BY <2>1, <2>2, <2>3
<1>3. /\ pending \in 0..tribeBalance
      /\ gone <= pool.virtualTotalSupply
      /\ taken <= stakedBalance[pid]
      /\ poolInfo' = [poolInfo EXCEPT ![pid] = [pool EXCEPT !.virtualTotalSupply = @ - gone]]
      /\ tribeBalance' = tribeBalance - pending
      /\ stakedBalance' = [stakedBalance EXCEPT ![pid] = @ - taken]
      /\ UNCHANGED <<rewardMultipliers, rewardVars>>
    BY DEF withdrawAllAndHarvest, harvestable
<1>4. pending = accumulated(pool, info.virtualAmount) - info.rewardDebt
    BY DEF pendingTribe
<1>5. pending \in Nat /\ tribeBalance' \in Nat
    BY <1>1, <1>3
<1>6. ACC_TRIBE_PRECISION * pending <= owed(pool, info) /\ ACC_TRIBE_PRECISION * pending \in Nat
    BY <1>1, <1>4, <1>5, PendingOwed
<1>7. stakedBalance' = [stakedBalance EXCEPT ![pid] = held2]
    BY <1>3
<1>8. /\ pool2 \in Pool /\ pool2.virtualTotalSupply = pool.virtualTotalSupply - gone
      /\ pool2.accTribePerShare = pool.accTribePerShare /\ pool2.allocPoint = pool.allocPoint
      /\ poolInfo' = [poolInfo EXCEPT ![pid] = pool2]
  <2>1. pool.virtualTotalSupply - gone \in Nat
    BY <1>1, <1>2, <1>3, SMTT(60)
  <2>2. poolInfo' = [poolInfo EXCEPT ![pid] = pool2]
    BY <1>3
  <2> HIDE DEF pool, gone
  <2> QED BY <1>1, <2>1, <2>2, Reweighed
<1>9. CASE free = DOMAIN deps
  <2>1. /\ depositInfo' = [depositInfo EXCEPT ![pid][user] = <<>>]
        /\ userInfo' = [userInfo EXCEPT ![pid][user] = NoUser]
        /\ ledger' = entered(pid, pending, 0)
    BY <1>9 DEF withdrawAllAndHarvest
  <2> HIDE DEF pool, pending, free, gone, taken, pool2, held2
  <2>2. NoUser \in User /\ owed(pool, NoUser) = 0 /\ NoUser.virtualAmount = 0
    BY <1>1, NothingOwed DEF NoUser
  <2>3. <<>> \in Seq(Deposit) /\ staked(<<>>) = 0 /\ weight(<<>>) = 0
    BY NoDeposits
  <2>4. gone = weight(deps) /\ taken = staked(deps)
    BY <1>2, <1>9
  <2>5. pool2.virtualTotalSupply >= poolInfo[pid].virtualTotalSupply - info.virtualAmount + NoUser.virtualAmount
    <3> HIDE DEF info, deps
    <3> QED BY <1>1, <1>8, <2>2, <2>4
  <2>6. held2 = stakedBalance[pid] - staked(deps) + staked(<<>>)
    <3> HIDE DEF deps
    <3> QED BY <1>1, <1>2, <2>3, <2>4 DEF held2
  <2>7. ACC_TRIBE_PRECISION * pending + owed(pool, NoUser) <= owed(pool, info) + ACC_TRIBE_PRECISION * 0
    <3>1. ACC_TRIBE_PRECISION * 0 = 0
      BY TribalChiefAssumption
    <3> HIDE DEF info
    <3> QED BY <1>1, <1>6, <2>2, <3>1
  <2>8. NoUser.virtualAmount >= weight(<<>>) /\ 0 \in Nat
    BY <2>2, <2>3
  <2>9. IsUserOp(user, pid, pool2, NoUser, <<>>, held2, pending, 0)
    BY <1>1, <1>3, <1>5, <1>7, <1>8, <2>1, <2>2, <2>3, <2>5, <2>6, <2>7, <2>8 DEF IsUserOp, pool
  <2> QED BY <2>9, UserOpKeeps
<1>10. CASE free # DOMAIN deps
  <2> DEFINE kept == rounded(pool, left)
             info2 == [virtualAmount |-> left, rewardDebt |-> accumulated(pool, left)]
  <2>1. /\ left >= 0
        /\ depositInfo' = [depositInfo EXCEPT ![pid][user] = [i \in DOMAIN @ |-> IF i \in free THEN none ELSE @[i]]]
        /\ userInfo' = [userInfo EXCEPT ![pid][user] = info2]
        /\ ledger' = entered(pid, pending, kept)
    BY <1>10 DEF withdrawAllAndHarvest
  <2>2. depositInfo' = [depositInfo EXCEPT ![pid][user] = emptied]
    BY <2>1
  <2> HIDE DEF pool, pending, gone, taken, pool2, held2, kept
  <2>3. /\ emptied \in Seq(Deposit) /\ staked(emptied) = staked(deps) - taken
        /\ weight(emptied) = weight(deps) - gone
    <3>1. Emptied(emptied, deps, free, [amount |-> 0, unlockBlock |-> 0, multiplier |-> 0])
      BY DEF Emptied
    <3> HIDE DEF emptied, free, deps
    <3> QED BY <1>1, <1>2, <3>1, DepositsEmptied DEF gone, taken
  <2> HIDE DEF emptied, free
  <2>4. left \in Nat
    BY <1>1, <1>2, <2>1
  <2>5. accumulated(pool, left) \in Nat /\ kept \in {0, 1}
    <3> HIDE DEF left
    <3> QED BY <1>1, <2>4, Rounding DEF kept
  <2>6. info2 \in User /\ info2.virtualAmount = left /\ info2.rewardDebt = accumulated(pool, left)
    <3> HIDE DEF left
    <3> QED BY <2>4, <2>5 DEF User
  <2> HIDE DEF info2
  <2>7. owed(pool, info2) <= ACC_TRIBE_PRECISION * kept
    <3>1. info2.rewardDebt = accumulated(pool, info2.virtualAmount)
      BY <2>6
    <3>2. owed(pool, info2) <= ACC_TRIBE_PRECISION * rounded(pool, info2.virtualAmount)
      BY <1>1, <2>6, <3>1, OwedAfterReset
    <3> QED BY <2>6, <3>2 DEF kept
  <2>8. ACC_TRIBE_PRECISION * pending + owed(pool, info2) <= owed(pool, info) + ACC_TRIBE_PRECISION * kept
    <3>1. owed(pool, info2) \in Nat
      BY <1>1, <2>6, OwedNumbers
    <3>2. ACC_TRIBE_PRECISION * kept \in Nat
      BY <2>5, TribalChiefAssumption, TimesNat
    <3> HIDE DEF info
    <3> QED BY <1>1, <1>6, <2>7, <3>1, <3>2
  <2>9. /\ pool2.virtualTotalSupply >= poolInfo[pid].virtualTotalSupply - info.virtualAmount + info2.virtualAmount
        /\ info2.virtualAmount >= weight(emptied)
    <3> HIDE DEF info, deps
    <3> QED BY <1>1, <1>2, <1>8, <2>3, <2>6, SMTT(60)
  <2>10. held2 = stakedBalance[pid] - staked(deps) + staked(emptied)
    <3> HIDE DEF deps
    <3> QED BY <1>1, <1>2, <2>3 DEF held2
  <2>11. kept \in Nat
    BY <2>5
  <2>12. IsUserOp(user, pid, pool2, info2, emptied, held2, pending, kept)
    BY <1>1, <1>3, <1>5, <1>7, <1>8, <2>1, <2>2, <2>3, <2>6, <2>8, <2>9, <2>10, <2>11 DEF IsUserOp, pool
  <2> QED BY <2>12, UserOpKeeps
<1> QED BY <1>9, <1>10

\* A withdrawal from one deposit.
LEMMA WithdrawFromKeeps ==
    ASSUME ChiefInv, NEW pid \in pids, NEW user \in Users, NEW amount \in Amounts,
           NEW index \in DOMAIN depositInfo[pid][user],
           withdrawFromDeposit(user, pid, amount, index), UNCHANGED <<block, coreRefVars>>
    PROVE  ChiefInv'
<1> DEFINE pool == updated(poolInfo[pid])
           info == userInfo[pid][user]
           deps == depositInfo[pid][user]
           dep == deps[index]
           delta == virtual(amount, dep.multiplier)
           d == [dep EXCEPT !.amount = @ - amount]
           ds == [deps EXCEPT ![index] = d]
           info2 == [virtualAmount |-> info.virtualAmount - delta,
                     rewardDebt |-> info.rewardDebt - accumulated(pool, delta)]
           pool2 == [pool EXCEPT !.virtualTotalSupply = @ - delta]
           held2 == stakedBalance[pid] - amount
<1>1. /\ pool \in Pool /\ info \in User /\ deps \in Seq(Deposit)
      /\ pool.virtualTotalSupply = poolInfo[pid].virtualTotalSupply
      /\ pool.allocPoint = poolInfo[pid].allocPoint
      /\ pool.virtualTotalSupply \in Nat /\ info.virtualAmount \in Nat /\ info.rewardDebt \in Int
      /\ info.virtualAmount >= weight(deps)
      /\ weight(deps) \in Nat /\ staked(deps) \in Nat
      /\ stakedBalance[pid] \in Nat /\ tribeBalance \in Nat /\ block \in Nat
      /\ owed(pool, info) \in Nat
    BY UserFacts
<1>2. /\ amount <= dep.amount /\ delta <= info.virtualAmount /\ delta <= pool.virtualTotalSupply
      /\ amount <= stakedBalance[pid]
      /\ depositInfo' = [depositInfo EXCEPT ![pid][user][index].amount = @ - amount]
      /\ userInfo' = [userInfo EXCEPT ![pid][user] =
                [virtualAmount |-> @.virtualAmount - delta, rewardDebt |-> @.rewardDebt - accumulated(pool, delta)]]
      /\ poolInfo' = [poolInfo EXCEPT ![pid] = [pool EXCEPT !.virtualTotalSupply = @ - delta]]
      /\ stakedBalance' = [stakedBalance EXCEPT ![pid] = @ - amount]
      /\ ledger' = entered(pid, 0, 0)
      /\ UNCHANGED <<rewardMultipliers, rewardVars, tribeBalance>>
    BY DEF withdrawFromDeposit
<1>3. amount \in Nat
    BY TribalChiefAssumption
<1> HIDE DEF pool, delta
<1>4. /\ poolInfo' = [poolInfo EXCEPT ![pid] = pool2]
      /\ userInfo' = [userInfo EXCEPT ![pid][user] = info2]
      /\ depositInfo' = [depositInfo EXCEPT ![pid][user] = ds]
      /\ stakedBalance' = [stakedBalance EXCEPT ![pid] = held2]
      /\ tribeBalance' \in Nat
    BY <1>1, <1>2
<1>5. /\ ds \in Seq(Deposit) /\ staked(ds) = staked(deps) - amount
      /\ weight(ds) <= weight(deps) - delta /\ delta \in Nat /\ weight(ds) \in Nat
  <2>1. Replaced(ds, deps, index, [deps[index] EXCEPT !.amount = @ - amount])
    BY DEF Replaced
  <2> HIDE DEF ds
  <2>2. index \in DOMAIN deps /\ amount <= deps[index].amount
    BY <1>2
  <2> HIDE DEF deps
  <2>3. /\ ds \in Seq(Deposit) /\ staked(ds) = staked(deps) - amount
        /\ weight(ds) <= weight(deps) - virtual(amount, deps[index].multiplier)
        /\ virtual(amount, deps[index].multiplier) \in Nat
    BY <1>1, <1>3, <2>1, <2>2, DepositReduced
  <2> QED BY <2>3, AllSums DEF delta
<1> HIDE DEF ds
<1>6. accumulated(pool, delta) \in Nat
    BY <1>1, <1>5, Rounding
<1>7. /\ info2 \in User /\ info2.virtualAmount = info.virtualAmount - delta
      /\ info2.rewardDebt = info.rewardDebt - accumulated(pool, delta)
  <2>1. info.virtualAmount - delta \in Nat
    <3> HIDE DEF info
    <3> QED BY <1>1, <1>2, <1>5, SMTT(60)
  <2>2. info.rewardDebt - accumulated(pool, delta) \in Int
    BY <1>1, <1>6
  <2> QED BY <2>1, <2>2 DEF User
<1> HIDE DEF info2
<1>8. owed(pool, info2) <= owed(pool, info) /\ owed(pool, info2) \in Nat
  <2>1. owed(pool, info2) <= owed(pool, info)
    BY <1>1, <1>2, <1>5, <1>7, OwedAfterWithdrawal
  <2>2. owed(pool, info2) \in Nat
    BY <1>1, <1>7, OwedNumbers
  <2> QED BY <2>1, <2>2
<1>9. ACC_TRIBE_PRECISION * 0 + owed(pool, info2) <= owed(pool, info) + ACC_TRIBE_PRECISION * 0
  <2>1. ACC_TRIBE_PRECISION * 0 = 0
    BY TribalChiefAssumption
  <2> HIDE DEF info
  <2> QED BY <1>1, <1>8, <2>1
<1>10. /\ pool2 \in Pool /\ pool2.virtualTotalSupply = pool.virtualTotalSupply - delta
       /\ pool2.accTribePerShare = pool.accTribePerShare /\ pool2.allocPoint = pool.allocPoint
  <2>1. pool.virtualTotalSupply - delta \in Nat
    BY <1>1, <1>2, <1>5, SMTT(60)
  <2> QED BY <1>1, <2>1, Reweighed
<1> HIDE DEF pool2
<1>11. /\ pool2.virtualTotalSupply >= poolInfo[pid].virtualTotalSupply - info.virtualAmount + info2.virtualAmount
       /\ info2.virtualAmount >= weight(ds)
  <2> HIDE DEF info, deps
  <2>1. pool2.virtualTotalSupply >= poolInfo[pid].virtualTotalSupply - info.virtualAmount + info2.virtualAmount
    BY <1>1, <1>5, <1>7, <1>10, SMTT(60)
  <2>2. info2.virtualAmount >= weight(ds)
    BY <1>1, <1>2, <1>5, <1>7
  <2> QED BY <2>1, <2>2
<1>12. held2 = stakedBalance[pid] - staked(deps) + staked(ds)
  <2> HIDE DEF deps
  <2> QED BY <1>1, <1>3, <1>5
<1>13. 0 \in Nat
    OBVIOUS
<1> HIDE DEF held2
<1>14. IsUserOp(user, pid, pool2, info2, ds, held2, 0, 0)
    BY <1>1, <1>2, <1>4, <1>5, <1>7, <1>9, <1>10, <1>11, <1>12, <1>13 DEF IsUserOp, pool
<1> QED BY <1>14, UserOpKeeps

\* A withdrawal that gives up the rewards.
LEMMA EmergencyKeeps ==
    ASSUME ChiefInv, NEW pid \in pids, NEW user \in Users,
           emergencyWithdraw(user, pid), UNCHANGED <<block, coreRefVars>>
    PROVE  ChiefInv'
<1> DEFINE pool == updated(poolInfo[pid])
           info == userInfo[pid][user]
           deps == depositInfo[pid][user]
           gone == virtualOf(deps, DOMAIN deps)
           taken == amountOf(deps, DOMAIN deps)
           pool2 == [pool EXCEPT !.virtualTotalSupply = @ - gone]
           held2 == stakedBalance[pid] - taken
<1>1. /\ pool \in Pool /\ info \in User /\ deps \in Seq(Deposit)
      /\ pool.virtualTotalSupply = poolInfo[pid].virtualTotalSupply
      /\ pool.allocPoint = poolInfo[pid].allocPoint
      /\ pool.virtualTotalSupply \in Nat /\ info.virtualAmount \in Nat /\ info.rewardDebt \in Int
      /\ info.virtualAmount >= weight(deps)
      /\ weight(deps) \in Nat /\ staked(deps) \in Nat
      /\ stakedBalance[pid] \in Nat /\ tribeBalance \in Nat /\ block \in Nat
      /\ owed(pool, info) \in Nat
    BY UserFacts
<1>2. /\ gone <= pool.virtualTotalSupply /\ taken <= stakedBalance[pid]
      /\ poolInfo' = [poolInfo EXCEPT ![pid] = [pool EXCEPT !.virtualTotalSupply = @ - gone]]
      /\ depositInfo' = [depositInfo EXCEPT ![pid][user] = <<>>]
      /\ userInfo' = [userInfo EXCEPT ![pid][user] = NoUser]
      /\ stakedBalance' = [stakedBalance EXCEPT ![pid] = @ - taken]
      /\ ledger' = entered(pid, 0, 0)
      /\ UNCHANGED <<rewardMultipliers, rewardVars, tribeBalance>>
    BY DEF emergencyWithdraw
<1> HIDE DEF pool, gone, taken
<1>3. gone = weight(deps) /\ taken = staked(deps)
    BY <1>1, AllSums DEF gone, taken
<1>4. /\ poolInfo' = [poolInfo EXCEPT ![pid] = pool2]
      /\ stakedBalance' = [stakedBalance EXCEPT ![pid] = held2]
      /\ tribeBalance' \in Nat
    BY <1>1, <1>2
<1>5. NoUser \in User /\ owed(pool, NoUser) = 0 /\ NoUser.virtualAmount = 0
    BY <1>1, NothingOwed DEF NoUser
<1>6. <<>> \in Seq(Deposit) /\ staked(<<>>) = 0 /\ weight(<<>>) = 0
    BY NoDeposits
<1>7. /\ pool2 \in Pool /\ pool2.virtualTotalSupply = pool.virtualTotalSupply - gone
      /\ pool2.accTribePerShare = pool.accTribePerShare /\ pool2.allocPoint = pool.allocPoint
  <2>1. pool.virtualTotalSupply - gone \in Nat
    BY <1>1, <1>2, <1>3
  <2> QED BY <1>1, <2>1, Reweighed
<1> HIDE DEF pool2
<1>8. pool2.virtualTotalSupply >= poolInfo[pid].virtualTotalSupply - info.virtualAmount + NoUser.virtualAmount
  <2> HIDE DEF info, deps
  <2> QED BY <1>1, <1>3, <1>5, <1>7
<1>9. held2 = stakedBalance[pid] - staked(deps) + staked(<<>>)
  <2> HIDE DEF deps
  <2> QED BY <1>1, <1>3, <1>6
<1>10. ACC_TRIBE_PRECISION * 0 + owed(pool, NoUser) <= owed(pool, info) + ACC_TRIBE_PRECISION * 0
  <2>1. ACC_TRIBE_PRECISION * 0 = 0
    BY TribalChiefAssumption
  <2> HIDE DEF info
  <2> QED BY <1>1, <1>5, <2>1
<1>11. NoUser.virtualAmount >= weight(<<>>) /\ 0 \in Nat
    BY <1>5, <1>6
<1> HIDE DEF held2
<1>12. IsUserOp(user, pid, pool2, NoUser, <<>>, held2, 0, 0)
    BY <1>1, <1>2, <1>4, <1>5, <1>6, <1>7, <1>8, <1>9, <1>10, <1>11 DEF IsUserOp, pool
<1> QED BY <1>12, UserOpKeeps

-----------------------------------------------------------------------------
\* What holds of a pool depends on its weight and its accumulator only.
LEMMA PoolSameNumbers ==
    ASSUME NEW pool, NEW users, NEW deps, NEW held, NEW entry, PoolInv(pool, users, deps, held, entry),
           NEW pool2 \in Pool, pool2.virtualTotalSupply = pool.virtualTotalSupply,
           pool2.accTribePerShare = pool.accTribePerShare
    PROVE  PoolInv(pool2, users, deps, held, entry)
<1>1. dues(pool2, users) = dues(pool, users)
  <2>1. \A u \in Users : owed(pool2, users[u]) = owed(pool, users[u])
    BY DEF owed
  <2> QED BY <2>1 DEF dues
<1> QED BY <1>1 DEF PoolInv, PoolTyped, PoolCovered

\* updatePool alone, or followed by new allocation points or a new lock of the pool.
LEMMA UpdateStepKeeps ==
    ASSUME ChiefInv, NEW pid \in pids, NEW pool2 \in Pool,
           pool2.virtualTotalSupply = updated(poolInfo[pid]).virtualTotalSupply,
           pool2.accTribePerShare = updated(poolInfo[pid]).accTribePerShare,
           poolInfo' = [poolInfo EXCEPT ![pid] = pool2],
           ledger' = entered(pid, 0, 0),
           totalAllocPoint' = totalAllocPoint - poolInfo[pid].allocPoint + pool2.allocPoint,
           UNCHANGED <<rewardMultipliers, userInfo, depositInfo, tribePerBlock, tribeBalance, stakedBalance>>,
           UNCHANGED <<block, coreRefVars>>
    PROVE  ChiefInv'
<1> DEFINE users == userInfo[pid]
           deps == depositInfo[pid]
           held == stakedBalance[pid]
           entry == [ledger[pid] EXCEPT !.emitted = @ + tribeReward(poolInfo[pid])]
<1>1. /\ PoolInv(poolInfo[pid], users, deps, held, ledger[pid])
      /\ ledger[pid] \in Entry
      /\ block \in Nat /\ totalAllocPoint \in Nat /\ tribePerBlock \in Nat /\ tribeBalance \in Nat
    BY PoolFacts
<1>2. PoolInv(updated(poolInfo[pid]), users, deps, held, entry)
    BY <1>1, UpdateKeeps
<1>3. PoolInv(pool2, users, deps, held, entry)
    BY <1>2, PoolSameNumbers
<1>4. /\ userInfo' = [userInfo EXCEPT ![pid] = users]
      /\ depositInfo' = [depositInfo EXCEPT ![pid] = deps]
      /\ stakedBalance' = [stakedBalance EXCEPT ![pid] = held]
      /\ tribePerBlock' \in Nat /\ tribeBalance' \in Nat
      /\ rewardMultipliers' \in [pids -> [LockLengths -> Nat]]
    BY <1>1 DEF ChiefInv, ChiefTypeOK
<1>5. ledger' = [ledger EXCEPT ![pid] = entry]
  <2>1. ledger[pid].emitted \in Nat /\ ledger[pid].paid \in Nat /\ ledger[pid].roundings \in Nat
    BY <1>1 DEF Entry
  <2>2. entry = [emitted |-> ledger[pid].emitted + tribeReward(poolInfo[pid]), paid |-> ledger[pid].paid + 0,
                 roundings |-> ledger[pid].roundings + 0]
    BY <1>1, <2>1 DEF Entry
  <2>3. ledger' = [ledger EXCEPT ![pid] =
                     [emitted |-> ledger[pid].emitted + tribeReward(poolInfo[pid]), paid |-> ledger[pid].paid + 0,
                      roundings |-> ledger[pid].roundings + 0]]
    BY DEF entered
  <2> QED BY <2>2, <2>3
<1> HIDE DEF users, deps, held, entry
<1>6. IsPoolStep(pid, pool2, users, deps, held, entry)
    BY <1>3, <1>4, <1>5 DEF IsPoolStep
<1> QED BY <1>6, PoolStepKeeps

\* A pool of which only the lock changes.
LEMMA LockStepKeeps ==
    ASSUME ChiefInv, NEW pid \in pids, NEW flag \in BOOLEAN,
           poolInfo' = [poolInfo EXCEPT ![pid].unlocked = flag],
           rewardMultipliers' \in [pids -> [LockLengths -> Nat]],
           UNCHANGED <<userInfo, depositInfo, rewardVars, tribeBalance, stakedBalance, ledger>>,
           UNCHANGED <<block, coreRefVars>>
    PROVE  ChiefInv'
<1> DEFINE pool2 == [poolInfo[pid] EXCEPT !.unlocked = flag]
           users == userInfo[pid]
           deps == depositInfo[pid]
           held == stakedBalance[pid]
           entry == ledger[pid]
<1>1. /\ PoolInv(poolInfo[pid], users, deps, held, entry) /\ poolInfo[pid] \in Pool
      /\ totalAllocPoint \in Nat /\ tribePerBlock \in Nat /\ tribeBalance \in Nat
    BY PoolFacts
<1>2. /\ pool2 \in Pool /\ pool2.virtualTotalSupply = poolInfo[pid].virtualTotalSupply
      /\ pool2.accTribePerShare = poolInfo[pid].accTribePerShare
      /\ pool2.allocPoint = poolInfo[pid].allocPoint /\ pool2.allocPoint \in Nat
    BY <1>1 DEF Pool
<1>3. poolInfo' = [poolInfo EXCEPT ![pid] = pool2]
    OBVIOUS
<1>4. /\ userInfo' = [userInfo EXCEPT ![pid] = users]
      /\ depositInfo' = [depositInfo EXCEPT ![pid] = deps]
      /\ stakedBalance' = [stakedBalance EXCEPT ![pid] = held]
      /\ ledger' = [ledger EXCEPT ![pid] = entry]
    BY DEF ChiefInv, ChiefTypeOK
<1>5. /\ totalAllocPoint' = totalAllocPoint /\ tribePerBlock' \in Nat /\ tribeBalance' \in Nat
    BY <1>1 DEF rewardVars
<1> HIDE DEF pool2, users, deps, held, entry
<1>6. PoolInv(pool2, users, deps, held, entry)
    BY <1>1, <1>2, PoolSameNumbers
<1>7. totalAllocPoint' = totalAllocPoint - poolInfo[pid].allocPoint + pool2.allocPoint
    BY <1>1, <1>2, <1>5
<1>8. IsPoolStep(pid, pool2, users, deps, held, entry)
    BY <1>3, <1>4, <1>5, <1>6, <1>7 DEF IsPoolStep
<1> QED BY <1>8, PoolStepKeeps

\* What governance does to one pool.
LEMMA PoolGovernanceKeeps ==
    ASSUME ChiefInv, NEW pid \in pids, NEW caller, PoolGovernance(caller, pid), UNCHANGED <<block, coreRefVars>>
    PROVE  ChiefInv'
<1> DEFINE pool == updated(poolInfo[pid])
<1>1. /\ PoolInv(poolInfo[pid], userInfo[pid], depositInfo[pid], stakedBalance[pid], ledger[pid])
      /\ poolInfo[pid] \in Pool
      /\ block \in Nat /\ totalAllocPoint \in Nat /\ tribePerBlock \in Nat /\ tribeBalance \in Nat
    BY PoolFacts
<1>2. pool \in Pool /\ pool.allocPoint = poolInfo[pid].allocPoint /\ pool.allocPoint \in Nat
  <2>1. /\ PoolInv(pool, userInfo[pid], depositInfo[pid], stakedBalance[pid],
                   [ledger[pid] EXCEPT !.emitted = @ + tribeReward(poolInfo[pid])])
        /\ pool.allocPoint = poolInfo[pid].allocPoint
    BY <1>1, UpdateKeeps
  <2>2. pool \in Pool
    BY <2>1 DEF PoolInv, PoolTyped
  <2> QED BY <2>1, <2>2 DEF Pool
<1>3. ASSUME NEW flag \in BOOLEAN, setUnlocked(caller, pid, flag) PROVE ChiefInv'
  <2>1. /\ poolInfo' = [poolInfo EXCEPT ![pid].unlocked = flag]
        /\ rewardMultipliers' \in [pids -> [LockLengths -> Nat]]
        /\ UNCHANGED <<userInfo, depositInfo, rewardVars, tribeBalance, stakedBalance, ledger>>
    BY <1>3 DEF setUnlocked, ChiefInv, ChiefTypeOK
  <2> QED BY <2>1, LockStepKeeps
<1>4. ASSUME NEW lock \in LockLengths, NEW multiplier \in Multipliers,
             governorAddPoolMultiplier(caller, pid, lock, multiplier)
      PROVE  ChiefInv'
  <2> DEFINE flag == IF multiplier > rewardMultipliers[pid][lock] THEN TRUE ELSE poolInfo[pid].unlocked
  <2>1. flag \in BOOLEAN
    BY <1>1 DEF Pool
  <2>2. poolInfo' = [poolInfo EXCEPT ![pid].unlocked = flag]
    <3>1. CASE multiplier > rewardMultipliers[pid][lock]
      BY <1>4, <3>1 DEF governorAddPoolMultiplier
    <3>2. CASE ~(multiplier > rewardMultipliers[pid][lock])
      <4>1. poolInfo' = poolInfo
        BY <1>4, <3>2 DEF governorAddPoolMultiplier
      <4>2. flag = poolInfo[pid].unlocked
        BY <3>2
      <4>3. [poolInfo[pid] EXCEPT !.unlocked = poolInfo[pid].unlocked] = poolInfo[pid]
        BY <1>1 DEF Pool
      <4>4. [poolInfo EXCEPT ![pid] = poolInfo[pid]] = poolInfo
        BY DEF ChiefInv, ChiefTypeOK
      <4> QED BY <4>1, <4>2, <4>3, <4>4
    <3> QED BY <3>1, <3>2
  <2>3. /\ rewardMultipliers' \in [pids -> [LockLengths -> Nat]]
        /\ UNCHANGED <<userInfo, depositInfo, rewardVars, tribeBalance, stakedBalance, ledger>>
    BY <1>4, TribalChiefAssumption DEF governorAddPoolMultiplier, ChiefInv, ChiefTypeOK
  <2> HIDE DEF flag
  <2> QED BY <2>1, <2>2, <2>3, LockStepKeeps
<1>5. ASSUME NEW points \in AllocPoints, set(caller, pid, points) PROVE ChiefInv'
  <2> DEFINE pool2 == [pool EXCEPT !.allocPoint = points]
  <2>1. /\ totalAllocPoint' = totalAllocPoint - poolInfo[pid].allocPoint + points
        /\ poolInfo' = [poolInfo EXCEPT ![pid] = pool2]
        /\ ledger' = entered(pid, 0, 0)
        /\ UNCHANGED <<rewardMultipliers, userInfo, depositInfo, tribePerBlock, tribeBalance, stakedBalance>>
    BY <1>5 DEF set
  <2> HIDE DEF pool
  <2>2. /\ pool2 \in Pool /\ pool2.allocPoint = points
        /\ pool2.virtualTotalSupply = pool.virtualTotalSupply
        /\ pool2.accTribePerShare = pool.accTribePerShare
    BY <1>2, TribalChiefAssumption DEF Pool
  <2> HIDE DEF pool2
  <2> QED BY <2>1, <2>2, UpdateStepKeeps DEF pool
<1>6. ASSUME resetRewards(caller, pid) PROVE ChiefInv'
  <2> DEFINE pool2 == [pool EXCEPT !.allocPoint = 0, !.unlocked = TRUE]
  <2>1. /\ totalAllocPoint' = totalAllocPoint - poolInfo[pid].allocPoint
        /\ poolInfo' = [poolInfo EXCEPT ![pid] = pool2]
        /\ ledger' = entered(pid, 0, 0)
        /\ UNCHANGED <<rewardMultipliers, userInfo, depositInfo, tribePerBlock, tribeBalance, stakedBalance>>
    BY <1>6 DEF resetRewards
  <2> HIDE DEF pool
  <2>2. /\ pool2 \in Pool /\ pool2.allocPoint = 0
        /\ pool2.virtualTotalSupply = pool.virtualTotalSupply
        /\ pool2.accTribePerShare = pool.accTribePerShare
    BY <1>2 DEF Pool
  <2> HIDE DEF pool2
  <2>3. totalAllocPoint' = totalAllocPoint - poolInfo[pid].allocPoint + pool2.allocPoint
    BY <1>1, <1>2, <2>1, <2>2
  <2> QED BY <2>1, <2>2, <2>3, UpdateStepKeeps DEF pool
<1> QED BY <1>3, <1>4, <1>5, <1>6 DEF PoolGovernance

\* An update of one pool.
LEMMA UpdatePoolKeeps ==
    ASSUME ChiefInv, NEW pid \in pids, updatePool(pid), UNCHANGED <<block, coreRefVars>>
    PROVE  ChiefInv'
<1> DEFINE pool == updated(poolInfo[pid])
<1>1. /\ PoolInv(poolInfo[pid], userInfo[pid], depositInfo[pid], stakedBalance[pid], ledger[pid])
      /\ poolInfo[pid] \in Pool
      /\ block \in Nat /\ totalAllocPoint \in Nat /\ tribePerBlock \in Nat /\ tribeBalance \in Nat
    BY PoolFacts
<1>2. pool \in Pool /\ pool.allocPoint = poolInfo[pid].allocPoint /\ pool.allocPoint \in Nat
  <2>1. /\ PoolInv(pool, userInfo[pid], depositInfo[pid], stakedBalance[pid],
                   [ledger[pid] EXCEPT !.emitted = @ + tribeReward(poolInfo[pid])])
        /\ pool.allocPoint = poolInfo[pid].allocPoint
    BY <1>1, UpdateKeeps
  <2>2. pool \in Pool
    BY <2>1 DEF PoolInv, PoolTyped
  <2> QED BY <2>1, <2>2 DEF Pool
<1>3. /\ poolInfo' = [poolInfo EXCEPT ![pid] = pool] /\ totalAllocPoint' = totalAllocPoint
      /\ ledger' = entered(pid, 0, 0)
      /\ UNCHANGED <<rewardMultipliers, userInfo, depositInfo, tribePerBlock, tribeBalance, stakedBalance>>
    BY DEF updatePool, rewardVars
<1> HIDE DEF pool
<1>4. totalAllocPoint' = totalAllocPoint - poolInfo[pid].allocPoint + pool.allocPoint
    BY <1>1, <1>2, <1>3
<1> QED BY <1>2, <1>3, <1>4, UpdateStepKeeps DEF pool

-----------------------------------------------------------------------------
\* A function on 1..n is extended to n + 1.
IsExtended(T, n, f, e, g) ==
    g \in [1..(n + 1) -> T] /\ g[n + 1] = e /\ \A i \in 1..n : g[i] = f[i]

\* A function on 1..n is a sequence, and Append adds n + 1 to its domain.
LEMMA AppendFunction ==
    ASSUME NEW T, NEW n \in Nat, NEW f \in [1..n -> T], NEW e \in T, NEW g, Appended(g, f, e)
    PROVE  IsExtended(T, n, f, e, g)
<1>1. f \in Seq(T)
    BY SeqDef
<1>2. Len(f) = n
    BY <1>1, LenProperties
<1>3. g \in Seq(T) /\ Len(g) = n + 1 /\ g[n + 1] = e /\ \A i \in 1..n : g[i] = f[i]
    BY <1>1, <1>2 DEF Appended
<1>4. g \in [1..(n + 1) -> T]
    BY <1>3, LenProperties
<1> QED BY <1>3, <1>4 DEF IsExtended

\* A new pool.
LEMMA NewPool ==
    ASSUME NEW pool \in Pool, pool.virtualTotalSupply = 0, pool.accTribePerShare = 0
    PROVE  PoolInv(pool, [u \in Users |-> NoUser], [u \in Users |-> <<>>], 0,
                   [emitted |-> 0, paid |-> 0, roundings |-> 0])
<1> DEFINE users == [u \in Users |-> NoUser]
           deps == [u \in Users |-> <<>>]
           entry == [emitted |-> 0, paid |-> 0, roundings |-> 0]
<1>1. NoUser \in User /\ owed(pool, NoUser) = 0 /\ NoUser.virtualAmount = 0
    BY NothingOwed DEF NoUser
<1>2. <<>> \in Seq(Deposit) /\ staked(<<>>) = 0 /\ weight(<<>>) = 0
    BY NoDeposits
<1>3. users \in [Users -> User] /\ deps \in [Users -> Seq(Deposit)] /\ entry \in Entry
    BY <1>1, <1>2 DEF Entry
<1>4. \A u \in Users : users[u] = NoUser /\ deps[u] = <<>>
    OBVIOUS
<1>5. entry.emitted = 0 /\ entry.paid = 0 /\ entry.roundings = 0
    OBVIOUS
<1> HIDE DEF users, deps, entry
<1>6. IsFiniteSet(Users)
    BY TribalChiefAssumption
<1>7. /\ \A u \in Users : dues(pool, users)[u] = 0
      /\ \A u \in Users : weights(users)[u] = 0
      /\ \A u \in Users : stakes(deps)[u] = 0
  <2>1. ASSUME NEW u \in Users PROVE dues(pool, users)[u] = 0
    BY <1>1, <1>4 DEF dues
  <2>2. ASSUME NEW u \in Users PROVE weights(users)[u] = 0
    BY <1>1, <1>4 DEF weights
  <2>3. ASSUME NEW u \in Users PROVE stakes(deps)[u] = 0
    BY <1>2, <1>3, <1>4, PoolNumbers
  <2> QED BY <2>1, <2>2, <2>3
<1>8. SumFunctionOnSet(dues(pool, users), Users) = 0
    BY <1>6, <1>7, SumZero
<1>9. SumFunctionOnSet(weights(users), Users) = 0
    BY <1>6, <1>7, SumZero
<1>10. SumFunctionOnSet(stakes(deps), Users) = 0
    BY <1>6, <1>7, SumZero
<1>11. ASSUME NEW u \in Users PROVE users[u].virtualAmount >= virtualOf(deps[u], DOMAIN deps[u])
  <2>1. virtualOf(<<>>, DOMAIN <<>>) = 0
    BY <1>2, AllSums
  <2> QED BY <1>1, <1>4, <2>1
<1>12. ACC_TRIBE_PRECISION * entry.paid + SumFunctionOnSet(dues(pool, users), Users)
            <= ACC_TRIBE_PRECISION * (entry.emitted + entry.roundings)
  <2>1. ACC_TRIBE_PRECISION * 0 = 0
    BY TribalChiefAssumption
  <2> QED BY <1>5, <1>8, <2>1
<1>13. PoolTyped(pool, users, deps, 0, entry)
    BY <1>3 DEF PoolTyped
<1>14. PoolCovered(pool, users, deps, 0, entry)
    BY <1>9, <1>10, <1>11, <1>12 DEF PoolCovered
<1> QED BY <1>13, <1>14 DEF PoolInv, users, deps, entry

\* A step that appends a pool without stakers to pools and their histories.
IsAddition(pools, entries, points, data) ==
    /\ totalAllocPoint' = totalAllocPoint + points
    /\ Appended(poolInfo', pools, [virtualTotalSupply |-> 0, accTribePerShare |-> 0, lastRewardBlock |-> block,
                                   allocPoint |-> points, unlocked |-> FALSE])
    /\ Appended(rewardMultipliers', rewardMultipliers, data)
    /\ Appended(userInfo', userInfo, [u \in Users |-> NoUser])
    /\ Appended(depositInfo', depositInfo, [u \in Users |-> <<>>])
    /\ Appended(stakedBalance', stakedBalance, 0)
    /\ Appended(ledger', entries, [emitted |-> 0, paid |-> 0, roundings |-> 0])
    /\ UNCHANGED <<tribePerBlock, tribeBalance, block, coreRefVars>>

\* Such a step keeps the invariant, if the pools it starts from have what holds of pools.
LEMMA PoolAdded ==
    ASSUME ChiefInv, NEW pools \in Seq(Pool), DOMAIN pools = pids, NEW entries \in [pids -> Entry],
           total(allocW, pools) = totalAllocPoint,
           \A p \in pids : PoolInv(pools[p], userInfo[p], depositInfo[p], stakedBalance[p], entries[p]),
           NEW points \in Nat, NEW data \in [LockLengths -> Nat], IsAddition(pools, entries, points, data)
    PROVE  ChiefInv'
<1> DEFINE n == Len(pools)
           pool == [virtualTotalSupply |-> 0, accTribePerShare |-> 0, lastRewardBlock |-> block,
                    allocPoint |-> points, unlocked |-> FALSE]
           users == [u \in Users |-> NoUser]
           deps == [u \in Users |-> <<>>]
           entry == [emitted |-> 0, paid |-> 0, roundings |-> 0]
<1>1. ChiefTypeOK /\ AllocPointsSum
    BY DEF ChiefInv
<1>2. /\ totalAllocPoint' = totalAllocPoint + points
      /\ Appended(poolInfo', pools, pool)
      /\ Appended(rewardMultipliers', rewardMultipliers, data)
      /\ Appended(userInfo', userInfo, users)
      /\ Appended(depositInfo', depositInfo, deps)
      /\ Appended(stakedBalance', stakedBalance, 0)
      /\ Appended(ledger', entries, entry)
      /\ tribePerBlock' = tribePerBlock /\ tribeBalance' = tribeBalance
      /\ block' = block /\ paused' = paused /\ contractAdminRole' = contractAdminRole
    BY DEF IsAddition, coreRefVars
<1>3. block \in Nat
    BY <1>1 DEF ChiefTypeOK
<1>4. /\ pool \in Pool /\ pool.virtualTotalSupply = 0 /\ pool.accTribePerShare = 0 /\ pool.allocPoint = points
    BY <1>3 DEF Pool
<1>5. PoolInv(pool, users, deps, 0, entry)
  <2> HIDE DEF pool
  <2> QED BY <1>4, NewPool
<1> HIDE DEF pool, users, deps, entry
<1>6. users \in [Users -> User] /\ deps \in [Users -> Seq(Deposit)] /\ entry \in Entry
    BY <1>5 DEF PoolInv, PoolTyped
<1>7. n \in Nat /\ pids = 1..n
    BY LenProperties
<1> HIDE DEF n
<1>8. /\ pools \in [1..n -> Pool]
      /\ rewardMultipliers \in [1..n -> [LockLengths -> Nat]]
      /\ userInfo \in [1..n -> [Users -> User]]
      /\ depositInfo \in [1..n -> [Users -> Seq(Deposit)]]
      /\ stakedBalance \in [1..n -> Nat]
      /\ entries \in [1..n -> Entry]
  <2>1. pools \in [1..n -> Pool]
    BY <1>7, LenProperties DEF n
  <2> QED BY <1>1, <1>7, <2>1 DEF ChiefTypeOK
<1>9. /\ poolInfo' \in [1..(n + 1) -> Pool] /\ poolInfo'[n + 1] = pool
      /\ \A i \in 1..n : poolInfo'[i] = pools[i]
  <2>1. IsExtended(Pool, n, pools, pool, poolInfo')
    BY <1>2, <1>4, <1>7, <1>8, AppendFunction
  <2> QED BY <2>1 DEF IsExtended
<1>10. rewardMultipliers' \in [1..(n + 1) -> [LockLengths -> Nat]]
  <2>1. IsExtended([LockLengths -> Nat], n, rewardMultipliers, data, rewardMultipliers')
    BY <1>2, <1>3, <1>7, <1>8, AppendFunction
  <2> QED BY <2>1 DEF IsExtended
<1>11. /\ userInfo' \in [1..(n + 1) -> [Users -> User]] /\ userInfo'[n + 1] = users
       /\ \A i \in 1..n : userInfo'[i] = userInfo[i]
  <2>1. IsExtended([Users -> User], n, userInfo, users, userInfo')
    BY <1>2, <1>6, <1>7, <1>8, AppendFunction
  <2> QED BY <2>1 DEF IsExtended
<1>12. /\ depositInfo' \in [1..(n + 1) -> [Users -> Seq(Deposit)]] /\ depositInfo'[n + 1] = deps
       /\ \A i \in 1..n : depositInfo'[i] = depositInfo[i]
  <2>1. IsExtended([Users -> Seq(Deposit)], n, depositInfo, deps, depositInfo')
    BY <1>2, <1>6, <1>7, <1>8, AppendFunction
  <2> QED BY <2>1 DEF IsExtended
<1>13. /\ stakedBalance' \in [1..(n + 1) -> Nat] /\ stakedBalance'[n + 1] = 0
       /\ \A i \in 1..n : stakedBalance'[i] = stakedBalance[i]
  <2>1. 0 \in Nat
    OBVIOUS
  <2>2. IsExtended(Nat, n, stakedBalance, 0, stakedBalance')
    BY <1>2, <1>7, <1>8, <2>1, AppendFunction
  <2> QED BY <2>2 DEF IsExtended
<1>14. /\ ledger' \in [1..(n + 1) -> Entry] /\ ledger'[n + 1] = entry
       /\ \A i \in 1..n : ledger'[i] = entries[i]
  <2>1. IsExtended(Entry, n, entries, entry, ledger')
    BY <1>2, <1>6, <1>7, <1>8, AppendFunction
  <2> QED BY <2>1 DEF IsExtended
<1>15. poolInfo' \in Seq(Pool) /\ total(allocW, poolInfo') = total(allocW, pools) + allocW[pool]
  <2>1. allocW \in [Pool -> Nat]
    BY <1>7, AllocTotal
  <2> QED BY <1>2, <1>4, <1>7, <2>1, TotalAppended
<1>16. totalAllocPoint' \in Nat /\ AllocPointsSum'
  <2>1. allocW[pool] = points
    BY <1>4 DEF allocW
  <2>2. totalAllocPoint' = total(allocW, poolInfo')
    BY <1>2, <1>15, <2>1
  <2> QED BY <1>15, <2>2, AllocTotal DEF AllocPointsSum, pids
<1>17. pids' = 1..(n + 1)
    BY <1>9 DEF pids
<1>18. ChiefTypeOK'
  <2>1. CoreRefTypeOK'
    BY <1>1, <1>2, Zenon DEF ChiefTypeOK, CoreRefTypeOK
  <2>2. tribePerBlock' \in Nat /\ tribeBalance' \in Nat /\ block' \in Nat
    BY <1>1, <1>2 DEF ChiefTypeOK
  <2> QED BY <1>10, <1>11, <1>12, <1>13, <1>14, <1>15, <1>16, <1>17, <2>1, <2>2 DEF ChiefTypeOK
<1>19. ASSUME NEW p \in 1..(n + 1)
       PROVE  PoolInv(poolInfo'[p], userInfo'[p], depositInfo'[p], stakedBalance'[p], ledger'[p])
  <2>1. CASE p = n + 1
    BY <1>5, <1>9, <1>11, <1>12, <1>13, <1>14, <2>1
  <2>2. CASE p # n + 1
    <3>1. p \in 1..n /\ p \in pids
      BY <1>7, <2>2
    <3>2. PoolInv(pools[p], userInfo[p], depositInfo[p], stakedBalance[p], entries[p])
      BY <3>1
    <3> QED BY <1>9, <1>11, <1>12, <1>13, <1>14, <3>1, <3>2
  <2> QED BY <2>1, <2>2
<1> QED BY <1>16, <1>17, <1>18, <1>19 DEF ChiefInv

\* A pool more.
LEMMA AddKeeps ==
    ASSUME ChiefInv, NEW caller, NEW points \in AllocPoints, NEW data \in [LockLengths -> Multipliers],
           add(caller, points, data), UNCHANGED <<block, coreRefVars>>
    PROVE  ChiefInv'
<1>1. poolInfo \in Seq(Pool) /\ DOMAIN poolInfo = pids /\ ledger \in [pids -> Entry]
    BY DEF ChiefInv, ChiefTypeOK, pids
<1>2. total(allocW, poolInfo) = totalAllocPoint
    BY <1>1, AllocTotal DEF ChiefInv, AllocPointsSum
<1>3. \A p \in pids : PoolInv(poolInfo[p], userInfo[p], depositInfo[p], stakedBalance[p], ledger[p])
    BY DEF ChiefInv
<1>4. points \in Nat /\ data \in [LockLengths -> Nat]
    BY TribalChiefAssumption
<1>5. IsAddition(poolInfo, ledger, points, data)
    BY DEF add, IsAddition, Appended
<1> QED BY <1>1, <1>2, <1>3, <1>4, <1>5, PoolAdded

\* A step that leaves the pools alone.
LEMMA PoolsUntouched ==
    ASSUME ChiefInv,
           UNCHANGED <<poolInfo, userInfo, depositInfo, totalAllocPoint, stakedBalance, ledger, rewardMultipliers>>,
           block' \in Nat, tribePerBlock' \in Nat, tribeBalance' \in Nat, CoreRefTypeOK'
    PROVE  ChiefInv'
<1>1. pids' = pids
    BY DEF pids
<1>2. ChiefTypeOK'
    BY <1>1 DEF ChiefInv, ChiefTypeOK
<1>3. AllocPointsSum'
    BY <1>1 DEF ChiefInv, AllocPointsSum
<1> QED BY <1>1, <1>2, <1>3 DEF ChiefInv

-----------------------------------------------------------------------------
\* Every step keeps the invariant.
LEMMA ChiefStepKeeps == ASSUME ChiefInv, [TCNext]_vars PROVE ChiefInv'
<1>1. /\ block \in Nat /\ tribePerBlock \in Nat /\ tribeBalance \in Nat /\ CoreRefTypeOK
    BY DEF ChiefInv, ChiefTypeOK
<1>2. ASSUME NEW pid \in pids, updatePool(pid), UNCHANGED <<block, coreRefVars>> PROVE ChiefInv'
    BY <1>2, UpdatePoolKeeps
<1>3. ASSUME NEW pid \in pids, NEW user \in Users, StakerStep(user, pid), UNCHANGED <<block, coreRefVars>>
      PROVE  ChiefInv'
  <2>1. ASSUME NEW amount \in Amounts, NEW lock \in LockLengths, deposit(user, pid, amount, lock) PROVE ChiefInv'
    BY <1>3, <2>1, DepositKeeps
  <2>2. ASSUME NEW amount \in Amounts, NEW index \in DOMAIN depositInfo[pid][user],
               withdrawFromDeposit(user, pid, amount, index)
        PROVE  ChiefInv'
    BY <1>3, <2>2, WithdrawFromKeeps
  <2>3. ASSUME harvest(user, pid) PROVE ChiefInv'
    BY <1>3, <2>3, HarvestKeeps
  <2>4. ASSUME withdrawAllAndHarvest(user, pid) PROVE ChiefInv'
    BY <1>3, <2>4, WithdrawAllKeeps
  <2>5. ASSUME emergencyWithdraw(user, pid) PROVE ChiefInv'
    BY <1>3, <2>5, EmergencyKeeps
  <2> QED BY <1>3, <2>1, <2>2, <2>3, <2>4, <2>5 DEF StakerStep
<1>4. ASSUME NEW caller, ChiefGovernance(caller), UNCHANGED <<block, coreRefVars>> PROVE ChiefInv'
  <2>1. CoreRefTypeOK' /\ block' \in Nat
    BY <1>1, <1>4, Zenon DEF CoreRefTypeOK, coreRefVars
  <2>2. ASSUME NEW points \in AllocPoints, NEW data \in [LockLengths -> Multipliers], add(caller, points, data)
        PROVE  ChiefInv'
    BY <1>4, <2>2, AddKeeps
  <2>3. ASSUME NEW reward \in BlockRewards, updateBlockReward(caller, reward) PROVE ChiefInv'
    <3>1. /\ UNCHANGED <<poolInfo, userInfo, depositInfo, totalAllocPoint, stakedBalance, ledger, rewardMultipliers>>
          /\ tribePerBlock' \in Nat /\ tribeBalance' \in Nat
      BY <1>1, <2>3, TribalChiefAssumption DEF updateBlockReward
    <3> QED BY <2>1, <3>1, PoolsUntouched
  <2>4. ASSUME NEW amount \in Amounts, governorWithdrawTribe(caller, amount) PROVE ChiefInv'
    <3>1. /\ UNCHANGED <<poolInfo, userInfo, depositInfo, totalAllocPoint, stakedBalance, ledger, rewardMultipliers>>
          /\ tribePerBlock' \in Nat /\ tribeBalance' \in Nat
      BY <1>1, <2>4, TribalChiefAssumption DEF governorWithdrawTribe, rewardVars
    <3> QED BY <2>1, <3>1, PoolsUntouched
  <2> QED BY <1>4, <2>2, <2>3, <2>4 DEF ChiefGovernance
<1>5. ASSUME NEW pid \in pids, NEW caller, PoolGovernance(caller, pid), UNCHANGED <<block, coreRefVars>> PROVE ChiefInv'
    BY <1>5, PoolGovernanceKeeps
<1>6. ASSUME NEW caller, CoreRefStep(caller), UNCHANGED <<block, chiefVars>> PROVE ChiefInv'
  <2>1. CoreRefTypeOK'
    BY <1>1, <1>6, RolesKeep
  <2>2. /\ UNCHANGED <<poolInfo, userInfo, depositInfo, totalAllocPoint, stakedBalance, ledger, rewardMultipliers>>
        /\ block' \in Nat /\ tribePerBlock' \in Nat /\ tribeBalance' \in Nat
    BY <1>1, <1>6 DEF chiefVars, rewardVars
  <2> QED BY <2>1, <2>2, PoolsUntouched
<1>7. ASSUME AdvanceBlock, UNCHANGED <<chiefVars, coreRefVars>> PROVE ChiefInv'
  <2>1. CoreRefTypeOK'
    BY <1>1, <1>7, Zenon DEF CoreRefTypeOK, coreRefVars
  <2>2. /\ UNCHANGED <<poolInfo, userInfo, depositInfo, totalAllocPoint, stakedBalance, ledger, rewardMultipliers>>
        /\ block' \in Nat /\ tribePerBlock' \in Nat /\ tribeBalance' \in Nat
    BY <1>1, <1>7 DEF chiefVars, rewardVars, AdvanceBlock
  <2> QED BY <2>1, <2>2, PoolsUntouched
<1>8. ASSUME UNCHANGED vars PROVE ChiefInv'
  <2>1. CoreRefTypeOK'
    BY <1>1, <1>8, Zenon DEF CoreRefTypeOK, coreRefVars, vars
  <2>2. /\ UNCHANGED <<poolInfo, userInfo, depositInfo, totalAllocPoint, stakedBalance, ledger, rewardMultipliers>>
        /\ block' \in Nat /\ tribePerBlock' \in Nat /\ tribeBalance' \in Nat
    BY <1>1, <1>8 DEF vars, chiefVars, rewardVars
  <2> QED BY <2>1, <2>2, PoolsUntouched
<1> QED BY <1>2, <1>3, <1>4, <1>5, <1>6, <1>7, <1>8 DEF TCNext

\* The contract as deployed has no pool.
LEMMA ChiefInitially == TCInit => ChiefInv
<1> SUFFICES ASSUME TCInit PROVE ChiefInv
    OBVIOUS
<1>1. /\ block \in Nat /\ totalAllocPoint = 0 /\ tribePerBlock \in Nat /\ tribeBalance \in Nat
      /\ poolInfo = <<>> /\ rewardMultipliers = <<>> /\ userInfo = <<>> /\ depositInfo = <<>>
      /\ stakedBalance = <<>> /\ ledger = <<>>
    BY TribalChiefAssumption DEF TCInit
<1>2. CoreRefTypeOK
    BY DEF TCInit, CoreRefTypeOK, TribeRoles
<1>3. poolInfo \in Seq(Pool) /\ pids = {}
    BY <1>1 DEF pids
<1>4. ASSUME NEW T PROVE <<>> \in [{} -> T]
    OBVIOUS
<1>5. ChiefTypeOK
    BY <1>1, <1>2, <1>3, <1>4 DEF ChiefTypeOK
<1>6. AllocPointsSum
  <2>1. total(allocW, <<>>) = 0
    BY TotalOfNothing
  <2> QED BY <1>1, <1>3, <2>1, AllocTotal DEF AllocPointsSum, pids
<1> QED BY <1>3, <1>5, <1>6 DEF ChiefInv

\* In every reachable state of every instance the types are right, and every pool covers
\* what its users staked, weigh and are owed.
THEOREM ChiefInvariant == TCSpec => []ChiefInv
<1>1. TCInit => ChiefInv
    BY ChiefInitially
<1>2. ChiefInv /\ [TCNext]_vars => ChiefInv'
    BY ChiefStepKeeps
<1> QED BY <1>1, <1>2, PTL DEF TCSpec

\* "Must be the sum of all allocation points in all pools", through every order of add, set
\* and resetRewards (totalAllocPoint).
THEOREM ChiefAllocPoints == TCSpec => []AllocPointsSum
<1>1. ChiefInv => AllocPointsSum
    BY DEF ChiefInv
<1> QED BY <1>1, ChiefInvariant, PTL

\* The invariant has the stakes that deposits record.
LEMMA StakesRecorded == ChiefInv => StakesHeld
<1> SUFFICES ASSUME ChiefInv, NEW pid \in pids
             PROVE  stakedBalance[pid] =
                      SumFunction([u \in Users |-> amountOf(depositInfo[pid][u], DOMAIN depositInfo[pid][u])])
    BY DEF StakesHeld
<1> DEFINE s == stakes(depositInfo[pid])
<1>1. stakedBalance[pid] = SumFunctionOnSet(s, Users)
    BY PoolFacts DEF PoolInv, PoolCovered
<1>2. DOMAIN s = Users /\ s = [u \in Users |-> amountOf(depositInfo[pid][u], DOMAIN depositInfo[pid][u])]
    BY DEF stakes
<1> QED BY <1>1, <1>2 DEF SumFunction

\* The staked tokens of a pool are exactly what the deposits of its users record, however
\* they were taken apart, in part, as a whole or in an emergency.
THEOREM ChiefStakesHeld == TCSpec => []StakesHeld
BY StakesRecorded, ChiefInvariant, PTL

\* The invariant has the weights.
LEMMA WeightsCover == ChiefInv => WeightsCovered
<1> SUFFICES ASSUME ChiefInv, NEW pid \in pids
             PROVE  /\ poolInfo[pid].virtualTotalSupply
                          >= SumFunction([u \in Users |-> userInfo[pid][u].virtualAmount])
                    /\ \A user \in Users : userInfo[pid][user].virtualAmount
                          >= virtualOf(depositInfo[pid][user], DOMAIN depositInfo[pid][user])
    BY DEF WeightsCovered
<1> DEFINE w == weights(userInfo[pid])
<1>1. poolInfo[pid].virtualTotalSupply >= SumFunctionOnSet(w, Users)
    BY PoolFacts DEF PoolInv, PoolCovered
<1>2. DOMAIN w = Users /\ w = [u \in Users |-> userInfo[pid][u].virtualAmount]
    BY DEF weights
<1>3. \A user \in Users : userInfo[pid][user].virtualAmount
          >= virtualOf(depositInfo[pid][user], DOMAIN depositInfo[pid][user])
    BY PoolFacts DEF PoolInv, PoolCovered
<1> QED BY <1>1, <1>2, <1>3 DEF SumFunction

\* The weight of a pool covers that of its users, and a user's covers that of the deposits.
THEOREM ChiefWeights == TCSpec => []WeightsCovered
BY WeightsCover, ChiefInvariant, PTL

\* A common factor can be taken out of an inequality.
LEMMA Cancels == ASSUME NEW x \in Nat, x > 0, NEW y \in Int, NEW z \in Int, x * y <= x * z PROVE y <= z
<1> SUFFICES ASSUME z + 1 <= y PROVE FALSE
    OBVIOUS
<1>1. y - z \in Nat /\ y - z >= 1 /\ y = z + (y - z)
    OBVIOUS
<1>2. PICK d \in Nat : d >= 1 /\ y = z + d
    BY <1>1
<1>3. x * (z + d) = x * z + x * d /\ x * z \in Int
    BY <1>2, Expands
<1>4. x * 1 <= x * d
    BY <1>2, TimesMonotone
<1> QED BY <1>2, <1>3, <1>4

\* What a claim is rounded down to is not more than what is owed.
LEMMA ClaimOwed ==
    ASSUME NEW pool \in Pool, NEW info \in User, NEW claim,
           claim = accumulated(pool, info.virtualAmount) - info.rewardDebt
    PROVE  claim \in Int /\ ACC_TRIBE_PRECISION * claim <= owed(pool, info)
<1> DEFINE P == ACC_TRIBE_PRECISION
           v == info.virtualAmount
           acc == pool.accTribePerShare
           debt == info.rewardDebt
           q == accumulated(pool, v)
<1>1. P \in Nat /\ v \in Nat /\ acc \in Nat /\ debt \in Int
    BY TribalChiefAssumption DEF Pool, User
<1>2. q \in Nat /\ v * acc \in Nat /\ P * q <= v * acc /\ P * q \in Nat
    BY <1>1, Rounding
<1>3. owed(pool, info) = IF v * acc - P * debt > 0 THEN v * acc - P * debt ELSE 0
    BY DEF owed
<1>4. claim \in Int /\ q = claim + debt
    BY <1>1, <1>2
<1> HIDE DEF P, v, acc, debt, q
<1>5. P * (claim + debt) = P * claim + P * debt /\ P * claim \in Int
    BY <1>1, <1>4, Expands
<1>6. P * debt \in Int
    BY <1>1, Expands
<1> QED BY <1>2, <1>3, <1>4, <1>5, <1>6 DEF P

\* The invariant speaks of claims before they are rounded.
LEMMA CreditCovers == ChiefInv => RewardsCovered
<1> DEFINE claim(pid, u) == accumulated(poolInfo[pid], userInfo[pid][u].virtualAmount) - userInfo[pid][u].rewardDebt
           f(pid) == [u \in Users |-> claim(pid, u)]
           P == ACC_TRIBE_PRECISION
<1> SUFFICES ASSUME ChiefInv, NEW pid \in pids
             PROVE  ledger[pid].paid + SumFunction(f(pid)) <= ledger[pid].emitted + ledger[pid].roundings
    BY DEF RewardsCovered
<1> DEFINE pool == poolInfo[pid]
           users == userInfo[pid]
           g == dues(pool, users)
           w == weights(users)
           h == f(pid)
<1>1. /\ PoolInv(pool, users, depositInfo[pid], stakedBalance[pid], ledger[pid])
      /\ pool \in Pool /\ users \in [Users -> User] /\ depositInfo[pid] \in [Users -> Seq(Deposit)]
      /\ ledger[pid] \in Entry
    BY PoolFacts
<1>2. /\ \A u \in Users : g[u] = owed(pool, users[u]) /\ g[u] \in Nat
      /\ \A u \in Users : w[u] \in Nat
      /\ SumFunctionOnSet(g, Users) \in Nat
      /\ SumFunctionOnSet(w, Users) \in Nat
    BY <1>1, PoolNumbers
<1>3. P * ledger[pid].paid + SumFunctionOnSet(g, Users) <= P * (ledger[pid].emitted + ledger[pid].roundings)
    BY <1>1 DEF PoolInv, PoolCovered
<1>4. P \in Nat /\ P > 0 /\ IsFiniteSet(Users)
    BY TribalChiefAssumption
<1>5. ASSUME NEW u \in Users
      PROVE  h[u] \in Int /\ g[u] \in Int /\ w[u] \in Int /\ P * h[u] <= g[u] + 0 * w[u]
  <2>1. h[u] = accumulated(pool, users[u].virtualAmount) - users[u].rewardDebt
    OBVIOUS
  <2>2. users[u] \in User
    BY <1>1
  <2>3. g[u] = owed(pool, users[u]) /\ g[u] \in Nat /\ w[u] \in Nat
    BY <1>2
  <2> HIDE DEF h, g, w, P, pool, users
  <2>4. h[u] \in Int /\ ACC_TRIBE_PRECISION * h[u] <= owed(pool, users[u])
    BY <1>1, <2>1, <2>2, ClaimOwed
  <2>5. 0 * w[u] = 0
    BY <2>3
  <2> QED BY <2>3, <2>4, <2>5 DEF P
<1>6. DOMAIN h = Users
  OBVIOUS
<1> HIDE DEF f, h, g, w, P
<1>7. ScaledAtMost(Users, P, h, g, 0, w)
    BY <1>4, <1>5 DEF ScaledAtMost
<1>8. P * SumFunctionOnSet(h, Users) <= SumFunctionOnSet(g, Users) + 0 * SumFunctionOnSet(w, Users)
      /\ SumFunctionOnSet(h, Users) \in Int
    BY <1>7, SumScaled
<1>9. ledger[pid].paid \in Nat /\ ledger[pid].emitted + ledger[pid].roundings \in Nat
    BY <1>1 DEF Entry
<1> DEFINE total1 == SumFunctionOnSet(h, Users)
           paid == ledger[pid].paid
           credit == ledger[pid].emitted + ledger[pid].roundings
<1>10. P * (paid + total1) <= P * credit
  <2>1. P * (paid + total1) = P * paid + P * total1 /\ P * paid \in Int /\ P * total1 \in Int /\ P * credit \in Int
    BY <1>4, <1>8, <1>9, Expands, SMTT(60)
  <2>2. 0 * SumFunctionOnSet(w, Users) = 0
    BY <1>2
  <2> HIDE DEF total1, paid, credit
  <2> QED BY <1>2, <1>3, <1>8, <2>1, <2>2 DEF total1, paid, credit
<1>11. paid + total1 <= credit
  <2>1. paid + total1 \in Int /\ credit \in Int
    BY <1>8, <1>9
  <2> HIDE DEF total1, paid, credit
  <2> QED BY <1>4, <1>10, <2>1, Cancels
<1>12. SumFunction(f(pid)) = total1
    BY <1>6 DEF SumFunction, h
<1> QED BY <1>11, <1>12

\* What was paid and what is promised never exceed what updatePool credited, but for one
\* unit for every debt that was rounded down on its own.
THEOREM ChiefRewards == TCSpec => []RewardsCovered
BY CreditCovers, ChiefInvariant, PTL

-----------------------------------------------------------------------------
\* One of the natural numbers of a sum is no more than all of it.
LEMMA SumCoversOne ==
    ASSUME NEW S, IsFiniteSet(S), NEW g, \A x \in S : g[x] \in Nat, NEW e \in S
    PROVE  g[e] <= SumFunctionOnSet(g, S)
<1>1. SumFunctionOnSet(g, S) = g[e] + SumFunctionOnSet(g, S \ {e})
  <2>1. \A x \in S : g[x] \in Int
    OBVIOUS
  <2> QED BY <2>1, SumRemove
<1>2. SumFunctionOnSet(g, S \ {e}) \in Nat
  <2>1. IsFiniteSet(S \ {e}) /\ \A x \in S \ {e} : g[x] \in Nat
    BY FS_Subset
  <2> QED BY <2>1, SumNat
<1> QED BY <1>1, <1>2

\* What emergencyWithdraw checks beyond the locks.
EmergencyChecks(user, pid) ==
    /\ virtualOf(depositInfo[pid][user], DOMAIN depositInfo[pid][user]) <= updated(poolInfo[pid]).virtualTotalSupply
    /\ amountOf(depositInfo[pid][user], DOMAIN depositInfo[pid][user]) <= stakedBalance[pid]

\* These never fail: where the locks let a user go, nothing else keeps the stake.
StakeNeverStuck == \A pid \in pids, user \in Users : EmergencyChecks(user, pid)

\* Single weights and stakes are covered as their sums are.
LEMMA StakesFree == ChiefInv => StakeNeverStuck
<1> SUFFICES ASSUME ChiefInv, NEW pid \in pids, NEW user \in Users PROVE EmergencyChecks(user, pid)
    BY DEF StakeNeverStuck
<1> DEFINE pool == updated(poolInfo[pid])
           deps == depositInfo[pid]
           users == userInfo[pid]
           s == stakes(deps)
           w == weights(users)
<1>1. /\ pool.virtualTotalSupply = poolInfo[pid].virtualTotalSupply
      /\ pool.virtualTotalSupply \in Nat
      /\ deps[user] \in Seq(Deposit)
      /\ users[user].virtualAmount >= weight(deps[user]) /\ users[user].virtualAmount \in Nat
      /\ weight(deps[user]) \in Nat /\ staked(deps[user]) \in Nat
    BY UserFacts
<1>2. /\ virtualOf(deps[user], DOMAIN deps[user]) = weight(deps[user])
      /\ amountOf(deps[user], DOMAIN deps[user]) = staked(deps[user])
    BY <1>1, AllSums
<1>3. /\ poolInfo[pid] \in Pool /\ users \in [Users -> User] /\ deps \in [Users -> Seq(Deposit)]
      /\ stakedBalance[pid] = SumFunctionOnSet(s, Users)
      /\ poolInfo[pid].virtualTotalSupply >= SumFunctionOnSet(w, Users)
    BY PoolFacts DEF PoolInv, PoolCovered
<1>4. /\ \A u \in Users : w[u] = users[u].virtualAmount /\ w[u] \in Nat
      /\ \A u \in Users : s[u] = staked(deps[u]) /\ s[u] \in Nat
      /\ SumFunctionOnSet(s, Users) \in Nat /\ SumFunctionOnSet(w, Users) \in Nat
    BY <1>3, PoolNumbers
<1> HIDE DEF s, w, deps, users, pool
<1>5. IsFiniteSet(Users)
    BY TribalChiefAssumption
<1>6. s[user] <= SumFunctionOnSet(s, Users)
    BY <1>4, <1>5, SumCoversOne
<1>7. w[user] <= SumFunctionOnSet(w, Users)
    BY <1>4, <1>5, SumCoversOne
<1>8. staked(deps[user]) <= stakedBalance[pid]
    BY <1>3, <1>4, <1>6
<1>9. weight(deps[user]) <= pool.virtualTotalSupply
    BY <1>1, <1>3, <1>4, <1>7
<1> QED BY <1>2, <1>8, <1>9 DEF EmergencyChecks, deps, pool

\* In every reachable state the checks of emergencyWithdraw beyond the locks hold, the
\* part of StakeReturnable that is not about ENABLED.
THEOREM ChiefStakeNeverStuck == TCSpec => []StakeNeverStuck
BY StakesFree, ChiefInvariant, PTL

-----------------------------------------------------------------------------
\* The deposit of a user at an index is as it was.
StaysAt(pid, user, i) ==
    /\ i \in DOMAIN depositInfo'[pid][user]
    /\ depositInfo'[pid][user][i] = depositInfo[pid][user][i]

\* Deposits ds hold every locked deposit of a user.
KeepsLocked(p, u, ds) ==
    \A j \in DOMAIN depositInfo[p][u] :
        ~unlocked(poolInfo[p], depositInfo[p][u][j]) => j \in DOMAIN ds /\ ds[j] = depositInfo[p][u][j]

\* A step that replaces the deposits of one user keeps the locked ones of all if it keeps
\* those of this user.
LEMMA LockedKept ==
    ASSUME ChiefInv, NEW p \in pids, NEW u \in Users, NEW ds,
           depositInfo' = [depositInfo EXCEPT ![p][u] = ds],
           KeepsLocked(p, u, ds),
           NEW pid \in pids, NEW user \in Users, NEW i \in DOMAIN depositInfo[pid][user],
           ~unlocked(poolInfo[pid], depositInfo[pid][user][i])
    PROVE  StaysAt(pid, user, i)
<1>1. depositInfo \in [pids -> [Users -> Seq(Deposit)]]
    BY DEF ChiefInv, ChiefTypeOK
<1>2. CASE pid = p /\ user = u
    BY <1>1, <1>2 DEF StaysAt, KeepsLocked
<1>3. CASE ~(pid = p /\ user = u)
  <2>1. depositInfo'[pid][user] = depositInfo[pid][user]
    BY <1>1, <1>3
  <2> QED BY <2>1 DEF StaysAt
<1> QED BY <1>2, <1>3

\* Being updated does not unlock a pool.
LEMMA LockUnchanged ==
    ASSUME ChiefInv, NEW pid \in pids, NEW dep
    PROVE  unlocked(updated(poolInfo[pid]), dep) <=> unlocked(poolInfo[pid], dep)
<1>1. /\ PoolInv(poolInfo[pid], userInfo[pid], depositInfo[pid], stakedBalance[pid], ledger[pid])
      /\ block \in Nat /\ totalAllocPoint \in Nat /\ tribePerBlock \in Nat
    BY PoolFacts
<1>2. updated(poolInfo[pid]).unlocked = poolInfo[pid].unlocked
    BY <1>1, UpdateKeeps
<1> QED BY <1>2 DEF unlocked

\* No step of anybody takes anything from a deposit that is locked.
LEMMA LockedStep ==
    ASSUME ChiefInv, [TCNext]_vars, NEW pid \in pids, NEW user \in Users,
           NEW i \in DOMAIN depositInfo[pid][user], ~unlocked(poolInfo[pid], depositInfo[pid][user][i])
    PROVE  StaysAt(pid, user, i)
<1>1. ASSUME UNCHANGED depositInfo PROVE StaysAt(pid, user, i)
    BY <1>1 DEF StaysAt
<1>2. ASSUME NEW p \in pids, updatePool(p) PROVE StaysAt(pid, user, i)
    BY <1>1, <1>2 DEF updatePool
<1>3. ASSUME NEW p \in pids, NEW u \in Users, StakerStep(u, p) PROVE StaysAt(pid, user, i)
  <2> DEFINE deps == depositInfo[p][u]
  <2>0. deps \in Seq(Deposit) /\ DOMAIN deps = 1..Len(deps) /\ Len(deps) \in Nat
    <3>1. deps \in Seq(Deposit)
      BY PoolFacts
    <3> HIDE DEF deps
    <3> QED BY <3>1, LenProperties
  <2>1. ASSUME NEW amount \in Amounts, NEW lock \in LockLengths, deposit(u, p, amount, lock)
        PROVE  StaysAt(pid, user, i)
    <3> DEFINE dep == [amount |-> amount, unlockBlock |-> lock + block, multiplier |-> rewardMultipliers[p][lock]]
               ds == Append(deps, dep)
    <3>1. depositInfo' = [depositInfo EXCEPT ![p][u] = ds]
      BY <2>1 DEF deposit
    <3>2. \A j \in DOMAIN deps : j \in DOMAIN ds /\ ds[j] = deps[j]
      <4> HIDE DEF dep, deps
      <4> QED BY <2>0
    <3>3. KeepsLocked(p, u, ds)
      <4> HIDE DEF ds
      <4> QED BY <3>2 DEF KeepsLocked
    <3> HIDE DEF ds
    <3> QED BY <3>1, <3>3, LockedKept
  <2>2. ASSUME NEW amount \in Amounts, NEW index \in DOMAIN depositInfo[p][u],
               withdrawFromDeposit(u, p, amount, index)
        PROVE  StaysAt(pid, user, i)
    <3> DEFINE ds == [deps EXCEPT ![index].amount = @ - amount]
    <3>1. depositInfo' = [depositInfo EXCEPT ![p][u] = ds]
      BY <2>2 DEF withdrawFromDeposit
    <3>2. unlocked(poolInfo[p], deps[index])
      BY <2>2, LockUnchanged DEF withdrawFromDeposit
    <3>3. \A j \in DOMAIN deps : ~unlocked(poolInfo[p], deps[j]) => j \in DOMAIN ds /\ ds[j] = deps[j]
      <4> HIDE DEF deps
      <4> QED BY <3>2
    <3>4. KeepsLocked(p, u, ds)
      <4> HIDE DEF ds
      <4> QED BY <3>3 DEF KeepsLocked
    <3> HIDE DEF ds
    <3> QED BY <3>1, <3>4, LockedKept
  <2>3. ASSUME harvest(u, p) PROVE StaysAt(pid, user, i)
    BY <1>1, <2>3 DEF harvest
  <2>4. ASSUME withdrawAllAndHarvest(u, p) PROVE StaysAt(pid, user, i)
    <3> DEFINE free == {j \in DOMAIN deps : unlocked(updated(poolInfo[p]), deps[j])}
               none == [amount |-> 0, unlockBlock |-> 0, multiplier |-> 0]
               ds == IF free = DOMAIN deps THEN <<>> ELSE [j \in DOMAIN deps |-> IF j \in free THEN none ELSE deps[j]]
    <3>1. depositInfo' = [depositInfo EXCEPT ![p][u] = ds]
      <4>1. CASE free = DOMAIN deps
        BY <2>4, <4>1 DEF withdrawAllAndHarvest
      <4>2. CASE free # DOMAIN deps
        BY <2>4, <4>2 DEF withdrawAllAndHarvest
      <4> QED BY <4>1, <4>2
    <3>2. \A j \in DOMAIN deps : ~unlocked(poolInfo[p], deps[j]) => j \notin free
      BY LockUnchanged
    <3> HIDE DEF free, none
    <3>3. \A j \in DOMAIN deps : ~unlocked(poolInfo[p], deps[j]) => j \in DOMAIN ds /\ ds[j] = deps[j]
      <4> HIDE DEF deps
      <4> QED BY <3>2
    <3>4. KeepsLocked(p, u, ds)
      <4> HIDE DEF ds
      <4> QED BY <3>3 DEF KeepsLocked
    <3> HIDE DEF ds
    <3> QED BY <3>1, <3>4, LockedKept
  <2>5. ASSUME emergencyWithdraw(u, p) PROVE StaysAt(pid, user, i)
    <3>1. depositInfo' = [depositInfo EXCEPT ![p][u] = <<>>]
      BY <2>5 DEF emergencyWithdraw
    <3>2. \A j \in DOMAIN deps : unlocked(poolInfo[p], deps[j])
      BY <2>5, LockUnchanged DEF emergencyWithdraw
    <3>3. KeepsLocked(p, u, <<>>)
      BY <3>2 DEF KeepsLocked
    <3> QED BY <3>1, <3>3, LockedKept
  <2> QED BY <1>3, <2>1, <2>2, <2>3, <2>4, <2>5 DEF StakerStep
<1>4. ASSUME NEW caller, ChiefGovernance(caller) PROVE StaysAt(pid, user, i)
  <2>1. ASSUME NEW points \in AllocPoints, NEW data \in [LockLengths -> Multipliers], add(caller, points, data)
        PROVE  StaysAt(pid, user, i)
    <3> DEFINE n == Len(poolInfo)
               new == [u \in Users |-> <<>>]
    <3>1. n \in Nat /\ pids = 1..n
      BY LenProperties DEF ChiefInv, ChiefTypeOK, pids
    <3>2. depositInfo \in [1..n -> [Users -> Seq(Deposit)]]
      BY <3>1 DEF ChiefInv, ChiefTypeOK
    <3>3. new \in [Users -> Seq(Deposit)]
      BY NoDeposits
    <3>4. Appended(depositInfo', depositInfo, new)
      BY <2>1 DEF add, Appended
    <3> HIDE DEF n, new
    <3>5. IsExtended([Users -> Seq(Deposit)], n, depositInfo, new, depositInfo')
      BY <3>1, <3>2, <3>3, <3>4, AppendFunction
    <3>6. depositInfo'[pid] = depositInfo[pid]
      BY <3>1, <3>5 DEF IsExtended
    <3> QED BY <3>6 DEF StaysAt
  <2>2. ASSUME NEW reward \in BlockRewards, updateBlockReward(caller, reward) PROVE StaysAt(pid, user, i)
    BY <1>1, <2>2 DEF updateBlockReward
  <2>3. ASSUME NEW amount \in Amounts, governorWithdrawTribe(caller, amount) PROVE StaysAt(pid, user, i)
    BY <1>1, <2>3 DEF governorWithdrawTribe
  <2> QED BY <1>4, <2>1, <2>2, <2>3 DEF ChiefGovernance
<1>5. ASSUME NEW p \in pids, NEW caller, PoolGovernance(caller, p) PROVE StaysAt(pid, user, i)
    BY <1>1, <1>5 DEF PoolGovernance, setUnlocked, governorAddPoolMultiplier, set, resetRewards
<1>6. ASSUME UNCHANGED chiefVars \/ UNCHANGED vars PROVE StaysAt(pid, user, i)
    BY <1>1, <1>6 DEF vars, chiefVars
<1> QED BY <1>2, <1>3, <1>4, <1>5, <1>6 DEF TCNext

\* No step takes anything from a deposit that is locked, its own user's withdrawal of
\* other deposits included.
THEOREM ChiefLockedStaysPut == TCSpec => LockedStaysPut
<1>1. ChiefInv /\ [TCNext]_vars
        => [\A pid \in pids, user \in Users : \A i \in DOMAIN depositInfo[pid][user] :
                ~unlocked(poolInfo[pid], depositInfo[pid][user][i])
                    => /\ i \in DOMAIN depositInfo'[pid][user]
                       /\ depositInfo'[pid][user][i] = depositInfo[pid][user][i]]_vars
    BY LockedStep DEF StaysAt
<1> QED BY <1>1, ChiefInvariant, PTL DEF TCSpec, LockedStaysPut

-----------------------------------------------------------------------------
\* What massUpdatePools leaves: every pool updated, and what holds of pools.
LEMMA MassFacts ==
    ASSUME ChiefInv
    PROVE  /\ massUpdated \in Seq(Pool) /\ DOMAIN massUpdated = pids
           /\ massEntered \in [pids -> Entry]
           /\ total(allocW, massUpdated) = totalAllocPoint
           /\ \A p \in pids : /\ massUpdated[p] = updated(poolInfo[p])
                              /\ massUpdated[p].allocPoint = poolInfo[p].allocPoint
                              /\ massUpdated[p].virtualTotalSupply = poolInfo[p].virtualTotalSupply
                              /\ massEntered[p] = [ledger[p] EXCEPT !.emitted = @ + tribeReward(poolInfo[p])]
                              /\ PoolInv(massUpdated[p], userInfo[p], depositInfo[p], stakedBalance[p], massEntered[p])
<1>1. poolInfo \in Seq(Pool) /\ pids = 1..Len(poolInfo) /\ Len(poolInfo) \in Nat /\ IsFiniteSet(pids)
    BY LenProperties, FS_Interval DEF ChiefInv, ChiefTypeOK, pids
<1>2. /\ DOMAIN massUpdated = pids /\ DOMAIN massEntered = pids
      /\ \A p \in pids : /\ massUpdated[p] = updated(poolInfo[p])
                         /\ massEntered[p] = [ledger[p] EXCEPT !.emitted = @ + tribeReward(poolInfo[p])]
    BY DEF massUpdated, massEntered, allPids
<1>3. /\ massUpdated = [p \in pids |-> massUpdated[p]]
      /\ massEntered = [p \in pids |-> massEntered[p]]
    BY DEF massUpdated, massEntered
<1>4. ASSUME NEW p \in pids
      PROVE  /\ PoolInv(massUpdated[p], userInfo[p], depositInfo[p], stakedBalance[p], massEntered[p])
             /\ massUpdated[p].allocPoint = poolInfo[p].allocPoint
             /\ massUpdated[p].virtualTotalSupply = poolInfo[p].virtualTotalSupply
             /\ massUpdated[p] \in Pool /\ massEntered[p] \in Entry
  <2>1. PoolInv(poolInfo[p], userInfo[p], depositInfo[p], stakedBalance[p], ledger[p])
        /\ block \in Nat /\ totalAllocPoint \in Nat /\ tribePerBlock \in Nat
    BY PoolFacts
  <2>2. /\ PoolInv(updated(poolInfo[p]), userInfo[p], depositInfo[p], stakedBalance[p],
                   [ledger[p] EXCEPT !.emitted = @ + tribeReward(poolInfo[p])])
        /\ updated(poolInfo[p]).allocPoint = poolInfo[p].allocPoint
        /\ updated(poolInfo[p]).virtualTotalSupply = poolInfo[p].virtualTotalSupply
    BY <2>1, UpdateKeeps
  <2>3. PoolInv(massUpdated[p], userInfo[p], depositInfo[p], stakedBalance[p], massEntered[p])
    BY <1>2, <2>2
  <2> QED BY <1>2, <2>2, <2>3 DEF PoolInv, PoolTyped
<1>5. massUpdated \in [pids -> Pool] /\ massEntered \in [pids -> Entry]
    BY <1>3, <1>4, Zenon
<1>6. massUpdated \in Seq(Pool)
    BY <1>1, <1>5, SeqDef
<1>7. total(allocW, massUpdated) = totalAllocPoint
  <2>1. \A p \in pids : measure(allocW, massUpdated)[p] = measure(allocW, poolInfo)[p]
    <3> SUFFICES ASSUME NEW p \in pids PROVE measure(allocW, massUpdated)[p] = measure(allocW, poolInfo)[p]
      OBVIOUS
    <3>1. poolInfo[p] \in Pool
      BY PoolFacts
    <3>2. allocW[massUpdated[p]] = massUpdated[p].allocPoint /\ allocW[poolInfo[p]] = poolInfo[p].allocPoint
      BY <1>4, <3>1 DEF allocW
    <3>3. p \in DOMAIN massUpdated /\ p \in DOMAIN poolInfo
      BY <1>2 DEF pids
    <3>4. /\ measure(allocW, massUpdated)[p] = allocW[massUpdated[p]]
          /\ measure(allocW, poolInfo)[p] = allocW[poolInfo[p]]
      BY <3>3 DEF measure
    <3> QED BY <1>4, <3>2, <3>4
  <2>2. total(allocW, massUpdated) = total(allocW, poolInfo)
    <3>1. SumFunctionOnSet(measure(allocW, massUpdated), pids) = SumFunctionOnSet(measure(allocW, poolInfo), pids)
      BY <1>1, <2>1, SumEqual
    <3>2. DOMAIN poolInfo = pids
      BY DEF pids
    <3> QED BY <1>2, <3>1, <3>2 DEF total
  <2>3. totalAllocPoint = total(allocW, poolInfo)
    BY <1>1, AllocTotal DEF ChiefInv, AllocPointsSum, pids
  <2> QED BY <2>2, <2>3
<1> QED BY <1>2, <1>4, <1>5, <1>6, <1>7

\* A step after which the pools are as massUpdatePools leaves them, but for their
\* allocation points and locks.
IsMassStep(pools) ==
    /\ poolInfo' = pools /\ ledger' = massEntered
    /\ totalAllocPoint' = total(allocW, pools) /\ tribePerBlock' \in Nat
    /\ UNCHANGED <<rewardMultipliers, stakeVars, block, coreRefVars>>

\* Such a step keeps the invariant.
LEMMA MassStepKeeps ==
    ASSUME ChiefInv, NEW pools \in Seq(Pool), DOMAIN pools = pids, IsMassStep(pools),
           \A p \in pids : /\ pools[p].virtualTotalSupply = massUpdated[p].virtualTotalSupply
                           /\ pools[p].accTribePerShare = massUpdated[p].accTribePerShare
    PROVE  ChiefInv'
<1>1. /\ poolInfo' = pools /\ ledger' = massEntered
      /\ totalAllocPoint' = total(allocW, pools) /\ tribePerBlock' \in Nat
      /\ rewardMultipliers' = rewardMultipliers /\ userInfo' = userInfo /\ depositInfo' = depositInfo
      /\ tribeBalance' = tribeBalance /\ stakedBalance' = stakedBalance
      /\ block' = block /\ paused' = paused /\ contractAdminRole' = contractAdminRole
    BY DEF IsMassStep, stakeVars, coreRefVars
<1>2. pids' = pids
    BY <1>1 DEF pids
<1>3. totalAllocPoint' \in Nat /\ AllocPointsSum'
    BY <1>1, AllocTotal DEF AllocPointsSum, pids
<1>4. ChiefTypeOK'
  <2>1. ChiefTypeOK
    BY DEF ChiefInv
  <2>2. CoreRefTypeOK'
    BY <1>1, <2>1, Zenon DEF ChiefTypeOK, CoreRefTypeOK
  <2>3. /\ block' \in Nat /\ tribeBalance' \in Nat
        /\ rewardMultipliers' \in [pids' -> [LockLengths -> Nat]]
        /\ userInfo' \in [pids' -> [Users -> User]]
        /\ depositInfo' \in [pids' -> [Users -> Seq(Deposit)]]
        /\ stakedBalance' \in [pids' -> Nat]
    BY <1>1, <1>2, <2>1 DEF ChiefTypeOK
  <2>4. ledger' \in [pids' -> Entry]
    BY <1>1, <1>2, MassFacts
  <2> QED BY <1>1, <1>3, <2>2, <2>3, <2>4 DEF ChiefTypeOK
<1>5. ASSUME NEW p \in pids
      PROVE  PoolInv(poolInfo'[p], userInfo'[p], depositInfo'[p], stakedBalance'[p], ledger'[p])
  <2>1. PoolInv(massUpdated[p], userInfo[p], depositInfo[p], stakedBalance[p], massEntered[p])
    BY MassFacts
  <2>2. pools[p] \in Pool
    BY ElementOfSeq, LenProperties
  <2>3. PoolInv(pools[p], userInfo[p], depositInfo[p], stakedBalance[p], massEntered[p])
    BY <2>1, <2>2, PoolSameNumbers
  <2> QED BY <1>1, <2>3
<1> QED BY <1>2, <1>3, <1>4, <1>5 DEF ChiefInv

-----------------------------------------------------------------------------
\* A floored product is at least the product of the floor, and less than one unit a factor
\* more.
LEMMA FloorTimes ==
    ASSUME NEW n \in Nat, NEW a \in Nat, NEW t \in Nat, t > 0
    PROVE  /\ a \div t \in Nat /\ (n * a) \div t \in Nat
           /\ n * (a \div t) \in Nat
           /\ n * (a \div t) <= (n * a) \div t
           /\ (n * a) \div t <= n * (a \div t) + n
<1> DEFINE q == a \div t
           d == (n * a) \div t
<1>1. q \in Nat /\ t * q <= a /\ a <= t * q + t
    BY SMT
<1>2. n * a \in Nat
    BY TimesNat
<1>3. d \in Nat /\ t * d <= n * a /\ n * a < t * d + t
    BY <1>2, SMT
<1> HIDE DEF q, d
<1>4. t * q \in Nat /\ n * q \in Nat /\ t * d \in Nat /\ n * t \in Nat
    BY <1>1, <1>3, TimesNat
<1>5. n * (t * q) = t * (n * q) /\ n * t = t * n
    BY <1>1, SMT
<1>6. n * (t * q) <= n * a
    BY <1>1, <1>4, TimesMonotone
<1>7. n * q <= d
  <2> SUFFICES ASSUME d + 1 <= n * q PROVE FALSE
    BY <1>3, <1>4
  <2>1. d + 1 \in Nat /\ t * (d + 1) = t * d + t
    BY <1>3, Expands
  <2>2. t * (d + 1) <= t * (n * q)
    BY <1>4, <2>1, TimesMonotone
  <2> QED BY <1>2, <1>3, <1>4, <1>5, <1>6, <2>1, <2>2
<1>8. n * a <= t * (n * q + n)
  <2>1. t * q + t \in Nat /\ n * (t * q + t) = n * (t * q) + n * t
    BY <1>4, Expands
  <2>2. n * a <= n * (t * q + t)
    BY <1>1, <2>1, TimesMonotone
  <2>3. t * (n * q + n) = t * (n * q) + t * n
    BY <1>4, Expands
  <2> QED BY <1>5, <2>1, <2>2, <2>3
<1>9. d <= n * q + n
  <2>1. n * q + n \in Nat
    BY <1>4
  <2>2. t * d <= t * (n * q + n)
    <3>1. t * (n * q + n) \in Nat
      BY <2>1, TimesNat
    <3> QED BY <1>2, <1>3, <1>4, <1>8, <3>1
  <2> QED BY <1>3, <2>1, <2>2, Cancels
<1> QED BY <1>1, <1>3, <1>4, <1>7, <1>9 DEF q, d

-----------------------------------------------------------------------------
\* What has been entered for a pool, with the blocks since its last update at what they are
\* worth now, is what its blocks were worth and less than a unit for each block entered.
Accounted(pid) ==
    /\ poolInfo[pid].lastRewardBlock \in 1..block
    /\ ledger[pid].emitted + (block - poolInfo[pid].lastRewardBlock) * worth(pid) - due[pid]
            \in 0..(poolInfo[pid].lastRewardBlock - 1)

\* The inductive invariant of the synchronisation: that of TribalChief, a staker of the
\* first pool who stays, the distributor at the speed of that pool, and the accounts.
SyncInv ==
    /\ ChiefInv
    /\ due \in [pids -> Nat] /\ rewardsArray \in Seq(Nat)
    /\ wrapperPid \in pids /\ poolInfo[wrapperPid].virtualTotalSupply > 0
    /\ speed = requiredCompSpeed
    /\ handedOut = due[wrapperPid]
    /\ \A pid \in pids : Accounted(pid)

\* What an update credits differs from what its blocks are worth by less than one unit each.
LEMMA RewardNumbers ==
    ASSUME ChiefInv, NEW pid \in pids, poolInfo[pid].lastRewardBlock <= block
    PROVE  /\ worth(pid) \in Nat /\ tribeReward(poolInfo[pid]) \in Nat
           /\ (block - poolInfo[pid].lastRewardBlock) * worth(pid) \in Nat
           /\ tribeReward(poolInfo[pid]) - (block - poolInfo[pid].lastRewardBlock) * worth(pid)
                    \in 0..(block - poolInfo[pid].lastRewardBlock)
<1> DEFINE pool == poolInfo[pid]
           n == block - pool.lastRewardBlock
           a == tribePerBlock * pool.allocPoint
<1>1. /\ pool \in Pool /\ block \in Nat /\ totalAllocPoint \in Nat /\ tribePerBlock \in Nat
    BY PoolFacts
<1>2. /\ pool.lastRewardBlock \in Nat /\ pool.allocPoint \in Nat /\ pool.virtualTotalSupply \in Nat
    BY <1>1 DEF Pool
<1>3. n \in Nat
    BY <1>1, <1>2
<1>4. a \in Nat
    BY <1>1, <1>2, TimesNat
<1>5. CASE pool.virtualTotalSupply > 0 /\ totalAllocPoint # 0
  <2>1. worth(pid) = a \div totalAllocPoint
    BY <1>5 DEF worth
  <2>2. CASE n = 0
    <3>1. tribeReward(pool) = 0
      BY <1>1, <1>2, <2>2 DEF tribeReward
    <3>2. worth(pid) \in Nat
      BY <1>1, <1>4, <1>5, <2>1, FloorTimes
    <3> HIDE DEF n, pool
    <3> QED BY <2>2, <3>1, <3>2 DEF n, pool
  <2>3. CASE n # 0
    <3>1. tribeReward(pool) = ((n * tribePerBlock) * pool.allocPoint) \div totalAllocPoint
      BY <1>1, <1>2, <1>3, <1>5, <2>3 DEF tribeReward
    <3>2. (n * tribePerBlock) * pool.allocPoint = n * a
      <4> HIDE DEF n, pool
      <4> QED BY <1>1, <1>2, <1>3, SMT
    <3> HIDE DEF n, a, pool
    <3>3. totalAllocPoint > 0
      BY <1>1, <1>5
    <3>4. /\ a \div totalAllocPoint \in Nat /\ (n * a) \div totalAllocPoint \in Nat
          /\ n * (a \div totalAllocPoint) \in Nat
          /\ n * (a \div totalAllocPoint) <= (n * a) \div totalAllocPoint
          /\ (n * a) \div totalAllocPoint <= n * (a \div totalAllocPoint) + n
      BY <1>1, <1>3, <1>4, <3>3, FloorTimes
    <3>5. tribeReward(pool) = (n * a) \div totalAllocPoint /\ worth(pid) = a \div totalAllocPoint
      BY <2>1, <3>1, <3>2
    <3>6. /\ worth(pid) \in Nat /\ tribeReward(pool) \in Nat /\ n * worth(pid) \in Nat
          /\ tribeReward(pool) - n * worth(pid) \in 0..n
      BY <1>3, <3>4, <3>5
    <3> QED BY <3>6 DEF n, pool
  <2> QED BY <2>2, <2>3
<1>6. CASE ~(pool.virtualTotalSupply > 0 /\ totalAllocPoint # 0)
  <2>1. worth(pid) = 0 /\ tribeReward(pool) = 0
    BY <1>6 DEF worth, tribeReward
  <2>2. n * 0 = 0 /\ 0 - 0 \in 0..n
    BY <1>3
  <2> QED BY <2>1, <2>2
<1> HIDE DEF pool, n
<1> QED BY <1>5, <1>6 DEF pool, n

\* The invariant bounds what an update now would bring a pool to.
LEMMA CreditedNow ==
    ASSUME SyncInv, NEW pid \in pids
    PROVE  /\ credited(pid) - due[pid] \in 0..(block - 1)
           /\ credited(pid) \in Nat /\ due[pid] \in Nat /\ block \in Nat /\ block >= 1
<1>1. ChiefInv /\ Accounted(pid) /\ due[pid] \in Nat
    BY DEF SyncInv
<1>2. ledger[pid] \in Entry /\ block \in Nat /\ poolInfo[pid] \in Pool
    BY <1>1, PoolFacts
<1>3. ledger[pid].emitted \in Nat /\ poolInfo[pid].lastRewardBlock \in Nat
    BY <1>2 DEF Entry, Pool
<1> DEFINE l == poolInfo[pid].lastRewardBlock
           x == (block - l) * worth(pid)
           r == tribeReward(poolInfo[pid])
<1>4. 1 <= l /\ l <= block /\ ledger[pid].emitted + x - due[pid] \in 0..(l - 1)
    BY <1>1, <1>2, <1>3 DEF Accounted
<1>5. x \in Nat /\ r \in Nat /\ r - x \in 0..(block - l)
    BY <1>1, <1>4, RewardNumbers
<1>6. credited(pid) = ledger[pid].emitted + r
    BY DEF credited
<1> HIDE DEF l, x, r
<1>7. l \in Nat
    BY <1>3 DEF l
<1> QED BY <1>1, <1>2, <1>3, <1>4, <1>5, <1>6, <1>7

-----------------------------------------------------------------------------
\* A step in which a pool is updated: whatever rewards and points are afterwards, it
\* stays accounted for.
LEMMA AccountedAfterUpdate ==
    ASSUME SyncInv, NEW pid \in pids, ChiefInv', pid \in pids',
           poolInfo'[pid].lastRewardBlock = block, ledger'[pid].emitted = credited(pid),
           due'[pid] = due[pid], block' = block
    PROVE  Accounted(pid)'
<1>1. /\ credited(pid) - due[pid] \in 0..(block - 1)
      /\ credited(pid) \in Nat /\ due[pid] \in Nat /\ block \in Nat /\ block >= 1
    BY CreditedNow
<1>2. /\ poolInfo'[pid].allocPoint \in Nat /\ tribePerBlock' \in Nat /\ totalAllocPoint' \in Nat
      /\ poolInfo'[pid].virtualTotalSupply \in Nat
  <2>1. PoolInv(poolInfo'[pid], userInfo'[pid], depositInfo'[pid], stakedBalance'[pid], ledger'[pid])
        /\ tribePerBlock' \in Nat /\ totalAllocPoint' \in Nat
    BY DEF ChiefInv, ChiefTypeOK
  <2> QED BY <2>1 DEF PoolInv, PoolTyped, Pool
<1>3. worth(pid)' \in Nat
  <2> DEFINE a == tribePerBlock' * poolInfo'[pid].allocPoint
  <2>1. a \in Nat
    BY <1>2, TimesNat
  <2>2. CASE poolInfo'[pid].virtualTotalSupply > 0 /\ totalAllocPoint' # 0
    <3>1. worth(pid)' = a \div totalAllocPoint'
      BY <2>2 DEF worth
    <3>2. totalAllocPoint' > 0
      BY <1>2, <2>2
    <3> HIDE DEF a
    <3>3. a \div totalAllocPoint' \in Nat
      BY <1>2, <2>1, <3>2, FloorTimes
    <3> QED BY <3>1, <3>3
  <2>3. CASE ~(poolInfo'[pid].virtualTotalSupply > 0 /\ totalAllocPoint' # 0)
    BY <2>3 DEF worth
  <2> QED BY <2>2, <2>3
<1>4. (block' - poolInfo'[pid].lastRewardBlock) * worth(pid)' = 0
    BY <1>1, <1>3
<1> QED BY <1>1, <1>4 DEF Accounted

\* A step that changes nothing about a pool and its rewards.
LEMMA AccountedUnchanged ==
    ASSUME SyncInv, NEW pid \in pids,
           poolInfo'[pid] = poolInfo[pid], ledger'[pid] = ledger[pid], due'[pid] = due[pid],
           block' = block, totalAllocPoint' = totalAllocPoint, tribePerBlock' = tribePerBlock
    PROVE  Accounted(pid)'
<1>1. worth(pid)' = worth(pid)
    BY DEF worth
<1>2. Accounted(pid)
    BY DEF SyncInv
<1> QED BY <1>1, <1>2 DEF Accounted

\* The next block.
LEMMA NextBlockKeeps == ASSUME SyncInv, NextBlock, UNCHANGED coreRefVars PROVE SyncInv'
<1>1. ChiefInv'
  <2>1. TCNext
    BY DEF NextBlock, TCNext
  <2> QED BY <2>1, ChiefStepKeeps DEF SyncInv
<1>2. /\ block' = block + 1 /\ block \in Nat
      /\ due' = [pid \in pids |-> due[pid] + worth(pid)]
      /\ handedOut' = handedOut + speed
      /\ poolInfo' = poolInfo /\ totalAllocPoint' = totalAllocPoint /\ tribePerBlock' = tribePerBlock
      /\ ledger' = ledger /\ rewardsArray' = rewardsArray /\ speed' = speed
    BY DEF NextBlock, AdvanceBlock, chiefVars, rewardVars, SyncInv, ChiefInv, ChiefTypeOK
<1>3. pids' = pids /\ requiredCompSpeed' = requiredCompSpeed
    BY <1>2 DEF pids, requiredCompSpeed
<1>4. ASSUME NEW pid \in pids
      PROVE  worth(pid) \in Nat /\ due[pid] \in Nat /\ Accounted(pid)'
  <2> DEFINE l == poolInfo[pid].lastRewardBlock
             w == worth(pid)
             e == ledger[pid].emitted
             d == due[pid]
  <2>1. ChiefInv /\ Accounted(pid) /\ d \in Nat
    BY DEF SyncInv
  <2>2. poolInfo[pid] \in Pool /\ ledger[pid] \in Entry
    BY <2>1, PoolFacts
  <2>3. l \in Nat /\ e \in Nat
    BY <2>2 DEF Pool, Entry
  <2>4. 1 <= l /\ l <= block /\ e + (block - l) * w - d \in 0..(l - 1)
    BY <1>2, <2>1, <2>3 DEF Accounted
  <2>5. w \in Nat /\ (block - l) * w \in Nat
    BY <2>1, <2>4, RewardNumbers
  <2>6. worth(pid)' = w /\ due'[pid] = d + w
    BY <1>2 DEF worth
  <2> HIDE DEF l, w, e, d
  <2>7. ((block + 1) - l) * w = (block - l) * w + w
    <3>1. PICK n \in Nat : n = block - l
      BY <1>2, <2>3, <2>4
    <3>2. (n + 1) * w = n * w + 1 * w
      BY <2>5, <3>1, Expands
    <3>3. (block + 1) - l = n + 1
      BY <1>2, <2>3, <3>1
    <3> QED BY <2>5, <3>1, <3>2, <3>3
  <2>8. e + ((block + 1) - l) * w - (d + w) \in 0..(l - 1)
    BY <2>1, <2>3, <2>4, <2>5, <2>7
  <2>9. l \in 1..(block + 1)
    BY <1>2, <2>3, <2>4
  <2> QED BY <1>2, <2>1, <2>5, <2>6, <2>8, <2>9 DEF Accounted, l, e, d, w
<1>5. due' \in [pids' -> Nat]
    BY <1>2, <1>3, <1>4
<1>6. handedOut' = due'[wrapperPid]
  <2>1. handedOut = due[wrapperPid] /\ speed = requiredCompSpeed /\ wrapperPid \in pids
        /\ poolInfo[wrapperPid].virtualTotalSupply > 0
    BY DEF SyncInv
  <2>2. worth(wrapperPid) = requiredCompSpeed
    BY <2>1 DEF worth, requiredCompSpeed
  <2> QED BY <1>2, <2>1, <2>2
<1> QED BY <1>1, <1>2, <1>3, <1>4, <1>5, <1>6 DEF SyncInv

\* A call through the synchronisation: all pools are updated, one thing changes, and the
\* distributor follows.
IsSyncCall ==
    /\ pids \subseteq pids'
    /\ \A p \in pids' \ pids : /\ poolInfo'[p].lastRewardBlock = block /\ poolInfo'[p].virtualTotalSupply = 0
                               /\ ledger'[p].emitted = 0 /\ due'[p] = 0
    /\ \A p \in pids : /\ poolInfo'[p].lastRewardBlock = block
                       /\ poolInfo'[p].virtualTotalSupply = poolInfo[p].virtualTotalSupply
                       /\ ledger'[p] = massEntered[p]
                       /\ due'[p] = due[p]
    /\ due' \in [pids' -> Nat] /\ rewardsArray' \in Seq(Nat)
    /\ speed' = requiredCompSpeed'
    /\ UNCHANGED <<block, handedOut>>

\* The last block of an updated pool is the present one.
LEMMA UpdatedNow == ASSUME ChiefInv, NEW p \in pids PROVE updated(poolInfo[p]).lastRewardBlock = block
<1>1. poolInfo[p] \in Pool
    BY PoolFacts
<1> QED BY <1>1 DEF updated, Pool

\* Such a call keeps the invariant.
LEMMA SyncCallKeeps == ASSUME SyncInv, ChiefInv', IsSyncCall PROVE SyncInv'
<1>1. block' = block /\ handedOut' = handedOut /\ block \in Nat /\ block >= 1
  <2>1. wrapperPid \in pids
    BY DEF SyncInv
  <2> QED BY <2>1, CreditedNow DEF IsSyncCall
<1>2. ASSUME NEW p \in pids PROVE Accounted(p)'
  <2>1. ledger[p] \in Entry
    BY PoolFacts DEF SyncInv
  <2>2. massEntered[p] = [ledger[p] EXCEPT !.emitted = @ + tribeReward(poolInfo[p])]
    BY MassFacts DEF SyncInv
  <2>3. ledger'[p].emitted = credited(p)
    BY <2>1, <2>2 DEF IsSyncCall, credited, Entry
  <2> QED BY <1>1, <2>3, AccountedAfterUpdate DEF IsSyncCall
<1>3. ASSUME NEW p \in pids' \ pids PROVE Accounted(p)'
  <2>1. /\ poolInfo'[p].lastRewardBlock = block /\ poolInfo'[p].virtualTotalSupply = 0
        /\ ledger'[p].emitted = 0 /\ due'[p] = 0
    BY DEF IsSyncCall
  <2>2. worth(p)' = 0
    BY <2>1 DEF worth
  <2>3. (block' - poolInfo'[p].lastRewardBlock) * worth(p)' = 0
    BY <1>1, <2>1, <2>2
  <2>4. 0 + 0 - 0 \in 0..(block - 1) /\ block \in 1..block
    BY <1>1
  <2> QED BY <1>1, <2>1, <2>3, <2>4 DEF Accounted
<1>4. wrapperPid \in pids' /\ poolInfo'[wrapperPid].virtualTotalSupply > 0 /\ handedOut' = due'[wrapperPid]
    BY <1>1 DEF SyncInv, IsSyncCall
<1> QED BY <1>2, <1>3, <1>4 DEF SyncInv, IsSyncCall

\* Calls that change no number of pools.
LEMMA OldPools ==
    ASSUME SyncInv, NEW pools, DOMAIN pools = pids, poolInfo' = pools, ledger' = massEntered,
           \A p \in pids : /\ pools[p].lastRewardBlock = massUpdated[p].lastRewardBlock
                           /\ pools[p].virtualTotalSupply = massUpdated[p].virtualTotalSupply,
           rewardsArray' \in Seq(Nat), speed' = requiredCompSpeed', UNCHANGED <<due, block, handedOut>>
    PROVE  IsSyncCall
<1>1. pids' = pids
    BY DEF pids
<1>2. ASSUME NEW p \in pids
      PROVE  /\ poolInfo'[p].lastRewardBlock = block
             /\ poolInfo'[p].virtualTotalSupply = poolInfo[p].virtualTotalSupply
  <2>1. massUpdated[p] = updated(poolInfo[p])
        /\ massUpdated[p].virtualTotalSupply = poolInfo[p].virtualTotalSupply
    BY MassFacts DEF SyncInv
  <2>2. updated(poolInfo[p]).lastRewardBlock = block
    BY UpdatedNow DEF SyncInv
  <2> QED BY <2>1, <2>2
<1>3. due \in [pids -> Nat]
    BY DEF SyncInv
<1> QED BY <1>1, <1>2, <1>3 DEF IsSyncCall

\* A new reward per block.
LEMMA NewRewardKeeps ==
    ASSUME SyncInv, NEW caller, NEW reward \in Nat, newBlockReward(caller, reward),
           rewardsArray' \in Seq(Nat), UNCHANGED <<block, coreRefVars>>
    PROVE  SyncInv'
<1>0. ChiefInv
    BY DEF SyncInv
<1>1. /\ massUpdated \in Seq(Pool) /\ DOMAIN massUpdated = pids /\ total(allocW, massUpdated) = totalAllocPoint
    BY <1>0, MassFacts
<1>2. /\ poolInfo' = massUpdated /\ ledger' = massEntered /\ tribePerBlock' = reward
      /\ totalAllocPoint' = totalAllocPoint /\ UNCHANGED <<rewardMultipliers, stakeVars>>
      /\ due' = due /\ handedOut' = handedOut /\ speed' = requiredCompSpeed' /\ block' = block
    BY DEF newBlockReward, setAutoRewardsDistribution
<1>3. IsMassStep(massUpdated)
    BY <1>1, <1>2 DEF IsMassStep
<1>4. ChiefInv'
    BY <1>0, <1>1, <1>3, MassStepKeeps
<1>5. IsSyncCall
    BY <1>1, <1>2, OldPools
<1> QED BY <1>4, <1>5, SyncCallKeeps

\* New allocation points, and perhaps an open lock, for one pool.
LEMMA ChangePoolKeeps ==
    ASSUME SyncInv, NEW pid \in pids, NEW points \in Nat, NEW unlock \in BOOLEAN,
           changePool(pid, points, unlock), rewardsArray' = rewardsArray, UNCHANGED <<block, coreRefVars>>
    PROVE  SyncInv'
<1> DEFINE old == massUpdated[pid]
           new == [old EXCEPT !.allocPoint = points, !.unlocked = @ \/ unlock]
           pools == [massUpdated EXCEPT ![pid] = new]
<1>0. ChiefInv /\ rewardsArray \in Seq(Nat)
    BY DEF SyncInv
<1>1. /\ massUpdated \in Seq(Pool) /\ DOMAIN massUpdated = pids /\ total(allocW, massUpdated) = totalAllocPoint
      /\ old.allocPoint = poolInfo[pid].allocPoint
    BY <1>0, MassFacts
<1>2. /\ totalAllocPoint' = totalAllocPoint - poolInfo[pid].allocPoint + points
      /\ poolInfo' = [massUpdated EXCEPT ![pid].allocPoint = points, ![pid].unlocked = @ \/ unlock]
      /\ ledger' = massEntered
      /\ tribePerBlock' = tribePerBlock /\ UNCHANGED <<rewardMultipliers, stakeVars>>
      /\ due' = due /\ handedOut' = handedOut /\ speed' = requiredCompSpeed' /\ block' = block
    BY DEF changePool, setAutoRewardsDistribution
<1>3. old \in Pool
    BY <1>1, ElementOfSeq, LenProperties
<1>4. /\ new \in Pool /\ new.allocPoint = points /\ new.virtualTotalSupply = old.virtualTotalSupply
      /\ new.accTribePerShare = old.accTribePerShare /\ new.lastRewardBlock = old.lastRewardBlock
  <2> HIDE DEF old
  <2> QED BY <1>3 DEF Pool
<1>5. poolInfo' = pools
    BY <1>1, <1>2
<1> HIDE DEF new, old
<1>6. pools \in Seq(Pool) /\ total(allocW, pools) = total(allocW, massUpdated) - allocW[old] + allocW[new]
  <2>1. Replaced(pools, massUpdated, pid, new)
    BY DEF Replaced
  <2>2. allocW \in [Pool -> Nat]
    BY <1>1, AllocTotal
  <2>3. /\ pools \in Seq(Pool)
        /\ total(allocW, pools) = total(allocW, massUpdated) - allocW[massUpdated[pid]] + allocW[new]
    <3> HIDE DEF pools
    <3> QED BY <1>1, <1>4, <2>1, <2>2, TotalReplaced
  <2> QED BY <2>3 DEF old
<1>7. totalAllocPoint' = total(allocW, pools)
  <2>1. allocW[old] = old.allocPoint /\ allocW[new] = points
    BY <1>3, <1>4 DEF allocW
  <2> QED BY <1>1, <1>2, <1>6, <2>1
<1>8. DOMAIN pools = pids /\ \A p \in pids : pools[p] = IF p = pid THEN new ELSE massUpdated[p]
    BY <1>1
<1> HIDE DEF pools
<1>9. \A p \in pids : /\ pools[p].virtualTotalSupply = massUpdated[p].virtualTotalSupply
                       /\ pools[p].accTribePerShare = massUpdated[p].accTribePerShare
                       /\ pools[p].lastRewardBlock = massUpdated[p].lastRewardBlock
    BY <1>4, <1>8 DEF old
<1>10. IsMassStep(pools)
    BY <1>0, <1>2, <1>5, <1>7 DEF IsMassStep, ChiefInv, ChiefTypeOK
<1>11. ChiefInv'
    BY <1>0, <1>6, <1>8, <1>9, <1>10, MassStepKeeps
<1>12. IsSyncCall
    BY <1>0, <1>2, <1>5, <1>8, <1>9, OldPools
<1> QED BY <1>11, <1>12, SyncCallKeeps

\* A new pool.
LEMMA AddPoolKeeps ==
    ASSUME SyncInv, NEW points \in AllocPoints, addPool(points), UNCHANGED <<block, coreRefVars>>
    PROVE  SyncInv'
<1> DEFINE fresh == [virtualTotalSupply |-> 0, accTribePerShare |-> 0, lastRewardBlock |-> block,
                     allocPoint |-> points, unlocked |-> FALSE]
           none == [emitted |-> 0, paid |-> 0, roundings |-> 0]
           n == Len(poolInfo)
<1>0. /\ ChiefInv /\ rewardsArray \in Seq(Nat) /\ due \in [pids -> Nat] /\ block \in Nat
      /\ poolInfo \in Seq(Pool)
    BY DEF SyncInv, ChiefInv, ChiefTypeOK
<1>1. /\ massUpdated \in Seq(Pool) /\ DOMAIN massUpdated = pids /\ massEntered \in [pids -> Entry]
      /\ total(allocW, massUpdated) = totalAllocPoint
      /\ \A p \in pids : /\ massUpdated[p].virtualTotalSupply = poolInfo[p].virtualTotalSupply
                         /\ massUpdated[p] = updated(poolInfo[p])
                         /\ PoolInv(massUpdated[p], userInfo[p], depositInfo[p], stakedBalance[p], massEntered[p])
    BY <1>0, MassFacts
<1>2. points \in Nat /\ [lock \in LockLengths |-> SCALE_FACTOR] \in [LockLengths -> Nat]
    BY TribalChiefAssumption
<1>3. IsAddition(massUpdated, massEntered, points, [lock \in LockLengths |-> SCALE_FACTOR])
    BY DEF addPool, IsAddition, Appended
<1>4. ChiefInv'
    BY <1>0, <1>1, <1>2, <1>3, PoolAdded
<1>5. n \in Nat /\ pids = 1..n
    BY <1>0, LenProperties DEF pids
<1>6. /\ poolInfo' \in [1..(n + 1) -> Pool] /\ poolInfo'[n + 1] = fresh
      /\ \A p \in 1..n : poolInfo'[p] = massUpdated[p]
  <2>1. massUpdated \in [1..n -> Pool]
    BY <1>1, <1>5, LenProperties
  <2>2. fresh \in Pool
    BY <1>0, <1>2 DEF Pool
  <2>3. Appended(poolInfo', massUpdated, fresh)
    BY DEF addPool, Appended
  <2> HIDE DEF fresh
  <2>4. IsExtended(Pool, n, massUpdated, fresh, poolInfo')
    BY <1>5, <2>1, <2>2, <2>3, AppendFunction
  <2> QED BY <2>4 DEF IsExtended
<1>7. /\ ledger' \in [1..(n + 1) -> Entry] /\ ledger'[n + 1] = none
      /\ \A p \in 1..n : ledger'[p] = massEntered[p]
  <2>1. none \in Entry /\ Appended(ledger', massEntered, none)
    BY DEF addPool, Appended, Entry
  <2> HIDE DEF none
  <2>2. IsExtended(Entry, n, massEntered, none, ledger')
    BY <1>1, <1>5, <2>1, AppendFunction
  <2> QED BY <2>2 DEF IsExtended
<1>8. due' \in [1..(n + 1) -> Nat] /\ due'[n + 1] = 0 /\ \A p \in 1..n : due'[p] = due[p]
  <2>1. 0 \in Nat /\ Appended(due', due, 0)
    BY DEF addPool, Appended
  <2>2. IsExtended(Nat, n, due, 0, due')
    BY <1>0, <1>5, <2>1, AppendFunction
  <2> QED BY <2>2 DEF IsExtended
<1>9. pids' = 1..(n + 1)
    BY <1>6 DEF pids
<1>10. pids \subseteq pids' /\ \A p \in pids' \ pids : p = n + 1
    BY <1>5, <1>9
<1>11. ASSUME NEW p \in pids
       PROVE  /\ poolInfo'[p].lastRewardBlock = block
              /\ poolInfo'[p].virtualTotalSupply = poolInfo[p].virtualTotalSupply
              /\ ledger'[p] = massEntered[p] /\ due'[p] = due[p]
  <2>1. updated(poolInfo[p]).lastRewardBlock = block
    BY <1>0, UpdatedNow
  <2>2. poolInfo'[p] = massUpdated[p] /\ ledger'[p] = massEntered[p] /\ due'[p] = due[p]
    BY <1>5, <1>6, <1>7, <1>8
  <2> QED BY <1>1, <2>1, <2>2
<1>12. /\ poolInfo'[n + 1].lastRewardBlock = block /\ poolInfo'[n + 1].virtualTotalSupply = 0
       /\ ledger'[n + 1].emitted = 0
    BY <1>6, <1>7
<1>13. /\ rewardsArray' \in Seq(Nat) /\ speed' = requiredCompSpeed' /\ block' = block /\ handedOut' = handedOut
    BY <1>0 DEF addPool, executes, setAutoRewardsDistribution
<1>14. IsSyncCall
  <2> HIDE DEF n
  <2>1. \A p \in pids' \ pids : /\ poolInfo'[p].lastRewardBlock = block /\ poolInfo'[p].virtualTotalSupply = 0
                               /\ ledger'[p].emitted = 0 /\ due'[p] = 0
    BY <1>8, <1>10, <1>12
  <2> QED BY <1>8, <1>9, <1>10, <1>11, <1>13, <2>1 DEF IsSyncCall
<1> QED BY <1>4, <1>14, SyncCallKeeps

-----------------------------------------------------------------------------
\* An operation on one pool updates it first; only its own weight may change.
IsUpdateOf(pid) ==
    /\ \E pool : /\ poolInfo' = [poolInfo EXCEPT ![pid] = pool]
                 /\ pool.lastRewardBlock = block /\ pool.allocPoint = poolInfo[pid].allocPoint
                 /\ pid = wrapperPid => pool.virtualTotalSupply = poolInfo[pid].virtualTotalSupply
    /\ \E pay, kept : ledger' = entered(pid, pay, kept)
    /\ UNCHANGED <<block, rewardVars, syncVars>>

\* Such an operation keeps the invariant.
LEMMA UpdateOfKeeps == ASSUME SyncInv, ChiefInv', NEW pid \in pids, IsUpdateOf(pid) PROVE SyncInv'
<1>1. PICK pool : /\ poolInfo' = [poolInfo EXCEPT ![pid] = pool]
                  /\ pool.lastRewardBlock = block /\ pool.allocPoint = poolInfo[pid].allocPoint
                  /\ pid = wrapperPid => pool.virtualTotalSupply = poolInfo[pid].virtualTotalSupply
    BY DEF IsUpdateOf
<1>2. PICK pay, kept : ledger' = entered(pid, pay, kept)
    BY DEF IsUpdateOf
<1>3. /\ block' = block /\ totalAllocPoint' = totalAllocPoint /\ tribePerBlock' = tribePerBlock
      /\ rewardsArray' = rewardsArray /\ speed' = speed /\ due' = due /\ handedOut' = handedOut
    BY DEF IsUpdateOf, rewardVars, syncVars
<1>4. pids' = pids /\ DOMAIN ledger = pids
    BY <1>1 DEF pids, SyncInv, ChiefInv, ChiefTypeOK
<1>5. \A p \in pids : /\ poolInfo'[p] = IF p = pid THEN pool ELSE poolInfo[p]
                      /\ p # pid => ledger'[p] = ledger[p]
    BY <1>1, <1>2, <1>4 DEF entered, pids
<1>6. ledger'[pid].emitted = credited(pid)
    BY <1>2, <1>4 DEF entered, credited
<1>7. Accounted(pid)'
    BY <1>1, <1>3, <1>4, <1>5, <1>6, AccountedAfterUpdate
<1>8. ASSUME NEW p \in pids, p # pid PROVE Accounted(p)'
    BY <1>3, <1>5, <1>8, AccountedUnchanged
<1>9. /\ wrapperPid \in pids' /\ poolInfo'[wrapperPid].virtualTotalSupply > 0
      /\ poolInfo'[wrapperPid].allocPoint = poolInfo[wrapperPid].allocPoint
    BY <1>1, <1>4, <1>5 DEF SyncInv
<1>10. requiredCompSpeed' = requiredCompSpeed
    BY <1>3, <1>9 DEF requiredCompSpeed
<1> QED BY <1>3, <1>4, <1>7, <1>8, <1>9, <1>10 DEF SyncInv

\* The fields of an updated pool, before and after its weight changes.
LEMMA UpdatedFields ==
    ASSUME ChiefInv, NEW pid \in pids
    PROVE  /\ updated(poolInfo[pid]).lastRewardBlock = block
           /\ updated(poolInfo[pid]).allocPoint = poolInfo[pid].allocPoint
           /\ updated(poolInfo[pid]).virtualTotalSupply = poolInfo[pid].virtualTotalSupply
           /\ \A x : LET pool == [updated(poolInfo[pid]) EXCEPT !.virtualTotalSupply = x]
                    IN  pool.lastRewardBlock = block /\ pool.allocPoint = poolInfo[pid].allocPoint
<1>1. PoolInv(poolInfo[pid], userInfo[pid], depositInfo[pid], stakedBalance[pid], ledger[pid])
      /\ block \in Nat /\ totalAllocPoint \in Nat /\ tribePerBlock \in Nat
    BY PoolFacts
<1>2. /\ updated(poolInfo[pid]).virtualTotalSupply = poolInfo[pid].virtualTotalSupply
      /\ updated(poolInfo[pid]).allocPoint = poolInfo[pid].allocPoint
      /\ updated(poolInfo[pid]) \in Pool
    BY <1>1, UpdateKeeps DEF PoolInv, PoolTyped
<1>3. updated(poolInfo[pid]).lastRewardBlock = block
    BY UpdatedNow
<1> QED BY <1>2, <1>3 DEF Pool

\* What users do, and updates by anybody.
LEMMA PoolStepKeepsSync == ASSUME SyncInv, PoolStep, UNCHANGED <<block, coreRefVars>> PROVE SyncInv'
<1>0. ChiefInv /\ wrapperPid \in pids
    BY DEF SyncInv
<1>1. ChiefInv'
  <2>1. TCNext
    BY <1>0 DEF PoolStep, TCNext, StakerStep
  <2> QED BY <1>0, <2>1, ChiefStepKeeps
<1> USE DEF IsUpdateOf
<1>2. ASSUME NEW pid \in pids, updatePool(pid) PROVE IsUpdateOf(pid)
  <2> DEFINE pool == updated(poolInfo[pid])
  <2>1. /\ pool.lastRewardBlock = block /\ pool.allocPoint = poolInfo[pid].allocPoint
        /\ pool.virtualTotalSupply = poolInfo[pid].virtualTotalSupply
    BY <1>0, UpdatedFields
  <2>2. poolInfo' = [poolInfo EXCEPT ![pid] = pool] /\ ledger' = entered(pid, 0, 0) /\ UNCHANGED rewardVars
    BY <1>2 DEF updatePool
  <2> HIDE DEF pool
  <2> QED BY <2>1, <2>2 DEF PoolStep
<1>3. ASSUME NEW pid \in pids, NEW user \in Users, harvest(user, pid) PROVE IsUpdateOf(pid)
  <2> DEFINE pool == updated(poolInfo[pid])
  <2>1. /\ pool.lastRewardBlock = block /\ pool.allocPoint = poolInfo[pid].allocPoint
        /\ pool.virtualTotalSupply = poolInfo[pid].virtualTotalSupply
    BY <1>0, UpdatedFields
  <2>2. /\ poolInfo' = [poolInfo EXCEPT ![pid] = pool]
        /\ ledger' = entered(pid, pendingTribe(pid, user), 0) /\ UNCHANGED rewardVars
    BY <1>3 DEF harvest
  <2> HIDE DEF pool
  <2> QED BY <2>1, <2>2 DEF PoolStep
<1>4. ASSUME NEW pid \in pids \ {wrapperPid}, NEW user \in Users, StakerStep(user, pid) PROVE IsUpdateOf(pid)
  <2> DEFINE pool(x) == [updated(poolInfo[pid]) EXCEPT !.virtualTotalSupply = x]
  <2>1. \A x : pool(x).lastRewardBlock = block /\ pool(x).allocPoint = poolInfo[pid].allocPoint
    BY <1>0, UpdatedFields
  <2>2. CASE harvest(user, pid)
    BY <1>3, <2>2
  <2>3. CASE ~harvest(user, pid)
    <3> DEFINE OtherWeight == /\ \E x : poolInfo' = [poolInfo EXCEPT ![pid] = pool(x)]
                            /\ \E pay, kept : ledger' = entered(pid, pay, kept)
                            /\ UNCHANGED rewardVars
    <3>1. OtherWeight
      <4>1. ASSUME NEW amount \in Amounts, NEW lock \in LockLengths, deposit(user, pid, amount, lock)
            PROVE  OtherWeight
        BY <4>1 DEF deposit
      <4>2. ASSUME NEW amount \in Amounts, NEW index \in DOMAIN depositInfo[pid][user],
                   withdrawFromDeposit(user, pid, amount, index)
            PROVE  OtherWeight
        BY <4>2 DEF withdrawFromDeposit
      <4>3. ASSUME withdrawAllAndHarvest(user, pid) PROVE OtherWeight
        BY <4>3 DEF withdrawAllAndHarvest
      <4>4. ASSUME emergencyWithdraw(user, pid) PROVE OtherWeight
        BY <4>4 DEF emergencyWithdraw
      <4> QED BY <1>4, <2>3, <4>1, <4>2, <4>3, <4>4 DEF StakerStep
    <3> HIDE DEF pool
    <3> QED BY <2>1, <3>1 DEF PoolStep
  <2> QED BY <2>2, <2>3
<1>5. \E pid \in pids : IsUpdateOf(pid)
    BY <1>0, <1>2, <1>3, <1>4 DEF PoolStep
<1> QED BY <1>1, <1>5, UpdateOfKeeps

\* Every step keeps the invariant.
LEMMA SyncStepKeeps == ASSUME SyncInv, [SyncNext]_<<vars, syncVars>> PROVE SyncInv'
<1>0. ChiefInv /\ rewardsArray \in Seq(Nat)
    BY DEF SyncInv
<1>1. ASSUME autoDecreaseRewards, UNCHANGED <<block, coreRefVars>> PROVE SyncInv'
  <2>1. rewardsArray # <<>> /\ Len(rewardsArray) \in Nat /\ Len(rewardsArray) > 0
    BY <1>0, <1>1, EmptySeq, LenProperties DEF autoDecreaseRewards, isRewardDecreaseAvailable
  <2>2. Last(rewardsArray) \in Nat
    BY <1>0, <2>1, ElementOfSeq DEF Last
  <2>3. Front(rewardsArray) \in Seq(Nat)
    <3>1. \A i \in 1..(Len(rewardsArray) - 1) : rewardsArray[i] \in Nat
      BY <1>0, <2>1, ElementOfSeq
    <3> QED BY <2>1, <3>1, SubSeqProperties DEF Front
  <2> QED BY <1>1, <2>2, <2>3, NewRewardKeeps DEF autoDecreaseRewards
<1>2. ASSUME NEW reward \in BlockRewards, decreaseRewards(reward), UNCHANGED <<block, coreRefVars>> PROVE SyncInv'
  <2>1. reward \in Nat
    BY TribalChiefAssumption
  <2> QED BY <1>0, <1>2, <2>1, NewRewardKeeps DEF decreaseRewards, executes
<1>3. ASSUME NEW points \in AllocPoints, addPool(points), UNCHANGED <<block, coreRefVars>> PROVE SyncInv'
    BY <1>3, AddPoolKeeps
<1>4. ASSUME NEW pid \in pids, NEW points \in AllocPoints, setPool(pid, points), UNCHANGED <<block, coreRefVars>>
      PROVE  SyncInv'
  <2>1. points \in Nat
    BY TribalChiefAssumption
  <2> QED BY <1>4, <2>1, ChangePoolKeeps DEF setPool, executes
<1>5. ASSUME NEW pid \in pids, resetPool(pid), UNCHANGED <<block, coreRefVars>> PROVE SyncInv'
    BY <1>5, ChangePoolKeeps DEF resetPool, executes
<1>6. ASSUME \/ \E flag \in BOOLEAN : setDistributorPaused(flag) /\ UNCHANGED <<block, coreRefVars>>
             \/ UNCHANGED <<vars, syncVars>>
      PROVE  SyncInv'
  <2>1. /\ UNCHANGED <<chiefVars, coreRefVars>> /\ block' = block
        /\ rewardsArray' = rewardsArray /\ speed' = speed /\ due' = due /\ handedOut' = handedOut
    BY <1>6 DEF setDistributorPaused, vars, syncVars
  <2>2. ChiefInv'
    BY <1>0, <2>1, ChiefStepKeeps DEF vars
  <2>3. /\ poolInfo' = poolInfo /\ ledger' = ledger
        /\ totalAllocPoint' = totalAllocPoint /\ tribePerBlock' = tribePerBlock
    BY <2>1 DEF chiefVars, rewardVars
  <2>4. pids' = pids /\ requiredCompSpeed' = requiredCompSpeed
    BY <2>3 DEF pids, requiredCompSpeed
  <2>5. \A pid \in pids : Accounted(pid)'
    BY <2>1, <2>3, AccountedUnchanged
  <2> QED BY <2>1, <2>2, <2>3, <2>4, <2>5 DEF SyncInv
<1>7. ASSUME PoolStep, UNCHANGED <<block, coreRefVars>> PROVE SyncInv'
    BY <1>7, PoolStepKeepsSync
<1>8. ASSUME NextBlock, UNCHANGED coreRefVars PROVE SyncInv'
    BY <1>8, NextBlockKeeps
<1> QED BY <1>1, <1>2, <1>3, <1>4, <1>5, <1>6, <1>7, <1>8 DEF SyncNext

\* The wrapper's pool at the start: one token staked, nothing owed.
LEMMA WrapperPool ==
    ASSUME NEW pool \in Pool, pool.virtualTotalSupply = 1, pool.accTribePerShare = 0, NEW wrapper \in Users
    PROVE  PoolInv(pool,
                   [u \in Users |-> IF u = wrapper THEN [rewardDebt |-> 0, virtualAmount |-> 1] ELSE NoUser],
                   [u \in Users |-> IF u = wrapper
                        THEN <<[amount |-> 1, unlockBlock |-> 1, multiplier |-> SCALE_FACTOR]>> ELSE <<>>],
                   1, [emitted |-> 0, paid |-> 0, roundings |-> 0])
<1> DEFINE pool0 == [pool EXCEPT !.virtualTotalSupply = 0]
           users == [u \in Users |-> NoUser]
           deps == [u \in Users |-> <<>>]
           entry == [emitted |-> 0, paid |-> 0, roundings |-> 0]
           info == [rewardDebt |-> 0, virtualAmount |-> 1]
           dep == [amount |-> 1, unlockBlock |-> 1, multiplier |-> SCALE_FACTOR]
<1>1. pool0 \in Pool /\ pool0.virtualTotalSupply = 0 /\ pool0.accTribePerShare = 0
    BY DEF Pool
<1>2. PoolInv(pool0, users, deps, 0, entry)
  <2> HIDE DEF pool0
  <2> QED BY <1>1, NewPool
<1>3. SCALE_FACTOR \in Nat /\ SCALE_FACTOR > 0 /\ ACC_TRIBE_PRECISION \in Nat
    BY TribalChiefAssumption
<1>4. dep \in Deposit /\ virtual(dep.amount, dep.multiplier) = 1
  <2>1. (1 * SCALE_FACTOR) \div SCALE_FACTOR = 1
    BY <1>3, SMT
  <2> QED BY <1>3, <2>1 DEF Deposit, virtual
<1>5. <<>> \in Seq(Deposit) /\ staked(<<>>) = 0 /\ weight(<<>>) = 0
    BY NoDeposits
<1>6. <<dep>> \in Seq(Deposit) /\ staked(<<dep>>) = 1 /\ weight(<<dep>>) = 1
  <2>1. Appended(<<dep>>, <<>>, dep) /\ dep.amount = 1
    BY DEF Appended
  <2> HIDE DEF dep
  <2>2. /\ <<dep>> \in Seq(Deposit) /\ staked(<<dep>>) = staked(<<>>) + dep.amount
        /\ weight(<<dep>>) = weight(<<>>) + virtual(dep.amount, dep.multiplier)
    BY <1>4, <1>5, <2>1, DepositAppended
  <2> QED BY <1>4, <1>5, <2>1, <2>2
<1>7. info \in User /\ owed(pool0, info) = 0 /\ NoUser \in User /\ owed(pool0, NoUser) = 0
  <2>1. 1 * 0 = 0 /\ ACC_TRIBE_PRECISION * 0 = 0
    BY <1>3
  <2> HIDE DEF pool0
  <2> QED BY <1>1, <2>1, NothingOwed DEF owed, User
<1>8. /\ users[wrapper] = NoUser /\ deps[wrapper] = <<>> /\ NoUser.virtualAmount = 0
      /\ info.virtualAmount = 1 /\ entry \in Entry /\ entry.emitted = 0 /\ entry.paid = 0 /\ entry.roundings = 0
      /\ pool.accTribePerShare = pool0.accTribePerShare /\ pool0.virtualTotalSupply = 0
    BY <1>1 DEF NoUser, Entry
<1>9. ACC_TRIBE_PRECISION * 0 = 0 /\ ACC_TRIBE_PRECISION * (0 + 0) = 0
    BY <1>3
<1>10. /\ [users EXCEPT ![wrapper] = info] = [u \in Users |-> IF u = wrapper THEN info ELSE NoUser]
       /\ [deps EXCEPT ![wrapper] = <<dep>>] = [u \in Users |-> IF u = wrapper THEN <<dep>> ELSE <<>>]
    OBVIOUS
<1> HIDE DEF pool0, users, deps, entry, info, dep
<1>11. IsUserStep(wrapper, pool0, users, deps, 0, entry, pool, info, <<dep>>, 1, entry)
    BY <1>5, <1>6, <1>7, <1>8, <1>9 DEF IsUserStep
<1>12. PoolInv(pool, [users EXCEPT ![wrapper] = info], [deps EXCEPT ![wrapper] = <<dep>>], 1, entry)
    BY <1>2, <1>11, UserStepKeeps
<1> QED BY <1>10, <1>12 DEF info, dep, entry

\* The synchronisation as deployed, over one pool.
LEMMA SyncInitially == SyncInit => SyncInv
<1> SUFFICES ASSUME SyncInit PROVE SyncInv
    OBVIOUS
<1> DEFINE pool == [virtualTotalSupply |-> 1, accTribePerShare |-> 0, lastRewardBlock |-> 1,
                    allocPoint |-> 1, unlocked |-> FALSE]
<1>1. /\ block = 1 /\ totalAllocPoint = 1 /\ tribePerBlock = InitialBlockReward /\ InitialBlockReward \in Nat
      /\ tribeBalance \in Nat /\ poolInfo = <<pool>> /\ stakedBalance = <<1>>
      /\ ledger = <<[emitted |-> 0, paid |-> 0, roundings |-> 0]>>
      /\ rewardMultipliers = <<[lock \in LockLengths |-> SCALE_FACTOR]>>
      /\ speed = InitialBlockReward /\ due = <<0>> /\ handedOut = 0
    BY TribalChiefAssumption DEF SyncInit
<1>2. pool \in Pool /\ poolInfo \in Seq(Pool) /\ pids = {1} /\ poolInfo[1] = pool
    BY <1>1 DEF pids, Pool
<1>3. PICK wrapper \in Users :
        /\ userInfo = <<[u \in Users |-> IF u = wrapper THEN [rewardDebt |-> 0, virtualAmount |-> 1] ELSE NoUser]>>
        /\ depositInfo = <<[u \in Users |-> IF u = wrapper
                THEN <<[amount |-> 1, unlockBlock |-> 1, multiplier |-> SCALE_FACTOR]>> ELSE <<>>]>>
    BY DEF SyncInit
<1>4. PoolInv(poolInfo[1], userInfo[1], depositInfo[1], stakedBalance[1], ledger[1])
  <2>1. pool.virtualTotalSupply = 1 /\ pool.accTribePerShare = 0
    OBVIOUS
  <2>2. ASSUME NEW x PROVE <<x>>[1] = x
    OBVIOUS
  <2> HIDE DEF pool
  <2> QED BY <1>1, <1>2, <1>3, <2>1, <2>2, WrapperPool
<1>5. ASSUME NEW T, NEW x \in T PROVE <<x>> \in [{1} -> T]
    OBVIOUS
<1>6. ChiefTypeOK
  <2>1. CoreRefTypeOK
    BY DEF SyncInit, CoreRefTypeOK, TribeRoles
  <2>2. [lock \in LockLengths |-> SCALE_FACTOR] \in [LockLengths -> Nat]
    BY TribalChiefAssumption
  <2>3. rewardMultipliers \in [pids -> [LockLengths -> Nat]] /\ stakedBalance \in [pids -> Nat]
    BY <1>1, <1>2, <1>5, <2>2
  <2>4. /\ userInfo[1] \in [Users -> User] /\ depositInfo[1] \in [Users -> Seq(Deposit)] /\ ledger[1] \in Entry
        /\ userInfo = <<userInfo[1]>> /\ depositInfo = <<depositInfo[1]>> /\ ledger = <<ledger[1]>>
    BY <1>1, <1>3, <1>4 DEF PoolInv, PoolTyped
  <2>5. /\ userInfo \in [pids -> [Users -> User]] /\ depositInfo \in [pids -> [Users -> Seq(Deposit)]]
        /\ ledger \in [pids -> Entry]
    BY <1>2, <1>5, <2>4
  <2> QED BY <1>1, <1>2, <2>1, <2>3, <2>5 DEF ChiefTypeOK
<1>7. AllocPointsSum
  <2>1. PICK none \in Seq(Pool) : none = <<>>
    <3>1. <<>> \in Seq(Pool)
      BY EmptySeq
    <3> QED BY <3>1, Zenon
  <2>2. Appended(poolInfo, none, pool)
    BY <1>1, <2>1 DEF Appended
  <2>3. allocW \in [Pool -> Nat] /\ allocW[pool] = 1
    BY <1>2, AllocTotal DEF allocW
  <2> HIDE DEF pool
  <2>4. total(allocW, poolInfo) = total(allocW, none) + allocW[pool]
    BY <1>2, <2>2, <2>3, TotalAppended
  <2>5. total(allocW, poolInfo) = 1
    BY <2>1, <2>3, <2>4, TotalOfNothing
  <2> QED BY <1>1, <1>2, <2>5, AllocTotal DEF AllocPointsSum, pids
<1>8. ChiefInv
    BY <1>2, <1>4, <1>6, <1>7 DEF ChiefInv
<1>9. rewardsArray \in Seq(Nat)
  <2>1. rewardsArray = [i \in 1..Len(rewards) |-> rewards[(Len(rewards) - i) + 1]]
    BY DEF SyncInit, Reverse
  <2>2. rewards \in Seq(Nat) /\ Len(rewards) \in Nat
    BY SyncAssumption, LenProperties
  <2>3. \A i \in 1..Len(rewards) : rewards[(Len(rewards) - i) + 1] \in Nat
    BY <2>2, ElementOfSeq
  <2>4. rewardsArray \in [1..Len(rewards) -> Nat]
    BY <2>1, <2>3
  <2> QED BY <2>2, <2>4, SeqDef
<1>10. speed = requiredCompSpeed
  <2>1. (InitialBlockReward * 1) \div 1 = InitialBlockReward
    BY <1>1, SMT
  <2> QED BY <1>1, <1>2, <2>1 DEF requiredCompSpeed, wrapperPid
<1>11. Accounted(1)
  <2>1. worth(1) = (InitialBlockReward * 1) \div 1
    BY <1>1, <1>2 DEF worth
  <2>2. (InitialBlockReward * 1) \div 1 = InitialBlockReward
    BY <1>1, SMT
  <2>3. (1 - 1) * worth(1) = 0
    BY <1>1, <2>1, <2>2
  <2> QED BY <1>1, <1>2, <2>3 DEF Accounted
<1>12. due \in [pids -> Nat] /\ wrapperPid \in pids /\ poolInfo[wrapperPid].virtualTotalSupply > 0
       /\ handedOut = due[wrapperPid]
    BY <1>1, <1>2 DEF wrapperPid
<1> QED BY <1>2, <1>8, <1>9, <1>10, <1>11, <1>12 DEF SyncInv

\* In every reachable state, for any number of pools, stakers, scheduled decreases and
\* calls of the timelock: the guarantees of TribalChief, and every block accounted for.
THEOREM SyncInvariant == SyncSpec => []SyncInv
<1>1. SyncInit => SyncInv
    BY SyncInitially
<1>2. SyncInv /\ [SyncNext]_<<vars, syncVars>> => SyncInv'
    BY SyncStepKeeps
<1> QED BY <1>1, <1>2, PTL DEF SyncSpec

\* Every pool is credited for each block what that block was worth when it passed, but for
\* the roundings of an update; the distributor hands out no more than its pool earns.
THEOREM SyncRewardsInStep == SyncSpec => []RewardsInStep
<1>1. SyncInv => RewardsInStep
  <2> SUFFICES ASSUME SyncInv PROVE RewardsInStep
    OBVIOUS
  <2>1. DOMAIN due = pids /\ handedOut = due[wrapperPid] /\ wrapperPid \in pids
    BY DEF SyncInv
  <2>2. \A pid \in pids : credited(pid) - due[pid] \in 0..(block - 1)
    BY CreditedNow
  <2>3. handedOut <= credited(wrapperPid)
    BY <2>1, CreditedNow
  <2> QED BY <2>1, <2>2, <2>3 DEF RewardsInStep, CreditedAtItsRate, DistributorCovered
<1> QED BY <1>1, SyncInvariant, PTL

\* What TribalChief guarantees about money in any one state.
ChiefGuarantees == StakesHeld /\ StakeNeverStuck /\ WeightsCovered /\ RewardsCovered /\ AllocPointsSum

\* The synchronisation leaves these guarantees as they are: stakes are held and not stuck,
\* weights and rewards are covered and allocation points add up.
THEOREM SyncKeepsGuarantees == SyncSpec => []ChiefGuarantees
<1>1. SyncInv => ChiefGuarantees
    BY StakesRecorded, StakesFree, WeightsCover, CreditCovers DEF ChiefGuarantees, SyncInv, ChiefInv
<1> QED BY <1>1, SyncInvariant, PTL

\* Nor does a call of the synchronisation take anything from a deposit that is locked.
THEOREM SyncLockedStaysPut == SyncSpec => LockedStaysPut
<1>1. ASSUME SyncInv, [SyncNext]_<<vars, syncVars>>, NEW pid \in pids, NEW user \in Users,
             NEW i \in DOMAIN depositInfo[pid][user], ~unlocked(poolInfo[pid], depositInfo[pid][user][i])
      PROVE  StaysAt(pid, user, i)
  <2>0. ChiefInv /\ wrapperPid \in pids
    BY <1>1 DEF SyncInv
  <2>1. CASE depositInfo'[pid] = depositInfo[pid]
    BY <1>1, <2>1 DEF StaysAt
  <2>2. ASSUME NEW points \in AllocPoints, addPool(points) PROVE depositInfo'[pid] = depositInfo[pid]
    <3> DEFINE n == Len(poolInfo)
               new == [u \in Users |-> <<>>]
    <3>1. n \in Nat /\ pids = 1..n
      BY <2>0, LenProperties DEF ChiefInv, ChiefTypeOK, pids
    <3>2. depositInfo \in [1..n -> [Users -> Seq(Deposit)]]
      BY <2>0, <3>1 DEF ChiefInv, ChiefTypeOK
    <3>3. new \in [Users -> Seq(Deposit)]
      BY NoDeposits
    <3>4. Appended(depositInfo', depositInfo, new)
      BY <2>2 DEF addPool, Appended
    <3> HIDE DEF n, new
    <3>5. IsExtended([Users -> Seq(Deposit)], n, depositInfo, new, depositInfo')
      BY <3>1, <3>2, <3>3, <3>4, AppendFunction
    <3> QED BY <1>1, <3>1, <3>5 DEF IsExtended
  <2>3. ASSUME PoolStep, UNCHANGED <<block, coreRefVars>> PROVE StaysAt(pid, user, i)
    <3>1. TCNext
      BY <2>0, <2>3 DEF PoolStep, TCNext, StakerStep
    <3> QED BY <1>1, <2>0, <3>1, LockedStep
  <2>4. ASSUME \/ autoDecreaseRewards \/ \E reward \in BlockRewards : decreaseRewards(reward)
               \/ \E p \in pids : resetPool(p) \/ \E points \in AllocPoints : setPool(p, points)
        PROVE  depositInfo' = depositInfo
    BY <2>4 DEF autoDecreaseRewards, decreaseRewards, newBlockReward, resetPool, setPool, changePool, stakeVars
  <2>5. ASSUME (\E flag \in BOOLEAN : setDistributorPaused(flag)) \/ NextBlock \/ UNCHANGED <<vars, syncVars>>
        PROVE  depositInfo' = depositInfo
    BY <2>5 DEF setDistributorPaused, NextBlock, vars, chiefVars
  <2> QED BY <1>1, <2>1, <2>2, <2>3, <2>4, <2>5 DEF SyncNext
<1>2. SyncInv /\ [SyncNext]_<<vars, syncVars>>
        => [\A pid \in pids, user \in Users : \A i \in DOMAIN depositInfo[pid][user] :
                ~unlocked(poolInfo[pid], depositInfo[pid][user][i])
                    => /\ i \in DOMAIN depositInfo'[pid][user]
                       /\ depositInfo'[pid][user][i] = depositInfo[pid][user][i]]_vars
    BY <1>1 DEF StaysAt
<1> QED BY <1>2, SyncInvariant, PTL DEF SyncSpec, LockedStaysPut

-----------------------------------------------------------------------------
\* A function that satisfies the recursion of power up to an exponent, or for all.
IsPowerUpto(p, b, n) == \A k \in 0..n : p[k] = IF k = 0 THEN 1 ELSE b * p[k - 1]

\* The function that power chooses.
IsPower(p, b) == p = [k \in Nat |-> IF k = 0 THEN 1 ELSE b * p[k - 1]]

\* power is defined by such a function, if there is one.
LEMMA PowerIs == ASSUME NEW b, NEW n PROVE power(b, n) = (CHOOSE p : IsPower(p, b))[n]
BY DEF power, IsPower

\* There is one up to every exponent,
LEMMA PowerUptoExists == ASSUME NEW b, NEW n \in Nat PROVE \E p : IsPowerUpto(p, b, n)
<1> DEFINE Bad == {k \in Nat : ~\E p : IsPowerUpto(p, b, k)}
<1> SUFFICES ASSUME Bad # {} PROVE FALSE
    OBVIOUS
<1>1. PICK m \in Bad : \A k \in Bad : m <= k
  <2>1. Bad \in SUBSET Nat
    OBVIOUS
  <2> HIDE DEF Bad
  <2> QED BY <2>1, LeastNat
<1>2. m \in Nat /\ ~\E p : IsPowerUpto(p, b, m)
    BY <1>1
<1>3. CASE m = 0
  <2> DEFINE p == [k \in Nat |-> 1]
  <2>1. IsPowerUpto(p, b, 0)
    BY DEF IsPowerUpto
  <2> QED BY <1>2, <1>3, <2>1
<1>4. CASE m # 0
  <2>1. m - 1 \in Nat /\ m - 1 \notin Bad
    <3> HIDE DEF Bad
    <3> QED BY <1>1, <1>2, <1>4
  <2>2. PICK p : IsPowerUpto(p, b, m - 1)
    BY <2>1
  <2> DEFINE q == [k \in Nat |-> IF k = m THEN b * p[m - 1] ELSE p[k]]
  <2>3. \A k \in Nat : q[k] = IF k = m THEN b * p[m - 1] ELSE p[k]
    OBVIOUS
  <2> HIDE DEF q, Bad
  <2>4. ASSUME NEW k \in 0..m PROVE q[k] = IF k = 0 THEN 1 ELSE b * q[k - 1]
    <3>1. CASE k = m
      <4>1. q[k] = b * p[m - 1] /\ q[m - 1] = p[m - 1]
        BY <1>2, <2>1, <2>3, <3>1
      <4> QED BY <1>4, <3>1, <4>1
    <3>2. CASE k # m
      <4>1. k \in 0..(m - 1)
        BY <1>2, <3>2
      <4>2. p[k] = IF k = 0 THEN 1 ELSE b * p[k - 1]
        BY <2>2, <4>1 DEF IsPowerUpto
      <4>3. q[k] = p[k] /\ (k # 0 => q[k - 1] = p[k - 1])
        BY <1>2, <2>3, <3>2, <4>1
      <4> QED BY <4>2, <4>3
    <3> QED BY <3>1, <3>2
  <2> QED BY <1>2, <2>4 DEF IsPowerUpto
<1> QED BY <1>3, <1>4

\* where two of them agree,
LEMMA PowerUptoUnique ==
    ASSUME NEW b, NEW n \in Nat, NEW p, NEW q, IsPowerUpto(p, b, n), NEW m \in Nat, IsPowerUpto(q, b, m), n <= m
    PROVE  p[n] = q[n]
<1> DEFINE Bad == {k \in 0..n : p[k] # q[k]}
<1> SUFFICES ASSUME Bad # {} PROVE FALSE
    OBVIOUS
<1>1. PICK l \in Bad : \A k \in Bad : l <= k
  <2>1. Bad \in SUBSET Nat
    OBVIOUS
  <2> HIDE DEF Bad
  <2> QED BY <2>1, LeastNat
<1>2. l \in 0..n /\ l \in 0..m /\ p[l] # q[l]
    BY <1>1
<1>3. /\ p[l] = IF l = 0 THEN 1 ELSE b * p[l - 1]
      /\ q[l] = IF l = 0 THEN 1 ELSE b * q[l - 1]
    BY <1>2 DEF IsPowerUpto
<1>4. l # 0
    BY <1>2, <1>3
<1>5. l - 1 \in 0..n /\ l - 1 \notin Bad
  <2> HIDE DEF Bad
  <2> QED BY <1>1, <1>2, <1>4
<1> QED BY <1>2, <1>3, <1>5

\* so that there is one for all.
LEMMA PowerExists == ASSUME NEW b PROVE \E p : IsPower(p, b)
<1> DEFINE upto(n) == CHOOSE p : IsPowerUpto(p, b, n)
           p == [k \in Nat |-> upto(k)[k]]
<1>1. ASSUME NEW n \in Nat PROVE IsPowerUpto(upto(n), b, n)
    BY PowerUptoExists
<1>2. \A k \in Nat : p[k] = upto(k)[k]
    OBVIOUS
<1>3. p = [k \in Nat |-> p[k]]
    OBVIOUS
<1> HIDE DEF p, upto
<1>4. ASSUME NEW k \in Nat PROVE p[k] = IF k = 0 THEN 1 ELSE b * p[k - 1]
  <2>1. upto(k)[k] = IF k = 0 THEN 1 ELSE b * upto(k)[k - 1]
    <3>1. k \in 0..k
      OBVIOUS
    <3> QED BY <1>1, <3>1 DEF IsPowerUpto
  <2>2. CASE k = 0
    BY <1>2, <2>1, <2>2
  <2>3. CASE k # 0
    <3>1. k - 1 \in Nat /\ k - 1 <= k
      BY <2>3
    <3>2. upto(k - 1)[k - 1] = upto(k)[k - 1]
      BY <1>1, <3>1, PowerUptoUnique
    <3> QED BY <1>2, <2>1, <2>3, <3>1, <3>2
  <2> QED BY <2>2, <2>3
<1>5. p = [k \in Nat |-> IF k = 0 THEN 1 ELSE b * p[k - 1]]
    BY <1>3, <1>4, Zenon
<1> QED BY <1>5 DEF IsPower

\* The recursion of power, and that powers of naturals are naturals.
LEMMA PowerZero == ASSUME NEW b PROVE power(b, 0) = 1
<1> DEFINE p == CHOOSE c : IsPower(c, b)
<1>1. IsPower(p, b) /\ power(b, 0) = p[0]
    BY PowerExists, PowerIs
<1> HIDE DEF p
<1> QED BY <1>1 DEF IsPower

\* One factor more.
LEMMA PowerNext == ASSUME NEW b, NEW n \in Nat PROVE power(b, n + 1) = b * power(b, n)
<1> DEFINE p == CHOOSE c : IsPower(c, b)
<1>1. IsPower(p, b) /\ power(b, n) = p[n] /\ power(b, n + 1) = p[n + 1]
    BY PowerExists, PowerIs
<1> HIDE DEF p
<1>2. p[n + 1] = IF n + 1 = 0 THEN 1 ELSE b * p[(n + 1) - 1]
    BY <1>1 DEF IsPower
<1>3. n + 1 # 0 /\ (n + 1) - 1 = n
    OBVIOUS
<1> QED BY <1>1, <1>2, <1>3

\* Powers of naturals are naturals.
LEMMA PowerNat == ASSUME NEW b \in Nat, NEW n \in Nat PROVE power(b, n) \in Nat
<1> DEFINE Bad == {k \in Nat : power(b, k) \notin Nat}
<1> SUFFICES ASSUME Bad # {} PROVE FALSE
    OBVIOUS
<1>1. PICK m \in Bad : \A k \in Bad : m <= k
  <2>1. Bad \in SUBSET Nat
    OBVIOUS
  <2> HIDE DEF Bad
  <2> QED BY <2>1, LeastNat
<1>2. m \in Nat /\ power(b, m) \notin Nat
    BY <1>1
<1>3. m # 0
    BY <1>2, PowerZero
<1>4. m - 1 \in Nat /\ m - 1 \notin Bad
  <2> HIDE DEF Bad
  <2> QED BY <1>1, <1>2, <1>3
<1>5. power(b, m - 1) \in Nat
    BY <1>4
<1>6. power(b, m) = b * power(b, m - 1)
  <2>1. power(b, (m - 1) + 1) = b * power(b, m - 1)
    BY <1>4, PowerNext
  <2>2. (m - 1) + 1 = m
    BY <1>2
  <2> QED BY <2>1, <2>2
<1>7. \A x, y \in Nat : x * y \in Nat
    OBVIOUS
<1> QED BY <1>2, <1>5, <1>6, <1>7

-----------------------------------------------------------------------------
\* The products of the bound, in the form in which the provers find them.
LEMMA Products ==
    /\ \A x, y \in Nat : x * y \in Nat
    /\ \A x, y, z \in Nat : x <= y => x * z <= y * z
OBVIOUS

\* Two factors on either side: what is bounded in one step, and in those before it.
LEMMA Chain ==
    ASSUME NEW x \in Nat, NEW u \in Nat, NEW p \in Nat, NEW c \in Nat, NEW g \in Nat, NEW o \in Nat, NEW q \in Nat,
           x * u <= c * g, c * p <= o * q
    PROVE  x * (u * p) <= o * (g * q)
<1>1. /\ x * u \in Nat /\ c * g \in Nat /\ c * p \in Nat /\ o * q \in Nat
      /\ (x * u) * p \in Nat /\ (c * g) * p \in Nat /\ (c * p) * g \in Nat /\ (o * q) * g \in Nat
    BY Products, Zenon
<1>2. (x * u) * p <= (c * g) * p
    BY <1>1, Products, Zenon
<1>3. (c * g) * p = (c * p) * g
    OBVIOUS
<1>4. (c * p) * g <= (o * q) * g
    BY <1>1, Products, Zenon
<1>5. x * (u * p) = (x * u) * p /\ (o * q) * g = o * (g * q)
    OBVIOUS
<1> DEFINE l == (x * u) * p
           m == (c * p) * g
           r == (o * q) * g
<1>6. l \in Nat /\ m \in Nat /\ r \in Nat /\ l <= m /\ m <= r
    BY <1>1, <1>2, <1>3, <1>4
<1>7. x * (u * p) = l /\ o * (g * q) = r
    BY <1>5
<1> HIDE DEF l, m, r
<1>8. l <= r
    BY <1>6
<1> QED BY <1>7, <1>8

\* What the bound is made of.
LEMMA Factors ==
    ASSUME WrapperAssumption, NEW t \in 0..Granularity
    PROVE  /\ Granularity \in Nat
           /\ Granularity + t + 1 \in Nat
           /\ Granularity - t - 1 \in Int
           /\ Granularity <= Granularity + t + 1
           /\ Granularity - t - 1 <= Granularity
BY DEF WrapperAssumption

\* One more step, which moves a value by no more than one move does, uses one more period.
LEMMA WithinStep ==
    ASSUME WrapperAssumption, NEW t \in 0..Granularity,
           NEW old \in Nat, NEW c \in Nat, NEW new \in Nat, NEW k \in Nat, Within(t, old, c, k),
           Granularity - t - 1 > 0
             => new * (Granularity - t - 1) <= c * Granularity,
           c * Granularity <= new * (Granularity + t + 1)
    PROVE  Within(t, old, new, k + 1)
<1> DEFINE up == Granularity - t - 1
           down == Granularity + t + 1
           g == Granularity
<1>1. g \in Nat /\ down \in Nat /\ up \in Int
    BY Factors
<1>2. /\ up > 0 => c * power(up, k) <= old * power(g, k)
      /\ old * power(g, k) <= c * power(down, k)
    BY DEF Within
<1>3. /\ up > 0 => new * up <= c * g
      /\ c * g <= new * down
    OBVIOUS
<1>4. Within(t, old, new, k + 1) <=>
        /\ up > 0 => new * power(up, k + 1) <= old * power(g, k + 1)
        /\ old * power(g, k + 1) <= new * power(down, k + 1)
    BY DEF Within
<1> HIDE DEF up, down, g
<1>5. ASSUME up > 0 PROVE new * power(up, k + 1) <= old * power(g, k + 1)
  <2>1. up \in Nat
    BY <1>1, <1>5
  <2>2. power(up, k) \in Nat /\ power(g, k) \in Nat
    BY <1>1, <2>1, PowerNat
  <2>3. power(up, k + 1) = up * power(up, k) /\ power(g, k + 1) = g * power(g, k)
    BY PowerNext
  <2>4. new * (up * power(up, k)) <= old * (g * power(g, k))
    BY <1>1, <1>2, <1>3, <1>5, <2>1, <2>2, Chain, Zenon
  <2> QED BY <2>3, <2>4, Zenon
<1>6. old * power(g, k + 1) <= new * power(down, k + 1)
  <2>1. power(down, k) \in Nat /\ power(g, k) \in Nat
    BY <1>1, PowerNat
  <2>2. power(down, k + 1) = down * power(down, k) /\ power(g, k + 1) = g * power(g, k)
    BY PowerNext
  <2>3. old * (power(g, k) * g) <= new * (power(down, k) * down)
    <3>1. old * power(g, k) <= c * power(down, k) /\ c * g <= new * down
      BY <1>2, <1>3
    <3> QED BY <1>1, <2>1, <3>1, Chain, Zenon
  <2>4. power(g, k) * g = g * power(g, k) /\ power(down, k) * down = down * power(down, k)
    BY <1>1, <2>1
  <2> QED BY <2>2, <2>3, <2>4, Zenon
<1> QED BY <1>4, <1>5, <1>6

\* A value that stands still is within the bound, and stays there when periods begin.
LEMMA WithinLater ==
    ASSUME WrapperAssumption, NEW t \in 0..Granularity,
           NEW old \in Nat, NEW c \in Nat, NEW k \in Nat, Within(t, old, c, k), NEW m \in Nat, k <= m
    PROVE  Within(t, old, c, m)
<1> DEFINE Bad == {j \in Nat : k <= j /\ ~Within(t, old, c, j)}
<1> SUFFICES ASSUME Bad # {} PROVE FALSE
    OBVIOUS
<1>1. PICK j \in Bad : \A i \in Bad : j <= i
  <2>1. Bad \in SUBSET Nat
    OBVIOUS
  <2> HIDE DEF Bad
  <2> QED BY <2>1, LeastNat
<1>2. j \in Nat /\ k <= j /\ ~Within(t, old, c, j)
    BY <1>1
<1>3. j # k
    BY <1>2
<1>4. j - 1 \in Nat /\ k <= j - 1 /\ j - 1 \notin Bad
  <2> HIDE DEF Bad
  <2> QED BY <1>1, <1>2, <1>3
<1>5. Within(t, old, c, j - 1)
    BY <1>4
<1>6. \A a, b \in Int : a <= b => c * a <= c * b
    OBVIOUS
<1>7. /\ c * (Granularity - t - 1) <= c * Granularity
      /\ c * Granularity <= c * (Granularity + t + 1)
  <2>1. Granularity \in Int /\ Granularity + t + 1 \in Int
    BY Factors
  <2> QED BY <1>6, <2>1, Factors, Zenon
<1>8. Within(t, old, c, (j - 1) + 1)
    BY <1>4, <1>5, <1>7, WithinStep
<1>9. (j - 1) + 1 = j
    BY <1>2
<1> QED BY <1>2, <1>8, <1>9

\* A value is within any bound of itself.
LEMMA WithinItself ==
    ASSUME WrapperAssumption, NEW t \in 0..Granularity, NEW c \in Nat, NEW k \in Nat
    PROVE  Within(t, c, c, k)
<1>1. Within(t, c, c, 0)
    BY PowerZero DEF Within
<1> QED BY <1>1, WithinLater

\* A deviation is rounded down: a move that is accepted changes a value by less than the
\* threshold and one basis point, of the new value.
LEMMA DeviationFacts ==
    ASSUME WrapperAssumption, NEW t \in 0..Granularity,
           NEW c \in Nat, NEW new \in Nat, new # 0, deviation(c, new) <= t
    PROVE  /\ new * (Granularity - t - 1) <= c * Granularity
           /\ c * Granularity <= new * (Granularity + t + 1)
<1> DEFINE far == abs(new - c) * Granularity
<1>1. Granularity \in Nat /\ t \in Nat
    BY DEF WrapperAssumption
<1>2. abs(new - c) \in Nat /\ new - c <= abs(new - c) /\ c - new <= abs(new - c)
    BY DEF abs
<1>3. far \in Nat /\ far \div new <= t
    BY <1>1, <1>2, Products, Zenon DEF deviation
<1>4. (new - c) * Granularity <= far /\ (c - new) * Granularity <= far
  <2>1. \A x, y \in Int, z \in Nat : x <= y => x * z <= y * z
    OBVIOUS
  <2>2. abs(new - c) \in Int /\ new - c \in Int /\ c - new \in Int
    BY <1>2
  <2> QED BY <1>1, <1>2, <2>1, <2>2, Zenon
<1> HIDE DEF far
<1>5. far <= new * (t + 1)
  <2>1. \A x, y, z \in Nat : y # 0 /\ x \div y <= z => x <= y * (z + 1)
    BY SMT
  <2> QED BY <1>1, <1>3, <2>1, Zenon
<1>6. /\ (new - c) * Granularity = new * Granularity - c * Granularity
      /\ (c - new) * Granularity = c * Granularity - new * Granularity
      /\ new * (Granularity - t - 1) = new * Granularity - new * (t + 1)
      /\ new * (Granularity + t + 1) = new * Granularity + new * (t + 1)
  <2>1. \A x, y, z \in Int : (x - y) * z = x * z - y * z
    OBVIOUS
  <2>2. \A x, y, z \in Int : x * (y - z - 1) = x * y - x * (z + 1) /\ x * (y + z + 1) = x * y + x * (z + 1)
    OBVIOUS
  <2>3. new \in Int /\ c \in Int /\ Granularity \in Int /\ t \in Int
    BY <1>1
  <2>4. /\ (new - c) * Granularity = new * Granularity - c * Granularity
        /\ (c - new) * Granularity = c * Granularity - new * Granularity
    BY <2>1, <2>3, ZenonT(60)
  <2>5. /\ new * (Granularity - t - 1) = new * Granularity - new * (t + 1)
        /\ new * (Granularity + t + 1) = new * Granularity + new * (t + 1)
    BY <2>2, <2>3, Zenon
  <2> QED BY <2>4, <2>5
<1>7. new * Granularity \in Int /\ c * Granularity \in Int /\ new * (t + 1) \in Int
    BY <1>1
<1> QED BY <1>3, <1>4, <1>5, <1>6, <1>7

\* So a move uses one more period.
LEMMA WithinMove ==
    ASSUME WrapperAssumption, NEW t \in 0..Granularity,
           NEW old \in Nat, NEW c \in Nat, NEW new \in Nat, new # 0, deviation(c, new) <= t,
           NEW k \in Nat, Within(t, old, c, k), NEW m \in Nat, k + 1 <= m
    PROVE  Within(t, old, new, m)
<1>1. /\ new * (Granularity - t - 1) <= c * Granularity
      /\ c * Granularity <= new * (Granularity + t + 1)
    BY DeviationFacts
<1>2. Within(t, old, new, k + 1)
    BY <1>1, WithinStep, Zenon
<1> QED BY <1>2, WithinLater

-----------------------------------------------------------------------------
\* What the oracle may read is a pair of naturals.
LEMMA SourceNumbers ==
    ASSUME WrapperAssumption, WrapperTypeOK
    PROVE  source.pcv \in Nat /\ source.fei \in Nat
BY Zenon DEF WrapperAssumption, WrapperTypeOK

\* How many periods are used is a natural, and no more than have begun.
LEMMA PeriodsFacts ==
    ASSUME WrapperAssumption, WrapperInv
    PROVE  /\ periodsUsed \in Nat
           /\ periods \in Nat
           /\ periodsUsed <= periods
<1>1. /\ now \in Nat /\ base.since \in Nat /\ guardianStartTime \in Nat /\ frequency \in Nat /\ frequency > 0
      /\ base.since <= now /\ guardianStartTime <= now
    BY DEF WrapperAssumption, WrapperInv, WrapperTypeOK
<1>2. \A x, y, z \in Nat : z > 0 /\ x <= y => x \div z \in Nat /\ y \div z \in Nat /\ x \div z <= y \div z
    BY SMT
<1>3. (now - base.since) \div frequency \in Nat
    BY <1>1, <1>2
<1>4. ASSUME guardianStartTime >= base.since
      PROVE  /\ (guardianStartTime - base.since) \div frequency \in Nat
             /\ (guardianStartTime - base.since) \div frequency <= (now - base.since) \div frequency
  <2>1. /\ guardianStartTime - base.since \in Nat /\ now - base.since \in Nat
        /\ guardianStartTime - base.since <= now - base.since
    BY <1>1, <1>4
  <2> QED BY <1>1, <1>2, <2>1
<1> QED BY <1>3, <1>4 DEF periods, periodsUsed

\* Whoever else writes starts the account over: what was cached counts from now on.
LEMMA StartedOver ==
    ASSUME WrapperAssumption, now \in Nat, WrapperTypeOK', now' = now, guardianStartTime' <= now',
           base'.since = now, base'.pcv = cached'.pcv, base'.fei = cached'.fei
    PROVE  WrapperInv'
<1>0. base'.since \in Nat
    BY DEF WrapperTypeOK
<1>1. guardianStartTime' \in Nat /\ guardianThreshold' \in 0..Granularity /\ cached'.pcv \in Nat /\ cached'.fei \in Nat
    BY DEF WrapperTypeOK
<1>2. periodsUsed' \in Nat
  <2>1. \A x, y \in Nat : y > 0 => x \div y \in Nat
    BY SMT
  <2>2. frequency \in Nat /\ frequency > 0
    BY DEF WrapperAssumption
  <2>3. ASSUME guardianStartTime' >= base'.since
        PROVE  (guardianStartTime' - base'.since) \div frequency \in Nat
    <3>1. base'.since \in Nat
      BY <1>0
    <3> DEFINE start == guardianStartTime'
               since == base'.since
    <3>2. start \in Nat /\ since \in Nat /\ start >= since
      BY <1>1, <2>3, <3>1
    <3> HIDE DEF start, since
    <3>3. start - since \in Nat
      BY <3>2
    <3>4. guardianStartTime' - base'.since \in Nat
      BY <3>3 DEF start, since
    <3> QED BY <2>1, <2>2, <3>4, Zenon
  <2> QED BY <2>3 DEF periodsUsed
<1>3. /\ Within(guardianThreshold', cached'.pcv, cached'.pcv, periodsUsed')
      /\ Within(guardianThreshold', cached'.fei, cached'.fei, periodsUsed')
    BY <1>1, <1>2, WithinItself, Zenon
<1>4. base'.since <= now' /\ guardianStartTime' <= now'
    OBVIOUS
<1> QED BY <1>3, <1>4, Zenon DEF WrapperInv

\* Nothing that the account is about changes, but time.
LEMMA AccountStands ==
    ASSUME WrapperAssumption, WrapperInv, source' \in Sources, now' \in Nat, now <= now',
           UNCHANGED <<cached, base, guardianStartTime, guardianThreshold>>
    PROVE  WrapperInv'
<1>1. WrapperTypeOK' /\ periodsUsed' = periodsUsed
    BY DEF WrapperInv, WrapperTypeOK, periodsUsed
<1>2. base'.since <= now' /\ guardianStartTime' <= now'
    BY DEF WrapperInv, WrapperTypeOK
<1>3. /\ Within(guardianThreshold', base'.pcv, cached'.pcv, periodsUsed')
      /\ Within(guardianThreshold', base'.fei, cached'.fei, periodsUsed')
    BY <1>1, Zenon DEF WrapperInv
<1> QED BY <1>1, <1>2, <1>3 DEF WrapperInv

\* A write of the guardian: its timer let a period pass since the last one.
LEMMA GuardianMoves ==
    ASSUME WrapperAssumption, WrapperInv, NEW caller, NEW pcv \in PCVs, NEW fei \in FEIs,
           guardianSetCache(caller, pcv, fei)
    PROVE  WrapperInv'
<1>1. /\ now \in Nat /\ base.since \in Nat /\ guardianStartTime \in Nat /\ frequency \in Nat /\ frequency > 0
      /\ base.since <= now /\ guardianStartTime <= now
      /\ base.pcv \in Nat /\ base.fei \in Nat /\ cached.pcv \in Nat /\ cached.fei \in Nat
      /\ guardianThreshold \in 0..Granularity /\ pcv \in Nat /\ fei \in Nat
    BY DEF WrapperAssumption, WrapperInv, WrapperTypeOK
<1>2. /\ now - guardianStartTime >= frequency
      /\ pcv # 0 /\ deviation(cached.pcv, pcv) <= guardianThreshold
      /\ fei # 0 /\ deviation(cached.fei, fei) <= guardianThreshold
    BY DEF guardianSetCache, ended, acceptable
<1>3. /\ cached' = [pcv |-> pcv, fei |-> fei, equity |-> pcv - fei]
      /\ guardianStartTime' = now /\ now' = now /\ base' = base /\ source' = source
      /\ guardianThreshold' = guardianThreshold
    BY DEF guardianSetCache, writeCache, settings
<1>4. cached'.pcv = pcv /\ cached'.fei = fei
    BY <1>3
<1>5. periodsUsed \in Nat
    BY PeriodsFacts
<1>6. periodsUsed' \in Nat /\ periodsUsed + 1 <= periodsUsed'
  <2>1. periodsUsed' = 1 + ((now - base.since) \div frequency)
    BY <1>1, <1>3 DEF periodsUsed
  <2>2. \A x, z \in Nat : z > 0 => x \div z \in Nat
    BY SMT
  <2>3. (now - base.since) \div frequency \in Nat
    <3>1. now - base.since \in Nat
      BY <1>1
    <3> QED BY <1>1, <2>2, <3>1, Zenon
  <2>4. CASE guardianStartTime < base.since
    <3>1. periodsUsed = 0
      BY <1>1, <2>4 DEF periodsUsed
    <3> QED BY <2>1, <2>3, <3>1
  <2>5. CASE guardianStartTime >= base.since
    <3> DEFINE before == guardianStartTime - base.since
               after == now - base.since
    <3>1. before \in Nat /\ after \in Nat /\ before + frequency <= after
      BY <1>1, <1>2, <2>5
    <3>2. periodsUsed = 1 + before \div frequency /\ periodsUsed' = 1 + (after \div frequency)
      BY <2>1, <2>5 DEF periodsUsed
    <3> HIDE DEF before, after
    <3>3. \A x, y, z \in Nat : z > 0 /\ x + z <= y => (x \div z) + 1 <= y \div z /\ x \div z \in Nat /\ y \div z \in Nat
      BY SMT
    <3>4. (before \div frequency) + 1 <= after \div frequency /\ before \div frequency \in Nat /\ after \div frequency \in Nat
      BY <1>1, <3>1, <3>3, Zenon
    <3> QED BY <3>2, <3>4
  <2> QED BY <1>1, <2>4, <2>5
<1>7. /\ Within(guardianThreshold, base.pcv, cached.pcv, periodsUsed)
      /\ Within(guardianThreshold, base.fei, cached.fei, periodsUsed)
    BY DEF WrapperInv
<1>8. Within(guardianThreshold, base.pcv, pcv, periodsUsed') /\ Within(guardianThreshold, base.fei, fei, periodsUsed')
    BY <1>1, <1>2, <1>5, <1>6, <1>7, WithinMove, Zenon
<1>9. /\ Within(guardianThreshold', base'.pcv, cached'.pcv, periodsUsed')
      /\ Within(guardianThreshold', base'.fei, cached'.fei, periodsUsed')
    BY <1>3, <1>4, <1>8, Zenon
<1>10. WrapperTypeOK'
    BY <1>1, <1>3, <1>4 DEF WrapperInv, WrapperTypeOK
<1>11. base'.since <= now' /\ guardianStartTime' <= now'
    BY <1>1, <1>3
<1> QED BY <1>9, <1>10, <1>11 DEF WrapperInv

-----------------------------------------------------------------------------
\* The contracts as deployed have used at most one period, and moved nothing.
LEMMA WrapperInitially == ASSUME WrapperAssumption, WrapperInit PROVE WrapperInv
<1>1. /\ now = 1 /\ guardianStartTime = 1 /\ source \in Sources
      /\ cached.pcv = 0 /\ cached.fei = 0 /\ base.pcv = 0 /\ base.fei = 0 /\ base.since = 1
    BY DEF WrapperInit
<1>2. guardianThreshold \in 0..Granularity
    BY DEF WrapperInit, WrapperAssumption
<1>3. WrapperTypeOK
    BY <1>1, <1>2 DEF WrapperTypeOK
<1>4. periodsUsed \in Nat
  <2>1. 0 \div frequency = 0
    BY DEF WrapperAssumption
  <2> QED BY <1>1, <2>1 DEF periodsUsed
<1>5. Within(guardianThreshold, 0, 0, periodsUsed)
    BY <1>2, <1>4, WithinItself
<1> QED BY <1>1, <1>3, <1>5 DEF WrapperInv

\* Every step of the two contracts, of what they read and of time keeps the account.
LEMMA WrapperKeeps == ASSUME WrapperAssumption, WrapperInv, [WrapperNext]_wrapperVars PROVE WrapperInv'
<1> DEFINE Account == <<cached, base, guardianStartTime, guardianThreshold>>
<1>1. /\ now \in Nat /\ now <= now /\ source \in Sources /\ guardianStartTime <= now /\ guardianStartTime \in Nat
      /\ cached.pcv \in Nat /\ cached.fei \in Nat /\ guardianThreshold \in 0..Granularity
    BY DEF WrapperInv, WrapperTypeOK
<1>2. ASSUME UNCHANGED <<now, source>>, UNCHANGED Account PROVE WrapperInv'
    BY <1>1, <1>2, AccountStands
<1>3. CASE UNCHANGED wrapperVars
    BY <1>2, <1>3 DEF wrapperVars, settings, cacheVars, historyVars
<1>4. ASSUME NEW d, NEW t, initialize(d, t) PROVE WrapperInv'
    BY <1>2, <1>4 DEF initialize, cacheVars, historyVars
<1>5. ASSUME NEW caller, NEW s \in Sources, setCollateralizationOracle(caller, s) PROVE WrapperInv'
    BY <1>1, <1>5, AccountStands DEF setCollateralizationOracle, settings, cacheVars, historyVars
<1>6. ASSUME NEW caller, NEW t, setDeviationThresholdBasisPoints(caller, t) PROVE WrapperInv'
    BY <1>2, <1>6 DEF setDeviationThresholdBasisPoints, cacheVars, historyVars
<1>7. ASSUME NEW caller, NEW d, setValidityDuration(caller, d) PROVE WrapperInv'
    BY <1>2, <1>7 DEF setValidityDuration, cacheVars, historyVars
<1>8. ASSUME NEW caller, NEW b, setReadPauseOverride(caller, b) PROVE WrapperInv'
    BY <1>2, <1>8 DEF setReadPauseOverride, cacheVars, historyVars
<1>9. ASSUME NEW caller, NEW t \in Thresholds, setGuardianThreshold(caller, t) PROVE WrapperInv'
  <2>1. /\ guardianThreshold' = t /\ t <= Granularity /\ now' = now /\ source' = source /\ cached' = cached
        /\ guardianStartTime' = guardianStartTime
        /\ base' = [pcv |-> cached.pcv, fei |-> cached.fei, since |-> now]
    BY <1>9 DEF setGuardianThreshold, startOver, cacheVars
  <2>2. base'.since = now /\ base'.pcv = cached'.pcv /\ base'.fei = cached'.fei
    BY <2>1
  <2>3. t \in 0..Granularity
    BY <2>1 DEF WrapperAssumption
  <2>4. WrapperTypeOK'
    BY <1>1, <2>1, <2>2, <2>3 DEF WrapperTypeOK
  <2>5. guardianStartTime' <= now'
    BY <1>1, <2>1
  <2> QED BY <1>1, <2>1, <2>2, <2>4, <2>5, StartedOver
<1>10. ASSUME NEW caller, NEW pcv \in PCVs, NEW fei \in FEIs, NEW equity, setCache(caller, pcv, fei, equity)
       PROVE  WrapperInv'
  <2>1. /\ cached' = [pcv |-> pcv, fei |-> fei, equity |-> equity] /\ now' = now /\ source' = source
        /\ guardianStartTime' = guardianStartTime /\ guardianThreshold' = guardianThreshold
        /\ base' = [pcv |-> pcv, fei |-> fei, since |-> now]
    BY <1>10 DEF setCache, writeCache, startOver, settings
  <2>2. base'.since = now /\ base'.pcv = cached'.pcv /\ base'.fei = cached'.fei
    BY <2>1
  <2>3. cached'.pcv \in Nat /\ cached'.fei \in Nat
    BY <2>1 DEF WrapperAssumption
  <2>4. WrapperTypeOK'
    BY <1>1, <2>1, <2>2, <2>3 DEF WrapperTypeOK
  <2>5. guardianStartTime' <= now'
    BY <1>1, <2>1
  <2> QED BY <1>1, <2>1, <2>2, <2>4, <2>5, StartedOver
<1>11. ASSUME refresh PROVE WrapperInv'
  <2>1. /\ cached' = [pcv |-> source.pcv, fei |-> source.fei, equity |-> source.pcv - source.fei]
        /\ now' = now /\ source' = source
        /\ guardianStartTime' = guardianStartTime /\ guardianThreshold' = guardianThreshold
        /\ base' = [pcv |-> source.pcv, fei |-> source.fei, since |-> now]
    BY <1>11 DEF refresh, writeCache, startOver, settings
  <2>2. base'.since = now /\ base'.pcv = cached'.pcv /\ base'.fei = cached'.fei
    BY <2>1
  <2>3. cached'.pcv \in Nat /\ cached'.fei \in Nat
    BY <2>1, SourceNumbers DEF WrapperInv
  <2>4. WrapperTypeOK'
    BY <1>1, <2>1, <2>2, <2>3 DEF WrapperTypeOK
  <2>5. guardianStartTime' <= now'
    BY <1>1, <2>1
  <2> QED BY <1>1, <2>1, <2>2, <2>4, <2>5, StartedOver
<1>12. ASSUME NEW caller, CoreRefStep(caller), UNCHANGED <<now, initialized, source, settings, cacheVars, historyVars>>
       PROVE  WrapperInv'
    BY <1>2, <1>12 DEF settings, cacheVars, historyVars
<1>13. ASSUME SourceChanges PROVE WrapperInv'
    BY <1>1, <1>13, AccountStands DEF SourceChanges, settings, cacheVars, historyVars
<1>14. ASSUME AdvanceTime PROVE WrapperInv'
    BY <1>1, <1>14, AccountStands DEF AdvanceTime, settings, cacheVars, historyVars
<1>15. CASE WrapperNext
    BY <1>4, <1>5, <1>6, <1>7, <1>8, <1>9, <1>10, <1>11, <1>12, <1>13, <1>14, <1>15, GuardianMoves, Zenon
       DEF WrapperNext, update, updateIfOutdated
<1> QED BY <1>3, <1>15

\* The strengthening is an invariant of wrapper and guardian contract.
THEOREM WrapperInvariant == WrapperSpec => []WrapperInv
<1>1. WrapperInit => WrapperInv
    BY WrapperInitially, WrapperAssumption
<1>2. WrapperInv /\ [WrapperNext]_wrapperVars => WrapperInv'
    BY WrapperKeeps, WrapperAssumption
<1> QED BY <1>1, <1>2, PTL DEF WrapperSpec

\* GuardianDriftBounded holds for every frequency, granularity and threshold: in k periods
\* the guardian moves a cached value no further than k single moves do.
THEOREM WrapperDriftBounded == WrapperSpec => []GuardianDriftBounded
<1>1. ASSUME WrapperInv PROVE GuardianDriftBounded
  <2>1. periodsUsed \in Nat /\ periods \in Nat /\ periodsUsed <= periods
    BY <1>1, PeriodsFacts, WrapperAssumption
  <2>2. /\ guardianThreshold \in 0..Granularity
        /\ base.pcv \in Nat /\ base.fei \in Nat /\ cached.pcv \in Nat /\ cached.fei \in Nat
        /\ Within(guardianThreshold, base.pcv, cached.pcv, periodsUsed)
        /\ Within(guardianThreshold, base.fei, cached.fei, periodsUsed)
    BY <1>1, Zenon DEF WrapperInv, WrapperTypeOK
  <2>3. Within(guardianThreshold, base.pcv, cached.pcv, periods) /\ Within(guardianThreshold, base.fei, cached.fei, periods)
    BY <2>1, <2>2, WithinLater, WrapperAssumption, Zenon
  <2> QED BY <2>3 DEF GuardianDriftBounded
<1> QED BY <1>1, WrapperInvariant, PTL
=============================================================================
