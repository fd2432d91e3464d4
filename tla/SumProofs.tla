------------------------------ MODULE SumProofs ------------------------------
(***************************************************************************)
(* Lemmas about the sums that the models are built from, SumFunctionOnSet  *)
(* and SumFunction of the community modules: what a change at one element, *)
(* one element more or less, a part, a partition or a scaling does to a    *)
(* sum. They are proved without induction theorems, which take operators   *)
(* as parameters: a counterexample would have a smallest one, a minimal    *)
(* subset of the finite set or a least number, and that is led to a        *)
(* contradiction.                                                          *)
(***************************************************************************)
EXTENDS Integers, FiniteSetsExt, FiniteSetTheorems, TLAPS

\* A nonempty set of subsets of a finite set has a member that contains no other.
LEMMA SmallestSubset ==
    ASSUME NEW S, IsFiniteSet(S), NEW T \in SUBSET SUBSET S, T # {}
    PROVE  \E x \in T : \A y \in T : y \subseteq x => y = x
<1>1. IsWellFoundedOn(StrictSubsetOrdering(S), SUBSET S)
    BY FS_StrictSubsetOrderingWellFounded, FS_FiniteSubsetsOfFinite
<1>2. PICK x \in T : \A y \in T : <<y, x>> \notin StrictSubsetOrdering(S)
    BY <1>1, WFMin
<1>3. ASSUME NEW y \in T, y \subseteq x, y # x PROVE FALSE
    BY <1>2, <1>3 DEF StrictSubsetOrdering
<1> QED BY <1>3

\* f is the running sum of g: what the folds of the community modules compute.
Chosen(s) == CHOOSE x \in s : TRUE

\* What SumFunctionOnSet chooses: the sums over all subsets, element by element.
IsRunningSum(f, g, S) ==
    f = [s \in SUBSET S |-> IF s = {} THEN 0 ELSE g[Chosen(s)] + f[s \ {Chosen(s)}]]

\* SumFunctionOnSet is defined by such a function.
LEMMA SumUnfolds ==
    ASSUME NEW g, NEW S
    PROVE  SumFunctionOnSet(g, S) = (CHOOSE f : IsRunningSum(f, g, S))[S]
BY DEF SumFunctionOnSet, FoldFunctionOnSet, MapThenFoldSet, IsRunningSum, Chosen

\* The element that the fold takes next is one of the set.
LEMMA ChosenIn == \A s : s # {} => Chosen(s) \in s
BY DEF Chosen

\* One step of the fold.
LEMMA RunningSumAt ==
    ASSUME NEW f, NEW g, NEW S, IsRunningSum(f, g, S), NEW s \in SUBSET S
    PROVE  f[s] = IF s = {} THEN 0 ELSE g[Chosen(s)] + f[s \ {Chosen(s)}]
BY DEF IsRunningSum

\* Two running sums agree where both are defined.
LEMMA RunningSumUnique ==
    ASSUME NEW S, IsFiniteSet(S), NEW f, NEW h, NEW g, NEW g2, NEW U, S \subseteq U,
           IsRunningSum(f, g, S), IsRunningSum(h, g2, U), \A x \in S : g[x] = g2[x]
    PROVE  \A s \in SUBSET S : f[s] = h[s]
<1> DEFINE Bad == {s \in SUBSET S : f[s] # h[s]}
<1> SUFFICES ASSUME Bad # {} PROVE FALSE
    OBVIOUS
<1>0. Bad \in SUBSET SUBSET S
    OBVIOUS
<1>1. PICK s \in Bad : \A y \in Bad : y \subseteq s => y = s
  <2> HIDE DEF Bad
  <2> QED BY <1>0, SmallestSubset
<1>2. s \in SUBSET S /\ s \in SUBSET U /\ f[s] # h[s]
    OBVIOUS
<1>3. s # {}
    BY <1>2, RunningSumAt
<1>4. Chosen(s) \in s /\ g[Chosen(s)] = g2[Chosen(s)]
    BY <1>2, <1>3, ChosenIn
<1>5. s \ {Chosen(s)} \in SUBSET S /\ s \ {Chosen(s)} # s /\ s \ {Chosen(s)} \subseteq s
    BY <1>2, <1>4
<1>6. f[s \ {Chosen(s)}] = h[s \ {Chosen(s)}]
    BY <1>1, <1>5
<1>7. f[s] = g[Chosen(s)] + f[s \ {Chosen(s)}]
    BY <1>2, <1>3, RunningSumAt
<1>8. h[s] = g2[Chosen(s)] + h[s \ {Chosen(s)}]
    BY <1>2, <1>3, RunningSumAt
<1> QED BY <1>2, <1>4, <1>6, <1>7, <1>8, Zenon

\* Every function has one on a finite set.
LEMMA RunningSumExists ==
    ASSUME NEW S, IsFiniteSet(S), NEW g
    PROVE  \E f : IsRunningSum(f, g, S)
<1> DEFINE Bad == {s \in SUBSET S : ~\E f : IsRunningSum(f, g, s)}
           sum(s) == CHOOSE f : IsRunningSum(f, g, s)
<1> SUFFICES ASSUME Bad # {} PROVE FALSE
    <2> S \in SUBSET S OBVIOUS
    <2> QED OBVIOUS
<1>0. Bad \in SUBSET SUBSET S
    OBVIOUS
<1>1. PICK U \in Bad : \A y \in Bad : y \subseteq U => y = U
  <2> HIDE DEF Bad
  <2> QED BY <1>0, SmallestSubset
<1>2. U \in SUBSET S /\ ~\E f : IsRunningSum(f, g, U)
    OBVIOUS
<1>3. \A s \in SUBSET U : s # U => IsRunningSum(sum(s), g, s)
    BY <1>1
<1> DEFINE below(s) == IF s = U THEN sum(U \ {Chosen(U)})[U \ {Chosen(U)}] ELSE 0
           top == [s \in SUBSET U |->
                    IF s = {} THEN 0
                    ELSE g[Chosen(s)] + sum(s \ {Chosen(s)})[s \ {Chosen(s)}]]
<1>4. ASSUME NEW s \in SUBSET U, s # U PROVE top[s] = sum(s)[s]
  <2>1. CASE s = {}
    BY <2>1, <1>3, <1>4, RunningSumAt
  <2>2. CASE s # {}
    <3> DEFINE r == s \ {Chosen(s)}
    <3>1. Chosen(s) \in s
        BY <2>2, ChosenIn
    <3>2. r \in SUBSET s /\ r \in SUBSET U /\ r # U /\ r \subseteq s
        BY <3>1, <1>4
    <3>3. IsRunningSum(sum(r), g, r) /\ IsRunningSum(sum(s), g, s)
        BY <1>3, <1>4, <3>2
    <3>4. IsFiniteSet(r)
        BY <3>2, <1>2, FS_Subset
    <3> HIDE DEF sum, r
    <3>5. \A x \in SUBSET r : sum(r)[x] = sum(s)[x]
        BY <3>2, <3>3, <3>4, RunningSumUnique
    <3>6. sum(r)[r] = sum(s)[r]
        BY <3>5
    <3>7. sum(s)[s] = g[Chosen(s)] + sum(s)[r]
        BY <2>2, <3>3, RunningSumAt, ZenonT(60) DEF r
    <3>8. top[s] = g[Chosen(s)] + sum(r)[r]
        BY <2>2, Zenon DEF r
    <3> QED BY <3>6, <3>7, <3>8, Zenon
  <2> QED BY <2>1, <2>2
<1>5. ASSUME NEW s \in SUBSET U
      PROVE  top[s] = IF s = {} THEN 0 ELSE g[Chosen(s)] + top[s \ {Chosen(s)}]
  <2>1. CASE s = {}
    BY <2>1
  <2>2. CASE s # {}
    <3>1. Chosen(s) \in s
        BY <2>2, ChosenIn
    <3>2. s \ {Chosen(s)} \in SUBSET U /\ s \ {Chosen(s)} # U
        BY <3>1
    <3>3. top[s \ {Chosen(s)}] = sum(s \ {Chosen(s)})[s \ {Chosen(s)}]
        BY <1>4, <3>2, Zenon
    <3>4. top[s] = g[Chosen(s)] + sum(s \ {Chosen(s)})[s \ {Chosen(s)}]
        BY <2>2, Zenon
    <3> HIDE DEF top
    <3> QED BY <2>2, <3>3, <3>4, Zenon
  <2> QED BY <2>1, <2>2
<1>6. top = [s \in SUBSET U |-> top[s]]
    OBVIOUS
<1> HIDE DEF top
<1>7. [s \in SUBSET U |-> top[s]]
        = [s \in SUBSET U |-> IF s = {} THEN 0 ELSE g[Chosen(s)] + top[s \ {Chosen(s)}]]
    BY <1>5, Zenon
<1>8. IsRunningSum(top, g, U)
    BY <1>6, <1>7, Zenon DEF IsRunningSum
<1> QED BY <1>2, <1>8, Zenon

-----------------------------------------------------------------------------
\* The sum of nothing is 0; any other takes the chosen element off.
LEMMA SumAtChosen ==
    ASSUME NEW S, IsFiniteSet(S), NEW g
    PROVE  SumFunctionOnSet(g, S) =
                IF S = {} THEN 0 ELSE g[Chosen(S)] + SumFunctionOnSet(g, S \ {Chosen(S)})
<1> DEFINE f == CHOOSE c : IsRunningSum(c, g, S)
           r == S \ {Chosen(S)}
           h == CHOOSE c : IsRunningSum(c, g, r)
<1>1. IsRunningSum(f, g, S)
    BY RunningSumExists
<1>2. r \subseteq S /\ IsFiniteSet(r)
    BY FS_Subset
<1>3. IsRunningSum(h, g, r)
    BY <1>2, RunningSumExists
<1>4. SumFunctionOnSet(g, S) = f[S] /\ SumFunctionOnSet(g, r) = h[r]
    BY SumUnfolds
<1> HIDE DEF f, h
<1>5. f[S] = IF S = {} THEN 0 ELSE g[Chosen(S)] + f[r]
  <2>1. S \in SUBSET S
    OBVIOUS
  <2> QED BY <1>1, <2>1, RunningSumAt
<1> HIDE DEF r
<1>6. h[r] = f[r]
  <2>1. r \in SUBSET r /\ \A x \in r : g[x] = g[x]
    OBVIOUS
  <2> QED BY <1>1, <1>2, <1>3, <2>1, RunningSumUnique
<1> QED BY <1>4, <1>5, <1>6 DEF r

\* The empty sum.
LEMMA SumOfNothing == ASSUME NEW g PROVE SumFunctionOnSet(g, {}) = 0
BY SumAtChosen, FS_EmptySet

\* A sum depends on the values at the elements only.
LEMMA SumEqual ==
    ASSUME NEW S, IsFiniteSet(S), NEW g, NEW h, \A x \in S : g[x] = h[x]
    PROVE  SumFunctionOnSet(g, S) = SumFunctionOnSet(h, S)
<1> DEFINE f == CHOOSE c : IsRunningSum(c, g, S)
           k == CHOOSE c : IsRunningSum(c, h, S)
<1>1. IsRunningSum(f, g, S) /\ IsRunningSum(k, h, S)
    BY RunningSumExists
<1>2. SumFunctionOnSet(g, S) = f[S] /\ SumFunctionOnSet(h, S) = k[S]
    BY SumUnfolds
<1> HIDE DEF f, k
<1>3. S \in SUBSET S /\ S \subseteq S
    OBVIOUS
<1>4. f[S] = k[S]
    BY <1>1, <1>3, RunningSumUnique
<1> QED BY <1>2, <1>4

\* The sum of integers is an integer.
LEMMA SumInt ==
    ASSUME NEW S, IsFiniteSet(S), NEW g, \A x \in S : g[x] \in Int
    PROVE  SumFunctionOnSet(g, S) \in Int
<1> DEFINE Bad == {s \in SUBSET S : SumFunctionOnSet(g, s) \notin Int}
<1> SUFFICES ASSUME Bad # {} PROVE FALSE
    OBVIOUS
<1>0. Bad \in SUBSET SUBSET S
    OBVIOUS
<1>1. PICK s \in Bad : \A y \in Bad : y \subseteq s => y = s
  <2> HIDE DEF Bad
  <2> QED BY <1>0, SmallestSubset
<1>2. s \in SUBSET S /\ IsFiniteSet(s) /\ SumFunctionOnSet(g, s) \notin Int
    BY FS_Subset
<1>3. s # {}
    BY <1>2, SumOfNothing
<1>4. Chosen(s) \in s /\ g[Chosen(s)] \in Int
    BY <1>2, <1>3, ChosenIn
<1>5. SumFunctionOnSet(g, s \ {Chosen(s)}) \in Int
    BY <1>1, <1>2, <1>4
<1>6. SumFunctionOnSet(g, s) = g[Chosen(s)] + SumFunctionOnSet(g, s \ {Chosen(s)})
    BY <1>2, <1>3, SumAtChosen
<1> QED BY <1>2, <1>4, <1>5, <1>6

\* Addition commutes: any element can be taken off.
LEMMA SumRemove ==
    ASSUME NEW S, IsFiniteSet(S), NEW g, \A x \in S : g[x] \in Int, NEW e \in S
    PROVE  SumFunctionOnSet(g, S) = g[e] + SumFunctionOnSet(g, S \ {e})
<1> DEFINE Off(s, y) == SumFunctionOnSet(g, s) = g[y] + SumFunctionOnSet(g, s \ {y})
           Bad == {s \in SUBSET S : \E y \in s : ~Off(s, y)}
<1> SUFFICES ASSUME Bad # {} PROVE FALSE
    OBVIOUS
<1>0. Bad \in SUBSET SUBSET S
    OBVIOUS
<1>1. PICK s \in Bad : \A y \in Bad : y \subseteq s => y = s
  <2> HIDE DEF Bad
  <2> QED BY <1>0, SmallestSubset
<1>2. s \in SUBSET S /\ IsFiniteSet(s)
    BY FS_Subset
<1>3. PICK y \in s : ~Off(s, y)
    OBVIOUS
<1> DEFINE c == Chosen(s)
<1>4. c \in s
    BY ChosenIn
<1>5. Off(s, c)
    BY <1>2, SumAtChosen
<1>6. c # y
    BY <1>3, <1>5
<1> HIDE DEF c
<1>7. Off(s \ {c}, y) /\ Off(s \ {y}, c)
  <2>1. s \ {c} \in SUBSET S /\ s \ {y} \in SUBSET S /\ s \ {c} # s /\ s \ {y} # s
    BY <1>2, <1>4
  <2>2. s \ {c} \notin Bad /\ s \ {y} \notin Bad
    BY <1>1, <2>1
  <2>3. y \in s \ {c} /\ c \in s \ {y}
    BY <1>4, <1>6
  <2> QED BY <2>1, <2>2, <2>3
<1>8. (s \ {c}) \ {y} = (s \ {y}) \ {c}
    OBVIOUS
<1> DEFINE rest == SumFunctionOnSet(g, (s \ {y}) \ {c})
<1>9. g[c] \in Int /\ g[y] \in Int /\ rest \in Int
  <2>1. (s \ {y}) \ {c} \subseteq S /\ IsFiniteSet((s \ {y}) \ {c})
    BY <1>2, FS_Subset
  <2>2. rest \in Int
    BY <2>1, SumInt
  <2> QED BY <1>2, <1>4, <2>2
<1>10. SumFunctionOnSet(g, s \ {c}) = g[y] + rest /\ SumFunctionOnSet(g, s \ {y}) = g[c] + rest
    BY <1>7, <1>8
<1> HIDE DEF rest
<1>11. Off(s, y)
    BY <1>5, <1>9, <1>10
<1> QED BY <1>3, <1>11

\* One more element adds its value.
LEMMA SumAdd ==
    ASSUME NEW S, IsFiniteSet(S), NEW g, NEW e, e \notin S, \A x \in S \cup {e} : g[x] \in Int
    PROVE  SumFunctionOnSet(g, S \cup {e}) = g[e] + SumFunctionOnSet(g, S)
<1>1. IsFiniteSet(S \cup {e}) /\ (S \cup {e}) \ {e} = S
    BY FS_AddElement
<1> QED BY <1>1, SumRemove

\* What a change at one element does to the sum.
LEMMA SumChange ==
    ASSUME NEW S, IsFiniteSet(S), NEW g, NEW h, NEW e \in S,
           \A x \in S : g[x] \in Int /\ h[x] \in Int, \A x \in S \ {e} : g[x] = h[x]
    PROVE  SumFunctionOnSet(h, S) = SumFunctionOnSet(g, S) - g[e] + h[e]
<1>1. IsFiniteSet(S \ {e})
    BY FS_Subset
<1>2. SumFunctionOnSet(g, S \ {e}) = SumFunctionOnSet(h, S \ {e})
    BY <1>1, SumEqual
<1>3. SumFunctionOnSet(g, S \ {e}) \in Int
    BY <1>1, SumInt
<1>4. /\ SumFunctionOnSet(g, S) = g[e] + SumFunctionOnSet(g, S \ {e})
      /\ SumFunctionOnSet(h, S) = h[e] + SumFunctionOnSet(h, S \ {e})
    BY SumRemove
<1> QED BY <1>2, <1>3, <1>4

\* A function that changes at one place.
IsChange(S, g, h, e) ==
    /\ IsFiniteSet(S) /\ e \in S
    /\ \A x \in S : g[x] \in Int /\ h[x] \in Int
    /\ \A x \in S \ {e} : g[x] = h[x]

\* SumChange in the form in which the provers find it.
LEMMA SumChanged ==
    ASSUME NEW S, NEW g, NEW h, NEW e, IsChange(S, g, h, e)
    PROVE  SumFunctionOnSet(h, S) = SumFunctionOnSet(g, S) - g[e] + h[e]
BY SumChange DEF IsChange

\* The sum of naturals is one.
LEMMA SumNat ==
    ASSUME NEW S, IsFiniteSet(S), NEW g, \A x \in S : g[x] \in Nat
    PROVE  SumFunctionOnSet(g, S) \in Nat
<1> DEFINE Bad == {s \in SUBSET S : SumFunctionOnSet(g, s) \notin Nat}
<1> SUFFICES ASSUME Bad # {} PROVE FALSE
    OBVIOUS
<1>0. Bad \in SUBSET SUBSET S
    OBVIOUS
<1>1. PICK s \in Bad : \A y \in Bad : y \subseteq s => y = s
  <2> HIDE DEF Bad
  <2> QED BY <1>0, SmallestSubset
<1>2. s \in SUBSET S /\ IsFiniteSet(s) /\ SumFunctionOnSet(g, s) \notin Nat
    BY FS_Subset
<1>3. s # {}
    BY <1>2, SumOfNothing
<1>4. Chosen(s) \in s /\ g[Chosen(s)] \in Nat
    BY <1>2, <1>3, ChosenIn
<1>5. SumFunctionOnSet(g, s \ {Chosen(s)}) \in Nat
    BY <1>1, <1>2, <1>4
<1>6. SumFunctionOnSet(g, s) = g[Chosen(s)] + SumFunctionOnSet(g, s \ {Chosen(s)})
    BY <1>2, <1>3, SumAtChosen
<1> QED BY <1>2, <1>4, <1>5, <1>6

\* Part of a sum of naturals is no more than all of it.
LEMMA SumSubset ==
    ASSUME NEW S, IsFiniteSet(S), NEW g, \A x \in S : g[x] \in Nat, NEW T \in SUBSET S
    PROVE  SumFunctionOnSet(g, T) <= SumFunctionOnSet(g, S)
<1> DEFINE Bad == {s \in SUBSET S : T \subseteq s /\ ~(SumFunctionOnSet(g, T) <= SumFunctionOnSet(g, s))}
<1> SUFFICES ASSUME Bad # {} PROVE FALSE
    OBVIOUS
<1>0. Bad \in SUBSET SUBSET S
    OBVIOUS
<1>1. PICK s \in Bad : \A y \in Bad : y \subseteq s => y = s
  <2> HIDE DEF Bad
  <2> QED BY <1>0, SmallestSubset
<1>2. s \in SUBSET S /\ IsFiniteSet(s) /\ T \subseteq s /\ ~(SumFunctionOnSet(g, T) <= SumFunctionOnSet(g, s))
    BY FS_Subset
<1>3. IsFiniteSet(T) /\ \A x \in T : g[x] \in Nat
    BY FS_Subset
<1>4. SumFunctionOnSet(g, T) \in Nat
    BY <1>3, SumNat
<1>5. PICK e \in s : e \notin T
    BY <1>2, <1>4
<1>6. SumFunctionOnSet(g, s) = g[e] + SumFunctionOnSet(g, s \ {e})
    BY <1>2, SumRemove
<1>7. SumFunctionOnSet(g, T) <= SumFunctionOnSet(g, s \ {e})
    BY <1>1, <1>2, <1>5
<1>8. SumFunctionOnSet(g, s \ {e}) \in Nat /\ g[e] \in Nat
  <2>1. s \ {e} \subseteq S /\ IsFiniteSet(s \ {e})
    BY <1>2, FS_Subset
  <2> QED BY <1>2, <2>1, SumNat
<1> QED BY <1>2, <1>4, <1>6, <1>7, <1>8
\* What is credited to one element is added to every sum it is part of.
LEMMA SumCredit ==
    ASSUME NEW S, IsFiniteSet(S), NEW g, NEW h, NEW e, NEW d \in Int, \A x \in S : g[x] \in Int,
           \A x \in S : h[x] = IF x = e THEN g[x] + d ELSE g[x]
    PROVE  SumFunctionOnSet(h, S) = SumFunctionOnSet(g, S) + (IF e \in S THEN d ELSE 0)
<1>0. SumFunctionOnSet(g, S) \in Int
    BY SumInt
<1>1. CASE e \in S
  <2>1. /\ h[e] = g[e] + d /\ g[e] \in Int
        /\ \A x \in S : g[x] \in Int /\ h[x] \in Int
        /\ \A x \in S \ {e} : g[x] = h[x]
    BY <1>1
  <2>2. IsFiniteSet(S \ {e})
    BY FS_Subset
  <2>3. SumFunctionOnSet(g, S \ {e}) = SumFunctionOnSet(h, S \ {e})
    BY <2>1, <2>2, SumEqual
  <2>4. SumFunctionOnSet(g, S \ {e}) \in Int
    BY <2>1, <2>2, SumInt
  <2>5. SumFunctionOnSet(g, S) = g[e] + SumFunctionOnSet(g, S \ {e})
    BY <1>1, <2>1, SumRemove
  <2>6. SumFunctionOnSet(h, S) = h[e] + SumFunctionOnSet(h, S \ {e})
    BY <1>1, <2>1, SumRemove
  <2> QED BY <1>0, <1>1, <2>1, <2>3, <2>4, <2>5, <2>6
<1>2. CASE e \notin S
  <2>1. \A x \in S : g[x] = h[x]
    BY <1>2
  <2>2. SumFunctionOnSet(g, S) = SumFunctionOnSet(h, S)
    BY <2>1, SumEqual
  <2> QED BY <1>0, <1>2, <2>2
<1> QED BY <1>1, <1>2

\* A sum of zeros is zero.
LEMMA SumZero ==
    ASSUME NEW S, IsFiniteSet(S), NEW g, \A x \in S : g[x] = 0
    PROVE  SumFunctionOnSet(g, S) = 0
<1> DEFINE Bad == {s \in SUBSET S : SumFunctionOnSet(g, s) # 0}
<1> SUFFICES ASSUME Bad # {} PROVE FALSE
    OBVIOUS
<1>0. Bad \in SUBSET SUBSET S
    OBVIOUS
<1>1. PICK s \in Bad : \A y \in Bad : y \subseteq s => y = s
  <2> HIDE DEF Bad
  <2> QED BY <1>0, SmallestSubset
<1>2. s \in SUBSET S /\ IsFiniteSet(s) /\ SumFunctionOnSet(g, s) # 0
    BY FS_Subset
<1>3. s # {}
    BY <1>2, SumOfNothing
<1>4. Chosen(s) \in s /\ g[Chosen(s)] = 0
    BY <1>2, <1>3, ChosenIn
<1>5. SumFunctionOnSet(g, s \ {Chosen(s)}) = 0
    BY <1>1, <1>2, <1>4
<1>6. SumFunctionOnSet(g, s) = g[Chosen(s)] + SumFunctionOnSet(g, s \ {Chosen(s)})
    BY <1>2, <1>3, SumAtChosen
<1> QED BY <1>2, <1>4, <1>5, <1>6
\* Two sets without a common element: their sums add up.
LEMMA SumUnion ==
    ASSUME NEW S, IsFiniteSet(S), NEW T, IsFiniteSet(T), S \cap T = {},
           NEW g, \A x \in S \cup T : g[x] \in Int
    PROVE  SumFunctionOnSet(g, S \cup T) = SumFunctionOnSet(g, S) + SumFunctionOnSet(g, T)
<1> DEFINE Both(t) == SumFunctionOnSet(g, S \cup t) = SumFunctionOnSet(g, S) + SumFunctionOnSet(g, t)
           Bad == {t \in SUBSET T : ~Both(t)}
<1> SUFFICES ASSUME Bad # {} PROVE FALSE
    OBVIOUS
<1>0. Bad \in SUBSET SUBSET T
    OBVIOUS
<1>1. PICK t \in Bad : \A y \in Bad : y \subseteq t => y = t
  <2> HIDE DEF Bad
  <2> QED BY <1>0, SmallestSubset
<1>2. t \in SUBSET T /\ IsFiniteSet(t) /\ ~Both(t)
    BY FS_Subset
<1>3. SumFunctionOnSet(g, S) \in Int
    BY SumInt
<1>4. t # {}
  <2>1. S \cup {} = S
    OBVIOUS
  <2> QED BY <1>2, <1>3, <2>1, SumOfNothing
<1>5. PICK e \in t : TRUE
    BY <1>4
<1> DEFINE r == t \ {e}
<1>6. /\ r \in SUBSET T /\ r \subseteq t /\ r # t /\ IsFiniteSet(r)
      /\ IsFiniteSet(S \cup t) /\ (S \cup t) \ {e} = S \cup r /\ e \in S \cup t
      /\ \A x \in S \cup t : g[x] \in Int
      /\ \A x \in r : g[x] \in Int
  <2>1. IsFiniteSet(r)
    BY <1>2, FS_Subset
  <2>2. IsFiniteSet(S \cup t)
    BY <1>2, FS_Union
  <2> QED BY <1>2, <2>1, <2>2
<1>7. Both(r)
  <2> HIDE DEF Both, r
  <2> QED BY <1>1, <1>6
<1> HIDE DEF r
<1>8. SumFunctionOnSet(g, S \cup t) = g[e] + SumFunctionOnSet(g, S \cup r)
    BY <1>6, SumRemove
<1>9. SumFunctionOnSet(g, t) = g[e] + SumFunctionOnSet(g, r)
    BY <1>2, <1>6, SumRemove DEF r
<1>10. SumFunctionOnSet(g, r) \in Int /\ g[e] \in Int
    BY <1>6, SumInt
<1> QED BY <1>2, <1>3, <1>7, <1>8, <1>9, <1>10

\* total gives for every t the sum of its group, the elements of S that h maps to it.
IsGrouping(S, T, g, h, total) ==
    /\ IsFiniteSet(S) /\ IsFiniteSet(T)
    /\ \A x \in S : g[x] \in Int
    /\ \A t \in T : total[t] = SumFunctionOnSet(g, {x \in S : h[x] = t})

\* A sum by groups is the sum of the elements that are in some group.
LEMMA SumOfGroups ==
    ASSUME NEW S, NEW T, NEW g, NEW h, NEW total, IsGrouping(S, T, g, h, total)
    PROVE  SumFunctionOnSet(total, T) = SumFunctionOnSet(g, {x \in S : h[x] \in T})
<1> DEFINE Group(u) == {x \in S : h[x] \in u}
           Right(u) == SumFunctionOnSet(total, u) = SumFunctionOnSet(g, Group(u))
           Bad == {u \in SUBSET T : ~Right(u)}
<1> USE DEF IsGrouping
<1> SUFFICES ASSUME Bad # {} PROVE FALSE
    OBVIOUS
<1>0. Bad \in SUBSET SUBSET T
    OBVIOUS
<1>1. PICK u \in Bad : \A y \in Bad : y \subseteq u => y = u
  <2> HIDE DEF Bad
  <2> QED BY <1>0, SmallestSubset
<1>2. u \in SUBSET T /\ IsFiniteSet(u) /\ ~Right(u)
    BY FS_Subset
<1>3. u # {}
  <2>1. Group({}) = {}
    OBVIOUS
  <2> QED BY <1>2, <2>1, SumOfNothing
<1>4. PICK e \in u : TRUE
    BY <1>3
<1> DEFINE r == u \ {e}
           one == {x \in S : h[x] = e}
<1>5. r \in SUBSET T /\ r \subseteq u /\ r # u /\ IsFiniteSet(r)
    BY <1>2, FS_Subset
<1>6. Right(r)
  <2> HIDE DEF Right, r
  <2> QED BY <1>1, <1>5
<1>7. IsFiniteSet(Group(r)) /\ IsFiniteSet(one)
    BY FS_Subset
<1>8. Group(u) = Group(r) \cup one /\ Group(r) \cap one = {} /\ \A x \in Group(r) \cup one : g[x] \in Int
    BY <1>2, <1>4
<1>9. SumFunctionOnSet(g, Group(u)) = SumFunctionOnSet(g, Group(r)) + SumFunctionOnSet(g, one)
  <2> DEFINE most == Group(r)
  <2> HIDE DEF Group, one, Bad, Right, most
  <2>1. IsFiniteSet(most) /\ IsFiniteSet(one) /\ most \cap one = {} /\ \A x \in most \cup one : g[x] \in Int
    BY <1>7, <1>8 DEF most
  <2>2. SumFunctionOnSet(g, most \cup one) = SumFunctionOnSet(g, most) + SumFunctionOnSet(g, one)
    BY <2>1, SumUnion
  <2> QED BY <1>8, <2>2 DEF most
<1>10. \A t \in T : total[t] \in Int
  <2>1. ASSUME NEW t \in T PROVE total[t] \in Int
    <3> DEFINE group == {x \in S : h[x] = t}
    <3>1. IsFiniteSet(group) /\ \A x \in group : g[x] \in Int
      BY FS_Subset
    <3>2. total[t] = SumFunctionOnSet(g, group)
      OBVIOUS
    <3> HIDE DEF group
    <3> QED BY <3>1, <3>2, SumInt
  <2> QED BY <2>1
<1>11. SumFunctionOnSet(total, u) = total[e] + SumFunctionOnSet(total, r)
    BY <1>2, <1>4, <1>10, SumRemove
<1>12. total[e] = SumFunctionOnSet(g, one) /\ total[e] \in Int
    BY <1>2, <1>10
<1>13. SumFunctionOnSet(total, r) \in Int
  <2>1. \A t \in r : total[t] \in Int
    BY <1>5, <1>10
  <2> QED BY <1>5, <2>1, SumInt
<1> QED BY <1>2, <1>6, <1>9, <1>11, <1>12, <1>13
\* Value by value, c times f is at most g and a times v.
ScaledAtMost(S, c, f, g, a, v) ==
    /\ IsFiniteSet(S) /\ c \in Int /\ a \in Int
    /\ \A x \in S : f[x] \in Int /\ g[x] \in Int /\ v[x] \in Int /\ c * f[x] <= g[x] + a * v[x]

\* Products distribute over sums.
LEMMA Distributes == \A a, x, y \in Int : a * (x + y) = a * x + a * y /\ a * x \in Int
OBVIOUS

\* Then so are the sums.
LEMMA SumScaled ==
    ASSUME NEW S, NEW c, NEW f, NEW g, NEW a, NEW v, ScaledAtMost(S, c, f, g, a, v)
    PROVE  /\ c * SumFunctionOnSet(f, S) <= SumFunctionOnSet(g, S) + a * SumFunctionOnSet(v, S)
           /\ SumFunctionOnSet(f, S) \in Int
           /\ SumFunctionOnSet(g, S) \in Int
           /\ SumFunctionOnSet(v, S) \in Int
<1> DEFINE Right(s) == c * SumFunctionOnSet(f, s) <= SumFunctionOnSet(g, s) + a * SumFunctionOnSet(v, s)
           Bad == {s \in SUBSET S : ~Right(s)}
<1>0. /\ SumFunctionOnSet(f, S) \in Int
      /\ SumFunctionOnSet(g, S) \in Int
      /\ SumFunctionOnSet(v, S) \in Int
    BY SumInt DEF ScaledAtMost
<1> SUFFICES ASSUME Bad # {} PROVE FALSE
    BY <1>0
<1>1. Bad \in SUBSET SUBSET S /\ IsFiniteSet(S)
    BY DEF ScaledAtMost
<1>2. PICK s \in Bad : \A y \in Bad : y \subseteq s => y = s
  <2> HIDE DEF Bad
  <2> QED BY <1>1, SmallestSubset
<1>3. s \in SUBSET S /\ IsFiniteSet(s) /\ ~Right(s)
    BY <1>1, FS_Subset
<1>4. s # {}
  <2>1. SumFunctionOnSet(f, {}) = 0 /\ SumFunctionOnSet(g, {}) = 0 /\ SumFunctionOnSet(v, {}) = 0
    BY SumOfNothing
  <2>2. c * 0 = 0 /\ a * 0 = 0
    BY DEF ScaledAtMost
  <2> QED BY <1>3, <2>1, <2>2
<1>5. PICK e \in s : TRUE
    BY <1>4
<1> DEFINE r == s \ {e}
<1>6. /\ r \in SUBSET S /\ r \subseteq s /\ r # s /\ IsFiniteSet(r)
      /\ \A x \in s : f[x] \in Int /\ g[x] \in Int /\ v[x] \in Int
      /\ \A x \in r : f[x] \in Int /\ g[x] \in Int /\ v[x] \in Int
      /\ c \in Int /\ a \in Int /\ c * f[e] <= g[e] + a * v[e]
    BY <1>3, FS_Subset DEF ScaledAtMost
<1>7. Right(r)
  <2> HIDE DEF Right, r
  <2> QED BY <1>2, <1>6
<1>8. /\ SumFunctionOnSet(f, s) = f[e] + SumFunctionOnSet(f, r)
      /\ SumFunctionOnSet(g, s) = g[e] + SumFunctionOnSet(g, r)
      /\ SumFunctionOnSet(v, s) = v[e] + SumFunctionOnSet(v, r)
    BY <1>3, <1>6, SumRemove
<1> HIDE DEF r
<1>9. /\ SumFunctionOnSet(f, r) \in Int
      /\ SumFunctionOnSet(g, r) \in Int
      /\ SumFunctionOnSet(v, r) \in Int
    BY <1>6, SumInt
<1>10. /\ c * SumFunctionOnSet(f, s) = c * f[e] + c * SumFunctionOnSet(f, r)
       /\ a * SumFunctionOnSet(v, s) = a * v[e] + a * SumFunctionOnSet(v, r)
       /\ c * f[e] \in Int /\ a * v[e] \in Int
       /\ c * SumFunctionOnSet(f, r) \in Int /\ a * SumFunctionOnSet(v, r) \in Int
    BY <1>5, <1>6, <1>8, <1>9, Distributes
<1> QED BY <1>3, <1>5, <1>6, <1>7, <1>8, <1>9, <1>10

-----------------------------------------------------------------------------
\* A set of naturals that is not empty has a least element.  It stands in for induction
\* where a recursive function over the naturals is unfolded.
LEMMA LeastNat ==
    ASSUME NEW T \in SUBSET Nat, T # {}
    PROVE  \E n \in T : \A m \in T : n <= m
<1>1. PICK n \in T : \A m \in T : <<m, n>> \notin OpToRel(<, Nat)
    BY NatLessThanWellFounded, WFMin
<1>2. ASSUME NEW m \in T PROVE n <= m
  <2>1. <<m, n>> \in Nat \X Nat /\ <<m, n>> \notin {ss \in Nat \X Nat : ss[1] < ss[2]}
    BY <1>1 DEF OpToRel
  <2> QED BY <2>1
<1> QED BY <1>2
=============================================================================
