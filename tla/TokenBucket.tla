----------------------------- MODULE TokenBucket -----------------------------
(***************************************************************************)
(* What a rate limit promises: a bucket that holds at most cap tokens,     *)
(* fills by rate tokens in every second that passes and is emptied by      *)
(* whoever uses it.  The level is a variable that moves with the clock;    *)
(* utils/RateLimited.sol keeps no such variable and reconstructs the level *)
(* from the time of the last use.  RateLimited.tla shows that it           *)
(* implements this bucket.                                                 *)
(***************************************************************************)
EXTENDS Integers

CONSTANT Amounts    \* what may be given back at once

VARIABLES clock, rate, cap, level

bucketVars == <<clock, rate, cap, level>>

Least(a, b) == IF a <= b THEN a ELSE b

Init == clock \in Nat /\ rate \in Nat /\ cap \in Nat /\ level = cap

\* Time passes and the bucket fills, never beyond cap.
Fill ==
    /\ clock' > clock
    /\ level' = Least(level + rate * (clock' - clock), cap)
    /\ UNCHANGED <<rate, cap>>

\* Tokens are taken: never from an empty bucket, never more than it holds.
Take ==
    /\ level > 0
    /\ level' \in 0..level
    /\ UNCHANGED <<clock, rate, cap>>

\* Tokens are given back, up to cap.
Give ==
    /\ \E amount \in Amounts : level' = Least(level + amount, cap)
    /\ UNCHANGED <<clock, rate, cap>>

\* A new rate changes how fast the bucket fills from now on, not its level.
SetRate ==
    /\ rate' \in Nat
    /\ UNCHANGED <<clock, cap, level>>

\* A lower cap spills what no longer fits; a higher one adds nothing.  A new rate may come
\* with it.
SetCap ==
    /\ cap' \in Nat /\ rate' \in Nat
    /\ level' = Least(level, cap')
    /\ UNCHANGED clock

Next == Fill \/ Take \/ Give \/ SetRate \/ SetCap

Spec == Init /\ [][Next]_bucketVars
=============================================================================
