--------------------------- MODULE Iteration_proofs ---------------------------
(***************************************************************************)
(* Induction and recursion over the numbers of an interval, over sets that *)
(* stand for predicates and functions that stand for operators: what was   *)
(* to hold of all numbers and does not has a least exception.  And what    *)
(* follows of sums, which the models write as recursive functions.         *)
(***************************************************************************)
EXTENDS Integers, WellFoundedInduction, TLAPS

\* Of a set of numbers that is not empty there is a least one.
LEMMA LeastExists ==
    ASSUME NEW T, T \subseteq Nat, T # {}
    PROVE  \E least \in T : \A i \in T : least <= i
<1>1. PICK least \in T : \A i \in T : ~(<<i, least>> \in OpToRel(<, Nat))
    BY NatLessThanWellFounded, WFMin
<1>2. \A i \in T : ~(i < least)
    BY <1>1 DEF OpToRel
<1> QED BY <1>2

\* And of some numbers up to a bound there is a greatest.
LEMMA GreatestExists ==
    ASSUME NEW n \in Nat, NEW T, T \subseteq 0 .. n, T # {}
    PROVE  \E greatest \in T : \A i \in T : i <= greatest
<1> DEFINE mirrored == {n - i : i \in T}
<1>1. mirrored \subseteq Nat
    <2> SUFFICES ASSUME NEW i \in T PROVE n - i \in Nat
        OBVIOUS
    <2>1. i \in 0 .. n
        OBVIOUS
    <2> QED BY <2>1
<1>2. mirrored # {}
    <2>1. PICK i : i \in T
        OBVIOUS
    <2>2. n - i \in mirrored
        BY <2>1
    <2> QED BY <2>2
<1>3. PICK least \in mirrored : \A i \in mirrored : least <= i
    <2> HIDE DEF mirrored
    <2> QED BY <1>1, <1>2, LeastExists
<1>4. PICK greatest \in T : least = n - greatest
    OBVIOUS
<1>5. \A i \in T : least <= n - i
    BY <1>3
<1> QED BY <1>4, <1>5

\* What holds of 0, and of each number when of the one before, holds up to n.
LEMMA IntervalInduction ==
    ASSUME NEW n \in Nat, NEW T, 0 \in T, \A i \in 1 .. n : i - 1 \in T => i \in T
    PROVE  0 .. n \subseteq T
<1> DEFINE Missing == {i \in 0 .. n : i \notin T}
<1>1. SUFFICES ASSUME Missing # {} PROVE FALSE
    OBVIOUS
<1>2. PICK least \in Missing : \A i \in Missing : least <= i
    <2>1. Missing \subseteq Nat
        OBVIOUS
    <2> HIDE DEF Missing
    <2> QED BY <1>1, <2>1, LeastExists
<1>3. least - 1 \in 0 .. n /\ least \in 1 .. n
    OBVIOUS
<1>4. least - 1 \in T
    BY <1>2, <1>3
<1> QED BY <1>3, <1>4

\* f applies the steps 1 .. m in their order, from base on.
Iterates(f, m, base, step, S) ==
    f \in [0 .. m -> S] /\ f[0] = base /\ \A i \in 1 .. m : f[i] = step[i][f[i - 1]]

\* A function that iterates steps, one for each number, exists.
LEMMA IterationExists ==
    ASSUME NEW n \in Nat, NEW S, NEW base \in S, NEW step \in [1 .. n -> [S -> S]]
    PROVE  \E f : Iterates(f, n, base, step, S)
<1> DEFINE T == {m \in 0 .. n : \E f : Iterates(f, m, base, step, S)}
<1>1. 0 \in T
    <2>1. Iterates([i \in 0 .. 0 |-> base], 0, base, step, S)
        BY DEF Iterates
    <2> QED BY <2>1
<1>2. ASSUME NEW m \in 1 .. n, m - 1 \in T PROVE m \in T
    <2>1. PICK f : Iterates(f, m - 1, base, step, S)
        BY <1>2
    <2> DEFINE g == [i \in 0 .. m |-> IF i < m THEN f[i] ELSE step[m][f[m - 1]]]
    <2>2. f \in [0 .. m - 1 -> S] /\ f[0] = base /\ \A i \in 1 .. m - 1 : f[i] = step[i][f[i - 1]]
        BY <2>1 DEF Iterates
    <2>3. step[m][f[m - 1]] \in S
        BY <2>2
    <2>4. g \in [0 .. m -> S] /\ g[0] = base
        BY <2>2, <2>3
    <2>5. \A i \in 1 .. m : g[i] = step[i][g[i - 1]]
        <3> TAKE i \in 1 .. m
        <3>1. CASE i = m
            BY <3>1
        <3>2. CASE i < m
            BY <2>2, <3>2
        <3> QED BY <3>1, <3>2
    <2>6. Iterates(g, m, base, step, S)
        <3> HIDE DEF g
        <3> QED BY <2>4, <2>5 DEF Iterates
    <2> HIDE DEF g
    <2> QED BY <2>6
<1>3. n \in T
    <2> HIDE DEF T
    <2>1. 0 .. n \subseteq T
        BY <1>1, <1>2, IntervalInduction
    <2> QED BY <2>1
<1> QED BY <1>3

-----------------------------------------------------------------------------
(***************************************************************************)
(* Sums over the numbers below n.                                          *)
(***************************************************************************)
IsSum(sum, term, n) ==
    /\ sum \in [0 .. n -> Int] /\ sum[0] = 0
    /\ \A k \in 1 .. n : sum[k] = sum[k - 1] + term[k - 1]

LEMMA SumExists ==
    ASSUME NEW n \in Nat, NEW term \in [0 .. n - 1 -> Int]
    PROVE  \E sum : IsSum(sum, term, n)
<1> DEFINE step == [k \in 1 .. n |-> [s \in Int |-> s + term[k - 1]]]
<1>1. step \in [1 .. n -> [Int -> Int]]
    OBVIOUS
<1>2. PICK sum : Iterates(sum, n, 0, step, Int)
    <2>1. 0 \in Int
        OBVIOUS
    <2> HIDE DEF step
    <2> QED BY <1>1, <2>1, IterationExists, Zenon
<1>3. sum \in [0 .. n -> Int] /\ sum[0] = 0 /\ \A k \in 1 .. n : sum[k] = step[k][sum[k - 1]]
    BY <1>2 DEF Iterates
<1>4. \A k \in 1 .. n : \A x \in Int : step[k][x] = x + term[k - 1]
    OBVIOUS
<1>5. \A k \in 1 .. n : sum[k] = sum[k - 1] + term[k - 1]
    <2> TAKE k \in 1 .. n
    <2>1. sum[k - 1] \in Int
        BY <1>3
    <2> HIDE DEF step
    <2> QED BY <1>3, <1>4, <2>1
<1> QED BY <1>3, <1>5 DEF IsSum

\* The sum a recursive definition chooses is one.
LEMMA RecursiveSum ==
    ASSUME NEW n \in Nat, NEW term \in [0 .. n - 1 -> Int]
    PROVE  IsSum(CHOOSE s : s = [k \in 0 .. n |-> IF k = 0 THEN 0 ELSE s[k - 1] + term[k - 1]],
                 term, n)
<1> DEFINE Sums(s) == s = [k \in 0 .. n |-> IF k = 0 THEN 0 ELSE s[k - 1] + term[k - 1]]
           chosen == CHOOSE s : Sums(s)
<1>1. PICK sum : IsSum(sum, term, n)
    BY SumExists
<1>2. Sums(sum)
    BY <1>1 DEF IsSum
<1>3. Sums(chosen)
    <2> HIDE DEF Sums
    <2> QED BY <1>2
<1> HIDE DEF chosen
<1> DEFINE T == {k \in 0 .. n : chosen[k] = sum[k]}
<1>4. 0 \in T
    BY <1>1, <1>3 DEF IsSum
<1>5. ASSUME NEW k \in 1 .. n, k - 1 \in T PROVE k \in T
    BY <1>1, <1>3, <1>5 DEF IsSum
<1>6. 0 .. n \subseteq T
    <2> HIDE DEF T
    <2> QED BY <1>4, <1>5, IntervalInduction
<1>7. chosen = sum
    BY <1>1, <1>2, <1>3, <1>6 DEF IsSum
<1> QED BY <1>1, <1>7 DEF chosen

\* There is one sum of the same terms.
LEMMA SumUnique ==
    ASSUME NEW n \in Nat, NEW f, NEW s, IsSum(s, f, n), NEW t, IsSum(t, f, n)
    PROVE  s[n] = t[n]
<1> DEFINE T == {k \in 0 .. n : s[k] = t[k]}
<1>1. 0 \in T
    BY DEF IsSum
<1>2. ASSUME NEW k \in 1 .. n, k - 1 \in T PROVE k \in T
    BY <1>2 DEF IsSum
<1>3. 0 .. n \subseteq T
    <2> HIDE DEF T
    <2> QED BY <1>1, <1>2, IntervalInduction
<1> QED BY <1>3

\* Of the terms before n a further term does not change the sum.
LEMMA SumOfOneMore ==
    ASSUME NEW n \in Nat, NEW f, NEW g, \A k \in 0 .. n - 1 : g[k] = f[k],
           NEW s, IsSum(s, f, n), NEW t, IsSum(t, g, n + 1)
    PROVE  t[n] = s[n]
<1> DEFINE T == {k \in 0 .. n : t[k] = s[k]}
<1>1. 0 \in T
    BY DEF IsSum
<1>2. ASSUME NEW k \in 1 .. n, k - 1 \in T PROVE k \in T
    BY <1>2 DEF IsSum
<1>3. 0 .. n \subseteq T
    <2> HIDE DEF T
    <2> QED BY <1>1, <1>2, IntervalInduction
<1> QED BY <1>3

\* g is f, but for one term that has grown by d.
GrownAt(i, d, f, g, n) ==
    /\ i \in 0 .. n - 1 /\ d \in Int
    /\ f \in [0 .. n - 1 -> Int] /\ g \in [0 .. n - 1 -> Int]
    /\ g[i] = f[i] + d
    /\ \A k \in 0 .. n - 1 : k # i => g[k] = f[k]

\* When one term grows by d, so does the sum.
LEMMA SumOfOneChanged ==
    ASSUME NEW n \in Nat, NEW i, NEW d, NEW f, NEW g, GrownAt(i, d, f, g, n),
           NEW s, IsSum(s, f, n), NEW t, IsSum(t, g, n)
    PROVE  t[n] = s[n] + d
<1> USE DEF GrownAt
<1> DEFINE T == {k \in 0 .. n : t[k] = s[k] + IF k > i THEN d ELSE 0}
<1>1. 0 \in T
    BY DEF IsSum
<1>2. ASSUME NEW k \in 1 .. n, k - 1 \in T PROVE k \in T
    <2>1. k - 1 \in 0 .. n - 1 /\ k - 1 \in 0 .. n /\ k \in 0 .. n
        OBVIOUS
    <2>2. s[k] = s[k - 1] + f[k - 1] /\ t[k] = t[k - 1] + g[k - 1]
        BY DEF IsSum
    <2>3. s[k - 1] \in Int /\ t[k - 1] \in Int
        BY <2>1 DEF IsSum
    <2>4. f[k - 1] \in Int /\ g[k - 1] \in Int
        BY <2>1
    <2>5. t[k - 1] = s[k - 1] + IF k - 1 > i THEN d ELSE 0
        BY <1>2
    <2>6. CASE k - 1 = i
        BY <2>2, <2>3, <2>4, <2>5, <2>6
    <2>7. CASE k - 1 # i
        BY <2>1, <2>2, <2>3, <2>4, <2>5, <2>7
    <2> QED BY <2>6, <2>7
<1>3. 0 .. n \subseteq T
    <2> HIDE DEF T
    <2> QED BY <1>1, <1>2, IntervalInduction
<1>4. n \in T /\ n > i
    BY <1>3
<1> QED BY <1>4

\* A sum of terms none of which is negative is no less than any of them.
LEMMA SumCovers ==
    ASSUME NEW n \in Nat, NEW term \in [0 .. n - 1 -> Int], NEW sum, IsSum(sum, term, n),
           \A k \in 0 .. n - 1 : term[k] >= 0, NEW i \in 0 .. n - 1
    PROVE  sum[n] >= term[i]
<1> DEFINE T == {k \in 0 .. n : sum[k] >= 0 /\ (k > i => sum[k] >= term[i])}
<1>1. 0 \in T
    BY DEF IsSum
<1>2. ASSUME NEW k \in 1 .. n, k - 1 \in T PROVE k \in T
    <2>1. k - 1 \in 0 .. n - 1 /\ k - 1 \in 0 .. n /\ k \in 0 .. n
        OBVIOUS
    <2>2. sum[k] = sum[k - 1] + term[k - 1] /\ sum[k - 1] \in Int
        BY <2>1 DEF IsSum
    <2>3. term[k - 1] \in Int /\ term[k - 1] >= 0 /\ term[i] \in Int /\ term[i] >= 0
        BY <2>1
    <2>4. sum[k - 1] >= 0 /\ (k - 1 > i => sum[k - 1] >= term[i])
        BY <1>2
    <2>5. CASE k - 1 = i
        BY <2>1, <2>2, <2>3, <2>4, <2>5
    <2>6. CASE k - 1 # i
        BY <2>1, <2>2, <2>3, <2>4, <2>6
    <2> QED BY <2>5, <2>6
<1>3. 0 .. n \subseteq T
    <2> HIDE DEF T
    <2> QED BY <1>1, <1>2, IntervalInduction
<1>4. n \in T /\ n > i
    BY <1>3
<1> QED BY <1>4
=============================================================================
