--------------------------------- MODULE DataLemmas ------------------------------
(****************************************************************************)
(* What the proofs about recursive functions need: of any numbers one is    *)
(* the least, so that what holds at 0 and from each number to the next      *)
(* holds of all; and a function defined by a recursion exists.              *)
(****************************************************************************)
EXTENDS Integers, FiniteSets, FiniteSetTheorems, NaturalsInduction, WellFoundedInduction, TLAPS

\* Of any numbers, one is the least.
LEMMA LeastNumber ==
  ASSUME NEW T, T \subseteq Nat, T # {}
  PROVE  \E m \in T : \A k \in T : m <= k
<1>1. PICK m \in T : \A k \in T : ~(<<k, m>> \in OpToRel(<, Nat))
  BY WFMin, NatLessThanWellFounded, Zenon
<1>2. \A k \in T : ~(k < m)
  BY <1>1 DEF OpToRel
<1> QED BY <1>2

\* Of numbers up to n, one is the greatest.
LEMMA GreatestNumber ==
  ASSUME NEW n \in Nat, NEW T, T \subseteq 0..n, T # {}
  PROVE  \E m \in T : \A k \in T : k <= m
<1> DEFINE D == {n - k : k \in T}
<1>0. \A k \in T : k \in 0..n /\ n - k \in Nat
  OBVIOUS
<1>1. D \subseteq Nat /\ D # {}
  BY <1>0
<1>2. PICK d \in D : \A k \in D : d <= k
  BY <1>1, LeastNumber
<1>3. PICK m \in T : d = n - m
  BY <1>2
<1>4. \A k \in T : n - m <= n - k
  BY <1>2, <1>3
<1>5. \A k \in T : k <= m
  BY <1>4
<1> QED BY <1>5

LEMMA CardUpTo == \A k \in Nat : IsFiniteSet(1..k) /\ Cardinality(1..k) = k
<1> SUFFICES ASSUME NEW k \in Nat PROVE IsFiniteSet(1..k) /\ Cardinality(1..k) = k
  OBVIOUS
<1>1. IsFiniteSet(1..k) /\ Cardinality(1..k) = IF 1 > k THEN 0 ELSE k - 1 + 1
  BY FS_Interval
<1> QED BY <1>1

\* A function that starts with e and takes each value from the one before.
Steps(f, n, S, e, step) ==
  f \in [0..n -> S] /\ f[0] = e /\ \A i \in 1..n : f[i] = step[<<i, f[i - 1]>>]

LEMMA StepsExist ==
  ASSUME NEW n \in Nat, NEW S, NEW e \in S, NEW step \in [(1..n) \X S -> S]
  PROVE  \E f : Steps(f, n, S, e, step)
<1> DEFINE Upto(m) == \E f \in [0..m -> S] : f[0] = e /\ \A i \in 1..m : f[i] = step[<<i, f[i - 1]>>]
           T == {m \in 0..n : ~Upto(m)}
<1> SUFFICES ASSUME T # {} PROVE FALSE
  BY DEF Steps
<1>t. T \subseteq Nat
  OBVIOUS
<1>1. PICK m \in T : \A k \in T : m <= k
  <2> HIDE DEF T
  <2> QED BY <1>t, LeastNumber
<1>2. m \in 0..n /\ ~Upto(m)
  OBVIOUS
<1>3. m # 0
  <2> SUFFICES Upto(0)
    BY <1>2
  <2> DEFINE f == [i \in 0..0 |-> e]
  <2>1. f \in [0..0 -> S] /\ f[0] = e /\ \A i \in 1..0 : f[i] = step[<<i, f[i - 1]>>]
    OBVIOUS
  <2> QED BY <2>1
<1>4. m - 1 \in 0..n /\ Upto(m - 1)
  BY <1>1, <1>2, <1>3
<1>5. PICK f \in [0..(m - 1) -> S] : f[0] = e /\ \A i \in 1..(m - 1) : f[i] = step[<<i, f[i - 1]>>]
  BY <1>4
<1> DEFINE g == [i \in 0..m |-> IF i = m THEN step[<<m, f[m - 1]>>] ELSE f[i]]
<1> HIDE DEF T
<1>6. step[<<m, f[m - 1]>>] \in S
  BY <1>2, <1>3
<1>7. g \in [0..m -> S]
  BY <1>2, <1>6
<1>8. g[0] = e
  BY <1>2, <1>3, <1>5
<1>9. ASSUME NEW i \in 1..m PROVE g[i] = step[<<i, g[i - 1]>>]
  <2>1. i - 1 \in 0..m /\ i - 1 # m /\ g[i - 1] = f[i - 1]
    BY <1>2
  <2>2. CASE i = m
    BY <2>1, <2>2
  <2>3. CASE i # m
    <3>1. i \in 1..(m - 1)
      BY <1>2, <2>3
    <3> QED BY <1>5, <2>1, <2>3, <3>1
  <2> QED BY <2>2, <2>3
<1> QED BY <1>2, <1>7, <1>8, <1>9

\* There is no other, whatever `step` says of values that are not in S.
StepsIn(w, n, S, e, step) ==
  /\ w = [i \in 0..n |-> w[i]] /\ w[0] = e
  /\ \A i \in 1..n : w[i - 1] \in S => w[i] = step[<<i, w[i - 1]>>]

LEMMA StepsUnique ==
  ASSUME NEW n \in Nat, NEW S, NEW e, NEW step,
         NEW f, Steps(f, n, S, e, step), NEW w, StepsIn(w, n, S, e, step)
  PROVE  w = f
<1>0. /\ w = [i \in 0..n |-> w[i]] /\ w[0] = e
      /\ \A i \in 1..n : w[i - 1] \in S => w[i] = step[<<i, w[i - 1]>>]
  BY DEF StepsIn
<1>1. f \in [0..n -> S] /\ f[0] = e /\ \A i \in 1..n : f[i] = step[<<i, f[i - 1]>>]
  BY DEF Steps
<1> DEFINE T == {i \in 0..n : w[i] # f[i]}
<1>2. T = {}
  <2> SUFFICES ASSUME T # {} PROVE FALSE
    OBVIOUS
  <2>1. T \subseteq Nat
    OBVIOUS
  <2>2. PICK i \in T : \A k \in T : i <= k
    <3> HIDE DEF T
    <3> QED BY <2>1, LeastNumber
  <2>3. i \in 0..n /\ w[i] # f[i]
    OBVIOUS
  <2>4. i # 0
    BY <1>0, <1>1, <2>3
  <2>5. i \in 1..n /\ i - 1 \in 0..n /\ i - 1 \notin T
    <3> HIDE DEF T
    <3> QED BY <2>2, <2>3, <2>4
  <2>6. w[i - 1] = f[i - 1] /\ f[i - 1] \in S
    BY <1>1, <2>5
  <2> HIDE DEF T
  <2> QED BY <1>0, <1>1, <2>3, <2>5, <2>6
<1>3. \A i \in 0..n : w[i] = f[i]
  BY <1>2
<1>4. f = [i \in 0..n |-> f[i]]
  BY <1>1
<1> HIDE DEF T
<1> QED BY <1>0, <1>3, <1>4

\* A function that is e behind n and takes each value before from that of some
\* later number.
Later(later, K, n) == later \in [1..n -> 1..K] /\ \A i \in 1..n : i < later[i]
Descends(f, K, n, S, e, later, step) ==
  f \in [1..K -> S] /\ \A i \in 1..K : f[i] = IF i > n THEN e ELSE step[<<i, f[later[i]]>>]

LEMMA DescentExists ==
  ASSUME NEW K \in Nat, NEW n \in 0..K, NEW S, NEW e \in S, NEW step \in [(1..n) \X S -> S],
         NEW later, Later(later, K, n)
  PROVE  \E f : Descends(f, K, n, S, e, later, step)
<1>l. later \in [1..n -> 1..K] /\ \A i \in 1..n : i < later[i]
  BY DEF Later
<1> DEFINE Down(m) == \E f \in [m..K -> S] :
                        \A i \in m..K : f[i] = IF i > n THEN e ELSE step[<<i, f[later[i]]>>]
           T == {m \in 1..n : ~Down(m)}
<1>0. \A m \in 1..K + 1 : m > n => Down(m)
  <2> SUFFICES ASSUME NEW m \in 1..K + 1, m > n PROVE Down(m)
    OBVIOUS
  <2> DEFINE f == [i \in m..K |-> e]
  <2>1. f \in [m..K -> S] /\ \A i \in m..K : f[i] = IF i > n THEN e ELSE step[<<i, f[later[i]]>>]
    OBVIOUS
  <2> QED BY <2>1
<1>1. T = {}
  <2> SUFFICES ASSUME T # {} PROVE FALSE
    OBVIOUS
  <2>1. T \subseteq 0..n /\ n \in Nat
    OBVIOUS
  <2>2. PICK m \in T : \A k \in T : k <= m
    BY <2>1, GreatestNumber
  <2>3. m \in 1..n /\ ~Down(m)
    OBVIOUS
  <2>4. Down(m + 1)
    <3>1. CASE m + 1 > n
      <4>1. m + 1 \in 1..K + 1 /\ m + 1 > n
        BY <2>3, <3>1
      <4> HIDE DEF Down
      <4> QED BY <1>0, <4>1
    <3>2. CASE m + 1 <= n
      <4>1. m + 1 \in 1..n
        BY <2>3, <3>2
      <4>2. m + 1 \notin T
        <5> HIDE DEF T
        <5> QED BY <2>2, <2>3
      <4> QED BY <4>1, <4>2
    <3> QED BY <2>3, <3>1, <3>2
  <2>5. PICK f \in [m + 1..K -> S] :
          \A i \in m + 1..K : f[i] = IF i > n THEN e ELSE step[<<i, f[later[i]]>>]
    BY <2>4
  <2> DEFINE g == [i \in m..K |-> IF i = m THEN step[<<m, f[later[m]]>>] ELSE f[i]]
  <2> HIDE DEF T
  <2>6. later[m] \in m + 1..K /\ f[later[m]] \in S
    BY <1>l, <2>3, <2>5
  <2>7. step[<<m, f[later[m]]>>] \in S
    BY <2>3, <2>6
  <2>8. g \in [m..K -> S]
    BY <2>3, <2>5, <2>7
  <2>9. ASSUME NEW i \in m..K PROVE g[i] = IF i > n THEN e ELSE step[<<i, g[later[i]]>>]
    <3>1. CASE i = m
      <4>1. g[later[m]] = f[later[m]] /\ ~(m > n)
        BY <2>3, <2>6
      <4> QED BY <3>1, <4>1
    <3>2. CASE i # m
      <4>1. i \in m + 1..K /\ g[i] = f[i]
        BY <2>3, <3>2
      <4>2. i <= n => later[i] \in m + 1..K /\ later[i] # m /\ g[later[i]] = f[later[i]]
        BY <1>l, <2>3, <4>1
      <4>3. f[i] = IF i > n THEN e ELSE step[<<i, f[later[i]]>>]
        BY <2>5, <4>1
      <4>4. i > n \/ i <= n
        BY <4>1
      <4> HIDE DEF g
      <4> QED BY <4>1, <4>2, <4>3, <4>4
    <3> QED BY <3>1, <3>2
  <2> QED BY <2>3, <2>8, <2>9
<1>2. Down(1)
  <2>1. CASE n = 0
    <3>1. 1 \in 1..K + 1 /\ 1 > n
      BY <2>1
    <3> QED BY <1>0, <3>1
  <2>2. CASE n # 0
    <3>1. 1 \in 1..n
      BY <2>2
    <3>2. 1 \notin T
      <4> HIDE DEF T
      <4> QED BY <1>1
    <3> QED BY <3>1, <3>2
  <2> QED BY <2>1, <2>2
<1> QED BY <1>2 DEF Descends

\* There is no other.
DescendsIn(w, K, n, S, e, later, step) ==
  /\ w = [i \in 1..K |-> w[i]] /\ \A i \in 1..K : i > n => w[i] = e
  /\ \A i \in 1..n : w[later[i]] \in S => w[i] = step[<<i, w[later[i]]>>]

LEMMA DescentUnique ==
  ASSUME NEW K \in Nat, NEW n \in 0..K, NEW S, NEW e, NEW later, Later(later, K, n), NEW step,
         NEW f, Descends(f, K, n, S, e, later, step), NEW w, DescendsIn(w, K, n, S, e, later, step)
  PROVE  w = f
<1>0. /\ later \in [1..n -> 1..K] /\ \A i \in 1..n : i < later[i]
      /\ w = [i \in 1..K |-> w[i]] /\ \A i \in 1..K : i > n => w[i] = e
      /\ \A i \in 1..n : w[later[i]] \in S => w[i] = step[<<i, w[later[i]]>>]
  BY DEF Later, DescendsIn
<1>1. f \in [1..K -> S] /\ \A i \in 1..K : f[i] = IF i > n THEN e ELSE step[<<i, f[later[i]]>>]
  BY DEF Descends
<1> DEFINE T == {i \in 1..K : w[i] # f[i]}
<1>2. T = {}
  <2> SUFFICES ASSUME T # {} PROVE FALSE
    OBVIOUS
  <2>1. T \subseteq 0..K
    OBVIOUS
  <2>2. PICK i \in T : \A k \in T : k <= i
    <3> HIDE DEF T
    <3> QED BY <2>1, GreatestNumber
  <2>3. i \in 1..K /\ w[i] # f[i]
    OBVIOUS
  <2>4. ~(i > n)
    BY <1>0, <1>1, <2>3
  <2>5. i \in 1..n /\ later[i] \in 1..K /\ i < later[i]
    BY <1>0, <2>3, <2>4
  <2>6. later[i] \notin T
    <3> HIDE DEF T
    <3> QED BY <2>2, <2>5
  <2>7. w[later[i]] = f[later[i]] /\ f[later[i]] \in S
    BY <1>1, <2>5, <2>6
  <2> HIDE DEF T
  <2>8. f[i] = step[<<i, f[later[i]]>>]
    BY <1>1, <2>3, <2>4
  <2> QED BY <1>0, <2>3, <2>5, <2>7, <2>8
<1>3. \A i \in 1..K : w[i] = f[i]
  BY <1>2
<1>4. f = [i \in 1..K |-> f[i]]
  BY <1>1
<1> HIDE DEF T
<1> QED BY <1>0, <1>3, <1>4
================================================================================
