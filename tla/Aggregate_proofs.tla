-------------------------- MODULE Aggregate_proofs --------------------------
(***************************************************************************)
(* Proofs about Aggregate.                                                 *)
(***************************************************************************)
EXTENDS Aggregate, FiniteSetTheorems, SequenceTheorems, TLAPS

-----------------------------------------------------------------------------
(* Least and greatest elements, and induction.                             *)

\* A nonempty set of naturals has a least element.
LEMMA LeastNatural ==
  ASSUME NEW T \in SUBSET Nat, T # {}
  PROVE  \E m \in T : \A k \in T : m <= k
<1> DEFINE Upto == {0 .. n : n \in T}
<1>1. Upto \subseteq FiniteSubsetsOf(Nat) /\ Upto # {}
  <2>1. ASSUME NEW n \in T PROVE 0 .. n \in FiniteSubsetsOf(Nat)
    <3>1. IsFiniteSet(0 .. n)
      BY FS_Interval
    <3>2. 0 .. n \subseteq Nat
      OBVIOUS
    <3> QED BY <3>1, <3>2 DEF FiniteSubsetsOf
  <2> QED BY <2>1
<1>2. PICK x \in Upto : \A y \in Upto : <<y, x>> \notin StrictSubsetOrdering(Nat)
  <2> HIDE DEF Upto
  <2> QED BY <1>1, WFMin, FS_StrictSubsetOrderingWellFounded
<1>3. PICK m \in T : x = 0 .. m
  BY <1>2
<1>4. ASSUME NEW k \in T, k < m PROVE FALSE
  <2>1. 0 .. k \in Upto /\ 0 .. k \subseteq 0 .. m /\ m \in 0 .. m /\ m \notin 0 .. k
    BY <1>4
  <2>2. <<0 .. k, 0 .. m>> \in StrictSubsetOrdering(Nat)
    BY <2>1 DEF StrictSubsetOrdering
  <2> QED BY <2>1, <2>2, <1>2, <1>3
<1> QED BY <1>3, <1>4

\* Induction, over the set of the numbers that have the property.
LEMMA Induction ==
  ASSUME NEW S, 0 \in S, \A n \in Nat : n \in S => n + 1 \in S
  PROVE  \A n \in Nat : n \in S
<1> SUFFICES ASSUME Nat \ S # {} PROVE FALSE
  OBVIOUS
<1>1. PICK m \in Nat \ S : \A k \in Nat \ S : m <= k
  BY LeastNatural
<1>2. m # 0 /\ m - 1 \in Nat /\ m - 1 \notin Nat \ S
  BY <1>1
<1> QED BY <1>1, <1>2

-----------------------------------------------------------------------------
(* Sums.                                                                   *)

Adds(g, f, n) == g = [k \in 0 .. n |-> IF k = 0 THEN 0 ELSE g[k - 1] + f[k - 1]]

\* The recursion in Sums has a solution.
LEMMA SumsExist ==
  ASSUME NEW f, NEW n \in Nat
  PROVE  Adds(Sums(f, n), f, n)
<1> DEFINE S == {m \in Nat : \E g : Adds(g, f, m)}
<1>1. 0 \in S
  <2>1. Adds([k \in 0 .. 0 |-> 0], f, 0)
    BY DEF Adds
  <2> QED BY <2>1
<1>2. ASSUME NEW m \in Nat, m \in S PROVE m + 1 \in S
  <2>1. PICK g : Adds(g, f, m)
    BY <1>2
  <2> DEFINE h == [k \in 0 .. m + 1 |-> IF k = m + 1 THEN g[m] + f[m] ELSE g[k]]
  <2>2. ASSUME NEW k \in 0 .. m + 1
        PROVE  h[k] = IF k = 0 THEN 0 ELSE h[k - 1] + f[k - 1]
    BY <2>1 DEF Adds
  <2>3. Adds(h, f, m + 1)
    BY <2>2 DEF Adds
  <2> HIDE DEF h
  <2> QED BY <2>3
<1>3. \E g : Adds(g, f, n)
  <2> HIDE DEF S
  <2>1. n \in S
    BY <1>1, <1>2, Induction
  <2> QED BY <2>1 DEF S
<1>4. Sums(f, n) = CHOOSE g : Adds(g, f, n)
  BY DEF Sums, Adds
<1> QED BY <1>3, <1>4

\* The running sums start at 0 and add one value at a time.
LEMMA SumsAt ==
  ASSUME NEW f, NEW n \in Nat
  PROVE  /\ Sums(f, n)[0] = 0
         /\ \A k \in 0 .. n - 1 : Sums(f, n)[k + 1] = Sums(f, n)[k] + f[k]
<1> DEFINE g == Sums(f, n)
<1>1. Adds(g, f, n)
  BY SumsExist
<1> HIDE DEF g
<1>2. g[0] = 0 /\ \A k \in 0 .. n - 1 : g[k + 1] = g[k] + f[k]
  BY <1>1 DEF Adds
<1> QED BY <1>2 DEF g

\* Sums of naturals are naturals.
LEMMA SumsType ==
  ASSUME NEW n \in Nat, NEW f \in [0 .. n - 1 -> Nat]
  PROVE  \A k \in 0 .. n : Sums(f, n)[k] \in Nat
<1> DEFINE g == Sums(f, n)
           S == {k \in Nat : k <= n => g[k] \in Nat}
<1>1. g[0] = 0 /\ \A k \in 0 .. n - 1 : g[k + 1] = g[k] + f[k]
  BY SumsAt
<1> HIDE DEF g
<1>2. 0 \in S
  BY <1>1
<1>3. ASSUME NEW k \in Nat, k \in S PROVE k + 1 \in S
  BY <1>1, <1>3
<1>4. \A k \in Nat : k \in S
  <2> HIDE DEF S
  <2> QED BY <1>2, <1>3, Induction
<1>5. \A k \in 0 .. n : g[k] \in Nat
  BY <1>4
<1> QED BY <1>5 DEF g

\* Two functions that differ at j only, by d.
LEMMA SumsBump ==
  ASSUME NEW n \in Nat, NEW f \in [0 .. n - 1 -> Nat], NEW h \in [0 .. n - 1 -> Nat],
         NEW j \in 0 .. n - 1, NEW d \in Nat,
         h[j] = f[j] + d, \A k \in 0 .. n - 1 : k # j => h[k] = f[k]
  PROVE  Sums(h, n)[n] = Sums(f, n)[n] + d
<1> DEFINE F == Sums(f, n)
           H == Sums(h, n)
           S == {k \in Nat : k <= n => H[k] = IF j < k THEN F[k] + d ELSE F[k]}
<1>1. F[0] = 0 /\ \A k \in 0 .. n - 1 : F[k + 1] = F[k] + f[k]
  BY SumsAt
<1>2. H[0] = 0 /\ \A k \in 0 .. n - 1 : H[k + 1] = H[k] + h[k]
  BY SumsAt
<1>3. \A k \in 0 .. n : F[k] \in Nat /\ H[k] \in Nat
  BY SumsType
<1> HIDE DEF F, H
<1>4. 0 \in S
  BY <1>1, <1>2
<1>5. ASSUME NEW k \in Nat, k \in S PROVE k + 1 \in S
  <2> SUFFICES ASSUME k + 1 <= n PROVE H[k + 1] = IF j < k + 1 THEN F[k + 1] + d ELSE F[k + 1]
    OBVIOUS
  <2>1. k \in 0 .. n - 1 /\ k \in 0 .. n
    OBVIOUS
  <2>2. H[k] = IF j < k THEN F[k] + d ELSE F[k]
    BY <1>5
  <2>3. H[k + 1] = H[k] + h[k] /\ F[k + 1] = F[k] + f[k]
    BY <1>1, <1>2, <2>1
  <2>4. h[k] = IF k = j THEN f[k] + d ELSE f[k]
    BY <2>1
  <2>5. f[k] \in Nat /\ F[k] \in Nat /\ h[k] \in Nat /\ H[k] \in Nat
    BY <1>3, <2>1
  <2> QED BY <2>2, <2>3, <2>4, <2>5
<1>6. \A k \in Nat : k \in S
  <2> HIDE DEF S
  <2> QED BY <1>4, <1>5, Induction
<1>7. H[n] = F[n] + d
  BY <1>6
<1> QED BY <1>7 DEF F, H

\* Zeros add up to zero.
LEMMA SumsZero ==
  ASSUME NEW n \in Nat, NEW f, \A k \in 0 .. n - 1 : f[k] = 0
  PROVE  Sums(f, n)[n] = 0
<1> DEFINE F == Sums(f, n)
           S == {k \in Nat : k <= n => F[k] = 0}
<1>1. F[0] = 0 /\ \A k \in 0 .. n - 1 : F[k + 1] = F[k] + f[k]
  BY SumsAt
<1> HIDE DEF F
<1>2. 0 \in S
  BY <1>1
<1>3. ASSUME NEW k \in Nat, k \in S PROVE k + 1 \in S
  BY <1>1, <1>3
<1>4. \A k \in Nat : k \in S
  <2> HIDE DEF S
  <2> QED BY <1>2, <1>3, Induction
<1>5. F[n] = 0
  BY <1>4
<1> QED BY <1>5 DEF F

\* 0 .. n - 1 has n elements.
LEMMA CardInterval ==
  ASSUME NEW n \in Nat
  PROVE  IsFiniteSet(0 .. n - 1) /\ Cardinality(0 .. n - 1) = n
<1>1. /\ IsFiniteSet(0 .. n - 1)
      /\ Cardinality(0 .. n - 1) = IF 0 > n - 1 THEN 0 ELSE n - 1 - 0 + 1
  BY FS_Interval
<1> QED BY <1>1

\* Total is the last running sum.
LEMMA TotalIs ==
  ASSUME NEW n \in Nat, NEW f, DOMAIN f = 0 .. n - 1
  PROVE  Total(f) = Sums(f, n)[n]
BY CardInterval DEF Total

-----------------------------------------------------------------------------
(* Greatest and least elements of finite sets.                             *)

\* A nonempty finite sequence of integers has a greatest element.
LEMMA GreatestIndex ==
  ASSUME NEW n \in Nat, n > 0, NEW s \in [1 .. n -> Int]
  PROVE  \E m \in 1 .. n : \A i \in 1 .. n : s[i] <= s[m]
<1> DEFINE S == {k \in Nat : k \in 1 .. n => \E m \in 1 .. k : \A i \in 1 .. k : s[i] <= s[m]}
<1>1. 0 \in S
  OBVIOUS
<1>2. ASSUME NEW k \in Nat, k \in S PROVE k + 1 \in S
  <2> SUFFICES ASSUME k + 1 \in 1 .. n
               PROVE  \E m \in 1 .. k + 1 : \A i \in 1 .. k + 1 : s[i] <= s[m]
    OBVIOUS
  <2>1. CASE k = 0
    <3>1. \A i \in 1 .. k + 1 : i = 1 /\ s[i] <= s[1]
      BY <2>1
    <3>2. 1 \in 1 .. k + 1
      BY <2>1
    <3> QED BY <3>1, <3>2
  <2>2. CASE k # 0
    <3>1. PICK m \in 1 .. k : \A i \in 1 .. k : s[i] <= s[m]
      BY <1>2, <2>2
    <3>2. s[m] \in Int /\ s[k + 1] \in Int /\ \A i \in 1 .. k + 1 : s[i] \in Int
      OBVIOUS
    <3>3. CASE s[m] <= s[k + 1]
      <4>1. \A i \in 1 .. k + 1 : s[i] <= s[k + 1]
        BY <3>1, <3>2, <3>3
      <4> QED BY <4>1
    <3>4. CASE ~(s[m] <= s[k + 1])
      <4>1. \A i \in 1 .. k + 1 : s[i] <= s[m]
        BY <3>1, <3>2, <3>4
      <4> QED BY <4>1
    <3> QED BY <3>3, <3>4
  <2> QED BY <2>1, <2>2
<1>3. n \in S
  <2> HIDE DEF S
  <2> QED BY <1>1, <1>2, Induction
<1> QED BY <1>3

\* Max of a nonempty finite set is its greatest element.
LEMMA FiniteMax ==
  ASSUME NEW T \in SUBSET Int, IsFiniteSet(T), T # {}
  PROVE  Max(T) \in T /\ \A x \in T : x <= Max(T)
<1>1. PICK n \in Nat : n = Cardinality(T)
  BY FS_CardinalityType
<1>2. PICK f : f \in Bijection(1 .. n, T)
  BY <1>1, FS_CardinalityType DEF ExistsBijection
<1>3. f \in [1 .. n -> Int] /\ \A x \in T : \E i \in 1 .. n : f[i] = x
  BY <1>2 DEF Bijection, Surjection
<1>4. n > 0
  <2>1. PICK x \in T : TRUE
    OBVIOUS
  <2>2. PICK i \in 1 .. n : f[i] = x
    BY <1>3
  <2> QED BY <2>2
<1>5. PICK m \in 1 .. n : \A i \in 1 .. n : f[i] <= f[m]
  BY <1>3, <1>4, GreatestIndex
<1>6. f[m] \in T /\ \A x \in T : x <= f[m]
  BY <1>2, <1>3, <1>5 DEF Bijection, Surjection
<1>7. Max(T) = CHOOSE x \in T : \A y \in T : x >= y
  BY DEF Max
<1>8. \E x \in T : \A y \in T : x >= y
  <2>1. \A y \in T : f[m] >= y
    BY <1>6
  <2> QED BY <1>6, <2>1
<1>9. Max(T) \in T /\ \A y \in T : Max(T) >= y
  BY <1>7, <1>8
<1> QED BY <1>9

-----------------------------------------------------------------------------
(* Sorted.                                                                 *)

Ascends(s, p, n) == \A i, j \in 1 .. n : i < j => s[p[i]] <= s[p[j]]

\* Every finite sequence of integers can be put in order.
LEMMA SortExists ==
  ASSUME NEW n \in Nat, NEW s \in [1 .. n -> Int]
  PROVE  \E p \in Bijection(1 .. n, 1 .. n) : Ascends(s, p, n)
<1> DEFINE S == {k \in Nat : \A t \in [1 .. k -> Int] :
                   \E p \in Bijection(1 .. k, 1 .. k) : Ascends(t, p, k)}
<1>1. 0 \in S
  <2>1. ASSUME NEW t \in [1 .. 0 -> Int]
        PROVE  \E p \in Bijection(1 .. 0, 1 .. 0) : Ascends(t, p, 0)
    <3> DEFINE p == [i \in 1 .. 0 |-> i]
    <3>1. p \in Bijection(1 .. 0, 1 .. 0)
      BY DEF Bijection, Injection, Surjection, IsInjective
    <3>2. Ascends(t, p, 0)
      BY DEF Ascends
    <3> HIDE DEF p
    <3> QED BY <3>1, <3>2
  <2> QED BY <2>1
<1>2. ASSUME NEW k \in Nat, k \in S PROVE k + 1 \in S
  <2> SUFFICES ASSUME NEW t \in [1 .. k + 1 -> Int]
               PROVE  \E q \in Bijection(1 .. k + 1, 1 .. k + 1) : Ascends(t, q, k + 1)
    OBVIOUS
  <2> DEFINE top == k + 1
  <2>0. top \in Nat /\ top > 0 /\ t \in [1 .. top -> Int]
    OBVIOUS
  <2>1. PICK m \in 1 .. k + 1 : \A i \in 1 .. k + 1 : t[i] <= t[m]
    <3>1. \E m \in 1 .. top : \A i \in 1 .. top : t[i] <= t[m]
      <4> HIDE DEF top
      <4> QED BY <2>0, GreatestIndex
    <3> QED BY <3>1
  <2> DEFINE u == [i \in 1 .. k |-> IF i = m THEN t[k + 1] ELSE t[i]]
  <2>2. u \in [1 .. k -> Int]
    OBVIOUS
  <2>3. PICK p \in Bijection(1 .. k, 1 .. k) : Ascends(u, p, k)
    BY <1>2, <2>2
  <2>4. /\ p \in [1 .. k -> 1 .. k] /\ \A w \in 1 .. k : \E v \in 1 .. k : p[v] = w
        /\ \A i, j \in 1 .. k : p[i] = p[j] => i = j
    BY <2>3 DEF Bijection, Injection, Surjection, IsInjective
  <2> DEFINE q == [i \in 1 .. k + 1 |->
                     IF i = k + 1 THEN m ELSE IF p[i] = m THEN k + 1 ELSE p[i]]
  <2>a. \A i \in 1 .. k : p[i] \in 1 .. k
    <3> HIDE DEF u, q
    <3> QED BY <2>4
  <2>b. \A w \in 1 .. k : u[w] = IF w = m THEN t[k + 1] ELSE t[w]
    OBVIOUS
  <2>5. q \in [1 .. k + 1 -> 1 .. k + 1] /\ q[k + 1] = m
    <3> HIDE DEF u
    <3>1. ASSUME NEW i \in 1 .. k + 1
          PROVE  (IF i = k + 1 THEN m ELSE IF p[i] = m THEN k + 1 ELSE p[i]) \in 1 .. k + 1
      <4>1. CASE i = k + 1
        BY <4>1
      <4>2. CASE i # k + 1
        <5>1. i \in 1 .. k
          BY <4>2
        <5>2. p[i] \in 1 .. k
          BY <5>1, <2>a
        <5> QED BY <4>2, <5>2
      <4> QED BY <4>1, <4>2
    <3> QED BY <3>1
  <2>6. \A i \in 1 .. k : q[i] = (IF p[i] = m THEN k + 1 ELSE p[i]) /\ q[i] # m /\ p[i] \in 1 .. k
    <3> SUFFICES ASSUME NEW i \in 1 .. k
                 PROVE  q[i] = (IF p[i] = m THEN k + 1 ELSE p[i]) /\ q[i] # m /\ p[i] \in 1 .. k
      OBVIOUS
    <3> HIDE DEF u
    <3>1. p[i] \in 1 .. k /\ i \in 1 .. k + 1 /\ i # k + 1
      BY <2>a
    <3>2. q[i] = IF p[i] = m THEN k + 1 ELSE p[i]
      BY <3>1
    <3> HIDE DEF q
    <3> QED BY <3>1, <3>2
  <2> HIDE DEF q, u
  <2>7. ASSUME NEW i \in 1 .. k PROVE t[q[i]] = u[p[i]]
    BY <2>6, <2>b
  <2>8. ASSUME NEW i \in 1 .. k + 1, NEW j \in 1 .. k + 1, q[i] = q[j] PROVE i = j
    <3>1. CASE i \in 1 .. k /\ j \in 1 .. k
      <4>1. p[i] = p[j]
        BY <2>6, <2>8, <3>1
      <4> QED BY <2>4, <3>1, <4>1
    <3>2. CASE i = k + 1 /\ j \in 1 .. k
      BY <2>5, <2>6, <2>8, <3>2
    <3>3. CASE j = k + 1 /\ i \in 1 .. k
      BY <2>5, <2>6, <2>8, <3>3
    <3> QED BY <3>1, <3>2, <3>3
  <2>9. ASSUME NEW w \in 1 .. k + 1 PROVE \E v \in 1 .. k + 1 : q[v] = w
    <3>1. CASE w = m
      BY <2>5, <3>1
    <3>2. CASE w # m /\ w \in 1 .. k
      <4>1. PICK v \in 1 .. k : p[v] = w
        BY <2>4, <3>2
      <4>2. v \in 1 .. k + 1
        OBVIOUS
      <4>3. q[v] = w
        BY <2>6, <3>2, <4>1
      <4> QED BY <4>2, <4>3
    <3>3. CASE w # m /\ w = k + 1
      <4>1. m \in 1 .. k
        BY <3>3
      <4>2. PICK v \in 1 .. k : p[v] = m
        BY <2>4, <4>1
      <4>3. q[v] = w /\ v \in 1 .. k + 1
        BY <2>6, <3>3, <4>2
      <4> QED BY <4>3
    <3> QED BY <3>1, <3>2, <3>3
  <2>10. q \in Bijection(1 .. k + 1, 1 .. k + 1)
    BY <2>5, <2>8, <2>9 DEF Bijection, Injection, Surjection, IsInjective
  <2>11. Ascends(t, q, k + 1)
    <3>1. ASSUME NEW i \in 1 .. k + 1, NEW j \in 1 .. k + 1, i < j PROVE t[q[i]] <= t[q[j]]
      <4>1. CASE j = k + 1
        BY <2>1, <2>5, <4>1
      <4>2. CASE j # k + 1
        <5>1. i \in 1 .. k /\ j \in 1 .. k
          BY <3>1, <4>2
        <5>2. u[p[i]] <= u[p[j]]
          BY <2>3, <3>1, <5>1 DEF Ascends
        <5> QED BY <2>7, <5>1, <5>2
      <4> QED BY <4>1, <4>2
    <3> QED BY <3>1 DEF Ascends
  <2> QED BY <2>10, <2>11
<1>3. n \in S
  <2> HIDE DEF S
  <2> QED BY <1>1, <1>2, Induction
<1> QED BY <1>3

\* Sorted rearranges its argument in ascending order.
LEMMA SortedIs ==
  ASSUME NEW n \in Nat, NEW s \in [1 .. n -> Int]
  PROVE  \E p \in Bijection(1 .. n, 1 .. n) :
           Ascends(s, p, n) /\ Sorted(s) = [i \in 1 .. n |-> s[p[i]]]
<1> DEFINE Q(p) == \A i, j \in DOMAIN s : i < j => s[p[i]] <= s[p[j]]
           p == CHOOSE q \in Bijection(DOMAIN s, DOMAIN s) : Q(q)
<1>1. DOMAIN s = 1 .. n
  OBVIOUS
<1>2. \E q \in Bijection(DOMAIN s, DOMAIN s) : Q(q)
  BY <1>1, SortExists DEF Ascends
<1>3. p \in Bijection(DOMAIN s, DOMAIN s) /\ Q(p)
  BY <1>2
<1>4. Sorted(s) = [i \in DOMAIN s |-> s[p[i]]]
  BY DEF Sorted
<1> HIDE DEF p
<1>5. p \in Bijection(1 .. n, 1 .. n) /\ Ascends(s, p, n) /\ Sorted(s) = [i \in 1 .. n |-> s[p[i]]]
  BY <1>1, <1>3, <1>4 DEF Ascends
<1> QED BY <1>5

\* Sorted ascends, and every element of it is one of the argument.
LEMMA SortedAscends ==
  ASSUME NEW n \in Nat, NEW s \in [1 .. n -> Int]
  PROVE  /\ Sorted(s) \in [1 .. n -> Int]
         /\ \A i, j \in 1 .. n : i <= j => Sorted(s)[i] <= Sorted(s)[j]
         /\ \A i \in 1 .. n : \E j \in 1 .. n : Sorted(s)[i] = s[j]
<1>1. PICK p \in Bijection(1 .. n, 1 .. n) :
           Ascends(s, p, n) /\ Sorted(s) = [i \in 1 .. n |-> s[p[i]]]
  BY SortedIs
<1>2. p \in [1 .. n -> 1 .. n]
  BY <1>1 DEF Bijection, Injection
<1>3. \A i \in 1 .. n : p[i] \in 1 .. n /\ s[p[i]] \in Int /\ Sorted(s)[i] = s[p[i]]
  BY <1>1, <1>2
<1>4. Sorted(s) \in [1 .. n -> Int]
  BY <1>1, <1>3
<1>5. ASSUME NEW i \in 1 .. n, NEW j \in 1 .. n, i <= j PROVE Sorted(s)[i] <= Sorted(s)[j]
  <2>1. CASE i = j
    BY <1>3, <2>1
  <2>2. CASE i < j
    BY <1>1, <1>3, <2>2 DEF Ascends
  <2> QED BY <1>5, <2>1, <2>2
<1> QED BY <1>3, <1>4, <1>5

\* How a share of a window is rounded down.
LEMMA Shares ==
  ASSUME NEW n \in Nat, n > 0, NEW d \in Nat
  PROVE  /\ \A i \in 1 .. n : ((i - 1) * d) \div n \in 0 .. d
         /\ d > 0 => \A i \in 1 .. n : ((i - 1) * d) \div n \in 0 .. d - 1
         /\ \A i \in 2 .. n : ((i - 1 - 1) * d) \div n <= ((i - 1) * d) \div n
<1>1. ASSUME NEW a \in Nat PROVE a \div n \in Nat /\ n * (a \div n) <= a /\ a < n * (a \div n) + n
  OBVIOUS
<1>2. ASSUME NEW a \in Nat, NEW b \in Nat, a <= b PROVE a \div n <= b \div n
  <2>1. PICK x \in Nat : x = a \div n /\ n * x <= a
    BY <1>1
  <2>2. PICK y \in Nat : y = b \div n /\ b < n * y + n
    BY <1>1
  <2>3. n * x < n * (y + 1)
    BY <1>2, <2>1, <2>2
  <2>4. x < y + 1
    BY <2>3
  <2> QED BY <2>1, <2>2, <2>4
<1>3. ASSUME NEW i \in 1 .. n
      PROVE  (i - 1) * d \in Nat /\ (i - 1) * d <= n * d /\ (d > 0 => (i - 1) * d < n * d)
  OBVIOUS
<1>4. ASSUME NEW i \in 1 .. n
      PROVE  ((i - 1) * d) \div n \in 0 .. d /\ (d > 0 => ((i - 1) * d) \div n \in 0 .. d - 1)
  <2>1. PICK a \in Nat : a = (i - 1) * d /\ a <= n * d /\ (d > 0 => a < n * d)
    BY <1>3
  <2>2. PICK x \in Nat : x = a \div n /\ n * x <= a
    BY <1>1
  <2>3. n * x <= n * d /\ (d > 0 => n * x < n * d)
    BY <2>1, <2>2
  <2>4. x <= d /\ (d > 0 => x < d)
    BY <2>3
  <2> QED BY <2>1, <2>2, <2>4
<1>5. ASSUME NEW i \in 2 .. n PROVE ((i - 1 - 1) * d) \div n <= ((i - 1) * d) \div n
  <2>1. (i - 1 - 1) * d \in Nat /\ (i - 1) * d \in Nat /\ (i - 1 - 1) * d <= (i - 1) * d
    OBVIOUS
  <2> QED BY <1>2, <2>1
<1> QED BY <1>4, <1>5

-----------------------------------------------------------------------------
(* The schedule.                                                           *)

\* buildColdStart: sorted, complete and within the truncated window.
LEMMA ColdStart ==
  ASSUME NEW n \in Nat, NEW c, c.mu \in Int, c.sigma \in Int, c.k \in Int,
         NEW draws \in [1 .. n -> Int], ~buildColdStart(n, c, draws).err
  PROVE  LET off == buildColdStart(n, c, draws).offsets IN
         /\ off \in [1 .. n -> Int]
         /\ \A i \in 1 .. n :
              /\ i > 1 => off[i - 1] <= off[i]
              /\ off[i] >= c.mu - TruncateSigma(c) * c.sigma
              /\ off[i] \in 0 .. c.mu + TruncateSigma(c) * c.sigma
<1> DEFINE raw == [i \in 1 .. n |-> secondsToDuration(Clamped(c, draws[i]))]
<1>1. c.sigma > 0 /\ c.mu >= 0
  BY DEF buildColdStart, Error
<1>2. buildColdStart(n, c, draws).offsets = Sorted(raw)
  BY <1>1 DEF buildColdStart, Plan
<1>3. PICK w \in Int : w = TruncateSigma(c) * c.sigma /\ w >= 0
  <2>1. TruncateSigma(c) \in Int /\ TruncateSigma(c) >= 1
    BY DEF TruncateSigma
  <2>2. PICK k \in Int : k = TruncateSigma(c) /\ k >= 1
    BY <2>1
  <2>3. k * c.sigma \in Int /\ k * c.sigma >= 0
    BY <1>1, <2>2
  <2> QED BY <2>2, <2>3
<1>4. ASSUME NEW i \in 1 .. n
      PROVE  /\ raw[i] \in 0 .. c.mu + TruncateSigma(c) * c.sigma
             /\ raw[i] >= c.mu - TruncateSigma(c) * c.sigma
  <2>1. PICK x \in Int : x = draws[i] * c.sigma + c.mu
    OBVIOUS
  <2>2. loSec(c) = (IF c.mu - w < 0 THEN 0 ELSE c.mu - w) /\ hiSec(c) = c.mu + w
    BY <1>3 DEF loSec, hiSec
  <2>3. PICK lo \in Int : lo = loSec(c) /\ lo = IF c.mu - w < 0 THEN 0 ELSE c.mu - w
    BY <2>2
  <2>4. PICK hi \in Int : hi = hiSec(c) /\ hi = c.mu + w
    BY <2>2
  <2>5. lo <= hi
    BY <1>1, <1>3, <2>3, <2>4
  <2>6. PICK v \in Int : v = Clamped(c, draws[i]) /\ v \in lo .. hi
    <3>1. Clamped(c, draws[i]) = CASE x < lo -> lo [] x > hi -> hi [] OTHER -> x
      BY <2>1, <2>3, <2>4 DEF Clamped
    <3>2. CASE x < lo
      BY <2>5, <3>1, <3>2
    <3>3. CASE x > hi
      BY <2>5, <3>1, <3>3
    <3>4. CASE ~(x < lo) /\ ~(x > hi)
      BY <2>5, <3>1, <3>4
    <3> QED BY <3>2, <3>3, <3>4
  <2>7. raw[i] = IF v <= 0 THEN 0 ELSE v
    BY <2>6 DEF secondsToDuration
  <2> HIDE DEF raw
  <2>8. raw[i] >= c.mu - w /\ raw[i] \in 0 .. c.mu + w
    <3>1. w >= 0 /\ c.mu >= 0
      BY <1>1, <1>3
    <3>2. lo = (IF c.mu - w < 0 THEN 0 ELSE c.mu - w) /\ hi = c.mu + w
      BY <2>3, <2>4
    <3>3. v \in lo .. hi
      BY <2>6
    <3>4. PICK mu \in Int : mu = c.mu
      OBVIOUS
    <3>5. PICK y \in Int : y = raw[i] /\ y = IF v <= 0 THEN 0 ELSE v
      BY <2>7
    <3>6. y >= mu - w /\ y \in 0 .. mu + w
      BY ONLY <3>1, <3>2, <3>3, <3>4, <3>5, mu \in Int, w \in Int, v \in Int, lo \in Int, hi \in Int
    <3> QED BY <3>4, <3>5, <3>6
  <2> QED BY <1>3, <2>8
<1>5. raw \in [1 .. n -> Int]
  <2>1. \A i \in 1 .. n : raw[i] \in Int
    BY <1>3, <1>4
  <2> QED BY <2>1
<1> HIDE DEF raw
<1>6. /\ Sorted(raw) \in [1 .. n -> Int]
      /\ \A i, j \in 1 .. n : i <= j => Sorted(raw)[i] <= Sorted(raw)[j]
      /\ \A i \in 1 .. n : \E j \in 1 .. n : Sorted(raw)[i] = raw[j]
  BY <1>5, SortedAscends
<1>7. ASSUME NEW i \in 1 .. n
      PROVE  /\ i > 1 => Sorted(raw)[i - 1] <= Sorted(raw)[i]
             /\ Sorted(raw)[i] >= c.mu - TruncateSigma(c) * c.sigma
             /\ Sorted(raw)[i] \in 0 .. c.mu + TruncateSigma(c) * c.sigma
  <2>1. PICK j \in 1 .. n : Sorted(raw)[i] = raw[j]
    BY <1>6
  <2>2. i > 1 => Sorted(raw)[i - 1] <= Sorted(raw)[i]
    <3>1. CASE i > 1
      <4>1. i - 1 \in 1 .. n /\ i - 1 <= i
        BY <3>1
      <4> QED BY <1>6, <4>1
    <3> QED BY <3>1
  <2> QED BY <1>4, <2>1, <2>2
<1> QED BY <1>2, <1>6, <1>7

\* The schedule that BuildSchedule accepts keeps to the window of its block,
\* whatever the draws.
LEMMA PlanSound == Init => ScheduleSound
<1> SUFFICES ASSUME Init, ~plan.err PROVE ScheduleSound
  BY DEF ScheduleSound
<1> DEFINE c == scenario
<1>1. PICK draws \in [1 .. Count -> Draws] : plan = BuildSchedule(Count, c, draws)
  BY DEF Init
<1>2. c \in Configs /\ Count \in Nat
  BY AggregateAssumption DEF Init
<1>3. draws \in [1 .. Count -> Int]
  BY <1>1, ScheduleAssumption
<1>4. CASE c.type = "cold_start"
  <2>1. c.block /\ plan = buildColdStart(Count, c, draws)
    BY <1>1, <1>4 DEF BuildSchedule, Error
  <2>2. c.mu \in Int /\ c.sigma \in Int /\ c.k \in Int
    BY <1>2, <1>4, <2>1, ScheduleAssumption
  <2>3. /\ plan.offsets \in [1 .. Count -> Int]
        /\ \A i \in 1 .. Count :
              /\ i > 1 => plan.offsets[i - 1] <= plan.offsets[i]
              /\ plan.offsets[i] >= c.mu - TruncateSigma(c) * c.sigma
              /\ plan.offsets[i] \in 0 .. c.mu + TruncateSigma(c) * c.sigma
    BY <1>2, <1>3, <2>1, <2>2, ColdStart
  <2>4. DOMAIN plan.offsets = 1 .. Count /\ Len(plan.offsets) = Count
    BY <1>2, <2>3
  <2> QED BY <1>4, <2>3, <2>4 DEF ScheduleSound
<1>5. CASE c.type = "uniform"
  <2>1. c.block /\ plan = buildUniform(Count, c)
    BY <1>1, <1>5 DEF BuildSchedule, Error
  <2>2. c.duration \in Int /\ c.duration > 0
    BY <1>2, <1>5, <2>1, ScheduleAssumption DEF buildUniform, Error
  <2>3. plan.offsets = [i \in 1 .. Count |-> ((i - 1) * c.duration) \div Count]
    BY <2>1, <2>2 DEF buildUniform, Plan
  <2>4. DOMAIN plan.offsets = 1 .. Count /\ Len(plan.offsets) = Count
    BY <1>2, <2>3
  <2>5. ASSUME NEW i \in 1 .. Count
        PROVE  /\ i > 1 => plan.offsets[i - 1] <= plan.offsets[i]
               /\ plan.offsets[i] \in 0 .. c.duration - 1
    <3>1. Count > 0 /\ c.duration \in Nat
      BY <1>2, <2>2
    <3>2. ((i - 1) * c.duration) \div Count \in 0 .. c.duration - 1
      BY <1>2, <2>2, <3>1, Shares
    <3>3. CASE i > 1
      <4>1. i \in 2 .. Count /\ i - 1 \in 1 .. Count
        BY <1>2, <3>3
      <4>2. ((i - 1 - 1) * c.duration) \div Count <= ((i - 1) * c.duration) \div Count
        BY <1>2, <3>1, <4>1, Shares
      <4> QED BY <2>3, <3>2, <4>1, <4>2
    <3> QED BY <2>3, <3>2, <3>3
  <2> QED BY <1>5, <2>4, <2>5 DEF ScheduleSound
<1>6. CASE c.type = "pessimal"
  <2> DEFINE burst == IF c.block THEN c.burst ELSE 0
  <2>1. plan = buildPessimal(Count, burst)
    BY <1>1, <1>6 DEF BuildSchedule
  <2>2. burst \in Int
    BY <1>2, <1>6, ScheduleAssumption
  <2>3. c.block => burst = c.burst
    OBVIOUS
  <2> HIDE DEF burst
  <2>4. burst \in Nat
    BY <2>1, <2>2 DEF buildPessimal, Error
  <2>5. plan.offsets = [i \in 1 .. Count |-> IF burst = 0 THEN 0 ELSE ((i - 1) * burst) \div Count]
    BY <2>1, <2>4 DEF buildPessimal, Plan
  <2>6. DOMAIN plan.offsets = 1 .. Count /\ Len(plan.offsets) = Count
    BY <1>2, <2>5
  <2>7. ASSUME NEW i \in 1 .. Count
        PROVE  /\ i > 1 => plan.offsets[i - 1] <= plan.offsets[i]
               /\ plan.offsets[i] \in 0 .. burst
    <3>1. Count > 0
      BY <1>2
    <3>2. ((i - 1) * burst) \div Count \in 0 .. burst
      BY <1>2, <2>4, <3>1, Shares
    <3>3. CASE i > 1
      <4>1. i \in 2 .. Count /\ i - 1 \in 1 .. Count
        BY <1>2, <3>3
      <4>2. ((i - 1 - 1) * burst) \div Count <= ((i - 1) * burst) \div Count
        BY <1>2, <2>4, <3>1, <4>1, Shares
      <4> QED BY <2>4, <2>5, <3>2, <4>1, <4>2
    <3> QED BY <2>4, <2>5, <3>2, <3>3
  <2> QED BY <1>6, <2>3, <2>6, <2>7 DEF ScheduleSound
<1>7. CASE c.type = "coa_storm"
  <2>1. plan.offsets = <<>>
    BY <1>1, <1>7 DEF BuildSchedule, Plan
  <2>2. Len(plan.offsets) = 0 /\ DOMAIN plan.offsets = {}
    BY <2>1
  <2> QED BY <1>7, <2>2 DEF ScheduleSound
<1>8. c.type \in {"cold_start", "uniform", "pessimal", "coa_storm"}
  BY <1>1 DEF BuildSchedule, Error
<1> QED BY <1>4, <1>5, <1>6, <1>7, <1>8

\* Every step leaves the schedule alone.
LEMMA PlanKept == [Next]_vars => UNCHANGED runVars
BY DEF Next, vars, Tick, Activate, Retransmit, Other, Terminal, Inbound

\* pkg/scenario/schedule.go: an accepted schedule is sorted, complete and
\* within its window, for every number of subscribers, every block and every
\* outcome of the Gaussian draws.
THEOREM SchedulesAreSound == Spec => []ScheduleSound
<1>1. ASSUME ScheduleSound, [Next]_vars PROVE ScheduleSound'
  <2>1. scenario' = scenario /\ plan' = plan
    BY <1>1, PlanKept DEF runVars
  <2> QED BY <1>1, <2>1 DEF ScheduleSound
<1> QED BY PlanSound, <1>1, PTL DEF Spec

-----------------------------------------------------------------------------
(* observe, field by field.                                                *)

Aggregation ==
  [seenSubs: SUBSET Subs, activated: [Subs -> Nat \cup {NA}],
   established: [Subs -> Nat \cup {NA}], terminal: [Subs -> Finals \cup {"none"}],
   auth: [Subs -> Nat], acct: [Subs -> Nat],
   counts: [retransmitted: Nat, received: Nat, answered: Nat], latencies: Seq(Nat)]

EventOK(e) ==
  /\ e.sub \in Subs /\ e.at \in Nat
  /\ e.kind = "terminal" => e.value \in Finals
  /\ e.kind = "answered" => e.value \in Nat

Plus(f, s, yes) == IF yes THEN [f EXCEPT ![s] = @ + 1] ELSE f
Inc(x, yes)     == IF yes THEN x + 1 ELSE x

\* Earliest keeps the type of the map.
LEMMA EarliestType ==
  ASSUME NEW f \in [Subs -> Nat \cup {NA}], NEW e, EventOK(e)
  PROVE  Earliest(f, e) \in [Subs -> Nat \cup {NA}]
BY DEF Earliest, EventOK

Counts == [retransmitted: Nat, received: Nat, answered: Nat]

\* Bumping one counter leaves the others alone.
LEMMA CountsBump ==
  ASSUME NEW c \in Counts
  PROVE  /\ LET d == [c EXCEPT !.retransmitted = @ + 1] IN
            d \in Counts /\ d.retransmitted = c.retransmitted + 1 /\ d.received = c.received /\ d.answered = c.answered
         /\ LET d == [c EXCEPT !.received = @ + 1] IN
            d \in Counts /\ d.retransmitted = c.retransmitted /\ d.received = c.received + 1 /\ d.answered = c.answered
         /\ LET d == [c EXCEPT !.answered = @ + 1] IN
            d \in Counts /\ d.retransmitted = c.retransmitted /\ d.received = c.received /\ d.answered = c.answered + 1
BY DEF Counts

\* Plus adds one to one entry at most.
LEMMA PlusType ==
  ASSUME NEW f \in [Subs -> Nat], NEW s \in Subs, NEW yes
  PROVE  /\ Plus(f, s, yes) \in [Subs -> Nat]
         /\ \A r \in Subs : Plus(f, s, yes)[r] = IF yes /\ r = s THEN f[r] + 1 ELSE f[r]
<1>1. CASE yes
  BY <1>1 DEF Plus
<1>2. CASE ~yes
  BY <1>2 DEF Plus
<1> QED BY <1>1, <1>2

\* Every field of observe, without the case distinction.
LEMMA ObserveIs ==
  ASSUME NEW a \in Aggregation, NEW e, EventOK(e)
  PROVE  LET o == observe(a, e) IN
         /\ o \in Aggregation
         /\ o.seenSubs = Seen(a, e)
         /\ o.activated = IF e.kind = "activated" THEN Earliest(a.activated, e) ELSE a.activated
         /\ o.established = IF e.kind = "terminal" /\ e.value = "established"
                            THEN Earliest(a.established, e) ELSE a.established
         /\ o.terminal = IF e.kind = "terminal"
                         THEN [a.terminal EXCEPT ![e.sub] = e.value] ELSE a.terminal
         /\ o.auth = Plus(a.auth, e.sub, e.kind = "retransmitted" /\ e.value = "auth")
         /\ o.acct = Plus(a.acct, e.sub, e.kind = "retransmitted" /\ e.value = "acct")
         /\ o.counts.retransmitted = Inc(a.counts.retransmitted, e.kind = "retransmitted")
         /\ o.counts.received = Inc(a.counts.received, e.kind = "received")
         /\ o.counts.answered = Inc(a.counts.answered, e.kind = "answered")
         /\ o.latencies = IF e.kind = "answered" /\ e.value > 0
                          THEN Append(a.latencies, e.value) ELSE a.latencies
<1> DEFINE b == [a EXCEPT !.seenSubs = Seen(a, e)]
<1>1. /\ b \in Aggregation /\ b.seenSubs = Seen(a, e)
      /\ b.activated = a.activated /\ b.established = a.established
      /\ b.terminal = a.terminal /\ b.auth = a.auth /\ b.acct = a.acct
      /\ b.counts = a.counts /\ b.latencies = a.latencies
  BY DEF Seen, EventOK, Aggregation
<1>2. observe(a, e) =
  CASE e.kind = "activated" -> [b EXCEPT !.activated = Earliest(@, e)]
    [] e.kind = "terminal" ->
         [b EXCEPT !.terminal[e.sub] = e.value,
                   !.established = IF e.value = "established" THEN Earliest(@, e) ELSE @]
    [] e.kind = "retransmitted" ->
         [b EXCEPT !.counts.retransmitted = @ + 1,
                   !.auth[e.sub] = IF e.value = "auth" THEN @ + 1 ELSE @,
                   !.acct[e.sub] = IF e.value = "acct" THEN @ + 1 ELSE @]
    [] e.kind = "received" -> [b EXCEPT !.counts.received = @ + 1]
    [] e.kind = "answered" ->
         [b EXCEPT !.counts.answered = @ + 1,
                   !.latencies = IF e.value > 0 THEN Append(@, e.value) ELSE @]
    [] OTHER -> b
  BY DEF observe
<1> HIDE DEF b
<1>3. CASE e.kind = "activated"
  <2>1. observe(a, e) = [b EXCEPT !.activated = Earliest(b.activated, e)]
    BY <1>2, <1>3
  <2>2. Earliest(b.activated, e) \in [Subs -> Nat \cup {NA}]
    BY <1>1, EarliestType DEF Aggregation
  <2> QED BY <1>1, <1>3, <2>1, <2>2 DEF Aggregation, Plus, Inc
<1>c. a.counts \in Counts
  BY DEF Aggregation, Counts
<1>4. CASE e.kind = "terminal"
  <2>1. PICK x \in [Subs -> Nat \cup {NA}] :
             x = IF e.value = "established" THEN Earliest(a.established, e) ELSE a.established
    BY <1>1, EarliestType DEF Aggregation
  <2>2. PICK t \in [Subs -> Finals \cup {"none"}] : t = [a.terminal EXCEPT ![e.sub] = e.value]
    BY <1>1, <1>4 DEF Aggregation, EventOK
  <2>3. observe(a, e) = [b EXCEPT !.terminal = t, !.established = x]
    BY <1>1, <1>2, <1>4, <2>1, <2>2 DEF Aggregation
  <2>4. /\ observe(a, e) \in Aggregation /\ observe(a, e).seenSubs = Seen(a, e)
        /\ observe(a, e).activated = a.activated /\ observe(a, e).auth = a.auth
        /\ observe(a, e).acct = a.acct /\ observe(a, e).counts = a.counts
        /\ observe(a, e).latencies = a.latencies
        /\ observe(a, e).established = x /\ observe(a, e).terminal = t
    BY <1>1, <2>3 DEF Aggregation
  <2> QED BY <1>4, <2>1, <2>2, <2>4 DEF Plus, Inc
<1>5. CASE e.kind = "retransmitted"
  <2>1. PICK x \in [Subs -> Nat] : x = Plus(a.auth, e.sub, e.kind = "retransmitted" /\ e.value = "auth")
    <3>1. a.auth \in [Subs -> Nat] /\ e.sub \in Subs
      BY DEF Aggregation, EventOK
    <3> QED BY <3>1, PlusType
  <2>2. PICK y \in [Subs -> Nat] : y = Plus(a.acct, e.sub, e.kind = "retransmitted" /\ e.value = "acct")
    <3>1. a.acct \in [Subs -> Nat] /\ e.sub \in Subs
      BY DEF Aggregation, EventOK
    <3> QED BY <3>1, PlusType
  <2>3. PICK d \in Counts : d = [a.counts EXCEPT !.retransmitted = @ + 1]
    BY <1>c, CountsBump
  <2>4. x = [a.auth EXCEPT ![e.sub] = IF e.value = "auth" THEN @ + 1 ELSE @]
    BY <1>5, <2>1 DEF Aggregation, Plus, EventOK
  <2>5. y = [a.acct EXCEPT ![e.sub] = IF e.value = "acct" THEN @ + 1 ELSE @]
    BY <1>5, <2>2 DEF Aggregation, Plus, EventOK
  <2>6. observe(a, e) = [b EXCEPT !.counts = d, !.auth = x, !.acct = y]
    BY <1>1, <1>2, <1>5, <2>3, <2>4, <2>5 DEF Aggregation
  <2>7. /\ observe(a, e) \in Aggregation /\ observe(a, e).seenSubs = Seen(a, e)
        /\ observe(a, e).activated = a.activated /\ observe(a, e).established = a.established
        /\ observe(a, e).terminal = a.terminal /\ observe(a, e).latencies = a.latencies
        /\ observe(a, e).auth = x /\ observe(a, e).acct = y /\ observe(a, e).counts = d
    BY <1>1, <2>6 DEF Aggregation, Counts
  <2>8. d.retransmitted = a.counts.retransmitted + 1 /\ d.received = a.counts.received /\ d.answered = a.counts.answered
    BY <1>c, <2>3, CountsBump
  <2> QED BY <1>5, <2>1, <2>2, <2>7, <2>8 DEF Inc
<1>6. CASE e.kind = "received"
  <2>1. PICK d \in Counts : d = [a.counts EXCEPT !.received = @ + 1]
    BY <1>c, CountsBump
  <2>2. observe(a, e) = [b EXCEPT !.counts = d]
    BY <1>1, <1>2, <1>6, <2>1 DEF Aggregation
  <2>3. /\ observe(a, e) \in Aggregation /\ observe(a, e).seenSubs = Seen(a, e)
        /\ observe(a, e).activated = a.activated /\ observe(a, e).established = a.established
        /\ observe(a, e).terminal = a.terminal /\ observe(a, e).latencies = a.latencies
        /\ observe(a, e).auth = a.auth /\ observe(a, e).acct = a.acct /\ observe(a, e).counts = d
    BY <1>1, <2>2 DEF Aggregation, Counts
  <2>4. d.retransmitted = a.counts.retransmitted /\ d.received = a.counts.received + 1 /\ d.answered = a.counts.answered
    BY <1>c, <2>1, CountsBump
  <2> QED BY <1>6, <2>3, <2>4 DEF Plus, Inc
<1>7. CASE e.kind = "answered"
  <2>1. PICK d \in Counts : d = [a.counts EXCEPT !.answered = @ + 1]
    BY <1>c, CountsBump
  <2>2. PICK l \in Seq(Nat) : l = IF e.value > 0 THEN Append(a.latencies, e.value) ELSE a.latencies
    <3>1. a.latencies \in Seq(Nat) /\ e.value \in Nat
      BY <1>7 DEF Aggregation, EventOK
    <3>2. Append(a.latencies, e.value) \in Seq(Nat)
      BY <3>1
    <3> QED BY <3>1, <3>2
  <2>3. observe(a, e) = [b EXCEPT !.counts = d, !.latencies = l]
    BY <1>1, <1>2, <1>7, <2>1, <2>2 DEF Aggregation
  <2>4. /\ observe(a, e) \in Aggregation /\ observe(a, e).seenSubs = Seen(a, e)
        /\ observe(a, e).activated = a.activated /\ observe(a, e).established = a.established
        /\ observe(a, e).terminal = a.terminal /\ observe(a, e).latencies = l
        /\ observe(a, e).auth = a.auth /\ observe(a, e).acct = a.acct /\ observe(a, e).counts = d
    BY <1>1, <2>3 DEF Aggregation, Counts
  <2>5. d.retransmitted = a.counts.retransmitted /\ d.received = a.counts.received /\ d.answered = a.counts.answered + 1
    BY <1>c, <2>1, CountsBump
  <2> QED BY <1>7, <2>2, <2>4, <2>5 DEF Plus, Inc
<1>8. CASE e.kind \notin {"activated", "terminal", "retransmitted", "received", "answered"}
  <2>1. observe(a, e) = b
    BY <1>2, <1>8
  <2> QED BY <1>1, <1>8, <2>1 DEF Plus, Inc
<1> QED BY <1>3, <1>4, <1>5, <1>6, <1>7, <1>8

-----------------------------------------------------------------------------
(* Shards that hold, between them, what one aggregation holds.             *)

HowMany(s, v) == Cardinality({i \in DOMAIN s : s[i] <= v})

Agrees(b, a, s) ==
  /\ b.activated[s] = a.activated[s] /\ b.established[s] = a.established[s]
  /\ b.terminal[s] = a.terminal[s] /\ b.auth[s] = a.auth[s] /\ b.acct[s] = a.acct[s]
  /\ s \in b.seenSubs <=> s \in a.seenSubs

Lacks(b, s) ==
  /\ b.activated[s] = NA /\ b.established[s] = NA /\ b.terminal[s] = "none"
  /\ b.auth[s] = 0 /\ b.acct[s] = 0 /\ s \notin b.seenSubs

\* Shard s % n holds subscriber s and no other shard knows of it.
Homes(A, a, n) ==
  \A s \in Subs :
    /\ Agrees(A[s % n], a, s)
    /\ \A k \in 0 .. n - 1 : k # s % n => Lacks(A[k], s)

Counted(A, a, n) ==
  /\ Total([k \in 0 .. n - 1 |-> A[k].counts.retransmitted]) = a.counts.retransmitted
  /\ Total([k \in 0 .. n - 1 |-> A[k].counts.received]) = a.counts.received
  /\ Total([k \in 0 .. n - 1 |-> A[k].counts.answered]) = a.counts.answered

Sampled(A, a, n) ==
  /\ Total([k \in 0 .. n - 1 |-> Len(A[k].latencies)]) = Len(a.latencies)
  /\ \A v \in Int : Total([k \in 0 .. n - 1 |-> HowMany(A[k].latencies, v)])
                      = HowMany(a.latencies, v)

Splits(A, a, n) ==
  /\ a \in Aggregation /\ A \in [0 .. n - 1 -> Aggregation]
  /\ Homes(A, a, n) /\ Counted(A, a, n) /\ Sampled(A, a, n)

\* HowMany is a natural.
LEMMA HowManyType ==
  ASSUME NEW s \in Seq(Int), NEW v \in Int
  PROVE  IsFiniteSet({i \in DOMAIN s : s[i] <= v}) /\ HowMany(s, v) \in Nat
<1>1. IsFiniteSet(DOMAIN s)
  <2>1. DOMAIN s = 1 .. Len(s) /\ Len(s) \in Int /\ 1 \in Int
    OBVIOUS
  <2> QED BY <2>1, FS_Interval
<1>2. IsFiniteSet({i \in DOMAIN s : s[i] <= v})
  BY <1>1, FS_Subset
<1> QED BY <1>2, FS_CardinalityType DEF HowMany

\* HowMany after one more sample.
LEMMA HowManyAppend ==
  ASSUME NEW s \in Seq(Nat), NEW x \in Nat, NEW v \in Int
  PROVE  HowMany(Append(s, x), v) = HowMany(s, v) + IF x <= v THEN 1 ELSE 0
<1> DEFINE t == Append(s, x)
           n == Len(s)
           T == {i \in DOMAIN s : s[i] <= v}
<1>1. /\ DOMAIN s = 1 .. n /\ DOMAIN t = 1 .. n + 1 /\ n \in Nat
      /\ t[n + 1] = x /\ \A i \in 1 .. n : t[i] = s[i]
  OBVIOUS
<1>2. s \in Seq(Int)
  OBVIOUS
<1>3. IsFiniteSet(T) /\ Cardinality(T) \in Nat
  BY <1>2, HowManyType, FS_CardinalityType
<1> HIDE DEF t, n
<1>4. {i \in DOMAIN t : t[i] <= v} = IF x <= v THEN T \cup {n + 1} ELSE T
  BY <1>1
<1>5. n + 1 \notin T
  BY <1>1
<1>6. Cardinality(T \cup {n + 1}) = Cardinality(T) + 1
  BY <1>3, <1>5, FS_AddElement
<1>7. HowMany(s, v) = Cardinality(T) /\ HowMany(t, v) = Cardinality({i \in DOMAIN t : t[i] <= v})
  BY DEF HowMany
<1>8. HowMany(t, v) = Cardinality(T) + IF x <= v THEN 1 ELSE 0
  <2> HIDE DEF T
  <2>1. CASE x <= v
    BY <1>4, <1>6, <1>7, <2>1
  <2>2. CASE ~(x <= v)
    <3>1. HowMany(t, v) = Cardinality(T)
      BY <1>4, <1>7, <2>2
    <3>2. PICK c \in Nat : c = Cardinality(T)
      BY <1>3
    <3>3. c = c + IF x <= v THEN 1 ELSE 0
      BY <2>2
    <3> QED BY <3>1, <3>2, <3>3
  <2> QED BY <2>1, <2>2
<1> QED BY <1>7, <1>8 DEF t

\* Totals of two functions that differ at j only, by d.
LEMMA TotalBump ==
  ASSUME NEW n \in Nat, NEW f \in [0 .. n - 1 -> Nat], NEW h \in [0 .. n - 1 -> Nat],
         NEW j \in 0 .. n - 1, NEW d \in Nat,
         h[j] = f[j] + d, \A k \in 0 .. n - 1 : k # j => h[k] = f[k]
  PROVE  Total(h) = Total(f) + d
<1>1. Total(h) = Sums(h, n)[n] /\ Total(f) = Sums(f, n)[n]
  BY TotalIs
<1>2. Sums(h, n)[n] = Sums(f, n)[n] + d
  BY SumsBump
<1> QED BY <1>1, <1>2

\* An event leaves the entries of every other subscriber alone.
LEMMA ObserveElse ==
  ASSUME NEW a \in Aggregation, NEW e, EventOK(e), NEW s \in Subs, s # e.sub
  PROVE  Agrees(observe(a, e), a, s)
<1> DEFINE o == observe(a, e)
<1>1. /\ o.seenSubs = Seen(a, e)
      /\ o.activated = IF e.kind = "activated" THEN Earliest(a.activated, e) ELSE a.activated
      /\ o.established = IF e.kind = "terminal" /\ e.value = "established"
                         THEN Earliest(a.established, e) ELSE a.established
      /\ o.terminal = IF e.kind = "terminal"
                      THEN [a.terminal EXCEPT ![e.sub] = e.value] ELSE a.terminal
      /\ o.auth = Plus(a.auth, e.sub, e.kind = "retransmitted" /\ e.value = "auth")
      /\ o.acct = Plus(a.acct, e.sub, e.kind = "retransmitted" /\ e.value = "acct")
  BY ObserveIs
<1> HIDE DEF o
<1>2. /\ a.activated \in [Subs -> Nat \cup {NA}] /\ a.established \in [Subs -> Nat \cup {NA}]
      /\ a.terminal \in [Subs -> Finals \cup {"none"}] /\ a.auth \in [Subs -> Nat] /\ a.acct \in [Subs -> Nat]
      /\ e.sub \in Subs
  BY DEF Aggregation, EventOK
<1>3. Earliest(a.activated, e)[s] = a.activated[s] /\ Earliest(a.established, e)[s] = a.established[s]
  BY <1>2 DEF Earliest
<1>4. [a.terminal EXCEPT ![e.sub] = e.value][s] = a.terminal[s]
  BY <1>2
<1>5. o.auth[s] = a.auth[s]
  BY <1>1, <1>2 DEF Plus
<1>6. o.acct[s] = a.acct[s]
  BY <1>1, <1>2 DEF Plus
<1>7. o.activated[s] = a.activated[s] /\ o.established[s] = a.established[s] /\ o.terminal[s] = a.terminal[s]
  BY <1>1, <1>3, <1>4
<1>8. s \in o.seenSubs <=> s \in a.seenSubs
  BY <1>1 DEF Seen
<1> QED BY <1>5, <1>6, <1>7, <1>8 DEF Agrees, o

\* What an event makes of its own subscriber's entries.
At(c, o, e) ==
  /\ o.activated[e.sub] = IF e.kind = "activated" /\ c.activated[e.sub] = NA
                          THEN e.at ELSE c.activated[e.sub]
  /\ o.established[e.sub] = IF e.kind = "terminal" /\ e.value = "established" /\ c.established[e.sub] = NA
                            THEN e.at ELSE c.established[e.sub]
  /\ o.terminal[e.sub] = IF e.kind = "terminal" THEN e.value ELSE c.terminal[e.sub]
  /\ o.auth[e.sub] = IF e.kind = "retransmitted" /\ e.value = "auth" THEN c.auth[e.sub] + 1 ELSE c.auth[e.sub]
  /\ o.acct[e.sub] = IF e.kind = "retransmitted" /\ e.value = "acct" THEN c.acct[e.sub] + 1 ELSE c.acct[e.sub]
  /\ e.sub \in o.seenSubs <=> e.sub # 0 \/ e.sub \in c.seenSubs

\* At holds of observe.
LEMMA ObserveAt ==
  ASSUME NEW c \in Aggregation, NEW e, EventOK(e)
  PROVE  At(c, observe(c, e), e)
<1> DEFINE o == observe(c, e)
<1>1. /\ o.seenSubs = Seen(c, e)
      /\ o.activated = IF e.kind = "activated" THEN Earliest(c.activated, e) ELSE c.activated
      /\ o.established = IF e.kind = "terminal" /\ e.value = "established"
                         THEN Earliest(c.established, e) ELSE c.established
      /\ o.terminal = IF e.kind = "terminal"
                      THEN [c.terminal EXCEPT ![e.sub] = e.value] ELSE c.terminal
      /\ o.auth = Plus(c.auth, e.sub, e.kind = "retransmitted" /\ e.value = "auth")
      /\ o.acct = Plus(c.acct, e.sub, e.kind = "retransmitted" /\ e.value = "acct")
  BY ObserveIs
<1> HIDE DEF o
<1>2. /\ c.activated \in [Subs -> Nat \cup {NA}] /\ c.established \in [Subs -> Nat \cup {NA}]
      /\ c.terminal \in [Subs -> Finals \cup {"none"}] /\ c.auth \in [Subs -> Nat] /\ c.acct \in [Subs -> Nat]
      /\ e.sub \in Subs
  BY DEF Aggregation, EventOK
<1>3. /\ Earliest(c.activated, e)[e.sub] = IF c.activated[e.sub] = NA THEN e.at ELSE c.activated[e.sub]
      /\ Earliest(c.established, e)[e.sub] = IF c.established[e.sub] = NA THEN e.at ELSE c.established[e.sub]
  BY <1>2 DEF Earliest
<1>4. [c.terminal EXCEPT ![e.sub] = e.value][e.sub] = e.value
  BY <1>2
<1>5. o.auth[e.sub] = IF e.kind = "retransmitted" /\ e.value = "auth" THEN c.auth[e.sub] + 1 ELSE c.auth[e.sub]
  BY <1>1, <1>2 DEF Plus
<1>6. o.acct[e.sub] = IF e.kind = "retransmitted" /\ e.value = "acct" THEN c.acct[e.sub] + 1 ELSE c.acct[e.sub]
  BY <1>1, <1>2 DEF Plus
<1>7. e.sub \in o.seenSubs <=> e.sub # 0 \/ e.sub \in c.seenSubs
  BY <1>1 DEF Seen
<1>8. At(c, o, e)
  BY <1>1, <1>3, <1>4, <1>5, <1>6, <1>7 DEF At
<1> QED BY <1>8 DEF o

\* Aggregations that agree on a subscriber still do after its event.
LEMMA ObserveSame ==
  ASSUME NEW a \in Aggregation, NEW b \in Aggregation, NEW e, EventOK(e), Agrees(b, a, e.sub)
  PROVE  Agrees(observe(b, e), observe(a, e), e.sub)
<1>1. At(a, observe(a, e), e) /\ At(b, observe(b, e), e)
  BY ObserveAt
<1> QED BY <1>1 DEF At, Agrees

\* The shard that Submit chooses exists.
LEMMA Home ==
  ASSUME NEW n \in Nat \ {0}, NEW s \in Subs
  PROVE  s % n \in 0 .. n - 1
BY DEF Subs

\* The shard that gets an event, and the aggregation that gets every event,
\* stay in step.
LEMMA SplitsStep ==
  ASSUME NEW n \in Nat \ {0}, NEW A, NEW a, Splits(A, a, n), NEW e, EventOK(e), NEW B,
         B = [A EXCEPT ![e.sub % n] = observe(@, e)]
  PROVE  Splits(B, observe(a, e), n)
<1> DEFINE j == e.sub % n
           o == observe(a, e)
<1>1. e.sub \in Subs /\ j \in 0 .. n - 1 /\ a \in Aggregation /\ A \in [0 .. n - 1 -> Aggregation]
  BY Home DEF EventOK, Splits
<1>2. o \in Aggregation /\ \A k \in 0 .. n - 1 : observe(A[k], e) \in Aggregation
  BY <1>1, ObserveIs
<1>3. /\ B \in [0 .. n - 1 -> Aggregation] /\ B[j] = observe(A[j], e)
      /\ \A k \in 0 .. n - 1 : k # j => B[k] = A[k]
  BY <1>1, <1>2
<1> HIDE DEF j, o
<1>4. Homes(B, o, n)
  <2> SUFFICES ASSUME NEW s \in Subs
               PROVE  /\ Agrees(B[s % n], o, s)
                      /\ \A k \in 0 .. n - 1 : k # s % n => Lacks(B[k], s)
    BY DEF Homes
  <2>1. s % n \in 0 .. n - 1 /\ Agrees(A[s % n], a, s)
    BY Home DEF Splits, Homes
  <2>2. \A k \in 0 .. n - 1 : k # s % n => Lacks(A[k], s)
    BY DEF Splits, Homes
  <2>3. CASE s = e.sub
    <3>1. s % n = j
      BY <2>3 DEF j
    <3>2. Agrees(observe(A[j], e), observe(a, e), s)
      BY <1>1, <2>1, <2>3, <3>1, ObserveSame
    <3> QED BY <1>3, <2>2, <3>1, <3>2 DEF o
  <2>4. CASE s # e.sub
    <3>1. Agrees(o, a, s)
      BY <1>1, <2>4, ObserveElse DEF o
    <3>2. ASSUME NEW k \in 0 .. n - 1 PROVE Agrees(B[k], A[k], s)
      <4>1. CASE k = j
        <5>1. Agrees(observe(A[j], e), A[j], s)
          BY <1>1, <2>4, ObserveElse
        <5> QED BY <1>3, <4>1, <5>1
      <4>2. CASE k # j
        <5>1. B[k] = A[k]
          BY <1>3, <4>2
        <5> QED BY <5>1 DEF Agrees
      <4> QED BY <4>1, <4>2
    <3>3. Agrees(B[s % n], A[s % n], s)
      BY <2>1, <3>2
    <3>4. Agrees(B[s % n], o, s)
      BY <2>1, <3>1, <3>3 DEF Agrees
    <3>5. ASSUME NEW k \in 0 .. n - 1, k # s % n PROVE Lacks(B[k], s)
      <4>1. Agrees(B[k], A[k], s) /\ Lacks(A[k], s)
        BY <2>2, <3>2, <3>5
      <4> QED BY <4>1 DEF Agrees, Lacks
    <3> QED BY <3>4, <3>5
  <2> QED BY <2>3, <2>4
<1>5. ASSUME NEW f \in [0 .. n - 1 -> Nat], NEW h \in [0 .. n - 1 -> Nat], NEW d \in Nat, h[j] = f[j] + d,
             \A k \in 0 .. n - 1 : k # j => h[k] = f[k]
      PROVE  Total(h) = Total(f) + d
  <2>1. n \in Nat /\ j \in 0 .. n - 1
    BY <1>1
  <2> QED BY ONLY <2>1, <1>5, TotalBump, ZenonT(40)
<1>6. ASSUME NEW k \in 0 .. n - 1
      PROVE  /\ A[k].counts.retransmitted \in Nat /\ B[k].counts.retransmitted \in Nat
             /\ A[k].counts.received \in Nat /\ B[k].counts.received \in Nat
             /\ A[k].counts.answered \in Nat /\ B[k].counts.answered \in Nat
             /\ A[k].latencies \in Seq(Nat) /\ B[k].latencies \in Seq(Nat)
             /\ A[k].latencies \in Seq(Int) /\ B[k].latencies \in Seq(Int)
  <2>1. A[k] \in Aggregation /\ B[k] \in Aggregation
    BY <1>1, <1>3
  <2>2. PICK x \in Aggregation : x = A[k]
    BY <2>1
  <2>3. PICK y \in Aggregation : y = B[k]
    BY <2>1
  <2>4. /\ x.counts.retransmitted \in Nat /\ y.counts.retransmitted \in Nat
        /\ x.counts.received \in Nat /\ y.counts.received \in Nat
        /\ x.counts.answered \in Nat /\ y.counts.answered \in Nat
        /\ x.latencies \in Seq(Nat) /\ y.latencies \in Seq(Nat)
    BY DEF Aggregation
  <2>5. x.latencies \in Seq(Int) /\ y.latencies \in Seq(Int)
    BY <2>4
  <2> QED BY <2>2, <2>3, <2>4, <2>5
<1>7. Counted(B, o, n)
  <2> DEFINE r == IF e.kind = "retransmitted" THEN 1 ELSE 0
             c == IF e.kind = "received" THEN 1 ELSE 0
             w == IF e.kind = "answered" THEN 1 ELSE 0
  <2>0. r \in Nat /\ c \in Nat /\ w \in Nat
    OBVIOUS
  <2>1. ASSUME NEW b \in Aggregation
        PROVE  /\ observe(b, e).counts.retransmitted = b.counts.retransmitted + r
               /\ observe(b, e).counts.received = b.counts.received + c
               /\ observe(b, e).counts.answered = b.counts.answered + w
    <3>1. /\ observe(b, e).counts.retransmitted = Inc(b.counts.retransmitted, e.kind = "retransmitted")
          /\ observe(b, e).counts.received = Inc(b.counts.received, e.kind = "received")
          /\ observe(b, e).counts.answered = Inc(b.counts.answered, e.kind = "answered")
      BY ObserveIs
    <3>2. b.counts.retransmitted \in Nat /\ b.counts.received \in Nat /\ b.counts.answered \in Nat
      BY DEF Aggregation
    <3> QED BY <3>1, <3>2 DEF Inc
  <2>2. /\ B[j].counts.retransmitted = A[j].counts.retransmitted + r
        /\ B[j].counts.received = A[j].counts.received + c
        /\ B[j].counts.answered = A[j].counts.answered + w
        /\ o.counts.retransmitted = a.counts.retransmitted + r
        /\ o.counts.received = a.counts.received + c
        /\ o.counts.answered = a.counts.answered + w
    BY <1>1, <1>3, <2>1 DEF o
  <2> HIDE DEF r, c, w
  <2>3. Total([k \in 0 .. n - 1 |-> B[k].counts.retransmitted])
          = Total([k \in 0 .. n - 1 |-> A[k].counts.retransmitted]) + r
    <3> DEFINE f == [k \in 0 .. n - 1 |-> A[k].counts.retransmitted]
               h == [k \in 0 .. n - 1 |-> B[k].counts.retransmitted]
    <3>1. /\ f \in [0 .. n - 1 -> Nat] /\ h \in [0 .. n - 1 -> Nat] /\ h[j] = f[j] + r
          /\ \A k \in 0 .. n - 1 : k # j => h[k] = f[k]
      BY <1>1, <1>3, <1>6, <2>2
    <3> HIDE DEF f, h
    <3>2. Total(h) = Total(f) + r
      BY <1>5, <2>0, <3>1
    <3> QED BY <3>2 DEF f, h
  <2>4. Total([k \in 0 .. n - 1 |-> B[k].counts.received])
          = Total([k \in 0 .. n - 1 |-> A[k].counts.received]) + c
    <3> DEFINE f == [k \in 0 .. n - 1 |-> A[k].counts.received]
               h == [k \in 0 .. n - 1 |-> B[k].counts.received]
    <3>1. /\ f \in [0 .. n - 1 -> Nat] /\ h \in [0 .. n - 1 -> Nat] /\ h[j] = f[j] + c
          /\ \A k \in 0 .. n - 1 : k # j => h[k] = f[k]
      BY <1>1, <1>3, <1>6, <2>2
    <3> HIDE DEF f, h
    <3>2. Total(h) = Total(f) + c
      BY <1>5, <2>0, <3>1
    <3> QED BY <3>2 DEF f, h
  <2>5. Total([k \in 0 .. n - 1 |-> B[k].counts.answered])
          = Total([k \in 0 .. n - 1 |-> A[k].counts.answered]) + w
    <3> DEFINE f == [k \in 0 .. n - 1 |-> A[k].counts.answered]
               h == [k \in 0 .. n - 1 |-> B[k].counts.answered]
    <3>1. /\ f \in [0 .. n - 1 -> Nat] /\ h \in [0 .. n - 1 -> Nat] /\ h[j] = f[j] + w
          /\ \A k \in 0 .. n - 1 : k # j => h[k] = f[k]
      BY <1>1, <1>3, <1>6, <2>2
    <3> HIDE DEF f, h
    <3>2. Total(h) = Total(f) + w
      BY <1>5, <2>0, <3>1
    <3> QED BY <3>2 DEF f, h
  <2>6. Counted(A, a, n)
    BY DEF Splits
  <2> QED BY <2>2, <2>3, <2>4, <2>5, <2>6 DEF Counted
<1>8. Sampled(B, o, n)
  <2> DEFINE yes == e.kind = "answered" /\ e.value > 0
  <2>1. ASSUME NEW b \in Aggregation
        PROVE  observe(b, e).latencies = IF yes THEN Append(b.latencies, e.value) ELSE b.latencies
    BY ObserveIs
  <2>2. yes => e.value \in Nat
    BY DEF EventOK
  <2> HIDE DEF yes
  <2>3. /\ B[j].latencies = IF yes THEN Append(A[j].latencies, e.value) ELSE A[j].latencies
        /\ o.latencies = IF yes THEN Append(a.latencies, e.value) ELSE a.latencies
    BY <1>1, <1>3, <2>1 DEF o
  <2>4. a.latencies \in Seq(Nat) /\ A[j].latencies \in Seq(Nat)
    BY <1>1, <1>6 DEF Aggregation
  <2>5. Total([k \in 0 .. n - 1 |-> Len(B[k].latencies)]) = Len(o.latencies)
    <3> DEFINE d == IF yes THEN 1 ELSE 0
               f == [k \in 0 .. n - 1 |-> Len(A[k].latencies)]
               h == [k \in 0 .. n - 1 |-> Len(B[k].latencies)]
    <3>1. d \in Nat /\ Len(B[j].latencies) = Len(A[j].latencies) + d /\ Len(o.latencies) = Len(a.latencies) + d
      <4> HIDE DEF f, h
      <4>1. CASE yes
        <5>1. e.value \in Nat /\ B[j].latencies = Append(A[j].latencies, e.value) /\ o.latencies = Append(a.latencies, e.value)
          BY <2>2, <2>3, <4>1
        <5>2. d = 1
          BY <4>1
        <5> HIDE DEF d
        <5> QED BY <2>4, <5>1, <5>2
      <4>2. CASE ~yes
        <5>1. d = 0 /\ B[j].latencies = A[j].latencies /\ o.latencies = a.latencies
          BY <2>3, <4>2
        <5> HIDE DEF d
        <5> QED BY <2>4, <5>1
      <4> QED BY <4>1, <4>2
    <3> HIDE DEF d
    <3>2. /\ f \in [0 .. n - 1 -> Nat] /\ h \in [0 .. n - 1 -> Nat] /\ h[j] = f[j] + d
          /\ \A k \in 0 .. n - 1 : k # j => h[k] = f[k]
      BY <1>1, <1>3, <1>6, <3>1
    <3>3. Total(f) = Len(a.latencies)
      BY DEF Splits, Sampled
    <3> HIDE DEF f, h
    <3>4. Total(h) = Total(f) + d
      BY <1>5, <3>1, <3>2
    <3>5. Total(h) = Len(o.latencies)
      BY <3>1, <3>3, <3>4
    <3> QED BY <3>5 DEF h
  <2>6. ASSUME NEW v \in Int
        PROVE  Total([k \in 0 .. n - 1 |-> HowMany(B[k].latencies, v)]) = HowMany(o.latencies, v)
    <3> DEFINE d == IF yes THEN IF e.value <= v THEN 1 ELSE 0 ELSE 0
               f == [k \in 0 .. n - 1 |-> HowMany(A[k].latencies, v)]
               h == [k \in 0 .. n - 1 |-> HowMany(B[k].latencies, v)]
    <3>0. d \in Nat
      OBVIOUS
    <3>a. \A k \in 0 .. n - 1 : HowMany(A[k].latencies, v) \in Nat /\ HowMany(B[k].latencies, v) \in Nat
      BY <1>6, HowManyType
    <3>b. HowMany(a.latencies, v) \in Nat
      <4>1. a.latencies \in Seq(Int)
        BY <2>4
      <4> QED BY <4>1, HowManyType
    <3>1. HowMany(B[j].latencies, v) = HowMany(A[j].latencies, v) + d /\ HowMany(o.latencies, v) = HowMany(a.latencies, v) + d
      <4>1. CASE yes
        <5>1. /\ HowMany(Append(A[j].latencies, e.value), v) = HowMany(A[j].latencies, v) + d
              /\ HowMany(Append(a.latencies, e.value), v) = HowMany(a.latencies, v) + d
          BY <2>2, <2>4, <4>1, HowManyAppend
        <5> QED BY <2>3, <4>1, <5>1
      <4>2. CASE ~yes
        <5>1. d = 0 /\ B[j].latencies = A[j].latencies /\ o.latencies = a.latencies
          BY <2>3, <4>2
        <5> HIDE DEF d
        <5> QED BY <1>1, <3>a, <3>b, <5>1
      <4> QED BY <4>1, <4>2
    <3> HIDE DEF d
    <3>2. /\ f \in [0 .. n - 1 -> Nat] /\ h \in [0 .. n - 1 -> Nat] /\ h[j] = f[j] + d
          /\ \A k \in 0 .. n - 1 : k # j => h[k] = f[k]
      BY <1>1, <1>3, <3>a, <3>1
    <3>3. Total(f) = HowMany(a.latencies, v)
      BY DEF Splits, Sampled
    <3> HIDE DEF f, h
    <3>4. Total(h) = Total(f) + d
      BY <1>5, <3>0, <3>2 DEF d
    <3>5. Total(h) = HowMany(o.latencies, v)
      BY <3>1, <3>3, <3>4
    <3> QED BY <3>5 DEF h
  <2> QED BY <2>5, <2>6 DEF Sampled
<1> QED BY <1>2, <1>3, <1>4, <1>7, <1>8 DEF Splits, o

-----------------------------------------------------------------------------
(* The inductive invariant.                                                *)

ATypeOK ==
  /\ now \in Nat /\ state \in [Subs -> {"idle", "active"} \cup Finals]
  /\ activatedAt \in [Subs -> Nat \cup {NA}] /\ endedAt \in [Subs -> Nat \cup {NA}]
  /\ retransmits \in [Subs -> Nat] /\ inbound \in Nat /\ drops \in Nat
  /\ single \in Aggregation

\* When a subscriber was activated and ended.
HistoryAt(s) ==
  /\ state[s] = "idle" => activatedAt[s] = NA /\ retransmits[s] = 0
  /\ state[s] # "idle" => activatedAt[s] \in 0 .. now
  /\ state[s] \notin Finals => endedAt[s] = NA
  /\ state[s] \in Finals => endedAt[s] \in activatedAt[s] .. now

Knows(a, s) ==
  \/ a.activated[s] # NA \/ a.established[s] # NA
  \/ a.terminal[s] # "none" \/ a.auth[s] > 0 \/ a.acct[s] > 0
  \/ s \in a.seenSubs

\* What the one aggregation holds of a subscriber happened; what happened it
\* holds, if nothing was dropped.
SingleAt(s) ==
  /\ Knows(single, s) => state[s] # "idle"
  /\ single.activated[s] = NA \/ single.activated[s] = activatedAt[s]
  /\ single.terminal[s] = "none" \/ single.terminal[s] = state[s]
  /\ single.established[s] = IF single.terminal[s] = "established" THEN endedAt[s] ELSE NA

ExactAt(s) ==
  /\ single.activated[s] = activatedAt[s]
  /\ state[s] \in Finals => single.terminal[s] = state[s]
  /\ single.auth[s] + single.acct[s] = retransmits[s]

Exact ==
  drops = 0 =>
    /\ \A s \in Subs : ExactAt(s)
    /\ single.counts.retransmitted = Total(retransmits)

IInv ==
  /\ ATypeOK
  /\ \A s \in Subs : HistoryAt(s) /\ SingleAt(s)
  /\ Exact
  /\ Splits(aggs, single, ShardCount)

\* The total of zeros.
LEMMA TotalZero ==
  ASSUME NEW n \in Nat, NEW f, DOMAIN f = 0 .. n - 1, \A k \in 0 .. n - 1 : f[k] = 0
  PROVE  Total(f) = 0
BY SumsZero, TotalIs

\* newShardAggregation has the type of an aggregation.
LEMMA NewType == newShardAggregation \in Aggregation
<1> DEFINE c == [retransmitted |-> 0, received |-> 0, answered |-> 0]
<1>1. c \in [retransmitted: Nat, received: Nat, answered: Nat] /\ <<>> \in Seq(Nat)
  OBVIOUS
<1> HIDE DEF c
<1> QED BY <1>1 DEF newShardAggregation, Aggregation, NA, c

\* The invariant holds initially.
LEMMA InitInv == Init => IInv
<1> SUFFICES ASSUME Init PROVE IInv
  OBVIOUS
<1> DEFINE new == newShardAggregation
<1>1. /\ single = new /\ aggs = [k \in Shards |-> new] /\ now = 0
      /\ state = [s \in Subs |-> "idle"] /\ drops = 0 /\ inbound = 0
      /\ activatedAt = [s \in Subs |-> NA] /\ endedAt = [s \in Subs |-> NA]
      /\ retransmits = [s \in Subs |-> 0]
  BY DEF Init
<1>2. /\ new.seenSubs = {} /\ new.latencies = <<>>
      /\ \A s \in Subs : /\ new.activated[s] = NA /\ new.established[s] = NA /\ new.terminal[s] = "none"
                         /\ new.auth[s] = 0 /\ new.acct[s] = 0
      /\ new.counts.retransmitted = 0 /\ new.counts.received = 0 /\ new.counts.answered = 0
  BY DEF newShardAggregation
<1>3. new \in Aggregation
  BY NewType
<1> HIDE DEF new
<1>4. ATypeOK
  BY <1>1, <1>3 DEF ATypeOK, NA
<1>5. \A s \in Subs : HistoryAt(s) /\ SingleAt(s) /\ ExactAt(s)
  BY <1>1, <1>2 DEF HistoryAt, SingleAt, ExactAt, Knows, Finals
<1>6. Exact
  <2>1. Total(retransmits) = 0
    BY <1>1, AggregateAssumption, TotalZero DEF Subs
  <2> QED BY <1>1, <1>2, <1>5, <2>1 DEF Exact
<1>7. Splits(aggs, single, ShardCount)
  <2> DEFINE n == ShardCount
  <2>0. n \in Nat \ {0} /\ n \in Nat
    BY AggregateAssumption
  <2>1. aggs \in [0 .. n - 1 -> Aggregation] /\ \A k \in 0 .. n - 1 : aggs[k] = new
    BY <1>1, <1>3 DEF Shards
  <2> HIDE DEF n
  <2>2. Homes(aggs, single, n)
    <3>1. \A s \in Subs : s % n \in 0 .. n - 1
      BY <2>0, Home
    <3>2. \A s \in Subs : Agrees(new, new, s) /\ Lacks(new, s)
      BY <1>2 DEF Agrees, Lacks
    <3> QED BY <1>1, <2>1, <3>1, <3>2 DEF Homes
  <2>3. Counted(aggs, single, n)
    <3> DEFINE f == [k \in 0 .. n - 1 |-> aggs[k].counts.retransmitted]
               g == [k \in 0 .. n - 1 |-> aggs[k].counts.received]
               h == [k \in 0 .. n - 1 |-> aggs[k].counts.answered]
    <3>1. \A k \in 0 .. n - 1 : f[k] = 0 /\ g[k] = 0 /\ h[k] = 0
      BY <1>2, <2>1
    <3>2. DOMAIN f = 0 .. n - 1 /\ DOMAIN g = 0 .. n - 1 /\ DOMAIN h = 0 .. n - 1
      OBVIOUS
    <3> HIDE DEF f, g, h
    <3>3. Total(f) = 0 /\ Total(g) = 0 /\ Total(h) = 0
      BY <2>0, <3>1, <3>2, TotalZero
    <3> QED BY <1>1, <1>2, <3>3 DEF Counted, f, g, h
  <2>4. Sampled(aggs, single, n)
    <3>1. Len(new.latencies) = 0
      BY <1>2
    <3>2. ASSUME NEW v \in Int PROVE HowMany(new.latencies, v) = 0
      <4>1. {i \in DOMAIN new.latencies : new.latencies[i] <= v} = {}
        BY <1>2
      <4> QED BY <4>1, FS_EmptySet DEF HowMany
    <3>3. Total([k \in 0 .. n - 1 |-> Len(aggs[k].latencies)]) = 0
      <4> DEFINE f == [k \in 0 .. n - 1 |-> Len(aggs[k].latencies)]
      <4>1. DOMAIN f = 0 .. n - 1 /\ \A k \in 0 .. n - 1 : f[k] = 0
        BY <2>1, <3>1
      <4> HIDE DEF f
      <4>2. Total(f) = 0
        BY <2>0, <4>1, TotalZero
      <4> QED BY <4>2 DEF f
    <3>4. ASSUME NEW v \in Int PROVE Total([k \in 0 .. n - 1 |-> HowMany(aggs[k].latencies, v)]) = 0
      <4> DEFINE f == [k \in 0 .. n - 1 |-> HowMany(aggs[k].latencies, v)]
      <4>1. DOMAIN f = 0 .. n - 1 /\ \A k \in 0 .. n - 1 : f[k] = 0
        BY <2>1, <3>2
      <4> HIDE DEF f
      <4>2. Total(f) = 0
        BY <2>0, <4>1, TotalZero
      <4> QED BY <4>2 DEF f
    <3> QED BY <1>1, <3>1, <3>2, <3>3, <3>4 DEF Sampled
  <2> QED BY <1>1, <1>3, <2>1, <2>2, <2>3, <2>4 DEF Splits, n
<1> QED BY <1>4, <1>5, <1>6, <1>7 DEF IInv

\* What a submitted event does to the aggregations, kept or dropped.
LEMMA Submitted ==
  ASSUME IInv, NEW e, EventOK(e), Submit(e)
  PROVE  /\ Splits(aggs', single', ShardCount)
         /\ single' \in Aggregation /\ drops' \in Nat
         /\ \A s \in Subs : s # e.sub => Agrees(single', single, s)
         /\ \/ drops' = drops /\ At(single, single', e)
               /\ single'.counts.retransmitted = Inc(single.counts.retransmitted, e.kind = "retransmitted")
            \/ drops' # 0 /\ single' = single
<1>1. /\ single \in Aggregation /\ drops \in Nat /\ Splits(aggs, single, ShardCount)
      /\ ShardCount \in Nat \ {0}
  BY AggregateAssumption DEF IInv, ATypeOK
<1>2. CASE single' = observe(single, e) /\ drops' = drops
           /\ aggs' = [aggs EXCEPT ![ShardOf(e)] = observe(@, e)]
  <2>1. Splits(aggs', single', ShardCount)
    <3>1. aggs' = [aggs EXCEPT ![e.sub % ShardCount] = observe(@, e)]
      BY <1>2 DEF ShardOf
    <3>2. Splits(aggs', observe(single, e), ShardCount)
      BY <1>1, <3>1, SplitsStep
    <3> QED BY <1>2, <3>2
  <2>2. /\ single' \in Aggregation
        /\ single'.counts.retransmitted = Inc(single.counts.retransmitted, e.kind = "retransmitted")
    BY <1>1, <1>2, ObserveIs
  <2>3. At(single, single', e)
    BY <1>1, <1>2, ObserveAt
  <2>4. \A s \in Subs : s # e.sub => Agrees(single', single, s)
    BY <1>1, <1>2, ObserveElse
  <2> QED BY <1>1, <1>2, <2>1, <2>2, <2>3, <2>4
<1>3. CASE drops' = drops + 1 /\ aggs' = aggs /\ single' = single
  BY <1>1, <1>3 DEF Agrees
<1> QED BY <1>2, <1>3 DEF Submit

\* A subscriber that an event is not about.
LEMMA Untouched ==
  ASSUME IInv, NEW s \in Subs, Agrees(single', single, s), now' \in Nat, now <= now',
         state'[s] = state[s], activatedAt'[s] = activatedAt[s], endedAt'[s] = endedAt[s],
         retransmits'[s] = retransmits[s]
  PROVE  HistoryAt(s)' /\ SingleAt(s)' /\ (ExactAt(s) => ExactAt(s)')
<1>1. /\ HistoryAt(s) /\ SingleAt(s) /\ now \in Nat
      /\ activatedAt[s] \in Nat \cup {NA} /\ endedAt[s] \in Nat \cup {NA}
  BY DEF IInv, ATypeOK
<1>2. HistoryAt(s)'
  BY <1>1 DEF HistoryAt, NA
<1>3. SingleAt(s)'
  BY <1>1 DEF SingleAt, Agrees, Knows
<1>4. ASSUME ExactAt(s) PROVE ExactAt(s)'
  BY <1>4 DEF ExactAt, Agrees
<1> QED BY <1>2, <1>3, <1>4

\* From the subscriber that an event is about to the invariant.
LEMMA StepInv ==
  ASSUME IInv, NEW e, EventOK(e), Submit(e), NEW s \in Subs, e.sub = s, ATypeOK', now' = now,
         \A r \in Subs : r # s => /\ state'[r] = state[r] /\ activatedAt'[r] = activatedAt[r]
                                  /\ endedAt'[r] = endedAt[r] /\ retransmits'[r] = retransmits[r],
         HistoryAt(s)', SingleAt(s)', drops' = 0 => ExactAt(s)',
         Total(retransmits') = Inc(Total(retransmits), e.kind = "retransmitted")
  PROVE  IInv'
<1>1. /\ Splits(aggs', single', ShardCount)
      /\ \A r \in Subs : r # s => Agrees(single', single, r)
      /\ drops' = 0 => /\ drops = 0
                       /\ single'.counts.retransmitted = Inc(single.counts.retransmitted, e.kind = "retransmitted")
  BY Submitted
<1>2. ASSUME NEW r \in Subs, r # s PROVE HistoryAt(r)' /\ SingleAt(r)' /\ (ExactAt(r) => ExactAt(r)')
  <2>1. now' \in Nat /\ now <= now'
    BY DEF ATypeOK, IInv
  <2> QED BY <1>1, <1>2, <2>1, Untouched
<1>3. \A r \in Subs : HistoryAt(r)' /\ SingleAt(r)'
  BY <1>2
<1>4. Exact'
  <2> SUFFICES ASSUME drops' = 0
               PROVE  /\ \A r \in Subs : ExactAt(r)'
                      /\ single'.counts.retransmitted = Total(retransmits')
    BY DEF Exact
  <2>1. /\ drops = 0 /\ \A r \in Subs : ExactAt(r)
        /\ single.counts.retransmitted = Total(retransmits)
    BY <1>1 DEF IInv, Exact
  <2>2. \A r \in Subs : ExactAt(r)'
    BY <1>2, <2>1
  <2> QED BY <1>1, <2>1, <2>2
<1> QED BY <1>1, <1>3, <1>4 DEF IInv

\* One retransmission more adds one to their total.
LEMMA TotalRetransmits ==
  ASSUME NEW f \in [Subs -> Nat], NEW s \in Subs, NEW h, h = [f EXCEPT ![s] = @ + 1]
  PROVE  Total(h) = Total(f) + 1
<1>1. Count \in Nat /\ Subs = 0 .. Count - 1
  BY AggregateAssumption DEF Subs
<1>2. /\ h \in [Subs -> Nat] /\ h[s] = f[s] + 1
      /\ \A k \in Subs : k # s => h[k] = f[k]
  OBVIOUS
<1>3. PICK n \in Nat : Subs = 0 .. n - 1
  BY <1>1
<1>4. /\ f \in [0 .. n - 1 -> Nat] /\ h \in [0 .. n - 1 -> Nat] /\ s \in 0 .. n - 1 /\ 1 \in Nat
      /\ \A k \in 0 .. n - 1 : k # s => h[k] = f[k]
  BY <1>2, <1>3
<1> QED BY ONLY <1>2, <1>4, n \in Nat, TotalBump

\* Activate keeps the invariant.
LEMMA ActivateInv ==
  ASSUME IInv, NEW s \in Subs, Activate(s)
  PROVE  IInv'
<1> DEFINE e == Event(s, "activated", "idle")
<1>1. e.sub = s /\ e.kind = "activated" /\ e.at = now
  BY DEF Event
<1>2. EventOK(e)
  BY <1>1 DEF EventOK, IInv, ATypeOK
<1>3. Submit(e)
  BY DEF Activate
<1> HIDE DEF e
<1>4. /\ state[s] = "idle" /\ state' = [state EXCEPT ![s] = "active"]
      /\ activatedAt' = [activatedAt EXCEPT ![s] = now]
      /\ now' = now /\ endedAt' = endedAt /\ retransmits' = retransmits /\ inbound' = inbound
  BY DEF Activate
<1>5. /\ single' \in Aggregation /\ drops' \in Nat
      /\ \/ drops' = drops /\ At(single, single', e)
         \/ drops' # 0 /\ single' = single
  BY <1>2, <1>3, Submitted
<1>6. ATypeOK'
  BY <1>4, <1>5 DEF ATypeOK, IInv
<1>7. /\ state'[s] = "active" /\ activatedAt'[s] = now /\ now \in Nat
      /\ \A r \in Subs : r # s => /\ state'[r] = state[r] /\ activatedAt'[r] = activatedAt[r]
                                  /\ endedAt'[r] = endedAt[r] /\ retransmits'[r] = retransmits[r]
  BY <1>4 DEF IInv, ATypeOK
<1>8. HistoryAt(s) /\ SingleAt(s) /\ (drops = 0 => ExactAt(s))
  BY DEF IInv, Exact
<1>9. /\ single.activated[s] = NA /\ single.established[s] = NA /\ single.terminal[s] = "none"
      /\ endedAt[s] = NA
  BY <1>4, <1>8 DEF SingleAt, HistoryAt, Knows, Finals
<1>10. HistoryAt(s)'
  BY <1>4, <1>7, <1>9 DEF HistoryAt, Finals
<1>11. SingleAt(s)'
  <2>1. /\ single'.established[s] = NA /\ single'.terminal[s] = "none"
        /\ single'.activated[s] = NA \/ single'.activated[s] = now
    BY <1>1, <1>5, <1>9 DEF At
  <2> QED BY <1>7, <2>1 DEF SingleAt
<1>12. drops' = 0 => ExactAt(s)'
  <2> SUFFICES ASSUME drops' = 0 PROVE ExactAt(s)'
    OBVIOUS
  <2>1. single'.activated[s] = now /\ single'.auth[s] = single.auth[s] /\ single'.acct[s] = single.acct[s]
    BY <1>1, <1>5, <1>9 DEF At
  <2>2. single.auth[s] + single.acct[s] = retransmits[s]
    BY <1>5, <1>8 DEF ExactAt
  <2> QED BY <1>4, <1>7, <2>1, <2>2 DEF ExactAt, Finals
<1>13. Total(retransmits') = Inc(Total(retransmits), e.kind = "retransmitted")
  BY <1>1, <1>4 DEF Inc
<1> QED BY <1>1, <1>2, <1>3, <1>4, <1>6, <1>7, <1>10, <1>11, <1>12, <1>13, StepInv

\* Retransmit keeps the invariant.
LEMMA RetransmitInv ==
  ASSUME IInv, NEW s \in Subs, NEW code \in {"auth", "acct"}, Retransmit(s, code)
  PROVE  IInv'
<1> DEFINE e == Event(s, "retransmitted", code)
<1>1. e.sub = s /\ e.kind = "retransmitted" /\ e.value = code /\ e.at = now
  BY DEF Event
<1>2. EventOK(e)
  BY <1>1 DEF EventOK, IInv, ATypeOK
<1>3. Submit(e)
  BY DEF Retransmit
<1> HIDE DEF e
<1>4. /\ state[s] = "active" /\ state' = state /\ activatedAt' = activatedAt
      /\ retransmits' = [retransmits EXCEPT ![s] = @ + 1]
      /\ now' = now /\ endedAt' = endedAt /\ inbound' = inbound
  BY DEF Retransmit
<1>5. /\ single' \in Aggregation /\ drops' \in Nat
      /\ \/ drops' = drops /\ At(single, single', e)
         \/ drops' # 0 /\ single' = single
  BY <1>2, <1>3, Submitted
<1>6. ATypeOK'
  BY <1>4, <1>5 DEF ATypeOK, IInv
<1>7. /\ retransmits'[s] = retransmits[s] + 1
      /\ \A r \in Subs : r # s => /\ state'[r] = state[r] /\ activatedAt'[r] = activatedAt[r]
                                  /\ endedAt'[r] = endedAt[r] /\ retransmits'[r] = retransmits[r]
  BY <1>4 DEF IInv, ATypeOK
<1>8. HistoryAt(s) /\ SingleAt(s) /\ (drops = 0 => ExactAt(s))
  BY DEF IInv, Exact
<1>9. HistoryAt(s)'
  BY <1>4, <1>8 DEF HistoryAt
<1>10. SingleAt(s)'
  <2>1. /\ single'.established[s] = single.established[s] /\ single'.terminal[s] = single.terminal[s]
        /\ single'.activated[s] = single.activated[s]
    BY <1>1, <1>5 DEF At
  <2> QED BY <1>4, <1>8, <2>1 DEF SingleAt
<1>11. drops' = 0 => ExactAt(s)'
  <2> SUFFICES ASSUME drops' = 0 PROVE ExactAt(s)'
    OBVIOUS
  <2>1. /\ single'.activated[s] = single.activated[s] /\ single'.terminal[s] = single.terminal[s]
        /\ single'.auth[s] = (IF code = "auth" THEN single.auth[s] + 1 ELSE single.auth[s])
        /\ single'.acct[s] = (IF code = "acct" THEN single.acct[s] + 1 ELSE single.acct[s])
    BY <1>1, <1>5 DEF At
  <2>2. ExactAt(s)
    BY <1>5, <1>8
  <2>3. single.auth[s] \in Nat /\ single.acct[s] \in Nat
    BY DEF IInv, ATypeOK, Aggregation
  <2> QED BY <1>4, <1>7, <2>1, <2>2, <2>3 DEF ExactAt
<1>12. Total(retransmits') = Inc(Total(retransmits), e.kind = "retransmitted")
  <2>1. retransmits \in [Subs -> Nat]
    BY DEF IInv, ATypeOK
  <2>2. Total(retransmits') = Total(retransmits) + 1
    BY <1>4, <2>1, TotalRetransmits
  <2> QED BY <1>1, <2>2 DEF Inc
<1> QED BY <1>1, <1>2, <1>3, <1>4, <1>6, <1>7, <1>9, <1>10, <1>11, <1>12, StepInv

\* An event that is only counted or seen.
LEMMA PlainInv ==
  ASSUME IInv, NEW s \in Subs, NEW e, EventOK(e), Submit(e), e.sub = s,
         e.kind \in {"other", "received", "answered"}, s = 0 \/ state[s] # "idle",
         now' = now, state' = state, activatedAt' = activatedAt, endedAt' = endedAt,
         retransmits' = retransmits, inbound' \in Nat
  PROVE  IInv'
<1>1. /\ single' \in Aggregation /\ drops' \in Nat
      /\ \/ drops' = drops /\ At(single, single', e)
         \/ drops' # 0 /\ single' = single
  BY Submitted
<1>2. ATypeOK'
  BY <1>1 DEF ATypeOK, IInv
<1>3. HistoryAt(s) /\ SingleAt(s) /\ (drops = 0 => ExactAt(s))
  BY DEF IInv, Exact
<1>4. /\ single'.established[s] = single.established[s] /\ single'.terminal[s] = single.terminal[s]
      /\ single'.activated[s] = single.activated[s]
      /\ single'.auth[s] = single.auth[s] /\ single'.acct[s] = single.acct[s]
      /\ s \in single'.seenSubs => s # 0 \/ s \in single.seenSubs
  BY <1>1 DEF At
<1>5. HistoryAt(s)'
  BY <1>3 DEF HistoryAt
<1>6. SingleAt(s)'
  BY <1>3, <1>4 DEF SingleAt, Knows
<1>7. drops' = 0 => ExactAt(s)'
  BY <1>1, <1>3, <1>4 DEF ExactAt
<1>8. Total(retransmits') = Inc(Total(retransmits), e.kind = "retransmitted")
  BY DEF Inc
<1> QED BY <1>2, <1>5, <1>6, <1>7, <1>8, StepInv

\* Terminal keeps the invariant.
LEMMA TerminalInv ==
  ASSUME IInv, NEW s \in Subs, NEW final \in Finals, Terminal(s, final)
  PROVE  IInv'
<1> DEFINE e == Event(s, "terminal", final)
<1>1. e.sub = s /\ e.kind = "terminal" /\ e.value = final /\ e.at = now
  BY DEF Event
<1>2. EventOK(e)
  BY <1>1 DEF EventOK, IInv, ATypeOK
<1>3. Submit(e)
  BY DEF Terminal
<1> HIDE DEF e
<1>4. /\ state[s] = "active" /\ state' = [state EXCEPT ![s] = final]
      /\ endedAt' = [endedAt EXCEPT ![s] = now]
      /\ now' = now /\ activatedAt' = activatedAt /\ retransmits' = retransmits /\ inbound' = inbound
  BY DEF Terminal
<1>5. /\ single' \in Aggregation /\ drops' \in Nat
      /\ \/ drops' = drops /\ At(single, single', e)
         \/ drops' # 0 /\ single' = single
  BY <1>2, <1>3, Submitted
<1>6. ATypeOK'
  BY <1>4, <1>5 DEF ATypeOK, IInv
<1>7. /\ state'[s] = final /\ endedAt'[s] = now /\ now \in Nat
      /\ \A r \in Subs : r # s => /\ state'[r] = state[r] /\ activatedAt'[r] = activatedAt[r]
                                  /\ endedAt'[r] = endedAt[r] /\ retransmits'[r] = retransmits[r]
  BY <1>4 DEF IInv, ATypeOK
<1>8. HistoryAt(s) /\ SingleAt(s) /\ (drops = 0 => ExactAt(s))
  BY DEF IInv, Exact
<1>9. /\ single.established[s] = NA /\ single.terminal[s] = "none"
      /\ activatedAt[s] \in 0 .. now /\ final # "idle"
  <2>1. single.terminal[s] \in Finals \cup {"none"}
    BY DEF IInv, ATypeOK, Aggregation
  <2> QED BY <1>4, <1>8, <2>1 DEF SingleAt, HistoryAt, Finals
<1>10. HistoryAt(s)'
  BY <1>4, <1>7, <1>9 DEF HistoryAt
<1>11. SingleAt(s)'
  <2>1. CASE drops' # 0 /\ single' = single
    BY <1>4, <1>7, <1>8, <1>9, <2>1 DEF SingleAt
  <2>2. CASE drops' = drops /\ At(single, single', e)
    <3>1. /\ single'.activated[s] = single.activated[s] /\ single'.terminal[s] = final
          /\ single'.established[s] = IF final = "established" THEN now ELSE NA
      BY <1>1, <1>9, <2>2 DEF At
    <3> QED BY <1>4, <1>7, <1>8, <1>9, <3>1 DEF SingleAt
  <2> QED BY <1>5, <2>1, <2>2
<1>12. drops' = 0 => ExactAt(s)'
  <2> SUFFICES ASSUME drops' = 0 PROVE ExactAt(s)'
    OBVIOUS
  <2>1. /\ single'.activated[s] = single.activated[s] /\ single'.terminal[s] = final
        /\ single'.auth[s] = single.auth[s] /\ single'.acct[s] = single.acct[s]
    BY <1>1, <1>5 DEF At
  <2>2. ExactAt(s)
    BY <1>5, <1>8
  <2> QED BY <1>4, <1>7, <2>1, <2>2 DEF ExactAt
<1>13. Total(retransmits') = Inc(Total(retransmits), e.kind = "retransmitted")
  BY <1>1, <1>4 DEF Inc
<1> QED BY <1>1, <1>2, <1>3, <1>4, <1>6, <1>7, <1>10, <1>11, <1>12, <1>13, StepInv

\* Tick keeps the invariant.
LEMMA TickInv ==
  ASSUME IInv, Tick
  PROVE  IInv'
<1>1. /\ now' = now + 1 /\ now \in Nat /\ state' = state /\ activatedAt' = activatedAt /\ endedAt' = endedAt
      /\ retransmits' = retransmits /\ inbound' = inbound /\ drops' = drops /\ aggs' = aggs /\ single' = single
  BY DEF Tick, subVars, IInv, ATypeOK
<1>2. ATypeOK'
  BY <1>1 DEF IInv, ATypeOK
<1>3. ASSUME NEW s \in Subs PROVE HistoryAt(s)' /\ SingleAt(s)' /\ (ExactAt(s) => ExactAt(s)')
  <2>1. Agrees(single', single, s) /\ now' \in Nat /\ now <= now'
    BY <1>1 DEF Agrees
  <2> QED BY <1>1, <2>1, Untouched
<1>4. Exact'
  BY <1>1, <1>3 DEF IInv, Exact
<1>5. Splits(aggs', single', ShardCount)
  BY <1>1 DEF IInv
<1> QED BY <1>2, <1>3, <1>4, <1>5 DEF IInv

\* Every step keeps the invariant.
LEMMA NextInv == IInv /\ [Next]_vars => IInv'
<1> SUFFICES ASSUME IInv, [Next]_vars PROVE IInv'
  OBVIOUS
<1>0. now \in Nat /\ inbound \in Nat
  BY DEF IInv, ATypeOK
<1>1. CASE Tick
  BY <1>1, TickInv
<1>2. ASSUME NEW s \in Subs, Activate(s) PROVE IInv'
  BY <1>2, ActivateInv
<1>3. ASSUME NEW s \in Subs, NEW code \in {"auth", "acct"}, Retransmit(s, code) PROVE IInv'
  BY <1>3, RetransmitInv
<1>4. ASSUME NEW s \in Subs, NEW final \in Finals \ {"terminated"}, Terminal(s, final) PROVE IInv'
  BY <1>4, TerminalInv
<1>5. ASSUME NEW s \in Subs, Other(s) PROVE IInv'
  <2> DEFINE e == Event(s, "other", "none")
  <2>1. e.sub = s /\ e.kind = "other" /\ e.at = now
    BY DEF Event
  <2>2. EventOK(e)
    BY <1>0, <2>1 DEF EventOK
  <2>3. Submit(e) /\ state[s] = "active"
    BY <1>5 DEF Other
  <2> HIDE DEF e
  <2>4. /\ now' = now /\ state' = state /\ activatedAt' = activatedAt /\ endedAt' = endedAt
        /\ retransmits' = retransmits /\ inbound' \in Nat
    BY <1>0, <1>5 DEF Other, subVars
  <2> QED BY <2>1, <2>2, <2>3, <2>4, PlainInv
<1>6. ASSUME NEW s \in Subs, NEW kind \in {"received", "answered"}, NEW latency \in {0, 7},
             Inbound(s, kind, latency)
      PROVE  IInv'
  <2> DEFINE e == Event(s, kind, latency)
  <2>1. e.sub = s /\ e.kind = kind /\ e.value = latency /\ e.at = now
    BY DEF Event
  <2>2. EventOK(e)
    BY <1>0, <2>1 DEF EventOK
  <2>3. Submit(e) /\ (s = 0 \/ state[s] # "idle")
    BY <1>6 DEF Inbound
  <2> HIDE DEF e
  <2>4. /\ now' = now /\ state' = state /\ activatedAt' = activatedAt /\ endedAt' = endedAt
        /\ retransmits' = retransmits /\ inbound' \in Nat
    BY <1>0, <1>6 DEF Inbound
  <2> QED BY <2>1, <2>2, <2>3, <2>4, PlainInv
<1>7. CASE UNCHANGED vars
  <2>1. /\ now' = now /\ state' = state /\ activatedAt' = activatedAt /\ endedAt' = endedAt
        /\ retransmits' = retransmits /\ inbound' = inbound /\ drops' = drops /\ aggs' = aggs /\ single' = single
    BY <1>7 DEF vars, subVars
  <2>2. ATypeOK' /\ Exact' /\ Splits(aggs', single', ShardCount)
    BY <2>1 DEF IInv, ATypeOK, Exact, ExactAt
  <2>3. ASSUME NEW s \in Subs PROVE HistoryAt(s)' /\ SingleAt(s)'
    BY <2>1 DEF IInv, HistoryAt, SingleAt
  <2> QED BY <2>2, <2>3 DEF IInv
<1> QED BY <1>1, <1>2, <1>3, <1>4, <1>5, <1>6, <1>7 DEF Next

\* The invariant holds throughout.
LEMMA InvHolds == Spec => []IInv
BY InitInv, NextInv, PTL DEF Spec

-----------------------------------------------------------------------------
(* Aggregate on shards that split an aggregation.                          *)

\* Max of a singleton.
LEMMA MaxOne ==
  ASSUME NEW k \in Int
  PROVE  Max({k}) = k
<1>1. Max({k}) \in {k}
  BY FiniteMax, FS_Singleton
<1> QED BY <1>1

\* The entry of a map that one shard at most has.
LEMMA EntryIs ==
  ASSUME NEW n \in Nat, NEW f, NEW absent, DOMAIN f = 0 .. n - 1, NEW j \in 0 .. n - 1,
         \A k \in 0 .. n - 1 : k # j => f[k] = absent
  PROVE  Entry(f, absent) = f[j]
<1> DEFINE has == {k \in DOMAIN f : f[k] # absent}
<1>1. CASE f[j] = absent
  <2>1. has = {}
    BY <1>1
  <2> QED BY <1>1, <2>1 DEF Entry
<1>2. CASE f[j] # absent
  <2>1. has = {j}
    BY <1>2
  <2>2. Max({j}) = j
    BY MaxOne
  <2>3. Entry(f, absent) = IF has = {} THEN absent ELSE f[Max(has)]
    BY DEF Entry
  <2> HIDE DEF has
  <2> QED BY <2>1, <2>2, <2>3
<1> QED BY <1>1, <1>2

\* A subscriber's record, from one aggregation.
Record(a, s) == [activated |-> a.activated[s], established |-> a.established[s],
                 retransmits |-> a.auth[s] + a.acct[s]]
Known(a) == {s \in Subs : Knows(a, s)}
Records(a) == [s \in Known(a) |-> Record(a, s)]

\* merged gives the records of the one aggregation.
LEMMA MergedIs ==
  ASSUME NEW n \in Nat \ {0}, NEW A, NEW a, Splits(A, a, n)
  PROVE  merged(A) = Records(a)
<1>1. DOMAIN A = 0 .. n - 1 /\ n \in Nat /\ Homes(A, a, n)
  BY DEF Splits
<1>2. ASSUME NEW s \in Subs PROVE subAgg(A, s) = Record(a, s)
  <2> DEFINE j == s % n
             f1 == [k \in DOMAIN A |-> A[k].activated[s]]
             f2 == [k \in DOMAIN A |-> A[k].established[s]]
             f3 == [k \in DOMAIN A |-> A[k].auth[s]]
             f4 == [k \in DOMAIN A |-> A[k].acct[s]]
  <2>1. j \in 0 .. n - 1
    BY Home
  <2>2. Agrees(A[j], a, s) /\ \A k \in 0 .. n - 1 : k # j => Lacks(A[k], s)
    BY <1>1 DEF Homes
  <2> HIDE DEF j
  <2>3. /\ \A k \in 0 .. n - 1 : k # j => f1[k] = NA /\ f2[k] = NA /\ f3[k] = 0 /\ f4[k] = 0
        /\ f1[j] = a.activated[s] /\ f2[j] = a.established[s] /\ f3[j] = a.auth[s] /\ f4[j] = a.acct[s]
    BY <1>1, <2>1, <2>2 DEF Agrees, Lacks
  <2>4. DOMAIN f1 = 0 .. n - 1 /\ DOMAIN f2 = 0 .. n - 1 /\ DOMAIN f3 = 0 .. n - 1 /\ DOMAIN f4 = 0 .. n - 1
    BY <1>1
  <2>5. subAgg(A, s) = [activated |-> Entry(f1, NA), established |-> Entry(f2, NA),
                        retransmits |-> Entry(f3, 0) + Entry(f4, 0)]
    BY DEF subAgg
  <2> HIDE DEF f1, f2, f3, f4
  <2>6. /\ Entry(f1, NA) = a.activated[s] /\ Entry(f2, NA) = a.established[s]
        /\ Entry(f3, 0) = a.auth[s] /\ Entry(f4, 0) = a.acct[s]
    BY <1>1, <2>1, <2>3, <2>4, EntryIs
  <2> QED BY <2>5, <2>6 DEF Record
<1>3. ASSUME NEW s \in Subs PROVE (\E k \in DOMAIN A : Knows(A[k], s)) <=> Knows(a, s)
  <2>1. s % n \in 0 .. n - 1
    BY Home
  <2>2. Agrees(A[s % n], a, s) /\ \A k \in 0 .. n - 1 : k # s % n => Lacks(A[k], s)
    BY <1>1 DEF Homes
  <2>3. Knows(A[s % n], s) <=> Knows(a, s)
    BY <2>2 DEF Agrees, Knows
  <2>4. \A k \in 0 .. n - 1 : k # s % n => ~Knows(A[k], s)
    <3>1. ASSUME NEW k, Lacks(A[k], s) PROVE ~Knows(A[k], s)
      BY <3>1 DEF Lacks, Knows
    <3> QED BY <2>2, <3>1
  <2> QED BY <1>1, <2>1, <2>3, <2>4
<1>4. merged(A) = [s \in {t \in Subs : \E k \in DOMAIN A : Knows(A[k], t)} |-> subAgg(A, s)]
  BY DEF merged, Knows
<1>5. {t \in Subs : \E k \in DOMAIN A : Knows(A[k], t)} = Known(a)
  BY <1>3 DEF Known
<1>6. Known(a) \subseteq Subs
  BY DEF Known
<1> QED BY <1>2, <1>4, <1>5, <1>6 DEF Records

\* Sets of subscribers are finite.
LEMMA SubsFinite == IsFiniteSet(Subs) /\ \A T \in SUBSET Subs : IsFiniteSet(T) /\ Cardinality(T) \in Nat
<1>1. IsFiniteSet(Subs)
  BY AggregateAssumption, CardInterval DEF Subs
<1> QED BY <1>1, FS_Subset, FS_CardinalityType

\* terminalCounts counts every subscriber once.
LEMMA TerminalCountsIs ==
  ASSUME NEW n \in Nat \ {0}, NEW A, NEW a, Splits(A, a, n), NEW final \in Finals
  PROVE  terminalCounts(A, final) = Cardinality({s \in Subs : a.terminal[s] = final})
<1> DEFINE S == {s \in Subs : a.terminal[s] = final}
           T == {p \in (DOMAIN A) \X Subs : A[p[1]].terminal[p[2]] = final}
           f == [s \in S |-> <<s % n, s>>]
<1>1. DOMAIN A = 0 .. n - 1 /\ Homes(A, a, n) /\ final # "none"
  BY DEF Splits, Finals
<1>2. ASSUME NEW s \in Subs, NEW k \in 0 .. n - 1
      PROVE  A[k].terminal[s] = final <=> k = s % n /\ a.terminal[s] = final
  <2>1. /\ s % n \in 0 .. n - 1 /\ A[s % n].terminal[s] = a.terminal[s]
        /\ k # s % n => A[k].terminal[s] = "none"
    BY <1>1, Home DEF Homes, Agrees, Lacks
  <2> QED BY <1>1, <2>1
<1>3. \A s \in S : f[s] \in T
  <2> SUFFICES ASSUME NEW s \in S PROVE <<s % n, s>> \in T
    OBVIOUS
  <2>1. s \in Subs /\ s % n \in 0 .. n - 1 /\ A[s % n].terminal[s] = final
    BY <1>2, Home
  <2> QED BY <1>1, <2>1
<1>4. \A p \in T : p[2] \in S /\ f[p[2]] = p
  <2> SUFFICES ASSUME NEW p \in T PROVE p[2] \in S /\ <<p[2] % n, p[2]>> = p
    OBVIOUS
  <2>1. PICK k \in 0 .. n - 1, s \in Subs : p = <<k, s>>
    BY <1>1
  <2>2. A[k].terminal[s] = final
    BY <2>1
  <2>3. k = s % n /\ a.terminal[s] = final
    BY <1>2, <2>2
  <2> QED BY <2>1, <2>3
<1>5. \A s \in S, r \in S : f[s] = f[r] => s = r
  OBVIOUS
<1>6. f \in Bijection(S, T)
  <2>1. f \in [S -> T]
    BY <1>3
  <2>2. \A p \in T : \E s \in S : f[s] = p
    BY <1>4
  <2> HIDE DEF f, S, T
  <2> QED BY <1>5, <2>1, <2>2 DEF Bijection, Injection, Surjection, IsInjective
<1>7. IsFiniteSet(S)
  BY SubsFinite
<1> HIDE DEF f, S, T
<1>8. Cardinality(T) = Cardinality(S)
  BY <1>6, <1>7, FS_Bijection DEF ExistsBijection
<1> QED BY <1>8 DEF terminalCounts, S, T

\* The i-th of the sorted samples is at most v iff at least i samples are.
LEMMA SortedRank ==
  ASSUME NEW n \in Nat, NEW s \in [1 .. n -> Int], NEW v \in Int, NEW i \in 1 .. n
  PROVE  /\ Cardinality({j \in 1 .. n : s[j] <= v}) \in 0 .. n
         /\ Sorted(s)[i] <= v <=> i <= Cardinality({j \in 1 .. n : s[j] <= v})
<1>1. PICK p \in Bijection(1 .. n, 1 .. n) :
           Ascends(s, p, n) /\ Sorted(s) = [k \in 1 .. n |-> s[p[k]]]
  BY SortedIs
<1> DEFINE u == Sorted(s)
           T == {j \in 1 .. n : s[j] <= v}
           U == {k \in 1 .. n : u[k] <= v}
           f == [k \in U |-> p[k]]
<1>2. /\ u \in [1 .. n -> Int] /\ \A k, l \in 1 .. n : k <= l => u[k] <= u[l]
      /\ \A k \in 1 .. n : u[k] = s[p[k]]
  BY <1>1, SortedAscends
<1>3. /\ p \in [1 .. n -> 1 .. n] /\ \A k, l \in 1 .. n : p[k] = p[l] => k = l
      /\ \A j \in 1 .. n : \E k \in 1 .. n : p[k] = j
  BY <1>1 DEF Bijection, Injection, Surjection, IsInjective
<1> HIDE DEF u
<1>4. f \in Bijection(U, T)
  <2>1. f \in [U -> T]
    BY <1>2, <1>3
  <2>2. \A k, l \in U : f[k] = f[l] => k = l
    BY <1>3
  <2>3. \A j \in T : \E k \in U : f[k] = j
    <3> SUFFICES ASSUME NEW j \in T PROVE \E k \in U : f[k] = j
      OBVIOUS
    <3>1. PICK k \in 1 .. n : p[k] = j
      BY <1>3
    <3>2. k \in U
      BY <1>2, <3>1
    <3> QED BY <3>1, <3>2
  <2> HIDE DEF f, U, T
  <2> QED BY <2>1, <2>2, <2>3 DEF Bijection, Injection, Surjection, IsInjective
<1>5. IsFiniteSet(1 .. n) /\ Cardinality(1 .. n) = n
  <2>1. IsFiniteSet(1 .. n) /\ Cardinality(1 .. n) = IF 1 > n THEN 0 ELSE n - 1 + 1
    BY FS_Interval
  <2> QED BY <2>1
<1>6. IsFiniteSet(U) /\ Cardinality(U) <= n /\ Cardinality(U) \in Nat
  <2>1. U \in SUBSET (1 .. n)
    OBVIOUS
  <2> HIDE DEF U
  <2>2. IsFiniteSet(U) /\ Cardinality(U) <= Cardinality(1 .. n)
    BY <1>5, <2>1, FS_Subset
  <2> QED BY <1>5, <2>2, FS_CardinalityType
<1>7. Cardinality(T) = Cardinality(U)
  <2> HIDE DEF f, U, T
  <2> QED BY <1>4, <1>6, FS_Bijection DEF ExistsBijection
<1>8. ASSUME u[i] <= v PROVE i <= Cardinality(U)
  <2>1. 1 .. i \in SUBSET U
    BY <1>2, <1>8
  <2>2. Cardinality(1 .. i) = i
    <3>1. Cardinality(1 .. i) = IF 1 > i THEN 0 ELSE i - 1 + 1
      BY FS_Interval
    <3> QED BY <3>1
  <2> HIDE DEF U
  <2>3. Cardinality(1 .. i) <= Cardinality(U)
    BY <1>6, <2>1, FS_Subset
  <2> QED BY <2>2, <2>3
<1>9. ASSUME ~(u[i] <= v) PROVE Cardinality(U) <= i - 1
  <2>1. U \in SUBSET (1 .. i - 1)
    BY <1>2, <1>9
  <2>2. IsFiniteSet(1 .. i - 1) /\ Cardinality(1 .. i - 1) = i - 1
    <3>1. i - 1 \in Int
      OBVIOUS
    <3>2. IsFiniteSet(1 .. i - 1) /\ Cardinality(1 .. i - 1) = IF 1 > i - 1 THEN 0 ELSE i - 1 - 1 + 1
      BY <3>1, FS_Interval
    <3> QED BY <3>2
  <2> HIDE DEF U
  <2>3. Cardinality(U) <= Cardinality(1 .. i - 1)
    BY <2>1, <2>2, FS_Subset
  <2> QED BY <2>2, <2>3
<1>10. u[i] <= v <=> i <= Cardinality(U)
  <2> HIDE DEF U
  <2> QED BY <1>6, <1>8, <1>9
<1>11. Cardinality(T) \in 0 .. n /\ (u[i] <= v <=> i <= Cardinality(T))
  <2> HIDE DEF U, T
  <2> QED BY <1>6, <1>7, <1>10
<1> QED BY <1>11 DEF u

\* A sorted slice is told by how many samples are at most v, for every v.
LEMMA SortedSame ==
  ASSUME NEW s \in Seq(Nat), NEW t \in Seq(Nat), Len(s) = Len(t),
         \A v \in Int : HowMany(s, v) = HowMany(t, v)
  PROVE  Sorted(s) = Sorted(t)
<1>1. PICK n \in Nat : n = Len(s)
  OBVIOUS
<1>2. s \in [1 .. n -> Int] /\ t \in [1 .. n -> Int] /\ DOMAIN s = 1 .. n /\ DOMAIN t = 1 .. n
  BY <1>1
<1>3. Sorted(s) \in [1 .. n -> Int] /\ Sorted(t) \in [1 .. n -> Int]
  BY <1>2, SortedAscends
<1>4. ASSUME NEW i \in 1 .. n, NEW v \in Int PROVE Sorted(s)[i] <= v <=> Sorted(t)[i] <= v
  <2>1. /\ Sorted(s)[i] <= v <=> i <= Cardinality({j \in 1 .. n : s[j] <= v})
        /\ Sorted(t)[i] <= v <=> i <= Cardinality({j \in 1 .. n : t[j] <= v})
    BY <1>2, SortedRank
  <2>2. Cardinality({j \in 1 .. n : s[j] <= v}) = Cardinality({j \in 1 .. n : t[j] <= v})
    BY <1>2 DEF HowMany
  <2> QED BY <2>1, <2>2
<1>5. ASSUME NEW i \in 1 .. n PROVE Sorted(s)[i] = Sorted(t)[i]
  <2>1. Sorted(s)[i] \in Int /\ Sorted(t)[i] \in Int
    BY <1>3
  <2>2. Sorted(s)[i] <= Sorted(t)[i] /\ Sorted(t)[i] <= Sorted(s)[i]
    BY <1>4, <2>1
  <2> QED BY <2>1, <2>2
<1> QED BY <1>3, <1>5

\* HowMany of two slices joined.
LEMMA HowManyConcat ==
  ASSUME NEW s \in Seq(Nat), NEW t \in Seq(Nat), NEW v \in Int
  PROVE  HowMany(s \o t, v) = HowMany(s, v) + HowMany(t, v)
<1> DEFINE w == s \o t
           S == {i \in DOMAIN s : s[i] <= v}
           T == {i \in DOMAIN t : t[i] <= v}
           W == {i \in DOMAIN w : w[i] <= v}
<1>1. PICK m \in Nat : m = Len(s)
  OBVIOUS
<1>2. PICK n \in Nat : n = Len(t)
  OBVIOUS
<1>3. /\ DOMAIN s = 1 .. m /\ DOMAIN t = 1 .. n /\ DOMAIN w = 1 .. m + n
      /\ \A i \in 1 .. m : w[i] = s[i]
      /\ \A i \in 1 .. n : w[i + m] = t[i]
  BY <1>1, <1>2
<1>4. s \in Seq(Int) /\ t \in Seq(Int)
  OBVIOUS
<1>5. IsFiniteSet(S) /\ IsFiniteSet(T)
  BY <1>4, HowManyType
<1> HIDE DEF w
<1> DEFINE V == {i \in (m + 1) .. (m + n) : w[i] <= v}
           f == [i \in T |-> i + m]
<1>6. f \in Bijection(T, V)
  <2>1. \A i \in T : i \in 1 .. n /\ f[i] = i + m /\ w[i + m] <= v
    BY <1>3
  <2>2. f \in [T -> V]
    BY <2>1
  <2>3. \A j \in V : \E i \in T : f[i] = j
    <3> SUFFICES ASSUME NEW j \in V PROVE \E i \in T : f[i] = j
      OBVIOUS
    <3>1. PICK i \in 1 .. n : i + m = j
      <4>1. j - m \in 1 .. n /\ j - m + m = j
        OBVIOUS
      <4> QED BY <4>1
    <3>2. i \in T
      BY <1>3, <3>1
    <3> QED BY <3>1, <3>2
  <2>4. \A i, j \in T : f[i] = f[j] => i = j
    BY <2>1
  <2> HIDE DEF f, T, V
  <2> QED BY <2>2, <2>3, <2>4 DEF Bijection, Injection, Surjection, IsInjective
<1>7. IsFiniteSet(V) /\ Cardinality(V) = Cardinality(T)
  <2> HIDE DEF f, T, V
  <2> QED BY <1>5, <1>6, FS_Bijection DEF ExistsBijection
<1>8. W = S \cup V /\ S \cap V = {}
  BY <1>3
<1> HIDE DEF S, T, V, W, f
<1>9. Cardinality(W) = Cardinality(S) + Cardinality(V) - Cardinality(S \cap V)
  BY <1>5, <1>7, <1>8, FS_Union
<1>10. Cardinality(S \cap V) = 0 /\ Cardinality(S) \in Nat /\ Cardinality(V) \in Nat
  BY <1>5, <1>7, <1>8, FS_EmptySet, FS_CardinalityType
<1>11. Cardinality(W) = Cardinality(S) + Cardinality(T)
  BY <1>7, <1>9, <1>10
<1> QED BY <1>11 DEF HowMany, S, T, W, w

Chain(g, L, n) == g = [i \in 1 .. n |-> IF i = 1 THEN L[i] ELSE g[i - 1] \o L[i]]

\* The recursion in FlattenSeq has a solution.
LEMMA FlattenIs ==
  ASSUME NEW n \in Nat \ {0}, NEW L \in [1 .. n -> Seq(Nat)]
  PROVE  \E g : FlattenSeq(L) = g[n] /\ Chain(g, L, n)
<1> DEFINE S == {m \in Nat : \E g : Chain(g, L, m)}
<1>1. 0 \in S
  <2>1. Chain([i \in 1 .. 0 |-> 0], L, 0)
    BY DEF Chain
  <2> QED BY <2>1
<1>2. ASSUME NEW m \in Nat, m \in S PROVE m + 1 \in S
  <2>1. PICK g : Chain(g, L, m)
    BY <1>2
  <2> DEFINE h == [i \in 1 .. m + 1 |-> IF i = 1 THEN L[1] ELSE IF i = m + 1 THEN g[m] \o L[m + 1] ELSE g[i]]
  <2>2. ASSUME NEW i \in 1 .. m + 1
        PROVE  h[i] = IF i = 1 THEN L[i] ELSE h[i - 1] \o L[i]
    <3>0. \A k \in 1 .. m : g[k] = IF k = 1 THEN L[k] ELSE g[k - 1] \o L[k]
      BY <2>1 DEF Chain
    <3>1. CASE i = 1
      BY <3>1
    <3>2. CASE i # 1 /\ i = m + 1
      <4>1. m \in 1 .. m /\ m # m + 1 /\ m \in 1 .. m + 1 /\ i - 1 = m
        BY <3>2
      <4>2. h[m] = g[m]
        BY <3>0, <4>1
      <4>3. h[i] = g[m] \o L[m + 1]
        BY <3>2
      <4> HIDE DEF h
      <4> QED BY <3>2, <4>1, <4>2, <4>3
    <3>3. CASE i # 1 /\ i # m + 1
      <4>1. i \in 1 .. m /\ i - 1 \in 1 .. m /\ i - 1 # m + 1
        BY <3>3
      <4>2. h[i] = g[i] /\ h[i - 1] = g[i - 1]
        BY <3>0, <3>3, <4>1
      <4> HIDE DEF h
      <4> QED BY <3>0, <3>3, <4>1, <4>2
    <3> QED BY <3>1, <3>2, <3>3
  <2>3. Chain(h, L, m + 1)
    <3> DEFINE k == [i \in 1 .. m + 1 |-> IF i = 1 THEN L[i] ELSE h[i - 1] \o L[i]]
    <3>1. DOMAIN h = 1 .. m + 1 /\ h = [i \in 1 .. m + 1 |-> h[i]]
      OBVIOUS
    <3> HIDE DEF h
    <3> QED BY <2>2, <3>1 DEF Chain
  <2> HIDE DEF h
  <2> QED BY <2>3
<1>3. \E g : Chain(g, L, n)
  <2> HIDE DEF S
  <2>1. n \in S
    BY <1>1, <1>2, Induction
  <2> QED BY <2>1 DEF S
<1>4. Len(L) = n /\ Len(L) # 0
  OBVIOUS
<1>5. FlattenSeq(L) = (CHOOSE g : Chain(g, L, n))[n]
  BY <1>4 DEF FlattenSeq, Chain
<1> QED BY <1>3, <1>5

\* Length and counts of the shards' slices joined.
LEMMA FlattenCounts ==
  ASSUME NEW n \in Nat \ {0}, NEW L \in [1 .. n -> Seq(Nat)]
  PROVE  /\ FlattenSeq(L) \in Seq(Nat)
         /\ Len(FlattenSeq(L)) = Total([k \in 0 .. n - 1 |-> Len(L[k + 1])])
         /\ \A v \in Int : HowMany(FlattenSeq(L), v) = Total([k \in 0 .. n - 1 |-> HowMany(L[k + 1], v)])
<1>1. PICK g : FlattenSeq(L) = g[n] /\ Chain(g, L, n)
  BY FlattenIs
<1>2. g[1] = L[1] /\ \A i \in 1 .. n - 1 : g[i + 1] = g[i] \o L[i + 1]
  <2>1. \A i \in 1 .. n : g[i] = IF i = 1 THEN L[i] ELSE g[i - 1] \o L[i]
    BY <1>1 DEF Chain
  <2>2. 1 \in 1 .. n
    OBVIOUS
  <2>3. ASSUME NEW i \in 1 .. n - 1 PROVE g[i + 1] = g[i] \o L[i + 1]
    <3>1. PICK k \in 1 .. n : k = i + 1 /\ k # 1 /\ k - 1 = i
      OBVIOUS
    <3>2. g[k] = g[k - 1] \o L[k]
      BY <2>1, <3>1, Zenon
    <3> QED BY <3>1, <3>2, Zenon
  <2> QED BY <2>1, <2>2, <2>3
<1>3. \A i \in 1 .. n : L[i] \in Seq(Nat) /\ L[i] \in Seq(Int) /\ Len(L[i]) \in Nat
  OBVIOUS
<1>4. ASSUME NEW f \in [0 .. n - 1 -> Nat]
      PROVE  Sums(f, n)[1] = f[0] /\ \A i \in 1 .. n - 1 : Sums(f, n)[i + 1] = Sums(f, n)[i] + f[i]
  <2>1. Sums(f, n)[0] = 0 /\ \A k \in 0 .. n - 1 : Sums(f, n)[k + 1] = Sums(f, n)[k] + f[k]
    BY SumsAt
  <2>2. Sums(f, n)[0 + 1] = Sums(f, n)[0] + f[0] /\ f[0] \in Nat
    BY <2>1
  <2> QED BY <2>1, <2>2
<1> DEFINE lens == [k \in 0 .. n - 1 |-> Len(L[k + 1])]
           hm(v) == [k \in 0 .. n - 1 |-> HowMany(L[k + 1], v)]
           Good(i) == /\ g[i] \in Seq(Nat) /\ Len(g[i]) = Sums(lens, n)[i]
                      /\ \A v \in Int : HowMany(g[i], v) = Sums(hm(v), n)[i]
           S == {m \in Nat : m + 1 \in 1 .. n => Good(m + 1)}
<1>5. lens \in [0 .. n - 1 -> Nat] /\ \A k \in 0 .. n - 1 : lens[k] = Len(L[k + 1])
  BY <1>3
<1>6. ASSUME NEW v \in Int
      PROVE  hm(v) \in [0 .. n - 1 -> Nat] /\ \A k \in 0 .. n - 1 : hm(v)[k] = HowMany(L[k + 1], v)
  <2>1. \A k \in 0 .. n - 1 : k + 1 \in 1 .. n
    OBVIOUS
  <2>2. \A k \in 0 .. n - 1 : HowMany(L[k + 1], v) \in Nat
    BY <1>3, <2>1, HowManyType
  <2> QED BY <2>2
<1> HIDE DEF lens, hm
<1>7. 0 \in S
  <2>1. 0 \in 0 .. n - 1 /\ 1 \in 1 .. n /\ 0 + 1 = 1
    OBVIOUS
  <2>2. Len(g[1]) = Sums(lens, n)[1] /\ g[1] \in Seq(Nat)
    BY <1>2, <1>3, <1>4, <1>5, <2>1
  <2>3. ASSUME NEW v \in Int PROVE HowMany(g[1], v) = Sums(hm(v), n)[1]
    BY <1>2, <1>4, <1>6, <2>1
  <2> QED BY <2>1, <2>2, <2>3
<1>8. ASSUME NEW m \in Nat, m \in S PROVE m + 1 \in S
  <2> SUFFICES ASSUME m + 1 + 1 \in 1 .. n PROVE Good(m + 1 + 1)
    OBVIOUS
  <2>1. PICK i \in 1 .. n - 1 : i = m + 1
    OBVIOUS
  <2>2. Good(i)
    BY <1>8, <2>1
  <2>3. g[i + 1] = g[i] \o L[i + 1] /\ L[i + 1] \in Seq(Nat) /\ i \in 0 .. n - 1
    <3>1. i + 1 \in 1 .. n /\ i \in 0 .. n - 1
      OBVIOUS
    <3>2. g[i + 1] = g[i] \o L[i + 1]
      BY <1>2, Zenon
    <3>3. L[i + 1] \in Seq(Nat)
      BY <1>3, <3>1, Zenon
    <3> QED BY <3>1, <3>2, <3>3, Zenon
  <2>4. g[i] \in Seq(Nat) /\ Len(g[i]) = Sums(lens, n)[i]
        /\ \A v \in Int : HowMany(g[i], v) = Sums(hm(v), n)[i]
    BY <2>2
  <2> HIDE DEF Good
  <2>5. g[i + 1] \in Seq(Nat) /\ Len(g[i + 1]) = Len(g[i]) + Len(L[i + 1])
    <3>1. PICK x \in Seq(Nat) : x = g[i]
      BY <2>4
    <3>2. PICK y \in Seq(Nat) : y = L[i + 1]
      BY <2>3, Zenon
    <3>3. x \o y \in Seq(Nat) /\ Len(x \o y) = Len(x) + Len(y)
      OBVIOUS
    <3> QED BY <2>3, <3>1, <3>2, <3>3, Zenon
  <2>6. Len(g[i + 1]) = Sums(lens, n)[i + 1]
    BY <1>4, <1>5, <2>3, <2>4, <2>5
  <2>7. ASSUME NEW v \in Int PROVE HowMany(g[i + 1], v) = Sums(hm(v), n)[i + 1]
    <3>1. HowMany(g[i] \o L[i + 1], v) = HowMany(g[i], v) + HowMany(L[i + 1], v)
      BY <2>3, <2>4, HowManyConcat
    <3> QED BY <1>4, <1>6, <2>3, <2>4, <3>1
  <2>8. Good(i + 1)
    BY <2>5, <2>6, <2>7 DEF Good
  <2> QED BY <2>1, <2>8
<1>9. \A m \in Nat : m \in S
  <2> HIDE DEF S
  <2> QED BY <1>7, <1>8, Induction
<1>10. Good(n)
  <2>1. n - 1 \in Nat /\ n - 1 + 1 = n /\ n \in 1 .. n
    OBVIOUS
  <2>2. n - 1 \in S
    BY <1>9, <2>1
  <2> QED BY <2>1, <2>2
<1>11. Total(lens) = Sums(lens, n)[n]
  BY <1>5, TotalIs
<1>12. \A v \in Int : Total(hm(v)) = Sums(hm(v), n)[n]
  BY <1>6, TotalIs
<1> QED BY <1>1, <1>10, <1>11, <1>12 DEF lens, hm

-----------------------------------------------------------------------------
(* The summary.                                                            *)

ByFinal(A)   == [f \in Finals |-> terminalCounts(A, f)]
Responses(A) == FlattenSeq([i \in 1 .. Cardinality(DOMAIN A) |-> A[i - 1].latencies])
Response(A)  == computeDistribution(Responses(A))

\* The shards' response times, sorted, are those of the one aggregation.
LEMMA ResponsesAre ==
  ASSUME NEW n \in Nat \ {0}, NEW A, NEW a, Splits(A, a, n)
  PROVE  Sorted(Responses(A)) = Sorted(a.latencies)
<1> DEFINE L == [i \in 1 .. n |-> A[i - 1].latencies]
<1>1. a \in Aggregation /\ A \in [0 .. n - 1 -> Aggregation] /\ Sampled(A, a, n)
  BY DEF Splits
<1>2. Cardinality(DOMAIN A) = n
  BY <1>1, CardInterval
<1>3. \A k \in 0 .. n - 1 : A[k].latencies \in Seq(Nat)
  <2> SUFFICES ASSUME NEW k \in 0 .. n - 1 PROVE A[k].latencies \in Seq(Nat)
    OBVIOUS
  <2>1. PICK b \in Aggregation : b = A[k]
    BY <1>1
  <2>2. b.latencies \in Seq(Nat)
    BY DEF Aggregation
  <2> QED BY <2>1, <2>2
<1>4. L \in [1 .. n -> Seq(Nat)] /\ \A k \in 0 .. n - 1 : L[k + 1] = A[k].latencies
  <2>1. \A i \in 1 .. n : i - 1 \in 0 .. n - 1
    OBVIOUS
  <2>2. \A k \in 0 .. n - 1 : k + 1 \in 1 .. n /\ k + 1 - 1 = k
    OBVIOUS
  <2> QED BY <1>3, <2>1, <2>2
<1>5. Responses(A) = FlattenSeq(L)
  BY <1>2 DEF Responses
<1> HIDE DEF L
<1> DEFINE F == FlattenSeq(L)
<1>6. /\ F \in Seq(Nat) /\ Len(F) = Total([k \in 0 .. n - 1 |-> Len(L[k + 1])])
      /\ \A v \in Int : HowMany(F, v) = Total([k \in 0 .. n - 1 |-> HowMany(L[k + 1], v)])
  BY <1>4, FlattenCounts
<1> HIDE DEF F
<1>7. [k \in 0 .. n - 1 |-> Len(L[k + 1])] = [k \in 0 .. n - 1 |-> Len(A[k].latencies)]
  BY <1>4
<1>8. ASSUME NEW v \in Int
      PROVE  [k \in 0 .. n - 1 |-> HowMany(L[k + 1], v)] = [k \in 0 .. n - 1 |-> HowMany(A[k].latencies, v)]
  BY <1>4
<1>9. Len(F) = Len(a.latencies) /\ \A v \in Int : HowMany(F, v) = HowMany(a.latencies, v)
  BY <1>1, <1>6, <1>7, <1>8 DEF Sampled
<1>10. a.latencies \in Seq(Nat)
  BY <1>1 DEF Aggregation
<1>11. Sorted(F) = Sorted(a.latencies)
  BY <1>6, <1>9, <1>10, SortedSame
<1> QED BY <1>5, <1>11 DEF F

\* What Aggregate reads of the shards determines the summary.
LEMMA SummarySame ==
  ASSUME NEW A, NEW B, merged(A) = merged(B), ByFinal(A) = ByFinal(B),
         Total([k \in DOMAIN A |-> A[k].counts.retransmitted]) = Total([k \in DOMAIN B |-> B[k].counts.retransmitted]),
         Total([k \in DOMAIN A |-> A[k].counts.received]) = Total([k \in DOMAIN B |-> B[k].counts.received]),
         Total([k \in DOMAIN A |-> A[k].counts.answered]) = Total([k \in DOMAIN B |-> B[k].counts.answered]),
         Response(A) = Response(B)
  PROVE  Summary(A) = Summary(B)
BY Zenon DEF Summary, ByFinal, Response, Responses

\* A single shard splits its aggregation.
LEMMA OneSplits ==
  ASSUME NEW a \in Aggregation
  PROVE  Splits([k \in {0} |-> a], a, 1)
<1> DEFINE A == [k \in {0} |-> a]
<1>1. 0 .. 1 - 1 = {0} /\ 0 .. 0 = {0} /\ 1 \in Nat \ {0}
  OBVIOUS
<1>2. A \in [0 .. 1 - 1 -> Aggregation] /\ A[0] = a /\ DOMAIN A = 0 .. 1 - 1
  BY <1>1
<1> HIDE DEF A
<1>3. \A s \in Subs : s % 1 = 0
  <2>1. \A s \in Subs : s % 1 \in 0 .. 1 - 1
    BY <1>1, Home
  <2> QED BY <1>1, <2>1
<1>4. Homes(A, a, 1)
  BY <1>1, <1>2, <1>3 DEF Homes, Agrees
<1>5. ASSUME NEW f \in [0 .. 1 - 1 -> Nat] PROVE Total(f) = f[0]
  <2>1. Total(f) = Sums(f, 1)[1]
    BY <1>1, TotalIs
  <2>2. Sums(f, 1)[0] = 0 /\ \A k \in 0 .. 1 - 1 : Sums(f, 1)[k + 1] = Sums(f, 1)[k] + f[k]
    BY SumsAt
  <2>3. Sums(f, 1)[0 + 1] = Sums(f, 1)[0] + f[0] /\ f[0] \in Nat
    BY <2>2
  <2> QED BY <2>1, <2>2, <2>3
<1>6. Counted(A, a, 1)
  <2>1. a.counts.retransmitted \in Nat /\ a.counts.received \in Nat /\ a.counts.answered \in Nat
    BY DEF Aggregation
  <2> DEFINE f == [k \in 0 .. 1 - 1 |-> A[k].counts.retransmitted]
             g == [k \in 0 .. 1 - 1 |-> A[k].counts.received]
             h == [k \in 0 .. 1 - 1 |-> A[k].counts.answered]
  <2>2. /\ f \in [0 .. 1 - 1 -> Nat] /\ g \in [0 .. 1 - 1 -> Nat] /\ h \in [0 .. 1 - 1 -> Nat]
        /\ f[0] = a.counts.retransmitted /\ g[0] = a.counts.received /\ h[0] = a.counts.answered
    BY <1>1, <1>2, <2>1
  <2> HIDE DEF f, g, h
  <2>3. Total(f) = f[0] /\ Total(g) = g[0] /\ Total(h) = h[0]
    BY <1>5, <2>2
  <2> QED BY <2>2, <2>3 DEF Counted, f, g, h
<1>7. Sampled(A, a, 1)
  <2>1. a.latencies \in Seq(Nat) /\ a.latencies \in Seq(Int) /\ Len(a.latencies) \in Nat
    BY DEF Aggregation
  <2>2. Total([k \in 0 .. 1 - 1 |-> Len(A[k].latencies)]) = Len(a.latencies)
    <3> DEFINE f == [k \in 0 .. 1 - 1 |-> Len(A[k].latencies)]
    <3>1. f \in [0 .. 1 - 1 -> Nat] /\ f[0] = Len(a.latencies)
      BY <1>1, <1>2, <2>1
    <3> HIDE DEF f
    <3>2. Total(f) = f[0]
      BY <1>5, <3>1
    <3> QED BY <3>1, <3>2 DEF f
  <2>3. ASSUME NEW v \in Int
        PROVE  Total([k \in 0 .. 1 - 1 |-> HowMany(A[k].latencies, v)]) = HowMany(a.latencies, v)
    <3> DEFINE f == [k \in 0 .. 1 - 1 |-> HowMany(A[k].latencies, v)]
    <3>0. HowMany(a.latencies, v) \in Nat
      BY <2>1, HowManyType
    <3>1. f \in [0 .. 1 - 1 -> Nat] /\ f[0] = HowMany(a.latencies, v)
      BY <1>1, <1>2, <3>0
    <3> HIDE DEF f
    <3>2. Total(f) = f[0]
      BY <1>5, <3>1
    <3> QED BY <3>1, <3>2 DEF f
  <2> QED BY <2>2, <2>3 DEF Sampled
<1> QED BY <1>2, <1>4, <1>6, <1>7 DEF Splits, A

\* Two ways to split one aggregation give the same summary.
LEMMA SplitsSame ==
  ASSUME NEW m \in Nat \ {0}, NEW n \in Nat \ {0}, NEW A, NEW B, NEW a,
         Splits(A, a, m), Splits(B, a, n)
  PROVE  Summary(A) = Summary(B)
<1>1. merged(A) = merged(B)
  BY MergedIs
<1>2. \A f \in Finals : terminalCounts(A, f) = terminalCounts(B, f)
  <2> SUFFICES ASSUME NEW f \in Finals PROVE terminalCounts(A, f) = terminalCounts(B, f)
    OBVIOUS
  <2>1. /\ terminalCounts(A, f) = Cardinality({s \in Subs : a.terminal[s] = f})
        /\ terminalCounts(B, f) = Cardinality({s \in Subs : a.terminal[s] = f})
    BY TerminalCountsIs
  <2> QED BY <2>1
<1>3. ByFinal(A) = ByFinal(B)
  BY <1>2 DEF ByFinal
<1>4. DOMAIN A = 0 .. m - 1 /\ DOMAIN B = 0 .. n - 1 /\ Counted(A, a, m) /\ Counted(B, a, n)
  BY DEF Splits
<1>5. Sorted(Responses(A)) = Sorted(Responses(B))
  BY ResponsesAre
<1>6. Response(A) = Response(B)
  <2>1. ASSUME NEW s, NEW t, Sorted(s) = Sorted(t) PROVE computeDistribution(s) = computeDistribution(t)
    BY <2>1 DEF computeDistribution
  <2> QED BY <1>5, <2>1, Zenon DEF Response
<1>7. /\ Total([k \in DOMAIN A |-> A[k].counts.retransmitted]) = Total([k \in DOMAIN B |-> B[k].counts.retransmitted])
      /\ Total([k \in DOMAIN A |-> A[k].counts.received]) = Total([k \in DOMAIN B |-> B[k].counts.received])
      /\ Total([k \in DOMAIN A |-> A[k].counts.answered]) = Total([k \in DOMAIN B |-> B[k].counts.answered])
  BY <1>4, Zenon DEF Counted
<1> QED BY <1>1, <1>3, <1>6, <1>7, SummarySame

\* pkg/collector/aggregate.go: the summary is the one that a single shard
\* would have given, for every number of subscribers and shards, wherever the
\* run is cut and whatever the channels dropped.
THEOREM ShardsAreInvisible == Spec => []ShardingInvisible
<1>1. IInv => ShardingInvisible
  <2> SUFFICES ASSUME IInv PROVE ShardingInvisible
    OBVIOUS
  <2>1. single \in Aggregation /\ Splits(aggs, single, ShardCount) /\ ShardCount \in Nat \ {0} /\ 1 \in Nat \ {0}
    BY AggregateAssumption DEF IInv, ATypeOK
  <2>2. Splits([k \in {0} |-> single], single, 1)
    BY <2>1, OneSplits
  <2>3. Summary(aggs) = Summary([k \in {0} |-> single])
    BY <2>1, <2>2, SplitsSame
  <2> QED BY <2>3 DEF ShardingInvisible
<1> QED BY InvHolds, <1>1, PTL

ReachedIn(a, final) == {s \in Subs : a.terminal[s] = final}
Timed(a) == {s \in Known(a) : a.activated[s] >= 0 /\ a.established[s] >= 0}
Latencies(a) == [s \in Timed(a) |-> a.established[s] - a.activated[s]]

\* The parts of the summary, from the one aggregation.
LEMMA SummaryIs ==
  ASSUME IInv
  PROVE  LET sum == Summary(aggs) IN
         /\ sum.total = Cardinality(Known(single))
         /\ sum.final = [f \in Finals |-> Cardinality(ReachedIn(single, f))]
         /\ sum.stillInFlight =
              IF sum.total - ByState(sum.final) < 0 THEN 0 ELSE sum.total - ByState(sum.final)
         /\ sum.retransmitted = single.counts.retransmitted
         /\ sum.withRetransmit = Cardinality({s \in Known(single) : single.auth[s] + single.acct[s] > 0})
         /\ sum.curve = buildEstablishmentCurve(Records(single))
         /\ sum.latency = computeDistribution(Values(Latencies(single)))
<1> DEFINE A == aggs
           a == single
           subs == merged(A)
           final == [f \in Finals |-> terminalCounts(A, f)]
           lat == {s \in DOMAIN subs : subs[s].activated >= 0 /\ subs[s].established >= 0}
<1>1. Splits(A, a, ShardCount) /\ ShardCount \in Nat \ {0}
  BY AggregateAssumption DEF IInv
<1>2. subs = Records(a)
  BY <1>1, MergedIs
<1>3. final = [f \in Finals |-> Cardinality(ReachedIn(a, f))]
  <2>1. \A f \in Finals : terminalCounts(A, f) = Cardinality(ReachedIn(a, f))
    BY <1>1, TerminalCountsIs DEF ReachedIn
  <2> QED BY <2>1
<1>4. Total([k \in DOMAIN A |-> A[k].counts.retransmitted]) = a.counts.retransmitted
  <2>1. DOMAIN A = 0 .. ShardCount - 1 /\ Counted(A, a, ShardCount)
    BY <1>1 DEF Splits
  <2> QED BY <2>1, Zenon DEF Counted
<1>5. /\ DOMAIN Records(a) = Known(a)
      /\ \A s \in Known(a) : /\ Records(a)[s].activated = a.activated[s]
                             /\ Records(a)[s].established = a.established[s]
                             /\ Records(a)[s].retransmits = a.auth[s] + a.acct[s]
  BY DEF Records, Record
<1>6. /\ Summary(A).total = Cardinality(DOMAIN subs)
      /\ Summary(A).final = final
      /\ Summary(A).stillInFlight =
           IF Cardinality(DOMAIN subs) - ByState(final) < 0 THEN 0 ELSE Cardinality(DOMAIN subs) - ByState(final)
      /\ Summary(A).retransmitted = Total([k \in DOMAIN A |-> A[k].counts.retransmitted])
      /\ Summary(A).withRetransmit = Cardinality({s \in DOMAIN subs : subs[s].retransmits > 0})
      /\ Summary(A).curve = buildEstablishmentCurve(subs)
      /\ Summary(A).latency = computeDistribution(Values([s \in lat |-> subs[s].established - subs[s].activated]))
  BY DEF Summary
<1> HIDE DEF subs, final, A, a
<1>7. lat = Timed(a)
  BY <1>2, <1>5 DEF Timed
<1> HIDE DEF lat
<1>8. \A s \in lat : s \in Known(a)
  BY <1>7 DEF Timed
<1>9. [s \in lat |-> subs[s].established - subs[s].activated] = Latencies(a)
  BY <1>2, <1>5, <1>7, <1>8 DEF Latencies
<1>10. {s \in DOMAIN subs : subs[s].retransmits > 0} = {s \in Known(a) : a.auth[s] + a.acct[s] > 0}
  BY <1>2, <1>5
<1>11. /\ Summary(A).total = Cardinality(Known(a))
       /\ Summary(A).final = [f \in Finals |-> Cardinality(ReachedIn(a, f))]
       /\ Summary(A).stillInFlight =
            IF Summary(A).total - ByState(Summary(A).final) < 0 THEN 0
            ELSE Summary(A).total - ByState(Summary(A).final)
    BY <1>2, <1>3, <1>5, <1>6, Zenon
<1>12. /\ Summary(A).retransmitted = a.counts.retransmitted
       /\ Summary(A).withRetransmit = Cardinality({s \in Known(a) : a.auth[s] + a.acct[s] > 0})
       /\ Summary(A).curve = buildEstablishmentCurve(Records(a))
       /\ Summary(A).latency = computeDistribution(Values(Latencies(a)))
    BY <1>2, <1>4, <1>6, <1>9, <1>10, Zenon
<1> QED BY <1>11, <1>12 DEF A, a

\* Disjoint sets of subscribers add up.
LEMMA Disjoint ==
  ASSUME NEW S \in SUBSET Subs, NEW T \in SUBSET Subs, S \cap T = {}
  PROVE  Cardinality(S \cup T) = Cardinality(S) + Cardinality(T)
<1>1. IsFiniteSet(S) /\ IsFiniteSet(T) /\ Cardinality(S) \in Nat /\ Cardinality(T) \in Nat
  BY SubsFinite
<1>2. Cardinality(S \cup T) = Cardinality(S) + Cardinality(T) - Cardinality(S \cap T)
  BY <1>1, FS_Union
<1>3. Cardinality(S \cap T) = 0
  BY FS_EmptySet
<1> QED BY <1>1, <1>2, <1>3

\* A smaller set of subscribers has fewer.
LEMMA Subset ==
  ASSUME NEW S, NEW T \in SUBSET Subs, S \subseteq T
  PROVE  Cardinality(S) <= Cardinality(T) /\ Cardinality(S) \in Nat /\ Cardinality(T) \in Nat
<1>1. IsFiniteSet(T) /\ S \in SUBSET T /\ S \in SUBSET Subs
  BY SubsFinite
<1> QED BY <1>1, FS_Subset, SubsFinite

\* Four ways to end.
LEMMA FourEnds ==
  ASSUME NEW at, NEW U, U = {s \in Subs : at[s] \in Finals}
  PROVE  Cardinality(U) = Cardinality({s \in Subs : at[s] = "established"})
                          + Cardinality({s \in Subs : at[s] = "auth_failed"})
                          + Cardinality({s \in Subs : at[s] = "acct_failed"})
                          + Cardinality({s \in Subs : at[s] = "terminated"})
<1> DEFINE S1 == {s \in Subs : at[s] = "established"}
           S2 == {s \in Subs : at[s] = "auth_failed"}
           S3 == {s \in Subs : at[s] = "acct_failed"}
           S4 == {s \in Subs : at[s] = "terminated"}
<1>1. /\ S1 \in SUBSET Subs /\ S2 \in SUBSET Subs /\ S3 \in SUBSET Subs /\ S4 \in SUBSET Subs
      /\ S1 \cap S2 = {} /\ (S1 \cup S2) \cap S3 = {} /\ ((S1 \cup S2) \cup S3) \cap S4 = {}
      /\ U = ((S1 \cup S2) \cup S3) \cup S4
  BY DEF Finals
<1> HIDE DEF S1, S2, S3, S4
<1>2. Cardinality(S1 \cup S2) = Cardinality(S1) + Cardinality(S2)
  BY <1>1, Disjoint
<1>3. Cardinality((S1 \cup S2) \cup S3) = Cardinality(S1 \cup S2) + Cardinality(S3)
  <2>1. S1 \cup S2 \in SUBSET Subs
    BY <1>1
  <2> QED BY <1>1, <2>1, Disjoint
<1>4. Cardinality(U) = Cardinality((S1 \cup S2) \cup S3) + Cardinality(S4)
  <2>1. (S1 \cup S2) \cup S3 \in SUBSET Subs
    BY <1>1
  <2> QED BY <1>1, <2>1, Disjoint
<1>5. Cardinality(U) = Cardinality(S1) + Cardinality(S2) + Cardinality(S3) + Cardinality(S4)
  BY <1>2, <1>3, <1>4
<1> QED BY <1>5 DEF S1, S2, S3, S4

\* The four final states add up to those with a terminal event.
LEMMA ByStateIs ==
  ASSUME IInv
  PROVE  /\ ByState(Summary(aggs).final) = Cardinality({s \in Subs : single.terminal[s] \in Finals})
         /\ \A f \in Finals : Summary(aggs).final[f] = Cardinality(ReachedIn(single, f))
         /\ Summary(aggs).final.established = Cardinality(ReachedIn(single, "established"))
<1> DEFINE final == [f \in Finals |-> Cardinality(ReachedIn(single, f))]
<1>1. Summary(aggs).final = final
  BY SummaryIs
<1>2. /\ final.established = Cardinality(ReachedIn(single, "established"))
      /\ final.auth_failed = Cardinality(ReachedIn(single, "auth_failed"))
      /\ final.acct_failed = Cardinality(ReachedIn(single, "acct_failed"))
      /\ final.terminated = Cardinality(ReachedIn(single, "terminated"))
  BY DEF Finals
<1>3. \A f \in Finals : final[f] = Cardinality(ReachedIn(single, f))
  OBVIOUS
<1> HIDE DEF final
<1>4. Cardinality({s \in Subs : single.terminal[s] \in Finals})
        = Cardinality(ReachedIn(single, "established")) + Cardinality(ReachedIn(single, "auth_failed"))
          + Cardinality(ReachedIn(single, "acct_failed")) + Cardinality(ReachedIn(single, "terminated"))
  BY FourEnds DEF ReachedIn
<1>5. ByState(final) = Cardinality({s \in Subs : single.terminal[s] \in Finals})
  BY <1>2, <1>4 DEF ByState
<1> QED BY <1>1, <1>2, <1>3, <1>5

\* If nothing was dropped, the aggregation knows those that were activated and
\* how they ended.
LEMMA ExactSets ==
  ASSUME IInv, drops = 0
  PROVE  /\ Known(single) = Activated
         /\ \A f \in Finals : ReachedIn(single, f) = Ended(f)
         /\ {s \in Subs : single.terminal[s] \in Finals} = {s \in Subs : state[s] \in Finals}
         /\ \A s \in Subs : /\ single.activated[s] = activatedAt[s]
                            /\ single.established[s] = IF state[s] = "established" THEN endedAt[s] ELSE NA
<1>1. ASSUME NEW s \in Subs
      PROVE  /\ HistoryAt(s) /\ SingleAt(s) /\ ExactAt(s)
             /\ state[s] \in {"idle", "active"} \cup Finals
             /\ single.terminal[s] \in Finals \cup {"none"}
  BY DEF IInv, Exact, ATypeOK, Aggregation
<1>2. ASSUME NEW s \in Subs PROVE Knows(single, s) <=> state[s] # "idle"
  <2>1. Knows(single, s) => state[s] # "idle"
    BY <1>1 DEF SingleAt
  <2>2. ASSUME state[s] # "idle" PROVE single.activated[s] # NA
    <3>1. activatedAt[s] \in 0 .. now /\ now \in Nat
      BY <1>1, <2>2 DEF HistoryAt, IInv, ATypeOK
    <3>2. activatedAt[s] # NA
      BY <3>1 DEF NA
    <3> QED BY <1>1, <3>2 DEF ExactAt
  <2> QED BY <2>1, <2>2 DEF Knows
<1>3. ASSUME NEW s \in Subs PROVE /\ single.terminal[s] \in Finals => single.terminal[s] = state[s]
                                  /\ state[s] \in Finals => single.terminal[s] = state[s]
  BY <1>1 DEF SingleAt, ExactAt, Finals
<1>4. Known(single) = Activated
  BY <1>2 DEF Known, Activated
<1>5. \A f \in Finals : ReachedIn(single, f) = Ended(f)
  BY <1>3 DEF ReachedIn, Ended
<1>6. {s \in Subs : single.terminal[s] \in Finals} = {s \in Subs : state[s] \in Finals}
  BY <1>3
<1>7. ASSUME NEW s \in Subs
      PROVE  /\ single.activated[s] = activatedAt[s]
             /\ single.established[s] = IF state[s] = "established" THEN endedAt[s] ELSE NA
  <2>1. single.terminal[s] = "established" <=> state[s] = "established"
    BY <1>3 DEF Finals
  <2> QED BY <1>1, <2>1 DEF ExactAt, SingleAt
<1> QED BY <1>4, <1>5, <1>6, <1>7

\* pkg/collector/aggregate.go: the subscribers section adds up wherever the
\* run is cut, never counts what did not happen, and is exact if no event was
\* dropped, for every number of subscribers and shards.
THEOREM TotalsAddUp == Spec => []TotalsMatch
<1>1. ASSUME IInv PROVE TotalsMatch
  <2> DEFINE sum == Summary(aggs)
             T == {s \in Subs : single.terminal[s] \in Finals}
  <2>1. /\ sum.total = Cardinality(Known(single))
        /\ sum.stillInFlight =
              IF sum.total - ByState(sum.final) < 0 THEN 0 ELSE sum.total - ByState(sum.final)
        /\ sum.retransmitted = single.counts.retransmitted
        /\ sum.withRetransmit = Cardinality({s \in Known(single) : single.auth[s] + single.acct[s] > 0})
    BY <1>1, SummaryIs
  <2>2. /\ ByState(sum.final) = Cardinality(T)
        /\ \A f \in Finals : sum.final[f] = Cardinality(ReachedIn(single, f))
    BY <1>1, ByStateIs
  <2> HIDE DEF sum
  <2>a. Known(single) \in SUBSET Subs /\ Activated \in SUBSET Subs /\ Ended("active") \in SUBSET Subs
        /\ \A f \in Finals : Ended(f) \in SUBSET Subs
    BY DEF Known, Activated, Ended
  <2>3. T \subseteq Known(single)
    BY DEF Known, Knows, Finals
  <2>4. Known(single) \subseteq Activated
    BY <1>1 DEF IInv, SingleAt, Known, Activated
  <2> HIDE DEF T
  <2>5. /\ Cardinality(T) <= Cardinality(Known(single)) /\ Cardinality(T) \in Nat
        /\ Cardinality(Known(single)) \in Nat
    BY <2>a, <2>3, Subset
  <2>6. sum.total = sum.stillInFlight + ByState(sum.final) /\ sum.stillInFlight = Cardinality(Known(single)) - Cardinality(T)
    BY <2>1, <2>2, <2>5
  <2>7. sum.total <= Cardinality(Activated)
    BY <2>1, <2>4, <2>a, Subset
  <2>8. \A f \in Finals : sum.final[f] <= Cardinality(Ended(f))
    <3> SUFFICES ASSUME NEW f \in Finals PROVE sum.final[f] <= Cardinality(Ended(f))
      OBVIOUS
    <3>1. ReachedIn(single, f) \subseteq Ended(f)
      BY <1>1 DEF IInv, SingleAt, ReachedIn, Ended, Finals
    <3>2. Cardinality(ReachedIn(single, f)) <= Cardinality(Ended(f))
      BY <2>a, <3>1, Subset
    <3> QED BY <2>2, <3>2
  <2>9. ASSUME drops = 0
        PROVE  /\ sum.total = Cardinality(Activated)
               /\ sum.stillInFlight = Cardinality(Ended("active"))
               /\ \A f \in Finals : sum.final[f] = Cardinality(Ended(f))
               /\ sum.retransmitted = Total(retransmits)
               /\ sum.withRetransmit = Cardinality({s \in Subs : retransmits[s] > 0})
    <3>1. /\ Known(single) = Activated /\ \A f \in Finals : ReachedIn(single, f) = Ended(f)
          /\ T = {s \in Subs : state[s] \in Finals}
      BY <1>1, <2>9, ExactSets DEF T
    <3>2. Activated = Ended("active") \cup T /\ Ended("active") \cap T = {} /\ T \in SUBSET Subs
      BY <1>1, <3>1 DEF Activated, Ended, Finals, IInv, ATypeOK
    <3>3. Cardinality(Activated) = Cardinality(Ended("active")) + Cardinality(T)
      BY <2>a, <3>2, Disjoint
    <3>4. Cardinality(Ended("active")) \in Nat
      BY <2>a, SubsFinite
    <3>5. sum.stillInFlight = Cardinality(Ended("active"))
      BY <2>5, <2>6, <3>1, <3>3, <3>4
    <3>6. sum.retransmitted = Total(retransmits)
      BY <1>1, <2>1, <2>9 DEF IInv, Exact
    <3>7. {s \in Known(single) : single.auth[s] + single.acct[s] > 0} = {s \in Subs : retransmits[s] > 0}
      <4>1. ASSUME NEW s \in Subs
            PROVE  /\ single.auth[s] + single.acct[s] = retransmits[s]
                   /\ retransmits[s] > 0 => s \in Known(single)
        <5>1. single.auth[s] + single.acct[s] = retransmits[s]
          BY <1>1, <2>9 DEF IInv, Exact, ExactAt
        <5>2. single.auth[s] \in Nat /\ single.acct[s] \in Nat
          BY <1>1 DEF IInv, ATypeOK, Aggregation
        <5>3. retransmits[s] > 0 => single.auth[s] > 0 \/ single.acct[s] > 0
          BY <5>1, <5>2
        <5> QED BY <5>1, <5>3 DEF Known, Knows
      <4>2. Known(single) \subseteq Subs
        BY DEF Known
      <4> QED BY <4>1, <4>2
    <3> QED BY <2>1, <2>2, <3>1, <3>5, <3>6, <3>7
  <2> QED BY <2>6, <2>7, <2>8, <2>9 DEF TotalsMatch, sum
<1> QED BY InvHolds, <1>1, PTL

-----------------------------------------------------------------------------
(* The establishment curve.                                                *)

W == CurveBucketMs
Upto(off, t) == {s \in DOMAIN off : off[s] >= 0 /\ off[s] < t}

\* Bucket b holds the offsets from b * W up to (b + 1) * W.
LEMMA BucketEdges ==
  ASSUME NEW x \in Nat, NEW b \in Nat
  PROVE  /\ x \div W = b <=> b * W <= x /\ x < (b + 1) * W
         /\ x \div W \in Nat /\ b * W \in Nat /\ (b + 1) * W = b * W + W /\ W \in Nat
<1>1. W \in Nat /\ W > 0
  BY AggregateAssumption DEF W
<1>2. PICK q \in Nat : q = x \div W /\ q * W <= x /\ x < q * W + W
  BY <1>1
<1>3. b * W \in Nat /\ q * W \in Nat /\ (b + 1) * W = b * W + W /\ (q + 1) * W = q * W + W
  BY <1>1
<1>4. ASSUME q < b PROVE (q + 1) * W <= b * W
  BY <1>1, <1>4
<1>5. ASSUME b < q PROVE (b + 1) * W <= q * W
  BY <1>1, <1>5
<1> QED BY <1>1, <1>2, <1>3, <1>4, <1>5

\* Point b of the running sums counts the offsets below b * W.
LEMMA CumulativeIs ==
  ASSUME NEW K \in SUBSET Subs, NEW off \in [K -> Nat \cup {NA}], NEW n \in Nat, NEW b \in 0 .. n
  PROVE  cumulative(off, n)[b] = Cardinality(Upto(off, b * W))
<1> DEFINE delta(c) == Cardinality({s \in DOMAIN off : off[s] >= 0 /\ off[s] \div CurveBucketMs = c})
           f == [c \in 0 .. n - 1 |-> delta(c)]
           S == {m \in Nat : m <= n => Sums(f, n)[m] = Cardinality(Upto(off, m * W))}
<1>1. cumulative(off, n) = Sums(f, n)
  BY DEF cumulative
<1>2. Sums(f, n)[0] = 0 /\ \A k \in 0 .. n - 1 : Sums(f, n)[k + 1] = Sums(f, n)[k] + f[k]
  BY SumsAt
<1>3. \A k \in 0 .. n - 1 : f[k] = Cardinality({s \in K : off[s] >= 0 /\ off[s] \div W = k})
  BY DEF W
<1> HIDE DEF f
<1>4. 0 \in S
  <2>1. 0 * W = 0
    BY AggregateAssumption DEF W
  <2>2. Upto(off, 0 * W) = {}
    BY <2>1 DEF Upto, NA
  <2> QED BY <1>2, <2>2, FS_EmptySet
<1>5. ASSUME NEW m \in Nat, m \in S PROVE m + 1 \in S
  <2> SUFFICES ASSUME m + 1 <= n PROVE Sums(f, n)[m + 1] = Cardinality(Upto(off, (m + 1) * W))
    OBVIOUS
  <2>1. m \in 0 .. n - 1 /\ Sums(f, n)[m] = Cardinality(Upto(off, m * W))
    BY <1>5
  <2> DEFINE D == {s \in K : off[s] >= 0 /\ off[s] \div W = m}
             U == Upto(off, m * W)
  <2>2. Sums(f, n)[m + 1] = Cardinality(U) + Cardinality(D)
    BY <1>2, <1>3, <2>1
  <2>3. ASSUME NEW s \in K, off[s] >= 0
        PROVE  /\ off[s] \div W = m <=> m * W <= off[s] /\ off[s] < (m + 1) * W
               /\ m * W \in Nat /\ m * W <= (m + 1) * W /\ (m + 1) * W \in Nat /\ off[s] \in Nat
    <3>1. off[s] \in Nat
      BY <2>3 DEF NA
    <3>2. PICK x \in Nat : x = off[s]
      BY <3>1
    <3>3. /\ x \div W = m <=> m * W <= x /\ x < (m + 1) * W
          /\ m * W \in Nat /\ (m + 1) * W = m * W + W /\ W \in Nat
      BY BucketEdges
    <3>4. m * W <= (m + 1) * W /\ (m + 1) * W \in Nat
      BY <3>3
    <3> QED BY <3>2, <3>3, <3>4
  <2>4. /\ Upto(off, (m + 1) * W) = U \cup D /\ U \cap D = {}
        /\ U \in SUBSET Subs /\ D \in SUBSET Subs
    BY <2>3 DEF Upto
  <2> HIDE DEF U, D
  <2>5. Cardinality(U \cup D) = Cardinality(U) + Cardinality(D)
    BY <2>4, Disjoint
  <2> QED BY <2>2, <2>4, <2>5
<1>6. \A m \in Nat : m \in S
  <2> HIDE DEF S
  <2> QED BY <1>4, <1>5, Induction
<1>7. Sums(f, n)[b] = Cardinality(Upto(off, b * W))
  BY <1>6
<1> QED BY <1>1, <1>7

\* Every offset is below the last bucket's end.
LEMMA BucketsHold ==
  ASSUME NEW K \in SUBSET Subs, NEW off \in [K -> Nat \cup {NA}]
  PROVE  buckets(off) \in Nat /\ buckets(off) > 0 /\ \A s \in K : off[s] < buckets(off) * W
<1> DEFINE R == {off[s] : s \in DOMAIN off}
           T == R \cup {0}
<1>1. IsFiniteSet(R)
  <2>1. off \in Surjection(K, R)
    BY DEF Surjection
  <2>2. IsFiniteSet(K)
    BY SubsFinite
  <2> HIDE DEF R
  <2> QED BY <2>1, <2>2, FS_Surjection
<1>2. R \subseteq Int /\ \A s \in K : off[s] \in R
  BY DEF NA
<1>3. buckets(off) = Max(T) \div W + 1
  BY DEF buckets, W
<1> HIDE DEF R
<1>4. IsFiniteSet(T) /\ T \in SUBSET Int /\ T # {} /\ 0 \in T
  <2>1. IsFiniteSet(R \cup {0})
    BY <1>1, FS_AddElement
  <2> QED BY <1>2, <2>1
<1> HIDE DEF T
<1>5. Max(T) \in T /\ \A x \in T : x <= Max(T)
  BY <1>4, FiniteMax
<1>6. PICK top \in Nat : top = Max(T)
  <2>1. Max(T) \in Int /\ 0 <= Max(T)
    BY <1>4, <1>5
  <2>2. Max(T) \in Nat
    BY <2>1
  <2> QED BY <2>2
<1>7. PICK q \in Nat : q = top \div W /\ top < (q + 1) * W /\ (q + 1) * W \in Nat
  <2>1. top \div W \in Nat
    BY BucketEdges
  <2>2. PICK q \in Nat : q = top \div W
    BY <2>1
  <2>3. top < (q + 1) * W /\ (q + 1) * W = q * W + W /\ q * W \in Nat /\ W \in Nat
    BY <2>2, BucketEdges
  <2>4. (q + 1) * W \in Nat
    BY <2>3
  <2> QED BY <2>2, <2>3, <2>4
<1>8. buckets(off) = q + 1
  BY <1>3, <1>6, <1>7
<1>9. ASSUME NEW s \in K PROVE off[s] < (q + 1) * W
  <2>1. off[s] \in T /\ off[s] \in Int
    BY <1>2 DEF T
  <2>2. off[s] <= top
    BY <1>5, <1>6, <2>1
  <2> QED BY <1>7, <2>1, <2>2
<1> QED BY <1>8, <1>9

\* The curve C counts the offsets act and est of the subscribers in K.
Plots(C, K, act, est) ==
  \E m \in Nat :
    /\ DOMAIN C = 0 .. m
    /\ \A b \in 0 .. m :
         /\ C[b].activated = Cardinality(Upto(act, b * W))
         /\ C[b].established = Cardinality(Upto(est, b * W))
         /\ C[b].inFlight = C[b].activated - C[b].established
    /\ \A s \in K : act[s] < m * W /\ est[s] < m * W

\* buildEstablishmentCurve plots the offsets of the records.
LEMMA CurveIs ==
  ASSUME NEW K \in SUBSET Subs, NEW subs, DOMAIN subs = K, NEW act \in [K -> Nat \cup {NA}],
         NEW est \in [K -> Nat \cup {NA}],
         \A s \in K : subs[s].activated = act[s] /\ subs[s].established = est[s]
  PROVE  Plots(buildEstablishmentCurve(subs), K, act, est)
<1> DEFINE n == Max({buckets(act), buckets(est)})
           m == IF K = {} THEN 0 ELSE n
           C == buildEstablishmentCurve(subs)
<1>1. /\ buckets(act) \in Nat /\ \A s \in K : act[s] < buckets(act) * W
      /\ buckets(est) \in Nat /\ \A s \in K : est[s] < buckets(est) * W
  BY BucketsHold
<1>2. n \in Nat /\ buckets(act) <= n /\ buckets(est) <= n
  <2> DEFINE T == {buckets(act), buckets(est)}
  <2>1. T \in SUBSET Int /\ T # {}
    BY <1>1
  <2>2. IsFiniteSet(T)
    <3>1. T = {buckets(act)} \cup {buckets(est)}
      OBVIOUS
    <3>2. IsFiniteSet({buckets(act)})
      BY FS_Singleton
    <3>3. IsFiniteSet({buckets(act)} \cup {buckets(est)})
      BY <3>2, FS_AddElement
    <3> QED BY <3>1, <3>3, Zenon
  <2>3. Max(T) \in T /\ \A x \in T : x <= Max(T)
    <3> HIDE DEF T
    <3> QED BY <2>1, <2>2, FiniteMax
  <2> QED BY <1>1, <2>3
<1>3. \A s \in K : act[s] < n * W /\ est[s] < n * W
  <2>1. W \in Nat
    BY AggregateAssumption DEF W
  <2>2. ASSUME NEW q \in Nat, q <= n PROVE q * W <= n * W /\ q * W \in Nat /\ n * W \in Nat
    <3> HIDE DEF n
    <3> QED BY <1>2, <2>1, <2>2
  <2>3. /\ buckets(act) * W <= n * W /\ buckets(est) * W <= n * W
        /\ buckets(act) * W \in Nat /\ buckets(est) * W \in Nat /\ n * W \in Nat
    BY <1>1, <1>2, <2>2
  <2>4. \A s \in K : act[s] \in Int /\ est[s] \in Int
    BY DEF NA
  <2> HIDE DEF n
  <2> QED BY <1>1, <2>3, <2>4
<1>4. act = [s \in DOMAIN subs |-> subs[s].activated] /\ est = [s \in DOMAIN subs |-> subs[s].established]
  OBVIOUS
<1>5. C = [b \in 0 .. m |-> [activated |-> cumulative(act, n)[b], established |-> cumulative(est, n)[b],
                             inFlight |-> cumulative(act, n)[b] - cumulative(est, n)[b]]]
  BY <1>4 DEF buildEstablishmentCurve
<1>6. m \in Nat /\ m <= n
  <2> HIDE DEF n
  <2> QED BY <1>2
<1>7. \A s \in K : act[s] < m * W /\ est[s] < m * W
  <2> HIDE DEF n
  <2> QED BY <1>3
<1> HIDE DEF m, n, C
<1>8. ASSUME NEW b \in 0 .. m
      PROVE  /\ C[b].activated = Cardinality(Upto(act, b * W))
             /\ C[b].established = Cardinality(Upto(est, b * W))
             /\ C[b].inFlight = C[b].activated - C[b].established
  <2>1. b \in 0 .. n
    BY <1>2, <1>6
  <2>2. /\ cumulative(act, n)[b] = Cardinality(Upto(act, b * W))
        /\ cumulative(est, n)[b] = Cardinality(Upto(est, b * W))
    BY <1>2, <2>1, CumulativeIs
  <2> QED BY <1>5, <2>2
<1>9. DOMAIN C = 0 .. m
  BY <1>5
<1> QED BY <1>6, <1>7, <1>8, <1>9 DEF C, Plots

\* Max of an interval.
LEMMA MaxUpto ==
  ASSUME NEW m \in Nat
  PROVE  Max(0 .. m) = m
<1>1. IsFiniteSet(0 .. m) /\ 0 .. m \in SUBSET Int /\ 0 .. m # {} /\ m \in 0 .. m
  <2>1. IsFiniteSet(0 .. m)
    BY FS_Interval
  <2>2. 0 .. m \in SUBSET Int /\ m \in 0 .. m
    OBVIOUS
  <2> QED BY <2>1, <2>2
<1>2. Max(0 .. m) \in 0 .. m /\ m <= Max(0 .. m)
  BY <1>1, FiniteMax
<1> QED BY <1>2

\* pkg/collector/aggregate.go: if nothing was dropped, the points of the
\* establishment curve count exactly what happened before them, and the curve
\* is long enough, for every number of subscribers and shards and every width
\* of a bucket.
THEOREM CurveCounts == Spec => []CurveMatches
<1>1. ASSUME IInv, drops = 0
      PROVE  LET curve == Summary(aggs).curve
                 last  == curve[Max(DOMAIN curve)]
                 Before(at, S, t) == Cardinality({s \in S : at[s] # NA /\ at[s] < t})
             IN /\ \A b \in DOMAIN curve :
                     /\ curve[b].activated = Before(activatedAt, Subs, b * CurveBucketMs)
                     /\ curve[b].established = Before(endedAt, Ended("established"), b * CurveBucketMs)
                     /\ curve[b].inFlight >= 0
                /\ last.activated = Cardinality(Activated)
                /\ last.established = Cardinality(Ended("established"))
  <2> DEFINE K == Activated
             subs == Records(single)
             act == [s \in K |-> activatedAt[s]]
             est == [s \in K |-> IF state[s] = "established" THEN endedAt[s] ELSE NA]
             C == Summary(aggs).curve
  <2>1. C = buildEstablishmentCurve(subs)
    BY <1>1, SummaryIs
  <2>2. /\ Known(single) = K
        /\ \A s \in Subs : /\ single.activated[s] = activatedAt[s]
                           /\ single.established[s] = IF state[s] = "established" THEN endedAt[s] ELSE NA
    BY <1>1, ExactSets
  <2>3. K \in SUBSET Subs /\ now \in Nat /\ Ended("established") \in SUBSET Subs /\ Ended("established") \subseteq K
    BY <1>1 DEF IInv, ATypeOK, Activated, Ended
  <2>4. DOMAIN subs = K /\ \A s \in K : subs[s].activated = act[s] /\ subs[s].established = est[s]
    BY <2>2, <2>3 DEF Records, Record
  <2>5. act \in [K -> Nat \cup {NA}] /\ est \in [K -> Nat \cup {NA}]
    BY <1>1, <2>3 DEF IInv, ATypeOK
  <2>6. ASSUME NEW s \in Subs
        PROVE  /\ s \in K <=> activatedAt[s] # NA
               /\ s \in K => activatedAt[s] \in Nat /\ act[s] = activatedAt[s]
               /\ s \in K /\ s \notin Ended("established") => est[s] = NA
               /\ s \in Ended("established") =>
                    /\ s \in K /\ est[s] = endedAt[s] /\ endedAt[s] \in Nat /\ endedAt[s] # NA
                    /\ activatedAt[s] <= endedAt[s]
    <3>1. HistoryAt(s)
      BY <1>1 DEF IInv
    <3>2. s \in K <=> state[s] # "idle"
      BY DEF Activated
    <3>3. s \in Ended("established") <=> state[s] = "established"
      BY DEF Ended
    <3>4. state[s] = "established" => state[s] \in Finals
      BY DEF Finals
    <3>5. CASE state[s] = "idle"
      BY <3>1, <3>2, <3>3, <3>5 DEF HistoryAt
    <3>6. CASE state[s] # "idle"
      <4>1. activatedAt[s] \in 0 .. now /\ activatedAt[s] # NA
        BY <2>3, <3>1, <3>6 DEF HistoryAt, NA
      <4>2. act[s] = activatedAt[s] /\ est[s] = IF state[s] = "established" THEN endedAt[s] ELSE NA
        BY <3>2, <3>6
      <4>3. CASE state[s] = "established"
        <5>1. endedAt[s] \in activatedAt[s] .. now
          BY <3>1, <3>4, <4>3 DEF HistoryAt
        <5>2. endedAt[s] \in Nat /\ endedAt[s] # NA /\ activatedAt[s] <= endedAt[s]
          BY <2>3, <4>1, <5>1 DEF NA
        <5> QED BY <3>2, <3>3, <3>6, <4>1, <4>2, <4>3, <5>2
      <4>4. CASE state[s] # "established"
        BY <3>2, <3>3, <3>6, <4>1, <4>2, <4>4
      <4> QED BY <4>3, <4>4
    <3> QED BY <3>5, <3>6
  <2>7. DOMAIN act = K /\ DOMAIN est = K
    OBVIOUS
  <2> HIDE DEF K, subs, act, est, C
  <2>8. PICK m \in Nat :
           /\ DOMAIN C = 0 .. m
           /\ \A b \in 0 .. m :
                /\ C[b].activated = Cardinality(Upto(act, b * W))
                /\ C[b].established = Cardinality(Upto(est, b * W))
                /\ C[b].inFlight = C[b].activated - C[b].established
           /\ \A s \in K : act[s] < m * W /\ est[s] < m * W
    <3>1. Plots(buildEstablishmentCurve(subs), K, act, est)
      BY <2>3, <2>4, <2>5, CurveIs
    <3>2. Plots(C, K, act, est)
      BY <2>1, <3>1
    <3> QED BY <3>2 DEF Plots
  <2>9. ASSUME NEW t \in Nat
        PROVE  /\ Upto(act, t) = {s \in Subs : activatedAt[s] # NA /\ activatedAt[s] < t}
               /\ Upto(est, t) = {s \in Ended("established") : endedAt[s] # NA /\ endedAt[s] < t}
               /\ Upto(est, t) \subseteq Upto(act, t) /\ Upto(act, t) \in SUBSET Subs
    <3>1. Upto(act, t) = {s \in Subs : activatedAt[s] # NA /\ activatedAt[s] < t}
      BY <2>3, <2>6, <2>7 DEF Upto
    <3>2. Upto(est, t) = {s \in Ended("established") : endedAt[s] # NA /\ endedAt[s] < t}
      <4>1. ASSUME NEW s \in Upto(est, t) PROVE s \in Ended("established") /\ endedAt[s] # NA /\ endedAt[s] < t
        <5>1. s \in K /\ est[s] >= 0 /\ est[s] < t /\ s \in Subs
          BY <2>3, <2>7 DEF Upto
        <5>2. s \in Ended("established")
          BY <2>6, <5>1 DEF NA
        <5> QED BY <2>6, <5>1, <5>2
      <4>2. ASSUME NEW s \in Ended("established"), endedAt[s] < t PROVE s \in Upto(est, t)
        BY <2>3, <2>6, <2>7, <4>2 DEF Upto
      <4> QED BY <4>1, <4>2
    <3>3. ASSUME NEW s \in Upto(est, t) PROVE s \in Upto(act, t)
      <4>1. s \in Ended("established") /\ endedAt[s] < t /\ s \in Subs
        BY <2>3, <3>2
      <4>2. activatedAt[s] \in Nat /\ endedAt[s] \in Nat /\ activatedAt[s] <= endedAt[s] /\ activatedAt[s] # NA
        BY <2>6, <4>1
      <4> QED BY <3>1, <4>1, <4>2
    <3> QED BY <3>1, <3>2, <3>3
  <2>10. \A b \in 0 .. m : b * W \in Nat /\ b * CurveBucketMs = b * W
    BY AggregateAssumption DEF W
  <2>11. ASSUME NEW b \in DOMAIN C
         PROVE  /\ C[b].activated = Cardinality({s \in Subs : activatedAt[s] # NA /\ activatedAt[s] < b * CurveBucketMs})
                /\ C[b].established = Cardinality({s \in Ended("established") :
                                        endedAt[s] # NA /\ endedAt[s] < b * CurveBucketMs})
                /\ C[b].inFlight >= 0
    <3>1. PICK t \in Nat : t = b * W /\ t = b * CurveBucketMs
      BY <2>8, <2>10
    <3>2. /\ C[b].activated = Cardinality(Upto(act, t)) /\ C[b].established = Cardinality(Upto(est, t))
          /\ C[b].inFlight = C[b].activated - C[b].established
      BY <2>8, <3>1
    <3>3. /\ Cardinality(Upto(est, t)) <= Cardinality(Upto(act, t))
          /\ Cardinality(Upto(est, t)) \in Nat /\ Cardinality(Upto(act, t)) \in Nat
      BY <2>9, Subset
    <3>4. C[b].inFlight >= 0
      BY <3>2, <3>3
    <3> QED BY <2>9, <3>1, <3>2, <3>4
  <2>12. /\ C[Max(DOMAIN C)].activated = Cardinality(Activated)
         /\ C[Max(DOMAIN C)].established = Cardinality(Ended("established"))
    <3>1. Max(DOMAIN C) = m /\ m \in 0 .. m
      BY <2>8, MaxUpto
    <3>2. PICK t \in Nat : t = m * W
      BY <2>10, <3>1
    <3>3. Upto(act, t) = K
      BY <2>3, <2>6, <2>7, <2>8, <3>2 DEF Upto
    <3>4. Upto(est, t) = Ended("established")
      <4>1. \A s \in Ended("established") : s \in Subs /\ s \in K /\ est[s] < t /\ est[s] \in Nat
        BY <2>3, <2>6, <2>8, <3>2
      <4>2. \A s \in Ended("established") : s \in Upto(est, t)
        BY <2>7, <4>1 DEF Upto
      <4>3. Upto(est, t) \subseteq Ended("established")
        BY <2>9
      <4> QED BY <4>2, <4>3
    <3> QED BY <2>8, <3>1, <3>2, <3>3, <3>4 DEF K
  <2> QED BY <2>11, <2>12 DEF C
<1>2. IInv => CurveMatches
  BY <1>1 DEF CurveMatches
<1> QED BY InvHolds, <1>2, PTL

-----------------------------------------------------------------------------
(* Percentiles.                                                            *)

\* Values lists every value of a map once.
LEMMA ValuesAre ==
  ASSUME NEW E \in SUBSET Subs, NEW f \in [E -> Int]
  PROVE  LET n == Cardinality(E) IN
         /\ n \in Nat /\ Values(f) \in [1 .. n -> Int]
         /\ \A v \in Int : Cardinality({j \in 1 .. n : Values(f)[j] <= v})
                             = Cardinality({s \in E : f[s] <= v})
<1> DEFINE order == SetToSeq(E)
<1>1. IsFiniteSet(E) /\ DOMAIN f = E
  BY SubsFinite
<1>2. PICK n \in Nat : n = Cardinality(E) /\ ExistsBijection(1 .. n, E)
  BY <1>1, FS_CardinalityType
<1>3. order \in [1 .. n -> E] /\ IsInjective(order)
  <2>1. \E g \in [1 .. n -> E] : IsInjective(g)
    BY <1>2 DEF ExistsBijection, Bijection, Injection
  <2>2. order = CHOOSE g \in [1 .. n -> E] : IsInjective(g)
    BY <1>2 DEF SetToSeq
  <2> QED BY <2>1, <2>2
<1> HIDE DEF order
<1>4. order \in Injection(1 .. n, E)
  BY <1>3 DEF Injection
<1>5. Cardinality(1 .. n) = n
  <2>1. Cardinality(1 .. n) = IF 1 > n THEN 0 ELSE n - 1 + 1
    BY FS_Interval
  <2> QED BY <2>1
<1>6. order \in Surjection(1 .. n, E)
  BY <1>1, <1>2, <1>4, <1>5, FS_Injection
<1>7. /\ \A i, j \in 1 .. n : order[i] = order[j] => i = j
      /\ \A s \in E : \E i \in 1 .. n : order[i] = s
  BY <1>3, <1>4, <1>6 DEF Injection, Surjection, IsInjective
<1>8. Values(f) = [i \in 1 .. n |-> f[order[i]]]
  BY <1>1, <1>3 DEF Values, order
<1>9. Values(f) \in [1 .. n -> Int] /\ \A i \in 1 .. n : Values(f)[i] = f[order[i]] /\ order[i] \in E
  BY <1>3, <1>8
<1>10. ASSUME NEW v \in Int
       PROVE  Cardinality({j \in 1 .. n : Values(f)[j] <= v}) = Cardinality({s \in E : f[s] <= v})
  <2> DEFINE S == {j \in 1 .. n : Values(f)[j] <= v}
             T == {s \in E : f[s] <= v}
             h == [j \in S |-> order[j]]
  <2>1. h \in [S -> T]
    BY <1>9
  <2>2. \A j, k \in S : h[j] = h[k] => j = k
    BY <1>7
  <2>3. \A s \in T : \E j \in S : h[j] = s
    <3> SUFFICES ASSUME NEW s \in T PROVE \E j \in S : h[j] = s
      OBVIOUS
    <3>1. PICK j \in 1 .. n : order[j] = s
      BY <1>7
    <3>2. j \in S
      BY <1>9, <3>1
    <3> QED BY <3>1, <3>2
  <2>4. IsFiniteSet(S)
    <3>1. IsFiniteSet(1 .. n)
      BY FS_Interval
    <3>2. S \in SUBSET (1 .. n)
      OBVIOUS
    <3> HIDE DEF S
    <3> QED BY <3>1, <3>2, FS_Subset
  <2> HIDE DEF S, T, h
  <2>5. h \in Bijection(S, T)
    BY <2>1, <2>2, <2>3 DEF Bijection, Injection, Surjection, IsInjective
  <2>6. Cardinality(S) = Cardinality(T)
    BY <2>4, <2>5, FS_Bijection DEF ExistsBijection
  <2> QED BY <2>6 DEF S, T
<1> QED BY <1>2, <1>9, <1>10

\* v is the nearest rank of permille: the least latency that enough keep.
NearestRank(v, permille, n) ==
  v \in Int /\ 1000 * Within(v) >= permille * n /\ 1000 * Within(v - 1) < permille * n

\* The latency percentiles are nearest ranks.
LEMMA LatencyRanks ==
  ASSUME IInv, drops = 0, Ended("established") # {}
  PROVE  LET n   == Cardinality(Ended("established"))
             lat == Summary(aggs).latency
         IN  /\ n \in Nat \ {0} /\ \A v \in Int : Within(v) \in 0 .. n
             /\ NearestRank(lat.p50, 500, n) /\ NearestRank(lat.p95, 950, n)
             /\ NearestRank(lat.p99, 990, n) /\ NearestRank(lat.p999, 999, n)
             /\ NearestRank(lat.max, 1000, n)
<1> DEFINE E == Ended("established")
           f == [s \in E |-> Latency(s)]
           vals == Values(f)
           cp == Sorted(vals)
           lat == Summary(aggs).latency
<1>1. E \in SUBSET Subs /\ E \subseteq Activated
  BY DEF Ended, Activated
<1>2. ASSUME NEW s \in E
      PROVE  /\ activatedAt[s] \in Nat /\ endedAt[s] \in Nat /\ Latency(s) \in Int
             /\ single.activated[s] = activatedAt[s] /\ single.established[s] = endedAt[s]
  <2>1. s \in Subs /\ state[s] = "established" /\ now \in Nat /\ HistoryAt(s)
    BY DEF Ended, IInv, ATypeOK
  <2>2. activatedAt[s] \in 0 .. now /\ endedAt[s] \in activatedAt[s] .. now
    BY <2>1 DEF HistoryAt, Finals
  <2>3. activatedAt[s] \in Nat /\ endedAt[s] \in Nat
    BY <2>1, <2>2
  <2>4. single.activated[s] = activatedAt[s] /\ single.established[s] = endedAt[s]
    BY <2>1, ExactSets
  <2> QED BY <2>3, <2>4 DEF Latency
<1>3. Timed(single) = E
  <2>1. Known(single) = Activated
    BY ExactSets
  <2>2. ASSUME NEW s \in Timed(single) PROVE s \in E
    <3>1. s \in Subs /\ single.established[s] >= 0
      BY DEF Timed, Known
    <3>2. single.established[s] = IF state[s] = "established" THEN endedAt[s] ELSE NA
      BY <3>1, ExactSets
    <3>3. state[s] = "established"
      BY <3>1, <3>2 DEF NA
    <3> QED BY <3>1, <3>3 DEF Ended
  <2>3. ASSUME NEW s \in E PROVE s \in Timed(single)
    BY <1>1, <1>2, <2>1 DEF Timed
  <2> QED BY <2>2, <2>3
<1>4. Latencies(single) = f
  BY <1>2, <1>3 DEF Latencies, Latency
<1>5. lat = computeDistribution(vals)
  BY <1>4, SummaryIs
<1>6. f \in [E -> Int] /\ \A s \in E : f[s] = Latency(s)
  BY <1>2
<1> HIDE DEF f
<1>7. /\ Cardinality(E) \in Nat /\ vals \in [1 .. Cardinality(E) -> Int]
      /\ \A v \in Int : Cardinality({j \in 1 .. Cardinality(E) : vals[j] <= v})
                          = Cardinality({s \in E : f[s] <= v})
  BY <1>1, <1>6, ValuesAre
<1>8. \A v \in Int : Within(v) = Cardinality({s \in E : f[s] <= v})
  <2> SUFFICES ASSUME NEW v \in Int PROVE Within(v) = Cardinality({s \in E : f[s] <= v})
    OBVIOUS
  <2>1. {s \in E : Latency(s) <= v} = {s \in E : f[s] <= v}
    BY <1>6
  <2> QED BY <2>1 DEF Within
<1>9. PICK n \in Nat \ {0} : n = Cardinality(E)
  <2>1. IsFiniteSet(E)
    BY <1>1, SubsFinite
  <2>2. Cardinality(E) # 0
    BY <2>1, FS_EmptySet
  <2> QED BY <1>7, <2>2
<1> HIDE DEF E, vals
<1>10. /\ cp \in [1 .. n -> Int]
       /\ \A i \in 1 .. n : \A v \in Int : Within(v) \in 0 .. n /\ (cp[i] <= v <=> i <= Within(v))
  <2>1. vals \in [1 .. n -> Int] /\ n \in Nat
    BY <1>7, <1>9
  <2>2. cp \in [1 .. n -> Int]
    BY <2>1, SortedAscends
  <2>3. ASSUME NEW i \in 1 .. n, NEW v \in Int
        PROVE  Within(v) \in 0 .. n /\ (cp[i] <= v <=> i <= Within(v))
    <3>1. /\ Cardinality({j \in 1 .. n : vals[j] <= v}) \in 0 .. n
          /\ cp[i] <= v <=> i <= Cardinality({j \in 1 .. n : vals[j] <= v})
      BY <2>1, SortedRank
    <3>2. Within(v) = Cardinality({j \in 1 .. n : vals[j] <= v})
      BY <1>7, <1>8, <1>9
    <3> QED BY <3>1, <3>2
  <2> QED BY <2>2, <2>3
<1>11. \A v \in Int : Within(v) \in 0 .. n
  <2>1. 1 \in 1 .. n
    OBVIOUS
  <2> QED BY <1>10, <2>1
<1>12. /\ lat.p50 = percentile(cp, 500) /\ lat.p95 = percentile(cp, 950)
       /\ lat.p99 = percentile(cp, 990) /\ lat.p999 = percentile(cp, 999)
       /\ lat.max = IF cp = <<>> THEN 0 ELSE cp[Len(cp)]
  BY <1>5 DEF computeDistribution
<1> HIDE DEF cp, lat
<1>13. cp # <<>> /\ Len(cp) = n
  BY <1>10
<1>14. ASSUME NEW r \in 1 .. n, NEW q \in Int, 1000 * r >= q, 1000 * (r - 1) < q
       PROVE  cp[r] \in Int /\ 1000 * Within(cp[r]) >= q /\ 1000 * Within(cp[r] - 1) < q
  <2>1. PICK v \in Int : v = cp[r]
    BY <1>10
  <2>2. v - 1 \in Int /\ v <= v /\ ~(v <= v - 1)
    OBVIOUS
  <2>3. r <= Within(v) /\ ~(r <= Within(v - 1)) /\ Within(v) \in 0 .. n /\ Within(v - 1) \in 0 .. n
    BY <1>10, <2>1, <2>2
  <2>4. PICK x \in 0 .. n : x = Within(v)
    BY <2>3
  <2>5. PICK y \in 0 .. n : y = Within(v - 1)
    BY <2>3
  <2>6. 1000 * x >= q /\ 1000 * y < q
    BY <1>14, <2>3, <2>4, <2>5
  <2> QED BY <2>1, <2>4, <2>5, <2>6
<1>15. ASSUME NEW p \in {500, 950, 990, 999}
       PROVE  NearestRank(percentile(cp, p), p, n)
  <2>1. percentile(cp, p) = cp[rank(n, p)]
    BY <1>13 DEF percentile
  <2>2. rank(n, p) \in 1 .. n /\ 1000 * rank(n, p) >= p * n /\ 1000 * (rank(n, p) - 1) < p * n /\ p * n \in Int
    <3>1. CASE p = 500
      BY <3>1 DEF rank
    <3>2. CASE p = 950
      BY <3>2 DEF rank
    <3>3. CASE p = 990
      BY <3>3 DEF rank
    <3>4. CASE p = 999
      BY <3>4 DEF rank
    <3> QED BY <3>1, <3>2, <3>3, <3>4
  <2>3. PICK r \in 1 .. n : r = rank(n, p)
    BY <2>2
  <2>4. PICK q \in Int : q = p * n
    BY <2>2
  <2>5. cp[r] \in Int /\ 1000 * Within(cp[r]) >= q /\ 1000 * Within(cp[r] - 1) < q
    BY <1>14, <2>2, <2>3, <2>4
  <2> QED BY <2>1, <2>3, <2>4, <2>5 DEF NearestRank
<1>16. NearestRank(lat.max, 1000, n)
  <2>1. lat.max = cp[n] /\ n \in 1 .. n
    BY <1>12, <1>13
  <2>2. 1000 * n \in Int /\ 1000 * n >= 1000 * n /\ 1000 * (n - 1) < 1000 * n
    OBVIOUS
  <2>3. cp[n] \in Int /\ 1000 * Within(cp[n]) >= 1000 * n /\ 1000 * Within(cp[n] - 1) < 1000 * n
    BY <1>14, <2>1, <2>2
  <2> QED BY <2>1, <2>3 DEF NearestRank
<1> QED BY <1>9, <1>11, <1>12, <1>15, <1>16 DEF E, lat

\* pkg/collector/aggregate.go percentile: if nothing was dropped, every
\* latency percentile of the summary is the nearest rank, for every number of
\* subscribers and shards and every history of the run.
THEOREM PercentilesAreNearestRanks == Spec => []LatencyIsNearestRank
<1>1. ASSUME IInv PROVE LatencyIsNearestRank
  <2>1. ASSUME drops = 0, Cardinality(Ended("established")) > 0
        PROVE  LET n   == Cardinality(Ended("established"))
                   lat == Summary(aggs).latency
               IN  /\ NearestRank(lat.p50, 500, n) /\ NearestRank(lat.p95, 950, n)
                   /\ NearestRank(lat.p99, 990, n) /\ NearestRank(lat.p999, 999, n)
                   /\ NearestRank(lat.max, 1000, n)
    <3>1. Ended("established") # {}
      BY <2>1, FS_EmptySet
    <3> QED BY <1>1, <2>1, <3>1, LatencyRanks
  <2> QED BY <2>1 DEF LatencyIsNearestRank, NearestRank
<1> QED BY InvHolds, <1>1, PTL

\* apps/api handlers/results.go extractHistogram: if nothing was dropped, no
\* bucket claims more subscribers than kept its latency, and the last one
\* holds all of them.
THEOREM HistogramIsSound == Spec => []HistogramSound
<1>1. ASSUME IInv PROVE HistogramSound
  <2> DEFINE sum == Summary(aggs)
             hist == extractHistogram(sum)
  <2> SUFFICES ASSUME drops = 0, Ended("established") # {}
               PROVE  /\ \A i \in DOMAIN hist : hist[i].count <= Within(hist[i].le)
                      /\ hist[4].count = Within(hist[4].le)
    BY DEF HistogramSound
  <2>1. PICK n \in Nat \ {0} : n = Cardinality(Ended("established"))
    BY <1>1, LatencyRanks
  <2>2. sum.final.established = n
    <3>1. sum.final.established = Cardinality(ReachedIn(single, "established"))
      BY <1>1, ByStateIs
    <3>2. ReachedIn(single, "established") = Ended("established")
      BY <1>1, ExactSets DEF Finals
    <3> QED BY <2>1, <3>1, <3>2
  <2> DEFINE lat == sum.latency
  <2>3. /\ \A v \in Int : Within(v) \in 0 .. n
        /\ NearestRank(lat.p50, 500, n) /\ NearestRank(lat.p95, 950, n)
        /\ NearestRank(lat.p99, 990, n) /\ NearestRank(lat.max, 1000, n)
    BY <1>1, <2>1, LatencyRanks
  <2>4. hist = << [le |-> lat.p50, count |-> (n * 500) \div 1000], [le |-> lat.p95, count |-> (n * 950) \div 1000],
                  [le |-> lat.p99, count |-> (n * 990) \div 1000], [le |-> lat.max, count |-> (n * 1000) \div 1000]>>
    BY <2>2 DEF extractHistogram
  <2> HIDE DEF hist, lat, sum
  <2>5. ASSUME NEW p \in {500, 950, 990, 1000}, NEW v, NearestRank(v, p, n)
        PROVE  (n * p) \div 1000 <= Within(v) /\ (p = 1000 => (n * p) \div 1000 = Within(v))
    <3>1. PICK x \in 0 .. n : x = Within(v)
      BY <2>3, <2>5 DEF NearestRank
    <3>2. 1000 * x >= p * n
      BY <2>5, <3>1 DEF NearestRank
    <3>3. (n * p) \div 1000 <= x /\ (p = 1000 => (n * p) \div 1000 = x)
      BY <3>2
    <3> QED BY <3>1, <3>3
  <2>6. /\ hist[1].count <= Within(hist[1].le) /\ hist[2].count <= Within(hist[2].le)
        /\ hist[3].count <= Within(hist[3].le) /\ hist[4].count <= Within(hist[4].le)
        /\ hist[4].count = Within(hist[4].le) /\ DOMAIN hist = 1 .. 4
    <3>1. /\ (n * 500) \div 1000 <= Within(lat.p50) /\ (n * 950) \div 1000 <= Within(lat.p95)
          /\ (n * 990) \div 1000 <= Within(lat.p99) /\ (n * 1000) \div 1000 <= Within(lat.max)
          /\ (n * 1000) \div 1000 = Within(lat.max)
      BY <2>3, <2>5
    <3> QED BY <2>4, <3>1
  <2> QED BY <2>6
<1> QED BY InvHolds, <1>1, PTL
=============================================================================
