----------------------------- MODULE SumProofs -----------------------------
(***************************************************************************)
(* What adding to, updating and bounding a sum does.  Sums are defined by  *)
(* recursion on an interval or on the subsets of a set; the lemmas go      *)
(* through runs, the functions of partial sums, and exhibit the run of the *)
(* changed family.                                                         *)
(***************************************************************************)
EXTENDS Sums, FiniteSetTheorems, WellFoundedInduction, TLAPS

\* Induction over the naturals with the induction predicate given as a set.
LEMMA SetInduction ==
  ASSUME NEW S, 0 \in S, \A n \in Nat : n \in S => n + 1 \in S
  PROVE  Nat \subseteq S
<1> DEFINE Bad == Nat \ S
           Less == OpToRel(<, Nat)
<1>1. SUFFICES ASSUME Bad # {} PROVE FALSE
  OBVIOUS
<1>2. IsWellFoundedOn(Less, Nat)
  BY NatLessThanWellFounded
<1>3. PICK m \in Bad : \A y \in Bad : ~ (<<y, m>> \in Less)
  <2>1. Bad \subseteq Nat
    OBVIOUS
  <2> HIDE DEF Bad, Less
  <2> QED
    BY <1>1, <1>2, <2>1, WFMin
<1>4. m \in Nat /\ m # 0
  OBVIOUS
<1>5. m - 1 \in Nat /\ m - 1 < m
  BY <1>4
<1>6. <<m - 1, m>> \in Less
  BY <1>4, <1>5 DEF OpToRel
<1>7. m - 1 \in S
  BY <1>3, <1>5, <1>6
<1>8. (m - 1) + 1 \in S
  BY <1>5, <1>7
<1> QED
  BY <1>4, <1>8

-----------------------------------------------------------------------------
\* s lists the partial sums of f up to n.
IsRun(s, f, n) ==
  /\ s \in [0..n -> Int]
  /\ s[0] = 0
  /\ \A i \in 1..n : s[i] = s[i - 1] + f[i]

\* Two runs of the same family are the same.
LEMMA RunUnique ==
  ASSUME NEW n \in Nat, NEW f, NEW s, NEW t, IsRun(s, f, n), IsRun(t, f, n)
  PROVE  s = t
<1> DEFINE S == {i \in Nat : i <= n => s[i] = t[i]}
<1>1. 0 \in S
  BY DEF IsRun
<1>2. ASSUME NEW i \in Nat, i \in S PROVE i + 1 \in S
  <2>1. CASE i + 1 <= n
    <3>1. i + 1 \in 1..n /\ (i + 1) - 1 = i
      BY <2>1
    <3>2. s[i] = t[i]
      BY <1>2, <2>1
    <3>3. s[i + 1] = s[i] + f[i + 1] /\ t[i + 1] = t[i] + f[i + 1]
      BY <3>1 DEF IsRun
    <3> QED
      BY <3>2, <3>3
  <2>2. CASE ~ (i + 1 <= n)
    BY <2>2
  <2> QED
    BY <2>1, <2>2
<1>3. Nat \subseteq S
  <2> HIDE DEF S
  <2> QED
    BY <1>1, <1>2, SetInduction
<1>4. \A i \in 0..n : s[i] = t[i]
  BY <1>3
<1> QED
  BY <1>4 DEF IsRun

\* Every family of integers has a run.
LEMMA RunExists ==
  ASSUME NEW n \in Nat, NEW f, \A i \in 1..n : f[i] \in Int
  PROVE  \E s : IsRun(s, f, n)
<1> DEFINE S == {k \in Nat : k <= n => \E s : IsRun(s, f, k)}
<1>1. 0 \in S
  <2>1. IsRun([i \in 0..0 |-> 0], f, 0)
    BY DEF IsRun
  <2> QED
    BY <2>1
<1>2. ASSUME NEW k \in Nat, k \in S PROVE k + 1 \in S
  <2>1. CASE k + 1 <= n
    <3>1. PICK s : IsRun(s, f, k)
      BY <1>2, <2>1
    <3>2. f[k + 1] \in Int
      BY <2>1
    <3> DEFINE t == [i \in 0..(k + 1) |-> IF i = k + 1 THEN s[k] + f[k + 1] ELSE s[i]]
    <3>3. \A i \in 0..k : s[i] \in Int
      BY <3>1 DEF IsRun
    <3>4. t \in [0..(k + 1) -> Int]
      BY <3>2, <3>3
    <3>5. t[0] = 0
      BY <3>1 DEF IsRun
    <3>6. \A i \in 1..(k + 1) : t[i] = t[i - 1] + f[i]
      <4>1. TAKE i \in 1..(k + 1)
      <4>2. i - 1 \in 0..k /\ i - 1 # k + 1
        OBVIOUS
      <4>3. CASE i = k + 1
        BY <4>2, <4>3
      <4>4. CASE i # k + 1
        BY <4>2, <4>4, <3>1 DEF IsRun
      <4> QED
        BY <4>3, <4>4
    <3>7. IsRun(t, f, k + 1)
      BY <3>4, <3>5, <3>6 DEF IsRun
    <3> QED
      BY <3>7
  <2>2. CASE ~ (k + 1 <= n)
    BY <2>2
  <2> QED
    BY <2>1, <2>2
<1>3. Nat \subseteq S
  <2> HIDE DEF S
  <2> QED
    BY <1>1, <1>2, SetInduction
<1> QED
  BY <1>3

\* The recursive definition computes the last partial sum of any run.
LEMMA SumIsRun ==
  ASSUME NEW n \in Nat, NEW f, NEW s, IsRun(s, f, n)
  PROVE  SumTo(f, n) = s[n]
<1> DEFINE Rec(g) == g = [i \in 0..n |-> IF i = 0 THEN 0 ELSE g[i - 1] + f[i]]
           total == CHOOSE g : Rec(g)
<1>1. Rec(s)
  <2>1. \A i \in 0..n : s[i] = IF i = 0 THEN 0 ELSE s[i - 1] + f[i]
    BY DEF IsRun
  <2> QED
    BY <2>1 DEF IsRun
<1>2. Rec(total)
  BY <1>1
<1>3. \A i \in 0..n : total[i] = IF i = 0 THEN 0 ELSE total[i - 1] + f[i]
  <2> HIDE DEF total
  <2> QED
    BY <1>2
<1> DEFINE S == {i \in Nat : i <= n => total[i] = s[i]}
<1>4. 0 \in S
  BY <1>3 DEF IsRun
<1>5. ASSUME NEW i \in Nat, i \in S PROVE i + 1 \in S
  <2> HIDE DEF total
  <2>1. CASE i + 1 <= n
    <3>1. i + 1 \in 1..n /\ (i + 1) - 1 = i /\ i + 1 # 0
      BY <2>1
    <3>2. total[i] = s[i]
      BY <1>5, <2>1
    <3>3. total[i + 1] = total[i] + f[i + 1] /\ s[i + 1] = s[i] + f[i + 1]
      BY <1>3, <3>1 DEF IsRun
    <3> QED
      BY <3>2, <3>3
  <2>2. CASE ~ (i + 1 <= n)
    BY <2>2
  <2> QED
    BY <2>1, <2>2
<1>6. Nat \subseteq S
  <2> HIDE DEF S
  <2> QED
    BY <1>4, <1>5, SetInduction
<1>7. total[n] = s[n]
  <2> HIDE DEF total
  <2> QED
    BY <1>6
<1>8. SumTo(f, n) = total[n]
  BY DEF SumTo
<1> QED
  BY <1>7, <1>8

-----------------------------------------------------------------------------
\* A sum of integers is an integer, and of naturals a natural.
LEMMA SumType ==
  ASSUME NEW n \in Nat, NEW f, \A i \in 1..n : f[i] \in Int
  PROVE  SumTo(f, n) \in Int
<1>1. PICK s : IsRun(s, f, n)
  BY RunExists
<1>2. SumTo(f, n) = s[n]
  BY <1>1, SumIsRun
<1> QED
  BY <1>1, <1>2 DEF IsRun

LEMMA SumEmpty ==
  ASSUME NEW f
  PROVE  SumTo(f, 0) = 0
<1>1. IsRun([i \in 0..0 |-> 0], f, 0)
  BY DEF IsRun
<1> QED
  BY <1>1, SumIsRun

LEMMA SumNat ==
  ASSUME NEW n \in Nat, NEW f, \A i \in 1..n : f[i] \in Nat
  PROVE  SumTo(f, n) \in Nat
<1>1. PICK s : IsRun(s, f, n)
  BY RunExists
<1>2. SumTo(f, n) = s[n]
  BY <1>1, SumIsRun
<1> DEFINE S == {i \in Nat : i <= n => s[i] \in Nat}
<1>3. 0 \in S
  BY <1>1 DEF IsRun
<1>4. ASSUME NEW i \in Nat, i \in S PROVE i + 1 \in S
  <2>1. CASE i + 1 <= n
    <3>1. i + 1 \in 1..n /\ (i + 1) - 1 = i
      BY <2>1
    <3>2. s[i + 1] = s[i] + f[i + 1]
      BY <1>1, <3>1 DEF IsRun
    <3> QED
      BY <1>4, <2>1, <3>1, <3>2
  <2>2. CASE ~ (i + 1 <= n)
    BY <2>2
  <2> QED
    BY <2>1, <2>2
<1>5. Nat \subseteq S
  <2> HIDE DEF S
  <2> QED
    BY <1>3, <1>4, SetInduction
<1> QED
  BY <1>2, <1>5

\* One more term.
LEMMA SumAppend ==
  ASSUME NEW n \in Nat, NEW f, NEW g,
         \A i \in 1..n : f[i] \in Int /\ g[i] = f[i],
         g[n + 1] \in Int
  PROVE  SumTo(g, n + 1) = SumTo(f, n) + g[n + 1]
<1>1. PICK s : IsRun(s, f, n)
  BY RunExists
<1> DEFINE t == [i \in 0..(n + 1) |-> IF i = n + 1 THEN s[n] + g[n + 1] ELSE s[i]]
<1>2. \A i \in 0..n : s[i] \in Int
  BY <1>1 DEF IsRun
<1>3. t \in [0..(n + 1) -> Int]
  BY <1>2
<1>4. t[0] = 0
  BY <1>1 DEF IsRun
<1>5. \A i \in 1..(n + 1) : t[i] = t[i - 1] + g[i]
  <2>1. TAKE i \in 1..(n + 1)
  <2>2. i - 1 \in 0..n /\ i - 1 # n + 1
    OBVIOUS
  <2>3. CASE i = n + 1
    BY <2>2, <2>3
  <2>4. CASE i # n + 1
    BY <2>2, <2>4, <1>1 DEF IsRun
  <2> QED
    BY <2>3, <2>4
<1>6. IsRun(t, g, n + 1)
  BY <1>3, <1>4, <1>5 DEF IsRun
<1>7. SumTo(g, n + 1) = t[n + 1]
  BY <1>6, SumIsRun
<1>8. SumTo(f, n) = s[n]
  BY <1>1, SumIsRun
<1> QED
  BY <1>7, <1>8

\* One term replaced.
LEMMA SumUpdate ==
  ASSUME NEW n \in Nat, NEW k \in 1..n, NEW f, NEW g,
         \A i \in 1..n : f[i] \in Int /\ g[i] \in Int,
         \A i \in 1..n : i # k => g[i] = f[i]
  PROVE  SumTo(g, n) = SumTo(f, n) - f[k] + g[k]
<1>1. PICK s : IsRun(s, f, n)
  BY RunExists
<1> DEFINE t == [i \in 0..n |-> IF i < k THEN s[i] ELSE s[i] - f[k] + g[k]]
<1>2. \A i \in 0..n : s[i] \in Int
  BY <1>1 DEF IsRun
<1>3. t \in [0..n -> Int]
  BY <1>2
<1>4. t[0] = 0
  BY <1>1 DEF IsRun
<1>5. \A i \in 1..n : t[i] = t[i - 1] + g[i]
  <2>1. TAKE i \in 1..n
  <2>2. i - 1 \in 0..n /\ s[i] = s[i - 1] + f[i]
    BY <1>1 DEF IsRun
  <2>3. s[i] \in Int /\ s[i - 1] \in Int /\ f[i] \in Int /\ g[i] \in Int
    BY <1>2, <2>2
  <2>4. CASE i < k
    BY <2>2, <2>3, <2>4
  <2>5. CASE i = k
    BY <2>2, <2>3, <2>5
  <2>6. CASE i > k
    BY <2>2, <2>3, <2>6
  <2> QED
    BY <2>4, <2>5, <2>6
<1>6. IsRun(t, g, n)
  BY <1>3, <1>4, <1>5 DEF IsRun
<1>7. SumTo(g, n) = t[n] /\ SumTo(f, n) = s[n]
  BY <1>1, <1>6, SumIsRun
<1> QED
  BY <1>2, <1>7

\* The sum only looks at the terms.
LEMMA SumSame ==
  ASSUME NEW n \in Nat, NEW f, NEW g,
         \A i \in 1..n : f[i] \in Int /\ g[i] = f[i]
  PROVE  SumTo(g, n) = SumTo(f, n)
<1>1. PICK s : IsRun(s, f, n)
  BY RunExists
<1>2. IsRun(s, g, n)
  BY <1>1 DEF IsRun
<1> QED
  BY <1>1, <1>2, SumIsRun

\* No term exceeds a sum of naturals.
LEMMA SumBoundsTerm ==
  ASSUME NEW n \in Nat, NEW k \in 1..n, NEW f, \A i \in 1..n : f[i] \in Nat
  PROVE  f[k] <= SumTo(f, n)
<1> DEFINE g == [i \in 1..n |-> IF i = k THEN 0 ELSE f[i]]
<1>1. SumTo(g, n) \in Nat
  BY SumNat
<1>2. SumTo(g, n) = SumTo(f, n) - f[k] + g[k]
  BY SumUpdate
<1>3. SumTo(f, n) \in Int /\ g[k] = 0 /\ f[k] \in Nat
  BY SumType
<1> QED
  BY <1>1, <1>2, <1>3

-----------------------------------------------------------------------------
(* Sums over finite sets.                                                  *)

\* g gives the sum of f over every subset of S, whatever element is last.
IsSetRun(g, f, S) ==
  /\ g \in [SUBSET S -> Int]
  /\ g[{}] = 0
  /\ \A T \in SUBSET S : \A x \in T : g[T] = g[T \ {x}] + f[x]

\* Every finite family of integers has a run.
LEMMA SetRunExists ==
  ASSUME NEW S, IsFiniteSet(S), NEW f, \A x \in S : f[x] \in Int
  PROVE  \E g : IsSetRun(g, f, S)
<1> DEFINE N == {n \in Nat : \A R \in SUBSET S : Cardinality(R) = n => \E g : IsSetRun(g, f, R)}
<1>1. \A R \in SUBSET S : IsFiniteSet(R) /\ Cardinality(R) \in Nat
  BY FS_Subset, FS_CardinalityType
<1>2. 0 \in N
  <2>1. ASSUME NEW R \in SUBSET S, Cardinality(R) = 0 PROVE \E g : IsSetRun(g, f, R)
    <3>1. R = {}
      BY <1>1, <2>1, FS_EmptySet
    <3>2. IsSetRun([T \in SUBSET R |-> 0], f, R)
      BY <3>1 DEF IsSetRun
    <3> QED
      BY <3>2
  <2> QED
    BY <2>1
<1>3. ASSUME NEW n \in Nat, n \in N PROVE n + 1 \in N
  <2>1. ASSUME NEW R \in SUBSET S, Cardinality(R) = n + 1 PROVE \E g : IsSetRun(g, f, R)
    <3>1. PICK x : x \in R
      <4>1. R # {}
        BY <2>1, FS_EmptySet
      <4> QED
        BY <4>1
    <3> DEFINE Q == R \ {x}
    <3>2. Cardinality(Q) = n
      <4>1. IsFiniteSet(R)
        BY <1>1
      <4>2. Cardinality(R \ {x}) = Cardinality(R) - 1
        BY <3>1, <4>1, FS_RemoveElement
      <4> QED
        BY <2>1, <4>2
    <3>3. PICK g : IsSetRun(g, f, Q)
      BY <1>3, <3>2
    <3>4. f[x] \in Int
      BY <3>1
    <3> DEFINE h == [T \in SUBSET R |-> IF x \in T THEN g[T \ {x}] + f[x] ELSE g[T]]
    <3>5. \A T \in SUBSET Q : g[T] \in Int
      BY <3>3 DEF IsSetRun
    <3>6. \A T \in SUBSET R : T \ {x} \in SUBSET Q /\ (x \notin T => T \in SUBSET Q)
      OBVIOUS
    <3>7. h \in [SUBSET R -> Int]
      BY <3>4, <3>5, <3>6
    <3>8. h[{}] = 0
      BY <3>3 DEF IsSetRun
    <3>9. ASSUME NEW T \in SUBSET R, NEW y \in T PROVE h[T] = h[T \ {y}] + f[y]
      <4>1. T \ {y} \in SUBSET R
        OBVIOUS
      <4>2. CASE y = x
        BY <4>1, <4>2
      <4>3. CASE y # x /\ x \notin T
        <5>1. T \in SUBSET Q
          BY <4>3
        <5>2. g[T] = g[T \ {y}] + f[y]
          BY <3>3, <5>1 DEF IsSetRun
        <5> QED
          BY <4>1, <4>3, <5>2
      <4>4. CASE y # x /\ x \in T
        <5> DEFINE P == T \ {x}
        <5>1. P \in SUBSET Q /\ y \in P
          BY <4>4
        <5>2. g[P] = g[P \ {y}] + f[y]
          BY <3>3, <5>1 DEF IsSetRun
        <5>3. (T \ {y}) \ {x} = P \ {y}
          OBVIOUS
        <5>4. P \ {y} \in SUBSET Q
          BY <5>1
        <5>5. g[P \ {y}] \in Int /\ f[y] \in Int
          BY <3>5, <5>4
        <5>6. h[T] = g[P] + f[x]
          BY <4>4
        <5>7. h[T \ {y}] = g[P \ {y}] + f[x]
          BY <4>1, <4>4, <5>3
        <5> HIDE DEF P, h
        <5> QED
          BY <3>4, <5>2, <5>5, <5>6, <5>7
      <4> QED
        BY <4>2, <4>3, <4>4
    <3>10. IsSetRun(h, f, R)
      <4> HIDE DEF h
      <4> QED
        BY <3>7, <3>8, <3>9 DEF IsSetRun
    <3> QED
      BY <3>10
  <2> QED
    BY <2>1
<1>4. Nat \subseteq N
  <2> HIDE DEF N
  <2> QED
    BY <1>2, <1>3, SetInduction
<1>5. Cardinality(S) \in N
  BY <1>1, <1>4
<1> QED
  BY <1>5

\* The recursive definition computes the run at its set.
LEMMA SumOverIsRun ==
  ASSUME NEW S, IsFiniteSet(S), NEW f, NEW g, IsSetRun(g, f, S)
  PROVE  SumOver(f, S) = g[S]
<1> DEFINE Last(T) == CHOOSE x \in T : TRUE
           Rec(h) == h = [T \in SUBSET S |->
             IF T = {} THEN 0 ELSE h[T \ {Last(T)}] + f[Last(T)]]
           total == CHOOSE h : Rec(h)
<1>1. \A T \in SUBSET S : T # {} => Last(T) \in T
  OBVIOUS
<1>2. Rec(g)
  <2>1. \A T \in SUBSET S : g[T] = IF T = {} THEN 0 ELSE g[T \ {Last(T)}] + f[Last(T)]
    <3> HIDE DEF Last
    <3> QED
      BY <1>1 DEF IsSetRun
  <2> HIDE DEF Last
  <2> QED
    BY <2>1 DEF IsSetRun
<1>3. Rec(total)
  BY <1>2
<1>4. \A T \in SUBSET S :
        total[T] = IF T = {} THEN 0 ELSE total[T \ {Last(T)}] + f[Last(T)]
  <2> HIDE DEF total, Last
  <2> QED
    BY <1>3
<1>5. SumOver(f, S) = total[S]
  BY DEF SumOver
<1> HIDE DEF total, Last
<1> DEFINE N == {n \in Nat : \A T \in SUBSET S : Cardinality(T) = n => total[T] = g[T]}
<1>6. \A T \in SUBSET S : IsFiniteSet(T) /\ Cardinality(T) \in Nat
  BY FS_Subset, FS_CardinalityType
<1>7. 0 \in N
  <2>1. ASSUME NEW T \in SUBSET S, Cardinality(T) = 0 PROVE total[T] = g[T]
    <3>1. T = {}
      BY <1>6, <2>1, FS_EmptySet
    <3> QED
      BY <1>4, <3>1 DEF IsSetRun
  <2> QED
    BY <2>1
<1>8. ASSUME NEW n \in Nat, n \in N PROVE n + 1 \in N
  <2>1. ASSUME NEW T \in SUBSET S, Cardinality(T) = n + 1 PROVE total[T] = g[T]
    <3>1. T # {} /\ Last(T) \in T
      <4>1. T # {}
        BY <2>1, FS_EmptySet
      <4> QED
        BY <1>1, <4>1
    <3>2. T \ {Last(T)} \in SUBSET S /\ Cardinality(T \ {Last(T)}) = n
      <4>1. IsFiniteSet(T)
        BY <1>6
      <4>2. Cardinality(T \ {Last(T)}) = Cardinality(T) - 1
        BY <3>1, <4>1, FS_RemoveElement
      <4> QED
        BY <2>1, <4>2
    <3>3. total[T \ {Last(T)}] = g[T \ {Last(T)}]
      BY <1>8, <3>2
    <3>4. total[T] = total[T \ {Last(T)}] + f[Last(T)]
      BY <1>4, <3>1
    <3>5. g[T] = g[T \ {Last(T)}] + f[Last(T)]
      BY <3>1 DEF IsSetRun
    <3> QED
      BY <3>3, <3>4, <3>5
  <2> QED
    BY <2>1
<1>9. Nat \subseteq N
  <2> HIDE DEF N
  <2> QED
    BY <1>7, <1>8, SetInduction
<1>10. Cardinality(S) \in N
  BY <1>6, <1>9
<1>11. total[S] = g[S]
  BY <1>10
<1> QED
  BY <1>5, <1>11

\* A run gives the sum over every subset.
LEMMA SumOverSubset ==
  ASSUME NEW S, IsFiniteSet(S), NEW f, NEW g, IsSetRun(g, f, S), NEW R \in SUBSET S
  PROVE  SumOver(f, R) = g[R]
<1> DEFINE h == [T \in SUBSET R |-> g[T]]
<1>1. IsFiniteSet(R)
  BY FS_Subset
<1>2. \A T \in SUBSET R : T \in SUBSET S /\ h[T] = g[T]
  OBVIOUS
<1>3. h \in [SUBSET R -> Int] /\ h[{}] = 0
  BY <1>2 DEF IsSetRun
<1>4. ASSUME NEW T \in SUBSET R, NEW x \in T PROVE h[T] = h[T \ {x}] + f[x]
  <2>1. T \ {x} \in SUBSET R
    OBVIOUS
  <2>2. g[T] = g[T \ {x}] + f[x]
    BY <1>2 DEF IsSetRun
  <2> QED
    BY <1>2, <2>1, <2>2
<1>5. IsSetRun(h, f, R)
  <2> HIDE DEF h
  <2> QED
    BY <1>3, <1>4 DEF IsSetRun
<1>6. SumOver(f, R) = h[R]
  <2> HIDE DEF h
  <2> QED
    BY <1>1, <1>5, SumOverIsRun
<1> QED
  BY <1>2, <1>6

LEMMA SumOverType ==
  ASSUME NEW S, IsFiniteSet(S), NEW f, \A x \in S : f[x] \in Int
  PROVE  SumOver(f, S) \in Int
<1>1. PICK g : IsSetRun(g, f, S)
  BY SetRunExists
<1>2. SumOver(f, S) = g[S]
  BY <1>1, SumOverIsRun
<1> QED
  BY <1>1, <1>2 DEF IsSetRun

LEMMA SumOverEmpty == ASSUME NEW f PROVE SumOver(f, {}) = 0
<1>1. IsFiniteSet({})
  BY FS_EmptySet
<1>2. PICK g : IsSetRun(g, f, {})
  <2>1. \A x \in {} : f[x] \in Int
    OBVIOUS
  <2> HIDE <2>1
  <2> QED
    BY <1>1, <2>1, SetRunExists
<1>3. SumOver(f, {}) = g[{}]
  BY <1>1, <1>2, SumOverIsRun
<1> QED
  BY <1>2, <1>3 DEF IsSetRun

\* One element more.
LEMMA SumOverInsert ==
  ASSUME NEW S, IsFiniteSet(S), NEW f, \A y \in S : f[y] \in Int,
         NEW x, x \notin S, f[x] \in Int
  PROVE  SumOver(f, S \cup {x}) = SumOver(f, S) + f[x]
<1> DEFINE R == S \cup {x}
<1>1. IsFiniteSet(R)
  BY FS_AddElement
<1>2. \A y \in R : f[y] \in Int
  OBVIOUS
<1> HIDE DEF R
<1>3. PICK g : IsSetRun(g, f, R)
  BY <1>1, <1>2, SetRunExists
<1>4. x \in R /\ S \in SUBSET R /\ R \ {x} = S /\ R \in SUBSET R
  BY DEF R
<1>5. SumOver(f, R) = g[R] /\ SumOver(f, S) = g[S]
  BY <1>1, <1>3, <1>4, SumOverSubset
<1>6. g[R] = g[S] + f[x]
  BY <1>3, <1>4 DEF IsSetRun
<1> QED
  BY <1>5, <1>6 DEF R

\* Only the values on the set count.
LEMMA SumOverSame ==
  ASSUME NEW S, IsFiniteSet(S), NEW f, NEW h,
         \A y \in S : f[y] \in Int, \A y \in S : h[y] = f[y]
  PROVE  SumOver(h, S) = SumOver(f, S)
<1>1. PICK g : IsSetRun(g, f, S)
  BY SetRunExists
<1>2. IsSetRun(g, h, S)
  BY <1>1 DEF IsSetRun
<1> QED
  BY <1>1, <1>2, SumOverIsRun

\* The sum of a family of which one value changes.
LEMMA SumOverUpdate ==
  ASSUME NEW S, IsFiniteSet(S), NEW f, NEW h, NEW x \in S,
         \A y \in S : f[y] \in Int, h[x] \in Int,
         \A y \in S \ {x} : h[y] = f[y]
  PROVE  SumOver(h, S) = SumOver(f, S) - f[x] + h[x]
<1> DEFINE R == S \ {x}
<1>1. IsFiniteSet(R) /\ x \notin R /\ R \cup {x} = S
  BY FS_RemoveElement
<1>2. /\ \A y \in R : f[y] \in Int /\ h[y] \in Int /\ h[y] = f[y]
      /\ f[x] \in Int
  OBVIOUS
<1> HIDE DEF R
<1>3. SumOver(f, S) = SumOver(f, R) + f[x] /\ SumOver(h, S) = SumOver(h, R) + h[x]
  <2>1. SumOver(f, R \cup {x}) = SumOver(f, R) + f[x]
    BY <1>1, <1>2, SumOverInsert
  <2>2. SumOver(h, R \cup {x}) = SumOver(h, R) + h[x]
    BY <1>1, <1>2, SumOverInsert
  <2> QED
    BY <1>1, <2>1, <2>2
<1>4. SumOver(h, R) = SumOver(f, R) /\ SumOver(f, R) \in Int
  BY <1>1, <1>2, SumOverSame, SumOverType
<1> QED
  BY <1>2, <1>3, <1>4

\* A sum of naturals is a natural, and at least each of its terms.
LEMMA SumOverNat ==
  ASSUME NEW S, IsFiniteSet(S), NEW f, \A y \in S : f[y] \in Nat
  PROVE  /\ SumOver(f, S) \in Nat
         /\ \A x \in S : f[x] <= SumOver(f, S)
<1> DEFINE N == {n \in Nat : \A R \in SUBSET S : Cardinality(R) = n => SumOver(f, R) \in Nat}
<1>1. \A R \in SUBSET S : IsFiniteSet(R) /\ Cardinality(R) \in Nat
  BY FS_Subset, FS_CardinalityType
<1>2. 0 \in N
  <2>1. ASSUME NEW R \in SUBSET S, Cardinality(R) = 0 PROVE SumOver(f, R) \in Nat
    <3>1. R = {}
      BY <1>1, <2>1, FS_EmptySet
    <3> QED
      BY <3>1, SumOverEmpty
  <2> QED
    BY <2>1
<1>3. ASSUME NEW R \in SUBSET S, NEW x \in R
      PROVE  /\ SumOver(f, R) = SumOver(f, R \ {x}) + f[x]
             /\ Cardinality(R \ {x}) = Cardinality(R) - 1
  <2> DEFINE Q == R \ {x}
  <2>1. IsFiniteSet(Q) /\ x \notin Q /\ Q \cup {x} = R
        /\ Cardinality(Q) = Cardinality(R) - 1
    BY <1>1, FS_RemoveElement
  <2>2. (\A y \in Q : f[y] \in Int) /\ f[x] \in Int
    OBVIOUS
  <2> HIDE DEF Q
  <2>3. SumOver(f, Q \cup {x}) = SumOver(f, Q) + f[x]
    BY <2>1, <2>2, SumOverInsert
  <2> QED
    BY <2>1, <2>3 DEF Q
<1>4. ASSUME NEW n \in Nat, n \in N PROVE n + 1 \in N
  <2>1. ASSUME NEW R \in SUBSET S, Cardinality(R) = n + 1 PROVE SumOver(f, R) \in Nat
    <3>1. PICK x : x \in R
      <4>1. R # {}
        BY <2>1, FS_EmptySet
      <4> QED
        BY <4>1
    <3>2. SumOver(f, R) = SumOver(f, R \ {x}) + f[x] /\ Cardinality(R \ {x}) = n
      BY <1>3, <2>1, <3>1
    <3>3. R \ {x} \in SUBSET S /\ f[x] \in Nat
      BY <3>1
    <3>4. SumOver(f, R \ {x}) \in Nat
      BY <1>4, <3>2, <3>3
    <3> QED
      BY <3>2, <3>3, <3>4
  <2> QED
    BY <2>1
<1>5. Nat \subseteq N
  <2> HIDE DEF N
  <2> QED
    BY <1>2, <1>4, SetInduction
<1>6. \A R \in SUBSET S : SumOver(f, R) \in Nat
  <2>1. ASSUME NEW R \in SUBSET S PROVE SumOver(f, R) \in Nat
    <3>1. Cardinality(R) \in N
      BY <1>1, <1>5
    <3> QED
      BY <3>1
  <2> QED
    BY <2>1
<1>7. ASSUME NEW x \in S PROVE f[x] <= SumOver(f, S)
  <2>1. SumOver(f, S) = SumOver(f, S \ {x}) + f[x]
    BY <1>3
  <2>2. SumOver(f, S \ {x}) \in Nat
    BY <1>6
  <2> QED
    BY <2>1, <2>2
<1> QED
  BY <1>6, <1>7

LEMMA SumOverZero ==
  ASSUME NEW S, IsFiniteSet(S), NEW f, \A y \in S : f[y] = 0
  PROVE  SumOver(f, S) = 0
<1> DEFINE g == [T \in SUBSET S |-> 0]
<1>1. IsSetRun(g, f, S)
  BY DEF IsSetRun
<1>2. g[S] = 0
  OBVIOUS
<1> HIDE DEF g
<1> QED
  BY <1>1, <1>2, SumOverIsRun
=============================================================================
