---------------------------- MODULE SetInduction ----------------------------
(* Induction on natural numbers stated for sets instead of predicates: the    *)
(* induction rules of the library take an operator, which none of the         *)
(* provers instantiates. From it: functions defined by recursion exist, and   *)
(* what is needed of remainders.                                              *)
EXTENDS Integers, WellFoundedInduction, TLAPS

\* Every set of natural numbers that is not empty has a least element.
LEMMA Least ==
  ASSUME NEW T, T \subseteq Nat, T # {}
  PROVE  \E n \in T : \A k \in T : n <= k
<1>1. IsWellFoundedOn(OpToRel(<, Nat), Nat)
  BY NatLessThanWellFounded
<1>2. PICK n \in T : \A k \in T : ~ (<<k, n>> \in OpToRel(<, Nat))
  BY <1>1, WFMin
<1>3. \A k \in T : ~ (k < n)
  <2> SUFFICES ASSUME NEW k \in T, k < n PROVE FALSE
    OBVIOUS
  <2>1. <<k, n>> \in Nat \X Nat /\ <<k, n>>[1] = k /\ <<k, n>>[2] = n
    OBVIOUS
  <2>2. <<k, n>> \in OpToRel(<, Nat)
    BY <2>1 DEF OpToRel
  <2> QED
    BY <1>2, <2>2
<1> QED
  BY <1>3

\* A set with zero and with the successor of each of its members, up to N, holds
\* all numbers up to N.
LEMMA UpTo ==
  ASSUME NEW N \in Nat, NEW S, 0 \in S,
         \A n \in 0..N : n \in S /\ n < N => n + 1 \in S
  PROVE  0..N \subseteq S
<1> SUFFICES ASSUME (0..N) \ S # {} PROVE FALSE
  OBVIOUS
<1> DEFINE T == (0..N) \ S
<1>0. T \subseteq Nat /\ T # {}
  OBVIOUS
<1> HIDE DEF T
<1>1. PICK n \in T : \A k \in T : n <= k
  BY <1>0, Least
<1> USE DEF T
<1>2. n # 0 /\ n - 1 \in 0..N /\ n - 1 < N
  BY <1>1
<1>3. n - 1 \in S
  BY <1>1, <1>2
<1>4. n - 1 + 1 \in S
  BY <1>2, <1>3
<1> QED
  BY <1>1, <1>2, <1>4

\* If f is in the set Q[n] at zero, and at each number when it was at the one before,
\* then it is at every number.
LEMMA Stays ==
  ASSUME NEW N \in Nat, NEW f, NEW Q, f[0] \in Q[0],
         \A n \in 1..N : f[n-1] \in Q[n-1] => f[n] \in Q[n]
  PROVE  \A n \in 0..N : f[n] \in Q[n]
<1> DEFINE S == {n \in Nat : f[n] \in Q[n]}
<1>1. 0 \in S
  OBVIOUS
<1>2. ASSUME NEW n \in 0..N, n \in S, n < N PROVE n + 1 \in S
  <2>1. n + 1 \in 1..N /\ n + 1 - 1 = n
    BY <1>2
  <2> QED
    BY <1>2, <2>1
<1> HIDE DEF S
<1>3. 0..N \subseteq S
  BY <1>1, <1>2, UpTo
<1> QED
  BY <1>3 DEF S

\* f starts with b and takes the step next[n] from each number n - 1 up to m.
Steps(f, b, next, m) ==
  /\ f = [n \in 0..m |-> f[n]]
  /\ f[0] = b
  /\ \A n \in 1..m : f[n] = next[n][f[n-1]]

\* A function may be defined by what it is at zero and by the step from each number
\* to the next.
LEMMA Iteration ==
  ASSUME NEW N \in Nat, NEW b, NEW next
  PROVE  \E f : Steps(f, b, next, N)
<1> DEFINE S == {m \in Nat : \E f : Steps(f, b, next, m)}
<1>1. 0 \in S
  <2>1. Steps([n \in 0..0 |-> b], b, next, 0)
    BY DEF Steps
  <2> QED
    BY <2>1
<1>2. ASSUME NEW m \in 0..N, m \in S PROVE m + 1 \in S
  <2>1. PICK f : Steps(f, b, next, m)
    BY <1>2
  <2> DEFINE g == [n \in 0..(m+1) |-> IF n = m + 1 THEN next[n][f[m]] ELSE f[n]]
  <2>2. /\ g[m+1] = next[m+1][f[m]]
        /\ \A n \in 0..m : g[n] = f[n]
    OBVIOUS
  <2>3. g = [n \in 0..(m+1) |-> g[n]]
    OBVIOUS
  <2>4. f[0] = b /\ \A n \in 1..m : f[n] = next[n][f[n-1]]
    BY <2>1 DEF Steps
  <2> HIDE DEF g
  <2>5. ASSUME NEW n \in 1..(m+1) PROVE g[n] = next[n][g[n-1]]
    <3>1. n - 1 \in 0..m /\ (n = m + 1 \/ n \in 1..m)
      OBVIOUS
    <3>2. CASE n = m + 1
      <4>1. n - 1 = m
        BY <3>2
      <4> QED
        BY <2>2, <3>1, <3>2, <4>1
    <3>3. CASE n \in 1..m
      <4>1. g[n] = f[n] /\ g[n-1] = f[n-1]
        BY <2>2, <3>1, <3>3
      <4>2. f[n] = next[n][f[n-1]]
        BY <2>4, <3>3
      <4> QED
        BY <4>1, <4>2
    <3> QED
      BY <3>1, <3>2, <3>3
  <2>6. Steps(g, b, next, m + 1)
    <3>1. g[0] = b
      BY <2>2, <2>4
    <3> QED
      BY <2>5, <2>3, <3>1, Zenon DEF Steps
  <2>7. m + 1 \in Nat
    OBVIOUS
  <2> QED
    BY <2>6, <2>7
<1> HIDE DEF S
<1>3. N \in S
  BY <1>1, <1>2, UpTo
<1> QED
  BY <1>3 DEF S

-----------------------------------------------------------------------------
(* Remainders.                                                               *)

LEMMA NextMultiple ==
  ASSUME NEW N \in Nat \ {0}, NEW q \in Nat
  PROVE  N * (q + 1) = N * q + N /\ N * q \in Nat
  OBVIOUS

LEMMA RemainderIs ==
  ASSUME NEW N \in Nat \ {0}, NEW q \in Nat, NEW r \in 0..(N-1)
  PROVE  (N * q + r) % N = r
  OBVIOUS

LEMMA Quotient ==
  ASSUME NEW N \in Nat \ {0}, NEW a \in Nat
  PROVE  \E q \in Nat : \E r \in 0..(N-1) : a = N * q + r
<1> DEFINE S == {b \in Nat : \E q \in Nat : \E r \in 0..(N-1) : b = N * q + r}
<1>1. 0 \in S
  <2>1. 0 = N * 0 + 0 /\ 0 \in 0..(N-1)
    OBVIOUS
  <2> QED
    BY <2>1
<1>2. ASSUME NEW b \in 0..a, b \in S PROVE b + 1 \in S
  <2>1. PICK q \in Nat, r \in 0..(N-1) : b = N * q + r
    BY <1>2
  <2>2. N * (q + 1) = N * q + N /\ N * q \in Nat
    BY NextMultiple
  <2>3. CASE r + 1 < N
    <3>1. r + 1 \in 0..(N-1) /\ b + 1 = N * q + (r + 1)
      BY <2>1, <2>2, <2>3
    <3> QED
      BY <3>1
  <2>4. CASE ~(r + 1 < N)
    <3>1. PICK p \in Nat : p = q + 1
      OBVIOUS
    <3>2. b + 1 = N * p + 0 /\ 0 \in 0..(N-1)
      BY <2>1, <2>2, <2>4, <3>1
    <3> QED
      BY <3>2
  <2> QED
    BY <2>3, <2>4
<1> HIDE DEF S
<1>3. a \in S
  BY <1>1, <1>2, UpTo
<1> QED
  BY <1>3 DEF S

\* Counting on by less than N from a position wraps around at most once.
LEMMA WrapAround ==
  ASSUME NEW N \in Nat \ {0}, NEW a \in Nat, NEW d \in 0..(N-1)
  PROVE  /\ a % N \in 0..(N-1)
         /\ (a + d) % N = IF (a % N) + d < N THEN (a % N) + d ELSE (a % N) + d - N
<1>1. PICK q \in Nat, r \in 0..(N-1) : a = N * q + r
  BY Quotient
<1>2. a % N = r
  BY <1>1, RemainderIs
<1>3. CASE r + d < N
  <2>1. r + d \in 0..(N-1) /\ a + d = N * q + (r + d)
    BY <1>1, <1>3, NextMultiple
  <2>2. (N * q + (r + d)) % N = r + d
    BY <2>1, RemainderIs
  <2> QED
    BY <1>2, <1>3, <2>1, <2>2
<1>4. CASE ~(r + d < N)
  <2>1. r + d - N \in 0..(N-1) /\ q + 1 \in Nat
    BY <1>4
  <2>2. (N * (q + 1) + (r + d - N)) % N = r + d - N
    BY <2>1, RemainderIs
  <2>3. N * (q + 1) + (r + d - N) = a + d
    BY <1>1, NextMultiple
  <2> QED
    BY <1>2, <1>4, <2>1, <2>2, <2>3
<1> QED
  BY <1>3, <1>4
=============================================================================
