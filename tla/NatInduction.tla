---------------------------- MODULE NatInduction ----------------------------
(***************************************************************************)
(* The least element of a set of naturals, and induction on membership of  *)
(* one.  The library's induction theorems take a predicate; a set is a     *)
(* value the provers can instantiate.                                      *)
(***************************************************************************)
EXTENDS Integers, WellFoundedInduction, TLAPS

\* Every nonempty set of naturals has a least element.
LEMMA LeastNat ==
    ASSUME NEW T \in SUBSET Nat, T # {}
    PROVE  \E m \in T : \A k \in T : m <= k
<1>1. PICK m \in T : \A k \in T : <<k, m>> \notin OpToRel(<, Nat)
  BY NatLessThanWellFounded, WFMin, Zenon
<1>2. \A k \in T : ~(k < m)
  <2> SUFFICES ASSUME NEW k \in T, k < m
               PROVE  FALSE
    OBVIOUS
  <2>1. <<k, m>> \in Nat \X Nat /\ <<k, m>>[1] < <<k, m>>[2]
    OBVIOUS
  <2>2. <<k, m>> \in OpToRel(<, Nat)
    BY <2>1 DEF OpToRel
  <2> QED
    BY <1>1, <2>2, Zenon
<1> QED
  BY <1>2

\* A set that holds 0 and the successor of each of its elements is Nat.
LEMMA SetInduction ==
    ASSUME NEW T \in SUBSET Nat, 0 \in T, \A n \in T : n + 1 \in T
    PROVE  T = Nat
<1> SUFFICES ASSUME Nat \ T # {}
             PROVE  FALSE
  OBVIOUS
<1>1. PICK m \in Nat \ T : \A k \in Nat \ T : m <= k
  BY LeastNat
<1>2. m # 0 /\ m - 1 \in Nat /\ m - 1 \in T
  BY <1>1
<1> QED
  BY <1>2

\* The partial sums of a finite sequence of naturals exist.
LEMMA TotalExists ==
    ASSUME NEW L \in Nat, NEW h \in [1 .. L -> Nat]
    PROVE  \E t \in [0 .. L -> Nat] : t[0] = 0 /\ \A k \in 1 .. L : t[k] = t[k - 1] + h[k]
<1> DEFINE Sums(m, t) == t[0] = 0 /\ \A k \in 1 .. m : t[k] = t[k - 1] + h[k]
           Good(m) == m <= L => \E t \in [0 .. m -> Nat] : Sums(m, t)
           T == {m \in Nat : Good(m)}
<1>1. Good(0)
  <2> DEFINE z == [k \in 0 .. 0 |-> 0]
  <2>1. z \in [0 .. 0 -> Nat] /\ Sums(0, z)
    OBVIOUS
  <2> HIDE DEF Sums, z
  <2> QED
    BY <2>1
<1>2. ASSUME NEW m \in Nat, Good(m)
      PROVE  Good(m + 1)
  <2>0. CASE ~(m + 1 <= L)
    <3> HIDE DEF Sums
    <3> QED
      BY <2>0
  <2>9. CASE m + 1 <= L
    <3>1. PICK t \in [0 .. m -> Nat] : Sums(m, t)
      <4> HIDE DEF Sums
      <4> QED
        BY <1>2, <2>9
    <3> DEFINE u == [k \in 0 .. m + 1 |-> IF k <= m THEN t[k] ELSE t[m] + h[m + 1]]
    <3>2. u \in [0 .. m + 1 -> Nat] /\ u[0] = 0
      BY <2>9, <3>1
    <3>3. ASSUME NEW k \in 1 .. m + 1
          PROVE  u[k] = u[k - 1] + h[k]
      <4>1. /\ k \in Nat /\ k - 1 \in 0 .. m /\ (k <= m \/ k = m + 1)
            /\ u[k - 1] = t[k - 1]
        OBVIOUS
      <4>2. CASE k <= m
        BY <3>1, <4>1, <4>2
      <4>3. CASE k = m + 1
        BY <4>1, <4>3
      <4> QED
        BY <4>1, <4>2, <4>3
    <3>4. Sums(m + 1, u)
      BY <3>2, <3>3
    <3> HIDE DEF Sums, u
    <3> QED
      BY <3>2, <3>4
  <2> QED
    BY <2>0, <2>9
<1>3. Good(L)
  <2> HIDE DEF Good
  <2>1. T \in SUBSET Nat /\ 0 \in T
    BY <1>1
  <2>2. \A m \in T : m + 1 \in T
    BY <1>2
  <2> HIDE DEF T
  <2>3. T = Nat
    BY <2>1, <2>2, SetInduction
  <2> QED
    BY <2>3 DEF T
<1>4. PICK t \in [0 .. L -> Nat] : Sums(L, t)
  <2> HIDE DEF Sums
  <2> QED
    BY <1>3
<1> QED
  BY <1>4

\* Partial sums are naturals, and none exceeds the last.
LEMMA TotalGrows ==
    ASSUME NEW L \in Nat, NEW h \in [1 .. L -> Nat], NEW t,
           t[0] = 0, \A k \in 1 .. L : t[k] = t[k - 1] + h[k]
    PROVE  \A k \in 0 .. L : t[k] \in Nat /\ t[k] <= t[L]
<1>1. \A k \in 0 .. L : t[k] \in Nat
  <2> DEFINE T == {k \in Nat : k <= L => t[k] \in Nat}
  <2>1. 0 \in T
    OBVIOUS
  <2>2. ASSUME NEW k \in T
        PROVE  k + 1 \in T
    <3> SUFFICES ASSUME k + 1 <= L
                 PROVE  t[k + 1] \in Nat
      OBVIOUS
    <3>1. k + 1 \in 1 .. L /\ (k + 1) - 1 = k /\ t[k] \in Nat
      OBVIOUS
    <3>2. t[k + 1] = t[k] + h[k + 1] /\ h[k + 1] \in Nat
      BY <3>1
    <3> QED
      BY <3>1, <3>2
  <2>3. T = Nat
    BY <2>1, <2>2, SetInduction
  <2> QED
    BY <2>3
<1>2. \A k \in 0 .. L : t[k] <= t[L]
  <2> DEFINE T == {d \in Nat : d <= L => t[L - d] <= t[L]}
  <2>1. 0 \in T
    BY <1>1
  <2>2. ASSUME NEW d \in T
        PROVE  d + 1 \in T
    <3> SUFFICES ASSUME d + 1 <= L
                 PROVE  t[L - (d + 1)] <= t[L]
      OBVIOUS
    <3>1. L - d \in 1 .. L /\ L - (d + 1) \in 0 .. L /\ (L - d) - 1 = L - (d + 1) /\ L \in 0 .. L
      OBVIOUS
    <3>2. t[L - d] = t[L - (d + 1)] + h[L - d] /\ h[L - d] \in Nat
      BY <3>1
    <3>3. t[L - d] <= t[L]
      OBVIOUS
    <3> QED
      BY <1>1, <3>1, <3>2, <3>3
  <2>3. T = Nat
    BY <2>1, <2>2, SetInduction
  <2>4. ASSUME NEW k \in 0 .. L
        PROVE  t[k] <= t[L]
    <3>1. L - k \in Nat /\ L - k <= L /\ L - (L - k) = k
      OBVIOUS
    <3>2. t[L - (L - k)] <= t[L]
      BY <2>3, <3>1
    <3> QED
      BY <3>1, <3>2
  <2> QED
    BY <2>4
<1> QED
  BY <1>1, <1>2
=============================================================================
