---------------------------- MODULE OrdersProofs ----------------------------
(***************************************************************************)
(* Facts about sets of numbers: they have a least and a greatest element,  *)
(* and InOrder() lists them.                                               *)
(***************************************************************************)
EXTENDS Orders, Integers, Sequences, FiniteSetTheorems, SequenceTheorems, WellFoundedInduction, TLAPS

-----------------------------------------------------------------------------
(***************************************************************************)
(* Numbers.  The least element of a set is had from the fact that strict   *)
(* inclusion of finite sets is well-founded.                               *)
(***************************************************************************)

\* Every set of finite sets has a member of which no other is a part.
LEMMA LeastSet ==
    ASSUME NEW S, NEW F, F \subseteq FiniteSubsetsOf(S), F # {}
    PROVE  \E T \in F : \A U \in F : U \subseteq T => U = T
<1>1. PICK T \in F : \A U \in F : <<U, T>> \notin StrictSubsetOrdering(S)
  BY FS_StrictSubsetOrderingWellFounded, WFMin
<1> QED
  BY <1>1 DEF StrictSubsetOrdering, FiniteSubsetsOf

LEMMA LeastNumber ==
    ASSUME NEW T \in SUBSET Nat, T # {}
    PROVE  \E x \in T : \A y \in T : x <= y
<1> DEFINE F == {0..x : x \in T}
<1>1. F # {}
  OBVIOUS
<1>2. F \subseteq FiniteSubsetsOf(Int)
  <2>1. \A x \in T : (0..x) \in SUBSET Int /\ IsFiniteSet(0..x)
    BY FS_Interval
  <2> QED
    BY <2>1 DEF FiniteSubsetsOf
<1>3. PICK U \in F : \A V \in F : V \subseteq U => V = U
  <2> HIDE DEF F
  <2> QED
    BY <1>1, <1>2, LeastSet
<1>4. PICK x \in T : U = 0..x
  OBVIOUS
<1>5. ASSUME NEW y \in T PROVE x <= y
  <2>1. CASE y < x
    <3>1. 0..y \subseteq 0..x /\ x \in 0..x /\ x \notin 0..y
      BY <2>1
    <3> QED
      BY <1>3, <1>4, <3>1
  <2> QED
    BY <2>1
<1> QED
  BY <1>5

LEMMA GreatestNumber ==
    ASSUME NEW T \in SUBSET Int, IsFiniteSet(T), T # {}
    PROVE  \E x \in T : \A y \in T : x >= y
<1> DEFINE Above(x) == {y \in T : y >= x}
           F == {Above(x) : x \in T}
<1>1. F # {}
  OBVIOUS
<1>2. F \subseteq FiniteSubsetsOf(T)
  BY FS_Subset DEF FiniteSubsetsOf
<1>3. PICK U \in F : \A V \in F : V \subseteq U => V = U
  <2> HIDE DEF F
  <2> QED
    BY <1>1, <1>2, LeastSet
<1>4. PICK x \in T : U = Above(x)
  OBVIOUS
<1>5. ASSUME NEW y \in T PROVE x >= y
  <2>1. CASE y > x
    <3>1. Above(y) \subseteq Above(x)
      <4>1. \A z \in T : z >= y => z >= x
        BY <2>1
      <4> QED
        BY <4>1
    <3>2. x \in Above(x) /\ x \notin Above(y)
      BY <2>1
    <3> QED
      BY <1>3, <1>4, <3>1, <3>2
  <2> QED
    BY <2>1
<1> QED
  BY <1>5

-----------------------------------------------------------------------------
(***************************************************************************)
(* Ascending order.                                                        *)
(***************************************************************************)
Ascending(S) ==
    {s \in [1..Cardinality(S) -> S] : /\ \A j, k \in DOMAIN s : j < k => s[j] < s[k]
                                      /\ \A x \in S : \E j \in DOMAIN s : s[j] = x}

\* One more number above all others.
LEMMA AscendingExtends ==
    ASSUME NEW S \in SUBSET Nat, IsFiniteSet(S), NEW x \in S, \A y \in S : x >= y,
           NEW t \in Ascending(S \ {x})
    PROVE  Ascending(S) # {}
<1> DEFINE R == S \ {x}
           c == Cardinality(R)
           s == [j \in 1..(c + 1) |-> IF j = c + 1 THEN x ELSE t[j]]
<1>1. c \in Nat /\ Cardinality(S) = c + 1
  <2>1. IsFiniteSet(R) /\ Cardinality(R) = Cardinality(S) - 1
    BY FS_RemoveElement
  <2>2. Cardinality(S) \in Nat /\ Cardinality(R) \in Nat
    BY <2>1, FS_CardinalityType
  <2> QED
    BY <2>1, <2>2
<1>2. /\ t \in [1..c -> R] /\ \A j, k \in 1..c : j < k => t[j] < t[k]
      /\ \A y \in R : \E j \in 1..c : t[j] = y
  BY DEF Ascending
<1> HIDE DEF c
<1>3. s \in [1..(c + 1) -> S]
  BY <1>1, <1>2
<1>4. ASSUME NEW j \in 1..(c + 1), NEW k \in 1..(c + 1), j < k PROVE s[j] < s[k]
  <2>1. j \in 1..c /\ s[j] = t[j] /\ t[j] < x
    <3>1. j \in 1..c
      BY <1>1, <1>4
    <3>2. t[j] \in S /\ t[j] # x /\ s[j] = t[j]
      BY <1>1, <1>2, <3>1
    <3>3. t[j] \in Nat /\ x \in Nat /\ x >= t[j]
      BY <3>2
    <3> QED
      BY <3>1, <3>2, <3>3
  <2>2. CASE k = c + 1
    BY <2>1, <2>2
  <2>3. CASE k # c + 1
    BY <1>1, <1>2, <1>4, <2>1, <2>3
  <2> QED
    BY <2>2, <2>3
<1>5. ASSUME NEW y \in S PROVE \E j \in 1..(c + 1) : s[j] = y
  <2>1. CASE y = x
    BY <1>1, <2>1
  <2>2. CASE y # x
    BY <1>1, <1>2, <2>2
  <2> QED
    BY <2>1, <2>2
<1>6. s \in Ascending(S)
  BY <1>1, <1>3, <1>4, <1>5 DEF Ascending
<1> QED
  BY <1>6

\* A finite set of numbers can be put in order.
LEMMA OrderExists ==
    ASSUME NEW S \in SUBSET Nat, IsFiniteSet(S)
    PROVE  Ascending(S) # {}
<1> DEFINE F == {T \in SUBSET S : Ascending(T) = {}}
<1>1. F \subseteq FiniteSubsetsOf(S)
  BY FS_Subset DEF FiniteSubsetsOf
<1>2. SUFFICES ASSUME F # {} PROVE FALSE
  OBVIOUS
<1>3. PICK T \in F : \A U \in F : U \subseteq T => U = T
  <2> HIDE DEF F
  <2> QED
    BY <1>1, <1>2, LeastSet
<1>4. T \in SUBSET Nat /\ IsFiniteSet(T) /\ Ascending(T) = {}
  BY <1>3, FS_Subset
<1>5. T # {}
  <2>1. SUFFICES ASSUME T = {} PROVE FALSE
    OBVIOUS
  <2>2. Cardinality(T) = 0
    BY <2>1, FS_EmptySet
  <2>3. << >> \in Ascending(T)
    BY <2>1, <2>2 DEF Ascending
  <2> QED
    BY <1>4, <2>3
<1>6. PICK x \in T : \A y \in T : x >= y
  BY <1>4, <1>5, GreatestNumber
<1>7. Ascending(T \ {x}) # {}
  <2>1. T \ {x} \subseteq T /\ T \ {x} # T /\ T \ {x} \in SUBSET S
    BY <1>3
  <2> QED
    BY <1>3, <2>1
<1>8. Ascending(T) # {}
  BY <1>4, <1>6, <1>7, AscendingExtends
<1> QED
  BY <1>4, <1>8

\* InOrder() is such an order, and leaves no number out.
LEMMA InOrderFacts ==
    ASSUME NEW S \in SUBSET Nat, IsFiniteSet(S)
    PROVE  /\ InOrder(S) \in [1..Cardinality(S) -> S] /\ InOrder(S) \in Seq(S)
           /\ \A x \in S : \E j \in DOMAIN InOrder(S) : InOrder(S)[j] = x
           /\ \A j, k \in DOMAIN InOrder(S) : j < k => InOrder(S)[j] < InOrder(S)[k]
<1> DEFINE P(s) == \A j, k \in DOMAIN s : j < k => s[j] < s[k]
           s0 == CHOOSE s \in [1..Cardinality(S) -> S] : P(s)
<1>1. s0 \in [1..Cardinality(S) -> S] /\ P(s0)
  <2>1. \E s \in [1..Cardinality(S) -> S] : P(s)
    BY OrderExists DEF Ascending
  <2> QED
    BY <2>1
<1>2. s0 = InOrder(S)
  BY DEF InOrder
<1>3. Cardinality(S) \in Nat
  BY FS_CardinalityType
<1> DEFINE D == 1..Cardinality(S)
<1>4. s0 \in Injection(D, S)
  <2> HIDE DEF s0
  <2>1. ASSUME NEW j \in D, NEW k \in D, j # k PROVE s0[j] # s0[k]
    <3>1. j \in Int /\ k \in Int /\ s0[j] \in Nat /\ s0[k] \in Nat
      <4>1. s0[j] \in S /\ s0[k] \in S
        BY <1>1
      <4>2. \A x \in S : x \in Nat
        OBVIOUS
      <4>3. s0[j] \in Nat /\ s0[k] \in Nat
        BY <4>1, <4>2, Zenon
      <4>4. j \in Int /\ k \in Int
        BY <1>3
      <4> QED
        BY <4>3, <4>4
    <3>2. CASE j < k
      BY <1>1, <3>1, <3>2
    <3>3. CASE k < j
      BY <1>1, <3>1, <3>3
    <3> QED
      BY <2>1, <3>1, <3>2, <3>3
  <2> QED
    BY <1>1, <2>1 DEF Injection, IsInjective
<1>5. s0 \in Surjection(D, S)
  BY <1>3, <1>4, FS_Injection, FS_Interval
<1> HIDE DEF s0
<1>6. \A x \in S : \E j \in DOMAIN s0 : s0[j] = x
  BY <1>5 DEF Surjection
<1>7. s0 \in Seq(S)
  BY <1>1, <1>3
<1> QED
  BY <1>1, <1>2, <1>6, <1>7

\* The first n numbers are in order as they are.
LEMMA IntervalInOrder ==
    ASSUME NEW n \in Nat, NEW k \in 1..n
    PROVE  InOrder(0..(n - 1))[k] = k - 1
<1> DEFINE S == 0..(n - 1)
           s == InOrder(S)
<1>1. S \in SUBSET Nat /\ IsFiniteSet(S) /\ Cardinality(S) = n
  BY FS_Interval
<1>2. s \in [1..n -> S] /\ \A i, j \in 1..n : i < j => s[i] < s[j]
  <2>1. s \in [1..Cardinality(S) -> S] /\ \A i, j \in DOMAIN s : i < j => s[i] < s[j]
    <3> HIDE DEF S
    <3> QED
      BY <1>1, InOrderFacts
  <2> QED
    BY <1>1, <2>1
<1> HIDE DEF s
<1>3. ASSUME NEW i \in 1..n PROVE s[i] >= i - 1
  <2> DEFINE T == {j \in 1..n : s[j] < j - 1}
  <2>0. s[i] \in Int /\ i - 1 \in Int
    BY <1>2
  <2> SUFFICES ASSUME ~(s[i] >= i - 1) PROVE FALSE
    OBVIOUS
  <2>1. T # {}
    <3>1. i \in T
      BY <2>0
    <3> QED
      BY <3>1
  <2>2. T \in SUBSET Nat
    OBVIOUS
  <2>3. PICK j \in T : \A m \in T : j <= m
    <3> HIDE DEF T
    <3> QED
      BY <2>1, <2>2, LeastNumber
  <2>4. j \in 1..n /\ s[j] < j - 1 /\ s[j] \in Nat /\ j - 1 \in 1..n
    BY <1>2, <2>3
  <2>5. j - 1 \notin T /\ s[j - 1] \in Nat
    BY <1>2, <2>3, <2>4
  <2>6. s[j - 1] >= j - 2 /\ s[j - 1] < s[j]
    BY <1>2, <2>4, <2>5
  <2> QED
    BY <2>4, <2>5, <2>6
<1>4. ASSUME NEW i \in 1..n PROVE s[i] <= i - 1
  <2> DEFINE T == {j \in 1..n : s[j] > j - 1}
  <2>0. s[i] \in Int /\ i - 1 \in Int
    BY <1>2
  <2> SUFFICES ASSUME ~(s[i] <= i - 1) PROVE FALSE
    OBVIOUS
  <2>1. T # {}
    <3>1. i \in T
      BY <2>0
    <3> QED
      BY <3>1
  <2>2. T \in SUBSET Int /\ IsFiniteSet(T)
    <3>1. IsFiniteSet(1..n) /\ T \in SUBSET (1..n)
      BY FS_Interval
    <3> QED
      BY <3>1, FS_Subset
  <2>3. PICK j \in T : \A m \in T : j >= m
    <3> HIDE DEF T
    <3> QED
      BY <2>1, <2>2, GreatestNumber
  <2>4. j \in 1..n /\ s[j] > j - 1 /\ s[j] \in 0..(n - 1) /\ j + 1 \in 1..n
    BY <1>2, <2>3
  <2>5. j + 1 \notin T /\ s[j + 1] \in Nat
    BY <1>2, <2>3, <2>4
  <2>6. s[j + 1] <= j /\ s[j] < s[j + 1]
    BY <1>2, <2>4, <2>5
  <2> QED
    BY <2>4, <2>5, <2>6
<1>5. s[k] \in Int
  BY <1>2
<1> QED
  BY <1>3, <1>4, <1>5 DEF s
=============================================================================
