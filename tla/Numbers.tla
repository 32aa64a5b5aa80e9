------------------------------- MODULE Numbers -------------------------------
(***************************************************************************)
(* What the proofs need of numbers: slots and keys are remainders of       *)
(* versions, and the code takes the largest or the first of a set.         *)
(***************************************************************************)
EXTENDS Integers, FunctionTheorems, FiniteSetTheorems, WellFoundedInduction, TLAPS

\* Two different versions that are less than K apart differ modulo K.
LEMMA ModDistinct ==
    ASSUME NEW K \in Nat \ {0}, NEW v \in Nat, NEW w \in Nat, v < w, w - v < K
    PROVE  v % K # w % K
<1> DEFINE a == w \div K
           b == v \div K
<1>1. v = (K * b) + (v % K) /\ b \in Int /\ v % K \in Int
  OBVIOUS
<1>2. w = (K * a) + (w % K) /\ a \in Int /\ w % K \in Int
  OBVIOUS
<1>3. SUFFICES ASSUME v % K = w % K
               PROVE  FALSE
  OBVIOUS
<1> HIDE DEF a, b
<1>4. K * (a - b) = w - v
  <2>1. (K * a) - (K * b) = w - v
    BY <1>1, <1>2, <1>3
  <2> QED BY <2>1, <1>1, <1>2, <1>3
<1>5. CASE a - b <= 0
  <2>1. K * (a - b) <= 0
    BY <1>1, <1>2, <1>5
  <2> QED BY <1>4, <2>1
<1>6. CASE a - b >= 1
  <2>1. K * (a - b) >= K
    BY <1>1, <1>2, <1>6
  <2> QED BY <1>4, <2>1
<1> QED BY <1>1, <1>2, <1>5, <1>6

\* A set of numbers has a least one.
LEMMA LeastOf ==
    ASSUME NEW T \in SUBSET Nat, T # {}
    PROVE  \E m \in T : \A n \in T : m <= n
<1> DEFINE R == OpToRel(<, Nat)
<1>1. IsWellFoundedOn(R, Nat)
  BY NatLessThanWellFounded
<1>2. \A x, y \in Nat : <<y, x>> \in R <=> y < x
  BY DEF OpToRel
<1> HIDE DEF R
<1>3. PICK x \in T : \A y \in T : ~ (<<y, x>> \in R)
  BY <1>1, WFMin
<1>4. \A y \in T : x <= y
  <2> SUFFICES ASSUME NEW y \in T
               PROVE  x <= y
    OBVIOUS
  <2>1. x \in Nat /\ y \in Nat
    OBVIOUS
  <2>2. ~ (y < x)
    BY <1>2, <1>3, <2>1
  <2> QED BY <2>1, <2>2
<1> QED BY <1>4

\* A set of numbers that has a bound has a greatest one.
LEMMA GreatestOf ==
    ASSUME NEW S \in SUBSET Nat, S # {}, NEW b \in Nat, \A n \in S : n <= b
    PROVE  \E m \in S : \A n \in S : n <= m
<1> DEFINE T == {k \in Nat : b - k \in S}
<1>1. \A n \in S : b - n \in T
  OBVIOUS
<1>2. T \in SUBSET Nat /\ T # {}
  BY <1>1
<1>3. PICK t \in T : \A u \in T : t <= u
  <2> HIDE DEF T
  <2> QED BY <1>2, LeastOf
<1>4. b - t \in S
  BY <1>3
<1>5. ASSUME NEW n \in S
      PROVE  n <= b - t
  <2>1. t <= b - n /\ n \in Nat /\ t \in Nat
    <3> HIDE DEF T
    <3> QED BY <1>1, <1>2, <1>3
  <2> QED BY <2>1
<1> QED BY <1>4, <1>5

\* Quotient and remainder.
LEMMA DivMod ==
    ASSUME NEW K \in Nat \ {0}, NEW a \in Nat
    PROVE  a \div K \in Nat /\ a % K \in 0 .. K - 1 /\ a = (K * (a \div K)) + (a % K)
OBVIOUS

\* ... which are the only such numbers.
LEMMA DivUnique ==
    ASSUME NEW K \in Nat \ {0}, NEW a \in Nat, NEW q \in Int, NEW m \in 0 .. K - 1, a = (K * q) + m
    PROVE  a \div K = q /\ a % K = m
<1> DEFINE b == a \div K
           e == a % K
<1>1. b \in Nat /\ e \in 0 .. K - 1 /\ a = (K * b) + e
  BY DivMod
<1>2. a = (K * q) + m
  OBVIOUS
<1> HIDE DEF b, e
<1>3. K * (b - q) = m - e
  <2>1. (K * b) - (K * q) = m - e
    BY <1>1, <1>2
  <2> QED BY <2>1, <1>1
<1>4. CASE b - q >= 1
  <2>1. K * (b - q) >= K
    BY <1>1, <1>4
  <2> QED BY <1>1, <1>3, <2>1
<1>5. CASE b - q <= -1
  <2>1. K * (b - q) <= -K
    BY <1>1, <1>5
  <2> QED BY <1>1, <1>3, <2>1
<1>6. CASE b - q = 0
  <2>1. b = q
    BY <1>1, <1>6
  <2>2. m = e
    BY <1>1, <1>2, <2>1
  <2> QED BY <2>1, <2>2 DEF b, e
<1> QED BY <1>1, <1>4, <1>5, <1>6

\* Products grow with their factors.
LEMMA MulMonotone ==
    ASSUME NEW K \in Nat, NEW a \in Int, NEW b \in Int, a <= b
    PROVE  K * a <= K * b
<1>1. K * (b - a) >= 0
  OBVIOUS
<1> QED BY <1>1

\* Sets between which a function goes one to one have the same size.
LEMMA SameSize ==
    ASSUME NEW S, NEW T, IsFiniteSet(S), NEW f \in [S -> T],
           \A a, b \in S : f[a] = f[b] => a = b,
           \A t \in T : \E s \in S : f[s] = t
    PROVE  IsFiniteSet(T) /\ Cardinality(T) = Cardinality(S)
<1>1. f \in Bijection(S, T)
  BY Fun_IsBij
<1>2. ExistsBijection(S, T)
  BY <1>1 DEF ExistsBijection
<1> QED BY <1>2, FS_Bijection

\* The size of a set of two parts.
LEMMA PartsAdd ==
    ASSUME NEW S, NEW T, IsFiniteSet(S), IsFiniteSet(T), S \cap T = {}
    PROVE  IsFiniteSet(S \cup T) /\ Cardinality(S \cup T) = Cardinality(S) + Cardinality(T)
<1>1. Cardinality(S \cap T) = 0
  BY FS_EmptySet
<1>2. Cardinality(S) \in Nat /\ Cardinality(T) \in Nat
  BY FS_CardinalityType
<1>3. IsFiniteSet(S \cup T) /\ Cardinality(S \cup T) = Cardinality(S) + Cardinality(T) - Cardinality(S \cap T)
  BY FS_Union, Zenon
<1> QED BY <1>1, <1>2, <1>3

\* Remainders of sums.
LEMMA ModAdd ==
    ASSUME NEW K \in Nat \ {0}, NEW a \in Nat, NEW b \in Nat
    PROVE  ((a % K) + b) % K = (a + b) % K
<1> DEFINE q == a \div K
           c == (a % K) + b
           s == a + b
<1>1. a % K \in 0 .. K - 1 /\ q \in Nat /\ a = (K * q) + (a % K)
  BY DivMod
<1>2. c \in Nat /\ s \in Nat /\ s = (K * q) + c
  <2> DEFINE m == a % K
             p == K * q
  <2>1. p \in Nat /\ m \in Nat /\ a = p + m /\ c = m + b
    <3>1. m \in Nat
      BY <1>1
    <3>2. p \in Nat
      BY <1>1
    <3> QED BY <1>1, <3>1, <3>2
  <2> HIDE DEF m, p, c
  <2>2. c \in Nat /\ s \in Nat /\ s = p + c
    BY <2>1
  <2> QED BY <2>2 DEF p
<1> HIDE DEF q, c, s
<1>3. c \div K \in Nat /\ c % K \in 0 .. K - 1 /\ c = (K * (c \div K)) + (c % K)
  BY <1>2, DivMod
<1>4. s = (K * (q + (c \div K))) + (c % K) /\ q + (c \div K) \in Int
  <2>1. K * (q + (c \div K)) = (K * q) + (K * (c \div K))
    BY <1>1, <1>3
  <2>2. K * q \in Nat /\ K * (c \div K) \in Nat
    BY <1>1, <1>3
  <2> QED BY <1>1, <1>2, <1>3, <2>1, <2>2
<1>5. s % K = c % K
  BY <1>2, <1>3, <1>4, DivUnique
<1> QED BY <1>5 DEF s, c

LEMMA ModOnce ==
    ASSUME NEW K \in Nat \ {0}, NEW a \in 0 .. K - 1
    PROVE  a % K = a /\ (a + K) % K = a
<1> DEFINE s == a + K
<1>1. s \in Nat /\ s = (K * 1) + a /\ a = (K * 0) + a
  OBVIOUS
<1> HIDE DEF s
<1>2. s % K = a
  BY <1>1, DivUnique
<1>3. a % K = a
  BY <1>1, DivUnique
<1> QED BY <1>2, <1>3 DEF s

LEMMA ModPeriod ==
    ASSUME NEW K \in Nat \ {0}, NEW a \in Nat
    PROVE  (a + K) % K = a % K
<1>1. a % K \in 0 .. K - 1 /\ a % K \in Nat
  BY DivMod
<1>2. ((a % K) + K) % K = (a + K) % K
  BY ModAdd
<1>3. ((a % K) + K) % K = a % K
  BY <1>1, ModOnce
<1> QED BY <1>2, <1>3
==============================================================================
