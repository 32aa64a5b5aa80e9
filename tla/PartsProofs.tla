------------------------------ MODULE PartsProofs ------------------------------
(***************************************************************************)
(* The three parts that MCParts checks and that need no other module: how  *)
(* the ranks are divided into groups, how the communities agree on a       *)
(* version, and what a failed step of a call leaves behind in memory.      *)
(***************************************************************************)
EXTENDS Groups, Communities, Lifecycle, Numbers, TLAPS

-----------------------------------------------------------------------------
(* Groups: positions in a community.                                       *)

JobTypes ==
    /\ n \in Nat /\ n >= 2 /\ m \in Nat /\ m >= 3
    /\ IsFiniteSet(JobRank) /\ JobRank # {} /\ JobRank = 0 .. ranks - 1
    /\ ranks \in Nat \ {0}

Keyed == communityid \in [JobRank -> Int] /\ communitykey \in [JobRank -> Int]

\* The members of a community have the positions 0, 1, 2, ... in it.
LEMMA Positions ==
    ASSUME JobTypes, Keyed, NEW r \in JobRank
    PROVE  /\ IsFiniteSet(ccomm(r)) /\ cranks(r) \in Nat \ {0} /\ r \in ccomm(r)
           /\ \A s \in ccomm(r) : ccomm(s) = ccomm(r) /\ crank(s) \in 0 .. cranks(r) - 1
           /\ \A s, t \in ccomm(r) : crank(s) = crank(t) => s = t
           /\ \A k \in 0 .. cranks(r) - 1 : \E s \in ccomm(r) : crank(s) = k
<1> DEFINE C == ccomm(r)
           Below(s) == {t \in C : Before(t, s)}
           f == [s \in C |-> crank(s)]
<1>1. C \subseteq JobRank /\ r \in C /\ \A s \in C : ccomm(s) = C
  BY DEF ccomm
<1>2. IsFiniteSet(C) /\ Cardinality(C) \in Nat \ {0}
  <2>1. IsFiniteSet(C)
    <3> HIDE DEF C
    <3> QED BY <1>1, FS_Subset DEF JobTypes
  <2>2. Cardinality(C) \in Nat /\ Cardinality(C) # 0
    <3> HIDE DEF C
    <3> QED BY <1>1, <2>1, FS_CardinalityType, FS_EmptySet
  <2> QED BY <2>1, <2>2
<1>3. \A s \in C : crank(s) = Cardinality(Below(s))
  BY <1>1 DEF crank
<1>4. /\ \A s \in C : ~Before(s, s)
      /\ \A s, t \in C : s # t => Before(s, t) \/ Before(t, s)
      /\ \A s, t, u \in C : Before(s, t) /\ Before(t, u) => Before(s, u)
  <2>1. \A s \in C : s \in Int /\ communitykey[s] \in Int
    BY <1>1 DEF JobTypes, Keyed
  <2> HIDE DEF C
  <2> QED BY <2>1 DEF Before
<1> HIDE DEF C
<1>5. \A s \in C : Below(s) \subseteq C /\ IsFiniteSet(Below(s)) /\ Cardinality(Below(s)) \in Nat
  <2> TAKE s \in C
  <2>1. Below(s) \subseteq C
    OBVIOUS
  <2> HIDE DEF Below
  <2> QED BY <1>2, <2>1, FS_Subset, FS_CardinalityType
<1>6. \A s \in C : Cardinality(Below(s)) < Cardinality(C)
  <2> TAKE s \in C
  <2>1. Below(s) # C
    BY <1>4
  <2>2. Cardinality(Below(s)) <= Cardinality(C) /\ Cardinality(C) # Cardinality(Below(s))
    <3> HIDE DEF Below
    <3> QED BY <1>2, <1>5, <2>1, FS_Subset
  <2> QED BY <1>2, <1>5, <2>2
<1>7. \A s, t \in C : Before(s, t) => Cardinality(Below(s)) # Cardinality(Below(t))
  <2> SUFFICES ASSUME NEW s \in C, NEW t \in C, Before(s, t)
               PROVE  Cardinality(Below(s)) # Cardinality(Below(t))
    OBVIOUS
  <2>1. Below(s) \subseteq Below(t) /\ s \in Below(t) /\ s \notin Below(s)
    BY <1>4
  <2> HIDE DEF Below
  <2> QED BY <1>5, <2>1, FS_Subset
<1> HIDE DEF Below
<1>8. \A s, t \in C : crank(s) = crank(t) => s = t
  <2> SUFFICES ASSUME NEW s \in C, NEW t \in C, crank(s) = crank(t), s # t
               PROVE  FALSE
    OBVIOUS
  <2>1. Cardinality(Below(s)) = Cardinality(Below(t))
    BY <1>3
  <2>2. Before(s, t) \/ Before(t, s)
    BY <1>4
  <2> QED BY <1>7, <2>1, <2>2
<1>9. \A s \in C : crank(s) \in 0 .. Cardinality(C) - 1
  <2> TAKE s \in C
  <2> DEFINE b == Cardinality(Below(s))
             c == Cardinality(C)
  <2>1. crank(s) = b /\ b \in Nat /\ b < c /\ c \in Nat
    BY <1>2, <1>3, <1>5, <1>6
  <2> HIDE DEF b, c
  <2>2. crank(s) \in 0 .. c - 1
    BY <2>1
  <2> QED BY <2>2 DEF c
<1>10. \A k \in 0 .. Cardinality(C) - 1 : \E s \in C : crank(s) = k
  <2> DEFINE T == 0 .. Cardinality(C) - 1
  <2>1. f \in [C -> T] /\ \A s, t \in C : f[s] = f[t] => s = t
    BY <1>8, <1>9
  <2>2. f \in Injection(C, T)
    <3> HIDE DEF f, T
    <3> QED BY <2>1, Fun_IsInj
  <2>3. IsFiniteSet(T) /\ Cardinality(T) = Cardinality(C)
    BY <1>2, FS_Interval
  <2>4. f \in Surjection(C, T)
    <3> HIDE DEF f, T
    <3> QED BY <2>2, <2>3, FS_Injection
  <2>5. \A k \in T : \E s \in C : f[s] = k
    <3> HIDE DEF f, T
    <3> QED BY <2>4 DEF Surjection
  <2> QED BY <2>5
<1> QED BY <1>1, <1>2, <1>8, <1>9, <1>10 DEF C, cranks

\* So members are counted by their positions.
LEMMA ByPosition ==
    ASSUME JobTypes, Keyed, NEW r \in JobRank, NEW X \in SUBSET (0 .. cranks(r) - 1)
    PROVE  Cardinality({s \in ccomm(r) : crank(s) \in X}) = Cardinality(X)
<1> DEFINE S == {s \in ccomm(r) : crank(s) \in X}
           f == [s \in S |-> crank(s)]
<1>1. IsFiniteSet(ccomm(r)) /\ S \subseteq ccomm(r)
  BY Positions
<1>2. IsFiniteSet(S)
  <2> HIDE DEF S
  <2> QED BY <1>1, FS_Subset
<1>3. f \in [S -> X] /\ \A a, b \in S : f[a] = f[b] => a = b
  BY Positions
<1>4. \A k \in X : \E s \in S : f[s] = k
  <2> TAKE k \in X
  <2>1. PICK s \in ccomm(r) : crank(s) = k
    BY Positions
  <2> QED BY <2>1
<1> HIDE DEF S, f
<1>5. Cardinality(X) = Cardinality(S)
  BY <1>2, <1>3, <1>4, SameSize
<1> QED BY <1>5 DEF S

-----------------------------------------------------------------------------
(* Groups: the two dimensions of a community.                              *)

\* Quotient and remainder by the partner group size.
LEMMA RowAndColumn ==
    ASSUME JobTypes, NEW k \in Nat
    PROVE  /\ k \div n \in Nat /\ k % n \in 0 .. n - 1 /\ k = (n * (k \div n)) + (k % n)
           /\ \A p \in Int, x \in 0 .. n - 1 : k = (n * p) + x => k \div n = p /\ k % n = x
<1>1. n \in Nat \ {0}
  BY DEF JobTypes
<1> QED BY <1>1, DivMod, DivUnique

\* Every x-th position of the first q rows.
LEMMA ColumnSize ==
    ASSUME JobTypes, NEW q \in Nat, NEW x \in 0 .. n - 1, NEW c \in Nat, n * q <= c
    PROVE  Cardinality({k \in 0 .. c - 1 : k % n = x /\ k \div n < q}) = q
<1> DEFINE X == {k \in 0 .. c - 1 : k % n = x /\ k \div n < q}
           S == 0 .. q - 1
           f == [j \in S |-> (n * j) + x]
<1>1. n \in Nat \ {0}
  BY DEF JobTypes
<1>2. IsFiniteSet(S) /\ Cardinality(S) = q
  BY FS_Interval
<1>3. \A j \in S : (n * j) + x \in 0 .. c - 1
  <2> TAKE j \in S
  <2>1. n * (j + 1) <= n * q
    BY <1>1, MulMonotone
  <2>2. n * (j + 1) = (n * j) + n /\ n * j \in Nat
    BY <1>1
  <2>3. n * q \in Nat
    BY <1>1
  <2> QED BY <1>1, <2>1, <2>2, <2>3
<1>4. \A j \in S : ((n * j) + x) \div n = j /\ ((n * j) + x) % n = x
  <2> TAKE j \in S
  <2>1. PICK k \in Nat : k = (n * j) + x
    BY <1>3
  <2>2. k \div n = j /\ k % n = x
    BY <2>1, RowAndColumn
  <2> QED BY <2>1, <2>2
<1>5. f \in [S -> X]
  BY <1>3, <1>4
<1>6. \A a, b \in S : f[a] = f[b] => a = b
  BY <1>4
<1>7. \A t \in X : \E j \in S : f[j] = t
  <2> TAKE t \in X
  <2>1. t \in Nat /\ t \div n < q /\ t % n = x
    OBVIOUS
  <2>2. t \div n \in S /\ t = (n * (t \div n)) + x
    BY <2>1, RowAndColumn
  <2> QED BY <2>2
<1> HIDE DEF S, X, f
<1>8. Cardinality(X) = Cardinality(S)
  BY <1>2, <1>5, <1>6, <1>7, SameSize
<1> QED BY <1>2, <1>8 DEF X

\* The first w positions of a row.
LEMMA RowSize ==
    ASSUME JobTypes, NEW p \in Nat, NEW w \in 0 .. n, NEW c \in Nat, (n * p) + w <= c
    PROVE  Cardinality({k \in 0 .. c - 1 : k \div n = p /\ k % n < w}) = w
<1> DEFINE X == {k \in 0 .. c - 1 : k \div n = p /\ k % n < w}
           a == n * p
<1>1. n \in Nat \ {0} /\ a \in Nat
  BY DEF JobTypes
<1>2. X = a .. a + w - 1
  <2>1. ASSUME NEW k \in X
        PROVE  k \in a .. a + w - 1
    <3>1. k \in Nat /\ k \div n = p /\ k % n < w
      OBVIOUS
    <3>2. k = (n * p) + (k % n) /\ k % n \in 0 .. n - 1
      BY <3>1, RowAndColumn
    <3> QED BY <1>1, <3>1, <3>2
  <2>2. ASSUME NEW k \in a .. a + w - 1
        PROVE  k \in X
    <3> DEFINE x == k - a
    <3>1. x \in 0 .. n - 1 /\ x < w /\ k \in Nat /\ k = (n * p) + x /\ k \in 0 .. c - 1
      BY <1>1
    <3> HIDE DEF x, a
    <3>2. k \div n = p /\ k % n = x
      BY <3>1, RowAndColumn
    <3> QED BY <3>1, <3>2
  <2> HIDE DEF X
  <2> QED BY <2>1, <2>2
<1>3. Cardinality(a .. a + w - 1) = w
  <2> HIDE DEF a
  <2> QED BY <1>1, FS_Interval
<1> QED BY <1>2, <1>3 DEF X

\* A community whose size is a multiple of the partner group size is a grid.
LEMMA GridOfRows ==
    ASSUME JobTypes, Keyed, NEW r \in JobRank, NEW q \in Nat, cranks(r) = n * q, NEW s \in ccomm(r)
    PROVE  /\ pranksOf(s) = n /\ xranksOf(s) = q /\ prankOf(s) = xid(s) /\ xrankOf(s) = pid(s)
           /\ crank(s) = (n * pid(s)) + xid(s)
<1> DEFINE c == cranks(r)
           p == pid(s)
           x == xid(s)
<1>1. n \in Nat \ {0} /\ c \in Nat /\ crank(s) \in 0 .. c - 1 /\ crank(s) \in Nat
  <2>1. cranks(r) \in Nat /\ crank(s) \in 0 .. cranks(r) - 1
    BY Positions
  <2> HIDE DEF c
  <2>2. crank(s) \in Nat /\ c = cranks(r)
    BY <2>1 DEF c
  <2> QED BY <2>1, <2>2 DEF JobTypes
<1>2. p \in Nat /\ x \in 0 .. n - 1 /\ crank(s) = (n * p) + x
  BY <1>1, RowAndColumn DEF pid, xid
<1>3. ccomm(s) = ccomm(r) /\ \A t \in ccomm(r) : crank(t) \in 0 .. c - 1
  <2>1. \A t \in ccomm(r) : ccomm(t) = ccomm(r) /\ crank(t) \in 0 .. cranks(r) - 1
    BY Positions
  <2> QED BY <2>1
<1>q. c = n * q
  OBVIOUS
<1> HIDE DEF c, p, x
<1>4. p < q
  <2>1. ASSUME q <= p
        PROVE  FALSE
    <3>1. n * q <= n * p
      BY <1>1, <1>2, <2>1, MulMonotone
    <3>2. n * p \in Nat /\ n * q \in Nat
      BY <1>1, <1>2
    <3> QED BY <1>1, <1>2, <1>q, <3>1, <3>2
  <2> QED BY <1>2, <2>1
<1>5. (n * p) + n <= c /\ n * p \in Nat
  <2>1. n * (p + 1) <= n * q
    BY <1>1, <1>2, <1>4, MulMonotone
  <2>2. n * (p + 1) = (n * p) + n /\ n * p \in Nat
    BY <1>1, <1>2
  <2> QED BY <1>q, <2>1, <2>2
<1>6. \A k \in 0 .. c - 1 : k % n \in 0 .. n - 1 /\ k \div n \in Nat /\ k \div n < q
  <2> TAKE k \in 0 .. c - 1
  <2>1. k \div n \in Nat /\ k % n \in 0 .. n - 1 /\ k = (n * (k \div n)) + (k % n)
    BY RowAndColumn
  <2>2. ASSUME q <= k \div n
        PROVE  FALSE
    <3> DEFINE d == k \div n
    <3>1. d \in Nat /\ q <= d
      BY <2>1, <2>2
    <3> HIDE DEF d
    <3>2. n * q <= n * d
      BY <1>1, <3>1, MulMonotone
    <3>3. n * d \in Nat /\ n * q \in Nat
      BY <1>1, <3>1
    <3>4. k = (n * d) + (k % n) /\ k < c /\ k % n >= 0 /\ k % n \in Int
      BY <1>1, <2>1 DEF d
    <3> QED BY <1>q, <3>2, <3>3, <3>4
  <2> QED BY <2>1, <2>2
<1>7. pranksOf(s) = n
  <2> DEFINE X == {k \in 0 .. c - 1 : k \div n = p /\ k % n < n}
  <2>1. partners(s) = {t \in ccomm(r) : crank(t) \in X}
    BY <1>1, <1>3, <1>6 DEF partners, pid, p
  <2>2. Cardinality(X) = n
    BY <1>1, <1>2, <1>5, RowSize
  <2>3. X \subseteq 0 .. c - 1
    OBVIOUS
  <2> HIDE DEF X
  <2> QED BY <2>1, <2>2, <2>3, ByPosition DEF pranksOf, c
<1>8. xranksOf(s) = q
  <2> DEFINE X == {k \in 0 .. c - 1 : k % n = x /\ k \div n < q}
  <2>1. xorgroup(s) = {t \in ccomm(r) : crank(t) \in X}
    BY <1>3, <1>6 DEF xorgroup, xid, x
  <2>2. Cardinality(X) = q
    <3>1. n * q <= c
      BY <1>1, <1>q
    <3> QED BY <1>1, <1>2, <3>1, ColumnSize
  <2>3. X \subseteq 0 .. c - 1
    OBVIOUS
  <2> HIDE DEF X
  <2> QED BY <2>1, <2>2, <2>3, ByPosition DEF xranksOf, c
<1>9. prankOf(s) = x
  <2> DEFINE X == {k \in 0 .. c - 1 : k \div n = p /\ k % n < x}
  <2>1. {t \in partners(s) : xid(t) < xid(s)} = {t \in ccomm(r) : crank(t) \in X}
    BY <1>3 DEF partners, pid, xid, p, x
  <2>2. Cardinality(X) = x
    <3>1. x \in 0 .. n /\ (n * p) + x <= c
      BY <1>1, <1>2, <1>5
    <3> QED BY <1>1, <1>2, <3>1, RowSize
  <2>3. X \subseteq 0 .. c - 1
    OBVIOUS
  <2> HIDE DEF X
  <2> QED BY <2>1, <2>2, <2>3, ByPosition DEF prankOf, c
<1>10. xrankOf(s) = p
  <2> DEFINE X == {k \in 0 .. c - 1 : k % n = x /\ k \div n < p}
  <2>1. {t \in xorgroup(s) : pid(t) < pid(s)} = {t \in ccomm(r) : crank(t) \in X}
    BY <1>3 DEF xorgroup, pid, xid, p, x
  <2>2. Cardinality(X) = p
    <3>1. n * p <= c
      BY <1>1, <1>5
    <3> QED BY <1>1, <1>2, <3>1, ColumnSize
  <2>3. X \subseteq 0 .. c - 1
    OBVIOUS
  <2> HIDE DEF X
  <2> QED BY <2>1, <2>2, <2>3, ByPosition DEF xrankOf, c
<1> QED BY <1>2, <1>7, <1>8, <1>9, <1>10 DEF p, x

-----------------------------------------------------------------------------
(* Groups: communities that can be repaired.                               *)

\* The sum of whole rows.
LEMMA WholeRows ==
    ASSUME JobTypes, Keyed, NEW r \in JobRank, cranks(r) % n = 0, cranks(r) >= 2 * n
    PROVE  \A s \in ccomm(r) : WalkFits(s) /\ ParityExists(s)
<1> DEFINE c == cranks(r)
           q == c \div n
<1>1. n \in Nat \ {0} /\ c \in Nat /\ c % n = 0 /\ c >= 2 * n /\ n >= 2
  BY Positions DEF JobTypes
<1> HIDE DEF c
<1>2. q \in Nat /\ c = n * q
  <2>1. q \in Nat /\ c = (n * q) + (c % n)
    BY <1>1, DivMod
  <2> HIDE DEF q
  <2>2. n * q \in Nat
    BY <1>1, <2>1
  <2> QED BY <1>1, <2>1, <2>2
<1> HIDE DEF q
<1>3. q > 1
  <2>1. ASSUME q <= 1
        PROVE  FALSE
    <3>1. n * q <= n * 1
      BY <1>1, <1>2, <2>1, MulMonotone
    <3> QED BY <1>1, <1>2, <3>1
  <2> QED BY <1>2, <2>1
<1> TAKE s \in ccomm(r)
<1>4. cranks(r) = n * q
  BY <1>2 DEF c
<1>5. /\ pranksOf(s) = n /\ xranksOf(s) = q /\ prankOf(s) = xid(s) /\ xrankOf(s) = pid(s)
      /\ crank(s) = (n * pid(s)) + xid(s)
  BY <1>2, <1>4, GridOfRows
<1>6. pid(s) \in Nat
  <2>1. crank(s) \in Nat
    BY Positions
  <2> QED BY <2>1, RowAndColumn DEF pid
<1>7. cranks(s) = cranks(r)
  <2>1. ccomm(s) = ccomm(r)
    BY Positions
  <2> QED BY <2>1 DEF cranks
<1>8. q * n = n * q /\ pid(s) * n = n * pid(s)
  BY <1>1, <1>2, <1>6
<1>9. WalkFits(s)
  BY <1>4, <1>5, <1>7, <1>8 DEF WalkFits
<1>10. ParityExists(s)
  BY <1>3, <1>5 DEF ParityExists
<1> QED BY <1>9, <1>10

\* A group of more than one has a member besides.
LEMMA OneMore ==
    ASSUME NEW S, NEW x \in S, Cardinality(S) > 1
    PROVE  \E y \in S : y # x
<1>1. SUFFICES ASSUME S = {x}
               PROVE  FALSE
  OBVIOUS
<1>2. Cardinality({x}) = 1
  BY FS_Singleton
<1> QED BY <1>1, <1>2

\* Where the first rank of a community has an XOR partner and the walk fits,
\* there are two whole rows at least.
LEMMA RowsAreWhole ==
    ASSUME JobTypes, Keyed, NEW r \in JobRank, \A s \in ccomm(r) : WalkFits(s) /\ ParityExists(s)
    PROVE  cranks(r) % n = 0 /\ cranks(r) >= 2 * n
<1> DEFINE c == cranks(r)
<1>1. n \in Nat \ {0} /\ c \in Nat \ {0} /\ n >= 2
  BY Positions DEF JobTypes
<1>2. PICK s \in ccomm(r) : crank(s) = 0
  <2>1. 0 \in 0 .. c - 1
    BY <1>1
  <2> HIDE DEF c
  <2>2. 0 \in 0 .. cranks(r) - 1
    BY <2>1 DEF c
  <2> QED BY <2>2, Positions
<1>3. ccomm(s) = ccomm(r) /\ cranks(s) = c
  <2>1. ccomm(s) = ccomm(r)
    BY Positions
  <2> QED BY <2>1 DEF cranks
<1>4. pid(s) = 0 /\ xid(s) = 0
  <2>1. 0 = (n * 0) + 0 /\ 0 \in 0 .. n - 1
    BY <1>1
  <2>2. 0 \div n = 0 /\ 0 % n = 0
    BY <2>1, RowAndColumn
  <2> QED BY <1>2, <2>2 DEF pid, xid
<1>5. PICK t \in xorgroup(s) : t # s
  <2>1. s \in xorgroup(s)
    BY <1>3 DEF xorgroup
  <2>2. xranksOf(s) > 1
    BY DEF ParityExists
  <2> QED BY <2>1, <2>2, OneMore DEF xranksOf
<1>6. t \in ccomm(r) /\ xid(t) = 0 /\ crank(t) # 0 /\ crank(t) \in 0 .. c - 1
  <2>1. t \in ccomm(r) /\ xid(t) = 0
    BY <1>3, <1>4, <1>5 DEF xorgroup
  <2> QED BY <1>2, <1>5, <2>1, Positions
<1>7. n < c
  <2> DEFINE k == crank(t)
             p == k \div n
  <2>1. k \in Nat /\ k < c /\ k # 0 /\ k % n = 0
    BY <1>1, <1>6 DEF xid
  <2> HIDE DEF k
  <2>2. p \in Nat /\ k = n * p
    <3>1. p \in Nat /\ k = (n * p) + (k % n)
      BY <1>1, <2>1, DivMod
    <3> HIDE DEF p
    <3>2. n * p \in Nat
      BY <1>1, <3>1
    <3> QED BY <2>1, <3>1, <3>2
  <2> HIDE DEF p
  <2>3. p # 0
    BY <1>1, <2>1, <2>2
  <2>4. n * 1 <= n * p
    BY <1>1, <2>2, <2>3, MulMonotone
  <2> HIDE DEF c
  <2> QED BY <1>1, <2>1, <2>2, <2>4
<1>8. pranksOf(s) = n
  <2> DEFINE X == {k \in 0 .. c - 1 : k \div n = 0 /\ k % n < n}
  <2>1. \A u \in ccomm(r) : crank(u) \in 0 .. c - 1 /\ crank(u) % n < n
    <3> TAKE u \in ccomm(r)
    <3>1. crank(u) \in 0 .. c - 1
      BY Positions
    <3>2. crank(u) \in Nat
      BY <3>1
    <3>3. crank(u) % n \in 0 .. n - 1
      BY <3>2, RowAndColumn
    <3> QED BY <1>1, <3>1, <3>3
  <2>2. partners(s) = {u \in ccomm(r) : crank(u) \in X}
    BY <1>3, <1>4, <2>1 DEF partners, pid
  <2>3. Cardinality(X) = n
    <3>1. (n * 0) + n <= c /\ n \in 0 .. n
      BY <1>1, <1>7
    <3> HIDE DEF c
    <3> QED BY <1>1, <3>1, RowSize
  <2>4. X \subseteq 0 .. c - 1
    OBVIOUS
  <2> HIDE DEF X
  <2> QED BY <2>2, <2>3, <2>4, ByPosition DEF pranksOf, c
<1> DEFINE q == xranksOf(s)
<1>9. q \in Nat /\ q >= 2
  <2>1. IsFiniteSet(xorgroup(s))
    <3>1. IsFiniteSet(ccomm(r)) /\ xorgroup(s) \subseteq ccomm(r)
      BY <1>3, Positions DEF xorgroup
    <3> QED BY <3>1, FS_Subset
  <2>2. q \in Nat
    BY <2>1, FS_CardinalityType DEF xranksOf
  <2>3. q > 1
    BY DEF ParityExists
  <2> QED BY <2>2, <2>3
<1>10. c = q * n
  BY <1>2, <1>3, <1>8 DEF WalkFits
<1> HIDE DEF c, q
<1>11. c = (n * q) + 0 /\ 0 \in 0 .. n - 1
  BY <1>1, <1>9, <1>10
<1>12. c % n = 0
  BY <1>1, <1>9, <1>11, DivUnique
<1>13. n * 2 <= n * q
  BY <1>1, <1>9, MulMonotone
<1> QED BY <1>1, <1>9, <1>11, <1>12, <1>13 DEF c

-----------------------------------------------------------------------------
(* Groups: the ranks of a node.                                            *)

\* COMB_Init computes with the size of a node, which is one at least.
LEMMA NodeSize ==
    ASSUME JobTypes, nhosts >= 6
    PROVE  nhosts \in Nat /\ nodesize \in Nat \ {0}
<1> DEFINE B == {r \in JobRank : host[r] # host[(r + ranks - 1) % ranks]}
           h == nhosts
           c == ranks
<1>1. IsFiniteSet(JobRank) /\ ranks = Cardinality(JobRank) /\ c \in Nat \ {0}
  BY DEF JobTypes, ranks
<1>2. h \in Nat /\ h <= c
  <2>1. B \subseteq JobRank /\ h = Cardinality(B)
    BY DEF nhosts
  <2> HIDE DEF B, h
  <2> QED BY <1>1, <2>1, FS_Subset, FS_CardinalityType
<1>3. h >= 6
  OBVIOUS
<1> DEFINE d == c \div h
<1>4. nodesize = d
  BY DEF nodesize
<1> HIDE DEF h, c
<1>5. d \in Nat /\ c % h \in 0 .. h - 1 /\ c = (h * d) + (c % h)
  <2>1. h \in Nat \ {0} /\ c \in Nat
    BY <1>1, <1>2, <1>3
  <2> QED BY <2>1, DivMod
<1> HIDE DEF d
<1>6. d # 0
  <2> SUFFICES ASSUME d = 0
               PROVE  FALSE
    OBVIOUS
  <2>1. h * d = 0
    BY <1>2
  <2> QED BY <1>2, <1>5, <2>1
<1> QED BY <1>2, <1>4, <1>5, <1>6 DEF h

\* Nodes of k ranks in blocks are found to have k ranks.
LEMMA BlocksFound ==
    ASSUME JobTypes, nhosts >= 6, NEW k \in 1 .. ranks, ranks % k = 0,
           \A r, s \in JobRank : host[r] = host[s] <=> r \div k = s \div k
    PROVE  nodesize = k
<1> DEFINE c == ranks
           q == c \div k
           prev == [r \in JobRank |-> (r + ranks - 1) % ranks]
           B == {r \in JobRank : host[r] # host[prev[r]]}
           S == 0 .. q - 1
           f == [j \in S |-> k * j]
<1>1. c \in Nat \ {0} /\ JobRank = 0 .. c - 1 /\ c % k = 0
  BY DEF JobTypes
<1>2. k \in Nat \ {0}
  BY <1>1
<1>3. nhosts = Cardinality(B)
  BY DEF nhosts
<1>4. \A r \in JobRank : prev[r] = IF r = 0 THEN c - 1 ELSE r - 1
  <2> HIDE DEF c
  <2> SUFFICES ASSUME NEW r \in JobRank
               PROVE  (r + c - 1) % c = IF r = 0 THEN c - 1 ELSE r - 1
    BY DEF c
  <2>1. CASE r = 0
    <3>1. c - 1 \in 0 .. c - 1 /\ r + c - 1 = c - 1
      BY <1>1, <2>1
    <3>2. (c - 1) % c = c - 1
      BY <1>1, <3>1, ModOnce
    <3> QED BY <2>1, <3>1, <3>2
  <2>2. CASE r # 0
    <3>1. r - 1 \in 0 .. c - 1 /\ r + c - 1 = (r - 1) + c
      BY <1>1, <2>2
    <3>2. ((r - 1) + c) % c = r - 1
      BY <1>1, <3>1, ModOnce
    <3> QED BY <2>2, <3>1, <3>2
  <2> QED BY <2>1, <2>2
<1> HIDE DEF prev
<1>p. \A r \in JobRank : prev[r] \in JobRank
  <2> HIDE DEF c
  <2> TAKE r \in JobRank
  <2>1. r \in 0 .. c - 1 /\ prev[r] = IF r = 0 THEN c - 1 ELSE r - 1
    BY <1>1, <1>4
  <2>2. prev[r] \in 0 .. c - 1
    BY <1>1, <2>1
  <2> QED BY <1>1, <2>2
<1> HIDE DEF c
<1>5. q \in Nat /\ c = k * q
  <2>1. q \in Nat /\ c = (k * q) + (c % k)
    BY <1>1, <1>2, DivMod
  <2> HIDE DEF q
  <2>2. k * q \in Nat
    BY <1>2, <2>1
  <2> QED BY <1>1, <2>1, <2>2
<1> HIDE DEF q
<1>6. q # 0
  BY <1>1, <1>2, <1>5
<1>7. \A r \in JobRank : r \in Nat /\ r \div k \in S /\ r % k \in 0 .. k - 1 /\ r = (k * (r \div k)) + (r % k)
  <2> TAKE r \in JobRank
  <2>1. r \in Nat /\ r < c
    BY <1>1
  <2>2. r \div k \in Nat /\ r % k \in 0 .. k - 1 /\ r = (k * (r \div k)) + (r % k)
    BY <1>2, <2>1, DivMod
  <2> DEFINE d == r \div k
  <2>3. ASSUME q <= d
        PROVE  FALSE
    <3> HIDE DEF d
    <3>1. d \in Nat /\ r % k >= 0 /\ r = (k * d) + (r % k) /\ r % k \in Int
      BY <2>2 DEF d
    <3>2. k * q <= k * d /\ k * q \in Nat /\ k * d \in Nat
      BY <1>2, <1>5, <2>3, <3>1, MulMonotone
    <3> QED BY <1>5, <2>1, <3>1, <3>2
  <2> QED BY <1>5, <2>1, <2>2, <2>3
\* Within a block the preceding rank is on the same node.
<1>8. ASSUME NEW r \in JobRank, r % k # 0
      PROVE  r \notin B
  <2> DEFINE d == r \div k
             x == r % k
             p == r - 1
  <2>1. r \in Nat /\ d \in Nat /\ x \in 0 .. k - 1 /\ x # 0 /\ r = (k * d) + x
    BY <1>5, <1>7, <1>8
  <2>2. k * d \in Nat
    BY <1>2, <2>1
  <2> HIDE DEF d, x
  <2>3. r # 0 /\ p \in Nat /\ p = (k * d) + (x - 1) /\ x - 1 \in 0 .. k - 1
    BY <1>2, <2>1, <2>2
  <2>4. p \in JobRank /\ prev[r] = p
    BY <1>1, <1>4, <2>3
  <2> HIDE DEF p
  <2>5. p \div k = d
    <3> DEFINE y == x - 1
    <3>1. p \in Nat /\ d \in Int /\ p = (k * d) + y /\ y \in 0 .. k - 1
      BY <2>1, <2>3
    <3> HIDE DEF y
    <3> QED BY <1>2, <3>1, DivUnique
  <2>6. host[r] = host[p]
    BY <2>4, <2>5 DEF d
  <2> QED BY <2>4, <2>6
\* The first rank of a block is preceded by one of another block, if there is one.
<1>9. ASSUME NEW r \in JobRank, r % k = 0, q > 1
      PROVE  r \in B
  <2> DEFINE d == r \div k
             p == prev[r]
             e == IF d = 0 THEN q - 1 ELSE d - 1
  <2>1. r \in Nat /\ d \in Nat /\ d \in S
    BY <1>5, <1>7
  <2>2. r = k * d
    <3>1. r = (k * d) + (r % k) /\ d \in Nat
      BY <1>7, <2>1
    <3> HIDE DEF d
    <3>2. k * d \in Nat
      BY <1>2, <3>1
    <3> QED BY <1>9, <3>1, <3>2
  <2> HIDE DEF d
  <2>3. p \in JobRank /\ p = IF r = 0 THEN c - 1 ELSE r - 1
    BY <1>p, <1>4
  <2> HIDE DEF p
  <2>4. p \in Nat /\ e \in Int /\ e # d /\ p = (k * e) + (k - 1)
    <3>1. CASE d = 0
      <4>1. r = 0
        BY <1>2, <2>2, <3>1
      <4>2. k * (q - 1) = (k * q) - k
        BY <1>2, <1>5
      <4>3. k * q \in Nat
        BY <1>2, <1>5
      <4> QED BY <1>1, <1>2, <1>5, <1>9, <2>3, <3>1, <4>1, <4>2, <4>3
    <3>2. CASE d # 0
      <4>1. k * (d - 1) = (k * d) - k /\ k * d \in Nat
        BY <1>2, <2>1
      <4>2. k * 1 <= k * d
        BY <1>2, <2>1, <3>2, MulMonotone
      <4>3. r # 0
        BY <1>2, <2>2, <4>1, <4>2
      <4> QED BY <1>1, <1>2, <2>1, <2>2, <2>3, <3>2, <4>1, <4>3
    <3> QED BY <3>1, <3>2
  <2>5. p \div k = e
    <3>1. k - 1 \in 0 .. k - 1
      BY <1>2
    <3> HIDE DEF e
    <3> QED BY <1>2, <2>4, <3>1, DivUnique
  <2>6. host[r] # host[p]
    BY <2>3, <2>4, <2>5 DEF d
  <2> QED BY <2>3, <2>6 DEF p
<1>10. q > 1
  <2> SUFFICES ASSUME q = 1
               PROVE  FALSE
    BY <1>5, <1>6
  <2>1. \A r \in JobRank : r \div k = 0
    BY <1>7
  <2>3. B = {}
    BY <1>p, <2>1
  <2>4. Cardinality(B) = 0
    BY <2>3, FS_EmptySet
  <2> QED BY <1>3, <2>4
<1>11. Cardinality(B) = q
  <2>1. IsFiniteSet(S) /\ Cardinality(S) = q
    <3> DEFINE b == q - 1
    <3>1. q \in Nat /\ b \in Int /\ b - 0 + 1 = q /\ (0 > b => q = 0)
      BY <1>5
    <3> HIDE DEF b
    <3> HIDE DEF S, B, f, prev
    <3>2. IsFiniteSet(0 .. b) /\ Cardinality(0 .. b) = IF 0 > b THEN 0 ELSE b - 0 + 1
      <4>1. 0 \in Int /\ b \in Int
        BY <3>1
      <4> QED BY <4>1, FS_Interval
    <3> QED BY <3>1, <3>2 DEF b, S
  <2>2. \A j \in S : k * j \in JobRank /\ (k * j) % k = 0 /\ (k * j) \div k = j
    <3> TAKE j \in S
    <3> DEFINE a == k * j
    <3>1. a \in Nat /\ a = (k * j) + 0 /\ 0 \in 0 .. k - 1 /\ j \in Int
      BY <1>2
    <3>2. k * (j + 1) <= k * q /\ k * (j + 1) = a + k /\ k * q \in Nat
      BY <1>2, <1>5, MulMonotone
    <3> HIDE DEF a
    <3>3. a % k = 0 /\ a \div k = j
      BY <1>2, <3>1, DivUnique
    <3>4. a \in JobRank
      <4>1. a + k <= c
        BY <1>5, <3>2
      <4> QED BY <1>1, <1>2, <3>1, <4>1
    <3> QED BY <3>3, <3>4 DEF a
  <2>3. f \in [S -> B]
    <3> HIDE DEF B
    <3> QED BY <1>9, <1>10, <2>2
  <2>4. \A a, b \in S : f[a] = f[b] => a = b
    BY <2>2
  <2>5. \A t \in B : \E j \in S : f[j] = t
    <3> TAKE t \in B
    <3>1. t \in JobRank /\ t % k = 0
      BY <1>8
    <3> DEFINE d == t \div k
    <3>2. d \in S /\ t = (k * d) + 0 /\ d \in Nat
      BY <1>5, <1>7, <3>1
    <3> HIDE DEF d
    <3>3. f[d] = t
      BY <1>2, <3>2
    <3> QED BY <3>2, <3>3
  <2> HIDE DEF S, B, f
  <2> QED BY <2>1, <2>3, <2>4, <2>5, SameSize
<1>12. c \div q = k
  <2>1. q \in Nat \ {0} /\ c \in Nat /\ k \in Int /\ c = (q * k) + 0 /\ 0 \in 0 .. q - 1
    BY <1>1, <1>2, <1>5, <1>6
  <2> QED BY <2>1, DivUnique
<1> QED BY <1>3, <1>11, <1>12 DEF nodesize, c

\* The community number of a rank keeps its position on the node.
LEMMA NodeRanksApart ==
    ASSUME JobTypes, nhosts >= 6, UniformBlocks,
           communityid = [r \in JobRank |-> nodesize * (r \div (nodesize * m * n)) + (r % nodesize)],
           NEW r \in JobRank, NEW s \in JobRank, r # s, host[r] = host[s]
    PROVE  communityid[r] # communityid[s]
<1>1. PICK k \in 1 .. ranks : ranks % k = 0 /\ \A a, b \in JobRank : host[a] = host[b] <=> a \div k = b \div k
  BY DEF UniformBlocks
<1>2. nodesize = k
  BY <1>1, BlocksFound
<1>3. k \in Nat \ {0} /\ r \in Nat /\ s \in Nat
  BY <1>1 DEF JobTypes
<1> DEFINE w == k * m * n
           d == r \div k
           x == r % k
           e == s \div k
           y == s % k
<1>4. w \in Nat \ {0}
  <2>1. k * m \in Nat \ {0}
    BY <1>3 DEF JobTypes
  <2> DEFINE z == k * m
  <2> HIDE DEF z
  <2>2. z * n \in Nat \ {0}
    BY <2>1 DEF JobTypes, z
  <2> QED BY <2>2 DEF z
<1> HIDE DEF w
<1>5. /\ d \in Nat /\ x \in 0 .. k - 1 /\ r = (k * d) + x
      /\ e \in Nat /\ y \in 0 .. k - 1 /\ s = (k * e) + y
  BY <1>3, DivMod
<1>6. d = e
  BY <1>1
<1> HIDE DEF d, x, e, y
<1>7. x # y
  BY <1>5, <1>6
<1> DEFINE i == r \div w
           j == s \div w
           a == (k * i) + x
           b == (k * j) + y
<1>8. communityid[r] = a /\ communityid[s] = b
  BY <1>2 DEF w, x, y
<1>9. i \in Nat /\ j \in Nat
  BY <1>3, <1>4, DivMod
<1> HIDE DEF i, j
<1>10. a \in Nat /\ b \in Nat
  <2>1. k * i \in Nat /\ k * j \in Nat
    BY <1>3, <1>9
  <2> QED BY <1>5, <2>1
<1>11. a = (k * i) + x /\ b = (k * j) + y
  OBVIOUS
<1> HIDE DEF a, b
<1>12. a % k = x /\ b % k = y
  <2>1. /\ a \in Nat /\ i \in Int /\ x \in 0 .. k - 1 /\ a = (k * i) + x
        /\ b \in Nat /\ j \in Int /\ y \in 0 .. k - 1 /\ b = (k * j) + y
    BY <1>5, <1>9, <1>10, <1>11
  <2>2. a % k = x
    BY <1>3, <2>1, DivUnique
  <2>3. b % k = y
    BY <1>3, <2>1, DivUnique
  <2> QED BY <2>2, <2>3
<1> QED BY <1>7, <1>8, <1>12

-----------------------------------------------------------------------------
(* Groups: the invariant.                                                  *)

\* COMB_Init divided the ranks as Divide says, and only where it may.
Divided ==
    /\ Keyed
    /\ consider_rpn => /\ nhosts >= 6
                       /\ communityid = [r \in JobRank |-> nodesize * (r \div (nodesize * m * n)) + (r % nodesize)]

GroupsInv == JobTypes /\ (~Unassigned => Divided)

LEMMA GroupsStart ==
    ASSUME GroupsInit
    PROVE  GroupsInv
<1>1. n \in Nat /\ n >= 2 /\ m \in Nat /\ m >= 3
  <2>1. PICK g \in GroupSizes : n = g[1] /\ m = g[2]
    BY DEF GroupsInit
  <2> QED BY <2>1, GroupsAssumption
<1>2. IsFiniteSet(JobRank) /\ JobRank # {} /\ JobRank = 0 .. ranks - 1
  BY GroupsAssumption DEF GroupsInit, JobRank, ranks
<1>3. ranks \in Nat \ {0}
  BY <1>2, FS_CardinalityType, FS_EmptySet DEF ranks
<1> QED BY <1>1, <1>2, <1>3 DEF JobTypes, GroupsInv, GroupsInit, Unassigned

LEMMA GroupsStep ==
    ASSUME GroupsInv, COMB_Init
    PROVE  GroupsInv'
<1>1. n' = n /\ m' = m /\ host' = host /\ consider_rpn' = consider_rpn /\ JobTypes
  BY DEF COMB_Init, GroupsInv
<1>2. JobRank' = JobRank /\ ranks' = ranks /\ nhosts' = nhosts /\ nodesize' = nodesize
  BY <1>1 DEF JobRank, ranks, nhosts, nodesize
<1>3. JobTypes'
  BY <1>1, <1>2 DEF JobTypes
<1>4. n \in Nat \ {0} /\ m \in Nat \ {0} /\ \A r \in JobRank : r \in Nat
  BY <1>1 DEF JobTypes
<1>5. CASE consider_rpn
  <2>1. nhosts >= 6
    BY <1>5 DEF COMB_Init
  <2> DEFINE z == nodesize
             w == z * m * n
             u == m * n
             id == [r \in JobRank |-> z * (r \div w) + (r % z)]
             ky == [r \in JobRank |-> (r \div z) % u]
  <2>2. communityid' = id /\ communitykey' = ky
    BY <1>5 DEF COMB_Init, Divide
  <2>3. z \in Nat \ {0}
    BY <1>1, <2>1, NodeSize
  <2> HIDE DEF z
  <2>4. u \in Nat \ {0} /\ z * m \in Nat \ {0}
    BY <1>4, <2>3
  <2>5. w \in Nat \ {0}
    <3> DEFINE y == z * m
    <3> HIDE DEF y
    <3>1. y * n \in Nat \ {0}
      BY <1>4, <2>4 DEF y
    <3> QED BY <3>1 DEF y
  <2> HIDE DEF w, u
  <2>6. \A r \in JobRank : z * (r \div w) + (r % z) \in Int /\ (r \div z) % u \in Int
    <3> TAKE r \in JobRank
    <3>1. r \in Nat /\ r \div w \in Nat /\ r % z \in Nat /\ r \div z \in Nat
      BY <1>4, <2>3, <2>5, DivMod
    <3>2. (r \div z) % u \in Int
      BY <2>4, <3>1, DivMod
    <3> DEFINE d == r \div w
               x == r % z
    <3>3. d \in Nat /\ x \in Nat
      BY <3>1
    <3> HIDE DEF d, x
    <3>4. z * d \in Nat
      BY <2>3, <3>3
    <3>5. z * d + x \in Int
      BY <3>3, <3>4
    <3> QED BY <3>2, <3>5 DEF d, x
  <2>7. id \in [JobRank -> Int] /\ ky \in [JobRank -> Int]
    BY <2>6
  <2>8. Keyed'
    <3> HIDE DEF id, ky
    <3> QED BY <1>2, <2>2, <2>7 DEF Keyed
  <2>9. communityid' = [r \in JobRank |-> nodesize * (r \div (nodesize * m * n)) + (r % nodesize)]'
    BY <1>1, <1>2, <2>2 DEF z, w
  <2> QED BY <1>2, <1>3, <2>1, <2>8, <2>9 DEF GroupsInv, Divided
<1>6. CASE ~consider_rpn
  <2> DEFINE u == m * n
             id == [r \in JobRank |-> r \div u]
             ky == [r \in JobRank |-> r % u]
  <2>1. communityid' = id /\ communitykey' = ky
    BY <1>6 DEF COMB_Init, Divide
  <2>2. u \in Nat \ {0}
    BY <1>4
  <2> HIDE DEF u
  <2>3. \A r \in JobRank : r \div u \in Int /\ r % u \in Int
    <3> TAKE r \in JobRank
    <3> QED BY <1>4, <2>2, DivMod
  <2>4. id \in [JobRank -> Int] /\ ky \in [JobRank -> Int]
    BY <2>3
  <2>5. Keyed'
    <3> HIDE DEF id, ky
    <3> QED BY <1>2, <2>1, <2>4 DEF Keyed
  <2> QED BY <1>1, <1>3, <1>6, <2>5 DEF GroupsInv, Divided
<1> QED BY <1>5, <1>6

\* COMB_Init typed what it set, and put the ranks where the formulas say.
LEMMA GroupsInvariant == GroupsSpec => []GroupsInv
<1>1. GroupsInit => GroupsInv
  BY GroupsStart
<1>2. GroupsInv /\ [COMB_Init]_groupvars => GroupsInv'
  <2> SUFFICES ASSUME GroupsInv, [COMB_Init]_groupvars
               PROVE  GroupsInv'
    OBVIOUS
  <2>1. CASE COMB_Init
    BY <2>1, GroupsStep
  <2>2. CASE UNCHANGED groupvars
    BY <2>2 DEF groupvars, GroupsInv, JobTypes, Divided, Keyed, JobRank, ranks, nhosts, nodesize, Unassigned
  <2> QED BY <2>1, <2>2
<1> QED BY <1>1, <1>2, PTL DEF GroupsSpec

\* However many ranks the job has and whatever the group sizes are, a community
\* that COMB_Init filled is a grid: each partner group has partner_group_size
\* ranks, each XOR group xor_group_size, and the number of a rank in the one is
\* the number of its group in the other.
THEOREM FullGridHolds == GroupsSpec => []FullGrid
<1>1. GroupsInv => FullGrid
  <2> SUFFICES ASSUME GroupsInv, ~Unassigned, NEW r \in JobRank, cranks(r) = m * n
               PROVE  pranksOf(r) = n /\ xranksOf(r) = m /\ prankOf(r) = xid(r) /\ xrankOf(r) = pid(r)
    BY DEF FullGrid
  <2>1. JobTypes /\ Keyed /\ m \in Nat /\ n \in Nat
    BY DEF GroupsInv, Divided, JobTypes
  <2>2. cranks(r) = n * m /\ r \in ccomm(r)
    BY <2>1 DEF ccomm
  <2> QED BY <2>1, <2>2, GridOfRows
<1> QED BY <1>1, GroupsInvariant, PTL

\* The last, smaller community of COMB_Init can be recovered by the root's walk
\* over its states and by the division by xranks - 1 exactly if it consists of
\* two or more complete partner groups.
THEOREM ShortCommunitiesHold == GroupsSpec => []ShortCommunities
<1>1. GroupsInv => ShortCommunities
  <2> SUFFICES ASSUME GroupsInv, ~Unassigned, NEW r \in JobRank
               PROVE  (\A s \in ccomm(r) : WalkFits(s) /\ ParityExists(s)) <=> (cranks(r) % n = 0 /\ cranks(r) >= 2 * n)
    BY DEF ShortCommunities
  <2>1. JobTypes /\ Keyed
    BY DEF GroupsInv, Divided
  <2> QED BY <2>1, WholeRows, RowsAreWhole
<1> QED BY <1>1, GroupsInvariant, PTL

\* With consider_ranks_per_node set, and nodes of one size that are filled one
\* after the other, COMB_Init puts no two ranks of a node into one community.
THEOREM OneRankPerNodeHolds == GroupsSpec => []OneRankPerNode
<1>1. GroupsInv => OneRankPerNode
  <2> SUFFICES ASSUME GroupsInv, ~Unassigned, consider_rpn, UniformBlocks,
                      NEW r \in JobRank, NEW s \in JobRank, r # s, host[r] = host[s]
               PROVE  communityid[r] # communityid[s]
    BY DEF OneRankPerNode
  <2>1. /\ JobTypes /\ nhosts >= 6
        /\ communityid = [a \in JobRank |-> nodesize * (a \div (nodesize * m * n)) + (a % nodesize)]
    BY DEF GroupsInv, Divided
  <2> QED BY <2>1, NodeRanksApart
<1> QED BY <1>1, GroupsInvariant, PTL

-----------------------------------------------------------------------------
(* Communities: the agreement, in any order in which MPI merges the lists. *)

CountsTyped ==
    /\ low \in [CommunityIds -> Nat] /\ high \in [CommunityIds -> Nat]
    /\ recoverable \in [CommunityIds -> SUBSET Nat] /\ lists \in [CommunityIds -> SUBSET Nat]
    /\ stage \in {"running", "negotiating", "agreed"}

\* No two versions that one community can recover share a key.
KeysDistinct(R) == \A v, w \in R : key(v) = key(w) => v = w

\* The versions in all lists that are not merged yet.
Remaining == {v \in Nat : \A c \in pending : v \in lists[c]}

\* Merging neither loses a version all communities have nor lets another pass.
MergeInv ==
    /\ stage = "negotiating" =>
         /\ pending # {} /\ pending \subseteq CommunityIds
         /\ \A c \in CommunityIds : lists[c] \subseteq recoverable[c] /\ KeysDistinct(recoverable[c])
         /\ Remaining = Common
    /\ NewestCommonAgreed

\* The versions a community can recover lie in a window of cpcount + 1.
LEMMA WindowKeys ==
    ASSUME CountsTyped, NEW c \in CommunityIds, NEW R \in Recoverables(c)
    PROVE  R \subseteq Nat /\ KeysDistinct(R)
<1>1. CpHistory \in Nat \ {0} /\ high[c] \in Nat /\ low[c] \in Nat
  BY CommunitiesAssumption DEF CountsTyped
<1>2. \A v \in R : v \in Nat /\ v <= high[c] /\ v >= high[c] - CpHistory
  BY <1>1 DEF Recoverables, Possible
<1>3. ASSUME NEW v \in R, NEW w \in R, v < w
      PROVE  key(v) # key(w)
  <2>1. v \in Nat /\ w \in Nat /\ w - v < CpHistory + 1 /\ CpHistory + 1 \in Nat \ {0}
    BY <1>1, <1>2, <1>3
  <2> QED BY <2>1, <1>3, ModDistinct DEF key
<1>4. ASSUME NEW v \in R, NEW w \in R, key(v) = key(w)
      PROVE  v = w
  <2>1. ~ (v < w) /\ ~ (w < v)
    BY <1>3, <1>4
  <2> QED BY <1>2, <2>1
<1> QED BY <1>2, <1>4 DEF KeysDistinct

\* A list without equal keys goes through the hash set unchanged.
LEMMA HashKeepsAll ==
    ASSUME NEW R, KeysDistinct(R), NEW H \in Hashed(R)
    PROVE  H = R
<1>1. H \subseteq R
  BY DEF Hashed
<1>2. ASSUME NEW v \in R
      PROVE  v \in H
  <2>1. PICK w \in H : key(w) = key(v)
    BY DEF Hashed
  <2> QED BY <1>1, <2>1 DEF KeysDistinct
<1> QED BY <1>1, <1>2

LEMMA CountsStep ==
    ASSUME CountsTyped, [CommunityNext]_communityvars
    PROVE  CountsTyped'
<1> USE DEF CountsTyped
<1>1. ASSUME NEW c \in CommunityIds, EnterCheckpoint(c)
      PROVE  CountsTyped'
  BY <1>1 DEF EnterCheckpoint
<1>2. ASSUME NEW c \in CommunityIds, LeaveCheckpoint(c)
      PROVE  CountsTyped'
  BY <1>2 DEF LeaveCheckpoint
<1>3. CASE ApplicationCollective
  BY <1>3 DEF ApplicationCollective
<1>4. CASE Restarted
  <2>1. recoverable' \in [CommunityIds -> SUBSET Nat]
    <3>1. \A c \in CommunityIds : recoverable'[c] \subseteq Nat
      BY <1>4, WindowKeys DEF Restarted
    <3> QED BY <1>4, <3>1 DEF Restarted
  <2> QED BY <1>4, <2>1 DEF Restarted
<1>5. ASSUME NEW a \in CommunityIds, NEW b \in CommunityIds, intersect_list_op(a, b)
      PROVE  CountsTyped'
  <2>1. PICK H \in Hashed(lists[a]) : lists' = [lists EXCEPT ![b] = @ \cap H]
    BY <1>5 DEF intersect_list_op
  <2> QED BY <1>5, <2>1 DEF intersect_list_op
<1>6. CASE Agree
  BY <1>6 DEF Agree
<1>7. CASE UNCHANGED communityvars
  BY <1>7 DEF communityvars
<1> QED BY <1>1, <1>2, <1>3, <1>4, <1>5, <1>6, <1>7 DEF CommunityNext

LEMMA MergeStep ==
    ASSUME CountsTyped, CountsTyped', MergeInv, [CommunityNext]_communityvars
    PROVE  MergeInv'
<1>1. ASSUME stage' = "running"
      PROVE  MergeInv'
  BY <1>1 DEF MergeInv, NewestCommonAgreed
<1>2. ASSUME NEW c \in CommunityIds, EnterCheckpoint(c) \/ LeaveCheckpoint(c)
      PROVE  MergeInv'
  BY <1>1, <1>2 DEF EnterCheckpoint, LeaveCheckpoint
<1>3. CASE ApplicationCollective
  BY <1>1, <1>3 DEF ApplicationCollective
<1>4. CASE Restarted
  <2>1. /\ stage' = "negotiating" /\ pending' = CommunityIds /\ lists' = recoverable'
        /\ CommunityIds # {}
    BY <1>4, CommunitiesAssumption DEF Restarted
  <2>2. \A c \in CommunityIds : KeysDistinct(recoverable'[c])
    BY <1>4, WindowKeys DEF Restarted
  <2>3. Remaining' = Common'
    BY <2>1 DEF Remaining, Common, CountsTyped
  <2> QED BY <2>1, <2>2, <2>3 DEF MergeInv, NewestCommonAgreed, KeysDistinct, key
<1>5. ASSUME NEW a \in CommunityIds, NEW b \in CommunityIds, intersect_list_op(a, b)
      PROVE  MergeInv'
  <2>1. /\ stage = "negotiating" /\ stage' = stage /\ recoverable' = recoverable
        /\ a # b /\ a \in pending /\ b \in pending /\ pending' = pending \ {a}
    BY <1>5 DEF intersect_list_op
  <2>2. PICK H \in Hashed(lists[a]) : lists' = [lists EXCEPT ![b] = @ \cap H]
    BY <1>5 DEF intersect_list_op
  <2>3. /\ pending \subseteq CommunityIds /\ Remaining = Common
        /\ \A c \in CommunityIds : lists[c] \subseteq recoverable[c] /\ KeysDistinct(recoverable[c])
    BY <2>1 DEF MergeInv
  <2>4. KeysDistinct(lists[a])
    BY <2>3 DEF KeysDistinct
  <2>5. H = lists[a]
    BY <2>2, <2>4, HashKeepsAll
  <2>6. /\ lists'[b] = lists[b] \cap lists[a]
        /\ \A c \in CommunityIds : c # b => lists'[c] = lists[c]
    BY <2>2, <2>5 DEF CountsTyped
  <2>7. Remaining' = Remaining
    BY <2>1, <2>3, <2>6 DEF Remaining
  <2>8. Common' = Common
    BY <2>1 DEF Common
  <2>9. \A c \in CommunityIds : lists'[c] \subseteq recoverable'[c] /\ KeysDistinct(recoverable'[c])
    BY <2>1, <2>3, <2>6
  <2>10. pending' # {} /\ pending' \subseteq CommunityIds
    BY <2>1, <2>3
  <2> QED BY <2>1, <2>3, <2>7, <2>8, <2>9, <2>10 DEF MergeInv, NewestCommonAgreed, KeysDistinct, key
<1>6. CASE Agree
  <2>1. /\ stage = "negotiating" /\ stage' = "agreed"
        /\ recoverable' = recoverable /\ lists' = lists /\ pending' = pending
    BY <1>6 DEF Agree
  <2>2. PICK c \in pending : pending = {c} /\ agreed' = Newest(lists[c])
    BY <1>6 DEF Agree
  <2>3. c \in CommunityIds /\ Remaining = Common
    BY <2>1, <2>2 DEF MergeInv
  <2>4. lists[c] = Remaining
    BY <2>2, <2>3 DEF Remaining, CountsTyped
  <2>5. Common' = Common
    BY <2>1 DEF Common
  <2>6. agreed' = Newest(Common')
    BY <2>2, <2>3, <2>4, <2>5
  <2> QED BY <2>1, <2>6 DEF MergeInv, NewestCommonAgreed
<1>7. CASE UNCHANGED communityvars
  <2>1. /\ stage' = stage /\ recoverable' = recoverable /\ lists' = lists
        /\ pending' = pending /\ agreed' = agreed
    BY <1>7 DEF communityvars
  <2>2. Remaining' = Remaining /\ Common' = Common
    BY <2>1 DEF Remaining, Common
  <2> QED BY <2>1, <2>2 DEF MergeInv, NewestCommonAgreed, KeysDistinct, key
<1> QED BY <1>2, <1>3, <1>4, <1>5, <1>6, <1>7 DEF CommunityNext

\* The job restarts from the newest version all its communities can recover, in
\* whatever order MPI merges the lists of their roots: the operation compares
\* keys modulo cpcount + 1, and no community can recover two versions of one key.
THEOREM AgreementIsNewest == CommunitySpec => []NewestCommonAgreed
<1>1. CommunityInit => CountsTyped /\ MergeInv
  BY DEF CommunityInit, CountsTyped, MergeInv, NewestCommonAgreed
<1>2. CountsTyped /\ [CommunityNext]_communityvars => CountsTyped'
  BY CountsStep
<1>3. CountsTyped /\ CountsTyped' /\ MergeInv /\ [CommunityNext]_communityvars => MergeInv'
  BY MergeStep
<1>4. MergeInv => NewestCommonAgreed
  BY DEF MergeInv
<1> QED BY <1>1, <1>2, <1>3, <1>4, PTL DEF CommunitySpec

-----------------------------------------------------------------------------
(* Communities: the drift.                                                 *)

LEMMA NextMultiple == \A a, b \in Nat : (a + 1) * b = a * b + b /\ a * b \in Nat
OBVIOUS

\* No community leaves the interval between two collectives of the application;
\* what it can recover is decided by how far it has come.
PaceOfJob ==
    /\ interval \in Nat /\ rounds \in Nat
    /\ \A c \in CommunityIds :
         /\ low[c] >= rounds * interval /\ high[c] <= rounds * interval + interval
         /\ stage # "running" => recoverable[c] \in Recoverables(c)

LEMMA PaceOfJobStep ==
    ASSUME CountsTyped, PaceOfJob, [CommunityNext]_communityvars
    PROVE  PaceOfJob'
<1> USE DEF CountsTyped, PaceOfJob
<1>m. rounds * interval \in Nat /\ (rounds + 1) * interval = rounds * interval + interval
  BY NextMultiple
<1>1. ASSUME UNCHANGED <<low, high, interval, rounds, recoverable>>, stage' = "running" => stage = "running",
             stage' # "running" => stage # "running"
      PROVE  PaceOfJob'
  BY <1>1 DEF Recoverables, Possible, Certain
<1>2. ASSUME NEW c \in CommunityIds, EnterCheckpoint(c)
      PROVE  PaceOfJob'
  <2>1. /\ UNCHANGED <<interval, rounds, low>> /\ stage' = "running"
        /\ high[c] < (rounds + 1) * interval /\ high' = [high EXCEPT ![c] = @ + 1]
    BY <1>2 DEF EnterCheckpoint
  <2>2. rounds' * interval' = rounds * interval
    BY <2>1
  <2>3. \A d \in CommunityIds : high'[d] <= rounds * interval + interval
    BY <1>m, <2>1
  <2> QED BY <2>1, <2>2, <2>3
<1>3. ASSUME NEW c \in CommunityIds, LeaveCheckpoint(c)
      PROVE  PaceOfJob'
  <2>1. /\ UNCHANGED <<interval, rounds, high>> /\ stage' = "running"
        /\ low' = [low EXCEPT ![c] = @ + 1]
    BY <1>3 DEF LeaveCheckpoint
  <2>2. rounds' * interval' = rounds * interval
    BY <2>1
  <2>3. \A d \in CommunityIds : low'[d] >= rounds * interval
    BY <1>m, <2>1
  <2> QED BY <2>1, <2>2, <2>3
<1>4. CASE ApplicationCollective
  <2>1. /\ UNCHANGED <<interval, low, high>> /\ stage' = "running" /\ rounds' = rounds + 1
        /\ \A c \in CommunityIds : low[c] = (rounds + 1) * interval
    BY <1>4 DEF ApplicationCollective
  <2>2. rounds' * interval' = rounds * interval + interval
    BY <1>m, <2>1
  <2>3. \A c \in CommunityIds : low'[c] >= rounds' * interval' /\ high'[c] <= rounds' * interval' + interval'
    BY <1>m, <2>1, <2>2
  <2> QED BY <2>1, <2>3
<1>5. CASE Restarted
  <2>1. /\ UNCHANGED <<interval, rounds, low, high>>
        /\ \A c \in CommunityIds : recoverable'[c] \in Recoverables(c)
    BY <1>5 DEF Restarted
  <2>2. \A c \in CommunityIds : Recoverables(c)' = Recoverables(c)
    BY <2>1 DEF Recoverables, Possible, Certain
  <2>3. rounds' * interval' = rounds * interval
    BY <2>1
  <2> QED BY <2>1, <2>2, <2>3
<1>6. ASSUME NEW a \in CommunityIds, NEW b \in CommunityIds, intersect_list_op(a, b)
      PROVE  PaceOfJob'
  BY <1>1, <1>6 DEF intersect_list_op
<1>7. CASE Agree
  BY <1>1, <1>7 DEF Agree
<1>8. CASE UNCHANGED communityvars
  BY <1>1, <1>8 DEF communityvars
<1> QED BY <1>2, <1>3, <1>4, <1>5, <1>6, <1>7, <1>8 DEF CommunityNext

\* The newest version that all communities have completed is in all their lists.
LEMMA CompletedIsCommon ==
    ASSUME CountsTyped, PaceOfJob, stage = "agreed", interval < CpHistory, NEW c \in CommunityIds,
           \A d \in CommunityIds : low[c] <= low[d], low[c] >= 1
    PROVE  low[c] \in Common
<1>1. CpHistory \in Nat /\ rounds * interval \in Nat /\ interval \in Nat
  BY CommunitiesAssumption, NextMultiple DEF PaceOfJob
<1>2. ASSUME NEW d \in CommunityIds
      PROVE  low[c] \in recoverable[d]
  <2>1. /\ low[c] >= rounds * interval /\ high[d] <= rounds * interval + interval
        /\ recoverable[d] \in Recoverables(d)
    BY DEF PaceOfJob
  <2>2. low[c] \in Certain(d)
    BY <1>1, <2>1 DEF Certain, CountsTyped
  <2> QED BY <2>1, <2>2 DEF Recoverables
<1> QED BY <1>2 DEF Common

\* If the application makes fewer checkpoints from one of its collectives to the
\* next than the library keeps, a restart never falls behind the newest checkpoint
\* that the whole job has completed, however many communities there are.
THEOREM DriftIsTolerated == CommunitySpec => []DriftTolerated
<1>1. CommunityInit => CountsTyped /\ PaceOfJob
  <2> SUFFICES ASSUME CommunityInit
               PROVE  CountsTyped /\ PaceOfJob
    OBVIOUS
  <2>1. CountsTyped
    BY DEF CommunityInit, CountsTyped
  <2>2. interval \in Nat /\ rounds = 0 /\ rounds * interval = 0
    BY CommunitiesAssumption DEF CommunityInit
  <2> QED BY <2>1, <2>2 DEF CommunityInit, PaceOfJob
<1>2. CountsTyped /\ [CommunityNext]_communityvars => CountsTyped'
  BY CountsStep
<1>3. CountsTyped /\ PaceOfJob /\ [CommunityNext]_communityvars => PaceOfJob'
  BY PaceOfJobStep
<1>4. CountsTyped /\ PaceOfJob /\ NewestCommonAgreed => DriftTolerated
  <2> SUFFICES ASSUME CountsTyped, PaceOfJob, NewestCommonAgreed, stage = "agreed", interval < CpHistory
               PROVE  \E c \in CommunityIds : agreed >= low[c]
    BY DEF DriftTolerated
  <2> DEFINE T == {low[d] : d \in CommunityIds}
  <2>1. T \in SUBSET Nat /\ T # {}
    BY CommunitiesAssumption DEF CountsTyped
  <2>2. \E k \in T : \A j \in T : k <= j
    <3> HIDE DEF T
    <3> QED BY <2>1, LeastOf
  <2>3. PICK c \in CommunityIds : \A d \in CommunityIds : low[c] <= low[d]
    BY <2>2
  <2>4. low[c] \in Nat /\ high[c] \in Nat /\ Common \subseteq Nat /\ \A v \in Common : v <= high[c]
    <3>1. recoverable[c] \in Recoverables(c)
      BY DEF PaceOfJob
    <3>2. \A v \in recoverable[c] : v \in Nat /\ v <= high[c]
      BY <3>1 DEF Recoverables, Possible, CountsTyped
    <3> QED BY <3>2 DEF Common, CountsTyped
  <2>5. \E v \in Common \cup {0} : \A w \in Common \cup {0} : w <= v
    <3> DEFINE S == Common \cup {0}
    <3>1. S \in SUBSET Nat /\ S # {} /\ \A w \in S : w <= high[c]
      <4>1. 0 \in Nat /\ 0 <= high[c]
        BY <2>4
      <4>2. \A w \in S : w \in Common \/ w = 0
        OBVIOUS
      <4>3. 0 \in S
        OBVIOUS
      <4> HIDE DEF S
      <4> QED BY <2>4, <4>1, <4>2, <4>3
    <3> HIDE DEF S
    <3>2. \E v \in S : \A w \in S : w <= v
      BY <2>4, <3>1, GreatestOf
    <3> QED BY <3>2 DEF S
  <2>6. /\ Newest(Common) \in Common \cup {0}
        /\ \A w \in Common : w <= Newest(Common)
    BY <2>5 DEF Newest
  <2>7. agreed = Newest(Common) /\ agreed \in Nat
    <3>1. agreed = Newest(Common)
      BY DEF NewestCommonAgreed
    <3>2. agreed \in Common \/ agreed = 0
      BY <2>6, <3>1
    <3>3. agreed \in Nat
      <4>1. CASE agreed \in Common
        BY <2>4, <4>1
      <4>2. CASE agreed = 0
        BY <4>2
      <4> QED BY <3>2, <4>1, <4>2
    <3> QED BY <3>1, <3>3
  <2>8. low[c] >= 1 => low[c] \in Common
    BY <2>3, CompletedIsCommon
  <2> QED BY <2>4, <2>6, <2>7, <2>8
<1> QED BY <1>1, <1>2, <1>3, <1>4, AgreementIsNewest, PTL DEF CommunitySpec

-----------------------------------------------------------------------------
(* Lifecycle: the inductive invariant.                                     *)

\* The ends of a call, or of the process.
Ends == {"outside", "aborted", "spinning", "finalized"}

\* Steps after whose failure the call goes on.
Resuming == {"parity", "loadmeta", "rmeta", "loaddata"}

LifeTypeOK ==
    /\ site \in Steps \cup Ends
    /\ chunk \in {"null", "live", "freed"}
    /\ record \in {"none", "live", "freed"}
    /\ xorstruct \in {"null", "live"}
    /\ fd \in {"none", "open", "closed", "foreign"}
    /\ reports \in 0 .. 5
    /\ failing \subseteq Steps
    /\ harm \subseteq {"use after free", "foreign close"}
    /\ outcome \in {"none", "SUCCESS", "FAILED", "abort", "spin"}
    /\ ncalls \in Nat

\* A failure is reported while the call is in the step that failed; the buffer
\* outlives a step only until the first report, and a report that finds it freed
\* is the end.  Only the steps before the negotiation ends have no record.
Reporting ==
    /\ reports > 0 => site \in failing \/ (site = "aborted" /\ chunk = "freed")
    /\ site \in Steps => outcome = "none" /\ (record = "none" <=> site \in NoRecord)
    /\ chunk = "live" => reports > 0
    /\ site = "aborted" => reports > 0
    /\ site = "outside" => reports = 0 /\ record # "live"

\* A call in which nothing failed has its record and has done no harm.
Unharmed ==
    /\ site \in Steps /\ failing = {} =>
        /\ reports = 0 /\ harm = {} /\ record # "freed"
        /\ ~dangling => chunk = "null"
    /\ site = "outside" /\ failing = {} /\ ncalls > 0 => outcome = "SUCCESS" /\ harm = {}

\* The structure is lost by a report only, and a failed step that uses it ends
\* the call unless it is one of three.
StructKept ==
    site \in Steps \ NoRecord /\ xorstruct = "null" =>
        reports > 0 \/ failing \cap {"parity", "rmeta", "loaddata"} # {}

\* A descriptor of an earlier call is reported only for a step that opens no file.
ForeignHeld == reports > 0 /\ fd = "foreign" => site \notin Opening

\* The steps whose failure alone makes a call return COMB_FAILED.
FailAlone == {"xor", "meta", "negotiate", "pstates", "load", "loadparity", "xstate", "allxor", "xmeta"}

\* One step, s, failed in a call that began without a chunk, and is reported.
Reported(s) ==
    /\ site = s
    /\ s \notin InChunk => chunk = "null"
    /\ s = "xor" => reports = 1 /\ chunk = "live"
    /\ s \in InChunk => chunk # "null"
    /\ s \in InChunk \ {"xor", "parity"} => chunk = "freed" \/ reports > 1

\* ... and is survived: the call goes on, with a freed record unless it was the
\* read of the metadata.
Survived(s) ==
    /\ s \in Resuming
    /\ s # "loadmeta" => record = "freed"
    /\ s = "loadmeta" => site # "loadmeta"
    /\ s = "parity" => site = "meta"
    /\ s # "parity" => chunk = "null"

\* ... and the call has returned.
Returned(s) ==
    /\ outcome \in {"FAILED", "SUCCESS"}
    /\ outcome = "FAILED" <=> s \in FailAlone
    /\ outcome = "SUCCESS" => s \in Resuming
    /\ outcome = "SUCCESS" /\ s # "loadmeta" => "use after free" \in harm

SingleFault ==
    ~dangling => \A s \in Steps : failing = {s} =>
        /\ site \in Steps /\ reports > 0 => Reported(s)
        /\ site \in Steps /\ reports = 0 => Survived(s)
        /\ site = "outside" => Returned(s)
        /\ site = "aborted" => outcome = "abort" /\ s \in InChunk \ {"xor"}
        /\ site = "spinning" => outcome = "spin" /\ s \in {"data", "xdata"}

LifeInv ==
    /\ LifeTypeOK /\ Reporting /\ Unharmed /\ StructKept /\ ForeignHeld /\ ForeignCloses /\ SingleFault

-----------------------------------------------------------------------------
(* Lifecycle: the tables of the model.                                     *)

LEMMA StepsAre ==
    Steps = {"xor", "data", "parity", "meta", "loadmeta", "negotiate", "pstates", "pair", "rmeta", "load",
             "loaddata", "loadparity", "xstate", "xrecover", "allxor", "xdata", "xparity", "xmeta"}
BY DEF Steps, Follows

\* No end of a call is a step; the sets of steps have none but steps.
LEMMA StepFacts ==
    /\ "outside" \notin Steps /\ "aborted" \notin Steps /\ "spinning" \notin Steps /\ "finalized" \notin Steps
    /\ "xor" \in Steps \ NoRecord /\ "loadmeta" \in Steps
    /\ NoRecord = {"loadmeta", "negotiate"} /\ "xor" \in InChunk
    /\ InChunk \subseteq Steps \ NoRecord /\ FailAlone \subseteq Steps /\ Opening \subseteq Steps
    /\ Steps \ Opening = {"xor", "negotiate", "pstates", "xstate", "xrecover", "allxor"}
BY StepsAre DEF NoRecord, InChunk, FailAlone, Opening

\* The order of the steps of a call.
LEMMA FollowsFacts ==
    ASSUME NEW s \in Steps, NEW t \in Follows[s]
    PROVE  /\ t \in Steps \cup {"outside"} /\ t # "loadmeta"
           /\ t = "negotiate" <=> s = "loadmeta"
           /\ s = "meta" => t = "outside"
BY StepsAre DEF Follows

\* Where a call goes on after a report, and how many there are.
LEMMA ReportFacts ==
    ASSUME NEW s \in Steps
    PROVE  /\ Reports(s) \subseteq 1 .. 5
           /\ s = "xor" => Reports(s) = {1}
           /\ s \in InChunk \ {"xor", "parity"} => \A k \in Reports(s) : k > 1
           /\ s \notin Resuming => ResumesAt[s] = "outside"
           /\ s \in Resuming => ResumesAt[s] \in Steps /\ ResumesAt[s] # s
           /\ ResumesAt[s] # "loadmeta"
           /\ ResumesAt[s] = "negotiate" <=> s = "loadmeta"
           /\ s = "parity" => ResumesAt[s] = "meta"
BY StepsAre DEF Reports, InChunk, ResumesAt, Resuming

-----------------------------------------------------------------------------
(* Lifecycle: each step keeps the invariant.                               *)

LEMMA LifeStart ==
    ASSUME LifeInit
    PROVE  LifeInv
<1> USE StepFacts DEF LifeInit
<1>1. LifeTypeOK
  BY DEF LifeTypeOK, Ends
<1>2. Reporting /\ Unharmed
  BY DEF Reporting, Unharmed
<1>3. StructKept /\ ForeignHeld /\ ForeignCloses
  BY DEF StructKept, ForeignHeld, ForeignCloses
<1>4. SingleFault
  BY DEF SingleFault
<1> QED BY <1>1, <1>2, <1>3, <1>4 DEF LifeInv

LEMMA BeginKeeps ==
    ASSUME LifeInv, NEW first \in {"xor", "loadmeta"}, Begin(first)
    PROVE  LifeInv'
<1>0. LifeTypeOK /\ Reporting
  BY DEF LifeInv
<1>1. LifeTypeOK'
  <2>1. /\ site' = first /\ ncalls' = ncalls + 1 /\ outcome' = "none" /\ failing' = {} /\ harm' = {}
        /\ UNCHANGED <<chunk, reports>>
        /\ record' \in {"live", "none"} /\ xorstruct' \in {"live", xorstruct} /\ fd' \in {fd, "foreign"}
    BY StepFacts DEF Begin
  <2>2. reports' \in 0 .. 5 /\ ncalls' \in Nat /\ chunk' \in {"null", "live", "freed"}
    <3>1. reports \in 0 .. 5 /\ ncalls \in Nat /\ chunk \in {"null", "live", "freed"}
      BY <1>0 DEF LifeTypeOK
    <3> QED BY <2>1, <3>1
  <2>3. xorstruct' \in {"null", "live"} /\ fd' \in {"none", "open", "closed", "foreign"}
    BY StepFacts, <1>0, <2>1 DEF LifeTypeOK
  <2> QED BY StepFacts, <2>1, <2>2, <2>3 DEF LifeTypeOK
<1>2. Reporting'
  BY StepFacts, <1>0 DEF Reporting, Begin
<1>3. Unharmed'
  BY StepFacts, <1>0 DEF LifeTypeOK, Reporting, Unharmed, Begin
<1>4. StructKept' /\ ForeignHeld' /\ ForeignCloses'
  BY StepFacts, <1>0 DEF Reporting, StructKept, ForeignHeld, ForeignCloses, Begin
<1>5. SingleFault'
  BY StepFacts DEF SingleFault, Begin
<1> QED BY <1>1, <1>2, <1>3, <1>4, <1>5 DEF LifeInv

LEMMA SucceedKeeps ==
    ASSUME LifeInv, NEW s \in Steps, Succeed(s)
    PROVE  LifeInv'
<1>0. PICK t \in Follows[s] : site' = t
  BY StepFacts DEF Succeed
<1>1. LifeTypeOK /\ Reporting /\ Unharmed /\ StructKept /\ ForeignHeld /\ ForeignCloses /\ SingleFault
  BY DEF LifeInv
<1>2. /\ site = s /\ reports = 0 /\ UNCHANGED <<reports, failing, dangling, ncalls>>
      /\ chunk' = IF s \in InChunk THEN "null" ELSE chunk
      /\ fd' = IF s \in Opening THEN "closed" ELSE fd
      /\ harm' = harm \cup Misuse(s)
      /\ outcome' = IF t = "outside" THEN "SUCCESS" ELSE outcome
      /\ record' = IF s = "negotiate" /\ t # "outside" THEN "live" ELSE IF t = "outside" THEN FreedRecord ELSE record
      /\ xorstruct' = IF s = "negotiate" /\ t # "outside" THEN "live" ELSE xorstruct
  BY StepFacts, <1>0 DEF Succeed
<1>3. t \in Steps \cup {"outside"} /\ t # "loadmeta" /\ (t = "negotiate" <=> s = "loadmeta") /\ (s = "meta" => t = "outside")
  BY FollowsFacts
<1>4. LifeTypeOK'
  <2>1. harm' \subseteq {"use after free", "foreign close"}
    BY StepFacts, <1>1, <1>2 DEF LifeTypeOK, Misuse
  <2> QED BY StepFacts, <1>0, <1>1, <1>2, <1>3, <2>1 DEF LifeTypeOK, Ends, FreedRecord
<1>5. Reporting'
  <2>1. t \in Steps => (record' = "none" <=> t \in NoRecord)
    BY StepFacts, <1>1, <1>2, <1>3 DEF Reporting
  <2>2. t = "outside" => record' # "live"
    BY StepFacts, <1>2 DEF FreedRecord
  <2>3. outcome = "none" /\ chunk # "live"
    BY StepFacts, <1>1, <1>2 DEF Reporting
  <2> QED BY StepFacts, <1>0, <1>2, <1>3, <2>1, <2>2, <2>3 DEF Reporting
<1>6. Unharmed'
  BY StepFacts, <1>0, <1>1, <1>2, <1>3 DEF LifeTypeOK, Reporting, Unharmed, FreedRecord, Misuse
<1>7. StructKept'
  BY StepFacts, <1>0, <1>1, <1>2, <1>3 DEF StructKept
<1>8. ForeignHeld' /\ ForeignCloses'
  <2>1. "foreign close" \in harm' => "foreign close" \in harm
    BY StepFacts, <1>2 DEF Misuse
  <2>2. ForeignHeld'
    BY StepFacts, <1>2 DEF ForeignHeld
  <2> QED BY StepFacts, <1>1, <1>2, <2>1, <2>2 DEF ForeignCloses
<1>9. SingleFault'
  <2> SUFFICES ASSUME ~dangling, NEW f \in Steps, failing = {f}
               PROVE  /\ t \in Steps => Survived(f)'
                      /\ t = "outside" => Returned(f)'
    BY StepFacts, <1>0, <1>2, <1>3 DEF SingleFault
  <2>1. Survived(f)
    BY StepFacts, <1>1, <1>2 DEF SingleFault
  <2>2. s = "negotiate" => f = "loadmeta"
    BY StepFacts, <1>1, <1>2, <2>1 DEF Survived, Reporting
  <2>3. t \in Steps => Survived(f)'
    BY StepFacts, <1>0, <1>2, <1>3, <2>1, <2>2 DEF Survived
  <2>4. t = "outside" => Returned(f)'
    <3>1. f # "loadmeta" => "use after free" \in harm'
      BY StepFacts, <1>1, <1>2, <2>1 DEF Survived, Reporting, Misuse
    <3>2. f \in Resuming /\ f \notin FailAlone
      BY StepFacts, <2>1 DEF Survived, Resuming, FailAlone
    <3> QED BY StepFacts, <1>2, <3>1, <3>2 DEF Returned
  <2> QED BY StepFacts, <2>3, <2>4
<1> QED BY <1>4, <1>5, <1>6, <1>7, <1>8, <1>9 DEF LifeInv

LEMMA FailKeeps ==
    ASSUME LifeInv, NEW s \in Steps, Fail(s)
    PROVE  LifeInv'
<1>1. LifeTypeOK /\ Reporting /\ Unharmed /\ StructKept /\ ForeignHeld /\ ForeignCloses /\ SingleFault
  BY DEF LifeInv
<1>2. /\ site = s /\ reports = 0 /\ reports' \in Reports(s)
      /\ UNCHANGED <<site, record, xorstruct, dangling, outcome, ncalls>>
      /\ chunk' = IF s \in InChunk THEN "live" ELSE chunk
      /\ fd' = IF s \in Opening THEN "open" ELSE fd
      /\ failing' = failing \cup {s}
      /\ harm' = harm \cup Misuse(s)
  BY StepFacts DEF Fail
<1>3. reports' \in 1 .. 5 /\ (s = "xor" => reports' = 1) /\ (s \in InChunk \ {"xor", "parity"} => reports' > 1)
  BY StepFacts, <1>2, ReportFacts
<1>4. LifeTypeOK'
  <2>1. harm' \subseteq {"use after free", "foreign close"}
    BY StepFacts, <1>1, <1>2 DEF LifeTypeOK, Misuse
  <2>2. reports' \in 0 .. 5 /\ ncalls' \in Nat /\ failing' \subseteq Steps
    <3>1. ncalls \in Nat /\ failing \subseteq Steps
      BY <1>1 DEF LifeTypeOK
    <3> QED BY <1>2, <1>3, <3>1
  <2>3. chunk' \in {"null", "live", "freed"} /\ fd' \in {"none", "open", "closed", "foreign"}
    BY StepFacts, <1>1, <1>2 DEF LifeTypeOK
  <2> QED BY StepFacts, <1>1, <1>2, <2>1, <2>2, <2>3 DEF LifeTypeOK
<1>5. Reporting'
  BY StepFacts, <1>1, <1>2, <1>3 DEF Reporting
<1>6. Unharmed' /\ StructKept'
  BY StepFacts, <1>1, <1>2, <1>3 DEF Unharmed, StructKept
<1>7. ForeignHeld' /\ ForeignCloses'
  BY StepFacts, <1>1, <1>2, <1>3 DEF ForeignHeld, ForeignCloses, Misuse
<1>8. SingleFault'
  <2> SUFFICES ASSUME ~dangling, NEW f \in Steps, failing' = {f}
               PROVE  Reported(f)'
    BY StepFacts, <1>2, <1>3 DEF SingleFault
  <2>1. f = s /\ (failing = {} \/ failing = {s})
    BY StepFacts, <1>2
  <2>2. s \notin InChunk => chunk = "null"
    BY StepFacts, <1>1, <1>2, <2>1 DEF Unharmed, SingleFault, Survived, InChunk
  <2> QED BY StepFacts, <1>2, <1>3, <2>1, <2>2 DEF Reported
<1> QED BY <1>4, <1>5, <1>6, <1>7, <1>8 DEF LifeInv

LEMMA SpinKeeps ==
    ASSUME LifeInv, NEW s \in Steps, Spin(s)
    PROVE  LifeInv'
<1>1. LifeTypeOK /\ Reporting /\ ForeignHeld /\ ForeignCloses
  BY DEF LifeInv
<1>2. LifeTypeOK'
  BY StepFacts, <1>1 DEF LifeTypeOK, Ends, Spin
<1>3. Reporting' /\ Unharmed' /\ StructKept'
  BY StepFacts, <1>1 DEF Reporting, Unharmed, StructKept, Spin
<1>5. ForeignHeld' /\ ForeignCloses'
  <2>1. site = s /\ reports' = 0 /\ harm' = harm /\ failing \subseteq failing'
    BY StepFacts, <1>1 DEF Spin
  <2>2. ForeignHeld'
    BY <2>1 DEF ForeignHeld
  <2>3. ForeignCloses'
    BY StepFacts, <1>1, <2>1 DEF ForeignCloses
  <2> QED BY <2>2, <2>3
<1>4. SingleFault'
  BY StepFacts DEF SingleFault, Spin
<1> QED BY <1>2, <1>3, <1>4, <1>5 DEF LifeInv

LEMMA ReportKeeps ==
    ASSUME LifeInv, check_code_failed
    PROVE  LifeInv'
<1>1. LifeTypeOK /\ Reporting /\ Unharmed /\ StructKept /\ ForeignHeld /\ ForeignCloses /\ SingleFault
  BY DEF LifeInv
<1>2. reports > 0 /\ UNCHANGED <<failing, dangling, ncalls>>
  BY DEF check_code_failed
<1>3. CASE chunk = "freed"
  <2>1. site' = "aborted" /\ outcome' = "abort" /\ UNCHANGED <<chunk, record, xorstruct, fd, reports, harm>>
    BY <1>3 DEF check_code_failed
  <2>2. LifeTypeOK'
    BY <1>1, <1>2, <2>1 DEF LifeTypeOK, Ends
  <2>3. Reporting' /\ Unharmed' /\ StructKept'
    BY StepFacts, <1>1, <1>2, <1>3, <2>1 DEF Reporting, Unharmed, StructKept
  <2>4. ForeignHeld'
    BY StepFacts, <2>1 DEF ForeignHeld
  <2>5. ForeignCloses'
    <3>1. "foreign close" \in harm /\ site = "finalized" => FALSE
      BY StepFacts, <1>1, <1>2 DEF Reporting, LifeTypeOK
    <3> QED BY <1>1, <1>2, <2>1, <3>1 DEF ForeignCloses
  <2>6. SingleFault'
    <3> SUFFICES ASSUME ~dangling, NEW s \in Steps, failing = {s}
                 PROVE  s \in InChunk \ {"xor"}
      BY StepFacts, <1>2, <2>1 DEF SingleFault
    <3>1. CASE site = "aborted"
      BY <1>1, <3>1 DEF SingleFault
    <3>2. CASE site # "aborted"
      <4>1. Reported(s)
        BY StepFacts, <1>1, <1>2, <3>2 DEF Reporting, SingleFault
      <4> QED BY <4>1, <1>3 DEF Reported
    <3> QED BY <3>1, <3>2
  <2> QED BY <2>2, <2>3, <2>4, <2>5, <2>6 DEF LifeInv
<1>4. CASE chunk # "freed"
  <2>1. /\ chunk' = IF chunk = "live" THEN "freed" ELSE chunk
        /\ record' = FreedRecord /\ xorstruct' = "null" /\ fd' = "closed"
        /\ harm' = IF fd = "foreign" THEN harm \cup {"foreign close"} ELSE harm
    BY <1>4 DEF check_code_failed
  <2>2. site \in failing /\ site \in Steps /\ reports \in 1 .. 5
    <3>1. reports \in 0 .. 5 /\ failing \subseteq Steps
      BY <1>1 DEF LifeTypeOK
    <3>2. site \in failing
      BY <1>1, <1>2, <1>4 DEF Reporting
    <3> QED BY <1>2, <3>1, <3>2
  <2>r. reports' = reports - 1
    BY <1>4 DEF check_code_failed
  <2>3. chunk' \in {"null", "freed"} /\ record' # "live" /\ (record' = "none" <=> record = "none")
    BY <1>1, <2>1, <1>4 DEF LifeTypeOK, FreedRecord
  <2>4. CASE reports > 1
    <3>0. reports' > 0 /\ reports' \in 0 .. 5
      BY <2>2, <2>r, <2>4
    <3>1. reports' > 0 /\ reports' \in 0 .. 5 /\ site' = site /\ outcome' = outcome
      BY <1>4, <2>4, <3>0 DEF check_code_failed
    <3>2. LifeTypeOK'
      BY <1>1, <1>2, <2>1, <2>3, <2>4, <3>1 DEF LifeTypeOK, FreedRecord
    <3>3. Reporting' /\ Unharmed' /\ StructKept'
      BY StepFacts, <1>1, <1>2, <2>1, <2>2, <2>3, <2>4, <3>1 DEF Reporting, Unharmed, StructKept
    <3>4. ForeignHeld'
      BY <2>1 DEF ForeignHeld
    <3>5. ForeignCloses'
      BY StepFacts, <1>1, <1>2, <2>1, <2>2, <2>4 DEF ForeignCloses, ForeignHeld
    <3>6. SingleFault'
      <4> SUFFICES ASSUME ~dangling, NEW s \in Steps, failing = {s}
                   PROVE  Reported(s)'
        BY StepFacts, <1>2, <2>2, <3>1 DEF SingleFault
      <4>1. Reported(s) /\ site = s
        BY <1>1, <1>2, <2>2 DEF SingleFault
      <4>2. s # "xor"
        BY <2>4, <4>1 DEF Reported
      <4>3. s \notin InChunk => chunk' = "null"
        BY <2>1, <4>1 DEF Reported
      <4>4. s \in InChunk => chunk' = "freed"
        BY <1>4, <2>1, <2>3, <4>1 DEF Reported
      <4> QED BY <3>1, <4>1, <4>2, <4>3, <4>4 DEF Reported
    <3> QED BY <3>2, <3>3, <3>4, <3>5, <3>6 DEF LifeInv
  <2>5. CASE reports = 1
    <3>0. reports' = 0
      BY <2>2, <2>r, <2>5
    <3>1. reports' = 0 /\ site' = ResumesAt[site] /\ outcome' = IF ResumesAt[site] = "outside" THEN "FAILED" ELSE outcome
      <4>1. ~ (reports > 1)
        BY <2>5
      <4> QED BY <1>4, <3>0, <4>1 DEF check_code_failed
    <3>2. /\ site \notin Resuming => ResumesAt[site] = "outside"
          /\ site \in Resuming => ResumesAt[site] \in Steps /\ ResumesAt[site] # site
          /\ ResumesAt[site] # "loadmeta" /\ (ResumesAt[site] = "negotiate" <=> site = "loadmeta")
          /\ site = "parity" => ResumesAt[site] = "meta"
      BY <2>2, ReportFacts
    <3>3. LifeTypeOK'
      <4>1. record' \in {"none", "live", "freed"} /\ harm' \subseteq {"use after free", "foreign close"}
        BY <1>1, <2>1 DEF LifeTypeOK, FreedRecord
      <4>2. site' \in Steps \cup Ends /\ outcome' \in {"none", "SUCCESS", "FAILED", "abort", "spin"}
        BY <1>1, <2>2, <3>1, <3>2 DEF LifeTypeOK, Ends
      <4>3. ncalls' \in Nat /\ reports' \in 0 .. 5 /\ failing' \subseteq Steps
        <5>1. ncalls \in Nat /\ failing \subseteq Steps
          BY <1>1 DEF LifeTypeOK
        <5> QED BY <1>2, <3>0, <5>1
      <4> QED BY <2>1, <2>3, <4>1, <4>2, <4>3 DEF LifeTypeOK
    <3>4. Reporting'
      <4>1. site' \in Steps => (record' = "none" <=> site' \in NoRecord)
        BY StepFacts, <1>1, <2>2, <2>3, <3>1, <3>2 DEF Reporting, Resuming
      <4> QED BY StepFacts, <1>1, <2>2, <2>3, <3>1, <3>2, <4>1 DEF Reporting
    <3>5. Unharmed' /\ StructKept'
      BY StepFacts, <1>2, <2>2, <3>1, <3>2 DEF Unharmed, StructKept, Resuming
    <3>6. ForeignHeld'
      BY <3>1 DEF ForeignHeld
    <3>7. ForeignCloses'
      BY StepFacts, <1>1, <1>2, <2>1, <2>2 DEF ForeignCloses, ForeignHeld
    <3>8. SingleFault'
      <4> SUFFICES ASSUME ~dangling, NEW s \in Steps, failing = {s}
                   PROVE  /\ site' \in Steps => Survived(s)'
                          /\ site' = "outside" => Returned(s)'
        <5>1. site' \in Steps \cup {"outside"}
          BY <2>2, <3>1, <3>2
        <5> QED BY StepFacts, <1>2, <3>0, <5>1 DEF SingleFault
      <4>1. Reported(s) /\ site = s
        BY <1>1, <1>2, <2>2 DEF SingleFault
      <4>2. s = "xor" \/ s \notin InChunk \/ s = "parity"
        BY <1>4, <2>5, <4>1 DEF Reported
      <4>3. site' \in Steps => Survived(s)'
        <5>1. s \in Resuming \/ site' = "outside"
          BY <3>1, <3>2, <4>1
        <5>2. s \in Resuming /\ s # "loadmeta" => record' = "freed"
          <6>1. s \in Resuming /\ s # "loadmeta" => record # "none"
            BY StepFacts, <1>1, <2>2, <4>1 DEF Reporting, Resuming
          <6> QED BY <1>1, <2>1, <6>1 DEF LifeTypeOK, FreedRecord
        <5>3. s \in Resuming /\ s # "parity" => chunk' = "null"
          BY <2>1, <4>1 DEF Reported, Resuming, InChunk
        <5> QED BY StepFacts, <3>1, <3>2, <4>1, <5>1, <5>2, <5>3 DEF Survived
      <4>4. site' = "outside" => Returned(s)'
        <5>1. s \in Resuming \/ s \in FailAlone
          BY StepsAre, <4>2 DEF InChunk, Resuming, FailAlone
        <5> QED BY StepFacts, <3>1, <3>2, <4>1, <5>1 DEF Returned
      <4> QED BY <4>3, <4>4
    <3> QED BY <3>3, <3>4, <3>5, <3>6, <3>7, <3>8 DEF LifeInv
  <2> QED BY <2>2, <2>4, <2>5
<1> QED BY <1>3, <1>4

LEMMA FinalizeKeeps ==
    ASSUME LifeInv, LifeFinalize
    PROVE  LifeInv'
<1>1. LifeTypeOK /\ Reporting
  BY DEF LifeInv
<1>2. /\ site = "outside" /\ site' = "finalized" /\ failing' = {} /\ record' = FreedRecord
      /\ xorstruct' = "null" /\ fd' = "closed" /\ UNCHANGED <<chunk, reports, dangling, outcome, ncalls>>
      /\ harm' = IF fd \in {"closed", "foreign"} THEN {"foreign close"} ELSE {}
  BY DEF LifeFinalize
<1>3. LifeTypeOK'
  BY <1>1, <1>2 DEF LifeTypeOK, Ends, FreedRecord
<1>4. Reporting'
  <2>1. chunk # "live" /\ reports = 0
    <3>1. reports = 0 /\ (chunk = "live" => reports > 0)
      BY <1>1, <1>2 DEF Reporting
    <3> QED BY <3>1
  <2>2. reports' = 0 /\ chunk' # "live" /\ site' = "finalized"
    BY <1>2, <2>1
  <2> QED BY StepFacts, <2>2 DEF Reporting
<1>5. Unharmed' /\ StructKept' /\ ForeignHeld'
  BY StepFacts, <1>1, <1>2 DEF Reporting, Unharmed, StructKept, ForeignHeld
<1>6. ForeignCloses' /\ SingleFault'
  BY <1>2 DEF ForeignCloses, SingleFault
<1> QED BY <1>3, <1>4, <1>5, <1>6 DEF LifeInv

-----------------------------------------------------------------------------
(* Lifecycle: the theorems.                                                *)

\* Every call of COMB_Checkpoint and COMB_Recover, and check_code_failed in it,
\* keeps the invariant.
THEOREM LifeInvariant == LifeSpec => []LifeInv
<1>1. LifeInv /\ [LifeNext]_lifevars => LifeInv'
  <2> SUFFICES ASSUME LifeInv, [LifeNext]_lifevars
               PROVE  LifeInv'
    OBVIOUS
  <2>1. CASE Begin("xor") \/ Begin("loadmeta")
    BY <2>1, BeginKeeps
  <2>2. ASSUME NEW s \in Steps, Succeed(s) \/ Fail(s) \/ Spin(s)
        PROVE  LifeInv'
    BY <2>2, SucceedKeeps, FailKeeps, SpinKeeps
  <2>3. CASE check_code_failed
    BY <2>3, ReportKeeps
  <2>4. CASE LifeFinalize
    BY <2>4, FinalizeKeeps
  <2>5. CASE UNCHANGED lifevars
    <3>1. LifeTypeOK' /\ Reporting' /\ Unharmed'
      BY <2>5 DEF lifevars, LifeInv, LifeTypeOK, Reporting, Unharmed
    <3>2. StructKept' /\ ForeignHeld' /\ ForeignCloses'
      BY <2>5 DEF lifevars, LifeInv, StructKept, ForeignHeld, ForeignCloses
    <3>3. SingleFault'
      BY <2>5 DEF lifevars, LifeInv, SingleFault, Reported, Survived, Returned
    <3> QED BY <3>1, <3>2, <3>3 DEF LifeInv
  <2> QED BY <2>1, <2>2, <2>3, <2>4, <2>5 DEF LifeNext
<1> QED BY <1>1, LifeStart, PTL DEF LifeSpec

\* A call in which nothing fails is clean, whatever earlier calls left behind.
THEOREM CleanCallsHold == LifeSpec => []CleanCalls
<1>1. LifeInv => CleanCalls
  BY DEF LifeInv, Reporting, Unharmed, CleanCalls
<1> QED BY <1>1, LifeInvariant, PTL

\* No step of a call works on a parity structure that is gone, but for the
\* three kinds of call that run on after a failure.
THEOREM StructPresentHolds == LifeSpec => []StructPresent
<1>1. LifeInv => StructPresent
  BY DEF LifeInv, StructKept, StructPresent
<1> QED BY <1>1, LifeInvariant, PTL

\* What a call with one failure returns, as the protocol models assume it.
THEOREM FaultsAsModelledHolds == LifeSpec => []FaultsAsModelled
<1>1. ASSUME LifeInv
      PROVE  FaultsAsModelled
  <2> SUFFICES ASSUME site \in {"outside", "aborted", "spinning"}, ~dangling, NEW s \in Steps, failing = {s}
               PROVE  /\ outcome = "FAILED" <=> s \in FailAlone
                      /\ outcome = "SUCCESS" => s \in Resuming
                      /\ outcome = "SUCCESS" /\ s # "loadmeta" => "use after free" \in harm
                      /\ outcome \in {"abort", "spin"} => s \in InChunk \ {"xor"}
    BY DEF FaultsAsModelled, FailAlone, Resuming
  <2>1. CASE site = "outside"
    BY <1>1, <2>1 DEF LifeInv, SingleFault, Returned
  <2>2. CASE site = "aborted"
    BY <1>1, <2>2 DEF LifeInv, SingleFault, InChunk, FailAlone
  <2>3. CASE site = "spinning"
    BY <1>1, <2>3 DEF LifeInv, SingleFault, InChunk, FailAlone
  <2> QED BY <2>1, <2>2, <2>3
<1> QED BY <1>1, LifeInvariant, PTL

\* Only a call that failed before it opened a file, or COMB_Finalize, closes a
\* descriptor that is not the library's any more.
THEOREM ForeignClosesHolds == LifeSpec => []ForeignCloses
<1>1. LifeInv => ForeignCloses
  BY DEF LifeInv
<1> QED BY <1>1, LifeInvariant, PTL
=============================================================================
