---------------------------- MODULE PartnerProofs ----------------------------
(***************************************************************************)
(* The partner phase for a partner group of any size: what the members     *)
(* assign one by one from the gathered states fits together, and no round  *)
(* leaves out a pair it could form.                                        *)
(***************************************************************************)
EXTENDS PartnerRounds, Numbers, TLAPS

\* The members from i up to distance d whose state is that of i.
Like(i, d) == {k \in 0 .. d : pstates[PartnerAt(pstates, i, k)] = pstates[i]}
Unlike(i, d) == {k \in 0 .. d : pstates[PartnerAt(pstates, i, k)] # pstates[i]}
likes(i, d) == Cardinality(Like(i, d))

StatesTyped == pstates \in [PRank -> BOOLEAN]

-----------------------------------------------------------------------------
(* Walking around the group.                                               *)

LEMMA SizeFacts == PSize \in Nat \ {0} /\ PSize >= 2 /\ PRank = 0 .. PSize - 1
BY GridAssumption DEF PRank

\* A walk begins at its member, and goes once around the group.
LEMMA Walk ==
    ASSUME StatesTyped, NEW i \in PRank
    PROVE  /\ PartnerAt(pstates, i, 0) = i
           /\ \A d \in 0 .. PSize - 1 : PartnerAt(pstates, i, d) \in PRank
           /\ \A j \in PRank : \E d \in 0 .. PSize - 1 : PartnerAt(pstates, i, d) = j
           /\ \A d, e \in 0 .. PSize - 1 : PartnerAt(pstates, i, d) = PartnerAt(pstates, i, e) => d = e
<1> USE SizeFacts
<1>1. CASE pstates[i]
  <2>1. \A d \in 0 .. PSize - 1 : PartnerAt(pstates, i, d) = IF i + d < PSize THEN i + d ELSE i + d - PSize
    <3> TAKE d \in 0 .. PSize - 1
    <3>1. PartnerAt(pstates, i, d) = (i + d) % PSize
      BY <1>1 DEF PartnerAt
    <3>2. CASE i + d < PSize
      <4> DEFINE a == i + d
      <4>1. a \in 0 .. PSize - 1
        BY <3>2
      <4>2. a % PSize = a
        <5> HIDE DEF a
        <5> QED BY <4>1, ModOnce
      <4> QED BY <3>1, <3>2, <4>2
    <3>3. CASE i + d >= PSize
      <4> DEFINE a == i + d - PSize
      <4>1. a \in 0 .. PSize - 1 /\ i + d = a + PSize
        BY <3>3
      <4>2. (a + PSize) % PSize = a
        <5> HIDE DEF a
        <5> QED BY <4>1, ModOnce
      <4> QED BY <3>1, <3>3, <4>1, <4>2
    <3> QED BY <3>2, <3>3
  <2>2. ASSUME NEW j \in PRank
        PROVE  \E d \in 0 .. PSize - 1 : PartnerAt(pstates, i, d) = j
    <3> DEFINE d == IF j >= i THEN j - i ELSE j + PSize - i
    <3>1. d \in 0 .. PSize - 1 /\ j = IF i + d < PSize THEN i + d ELSE i + d - PSize
      OBVIOUS
    <3> HIDE DEF d
    <3> QED BY <2>1, <3>1
  <2>3. PartnerAt(pstates, i, 0) = i /\ \A d \in 0 .. PSize - 1 : PartnerAt(pstates, i, d) \in PRank
    BY <2>1
  <2>4. \A d, e \in 0 .. PSize - 1 : PartnerAt(pstates, i, d) = PartnerAt(pstates, i, e) => d = e
    BY <2>1
  <2> QED BY <2>2, <2>3, <2>4
<1>2. CASE ~pstates[i]
  <2>1. \A d \in 0 .. PSize - 1 : PartnerAt(pstates, i, d) = IF d <= i THEN i - d ELSE i + PSize - d
    <3> TAKE d \in 0 .. PSize - 1
    <3>1. PartnerAt(pstates, i, d) = (i + PSize - d) % PSize
      BY <1>2 DEF PartnerAt
    <3>2. CASE d > i
      <4> DEFINE a == i + PSize - d
      <4>1. a \in 0 .. PSize - 1
        BY <3>2
      <4>2. a % PSize = a
        <5> HIDE DEF a
        <5> QED BY <4>1, ModOnce
      <4> QED BY <3>1, <3>2, <4>2
    <3>3. CASE d <= i
      <4> DEFINE a == i - d
      <4>1. a \in 0 .. PSize - 1 /\ i + PSize - d = a + PSize
        BY <3>3
      <4>2. (a + PSize) % PSize = a
        <5> HIDE DEF a
        <5> QED BY <4>1, ModOnce
      <4> QED BY <3>1, <3>3, <4>1, <4>2
    <3> QED BY <3>2, <3>3
  <2>2. ASSUME NEW j \in PRank
        PROVE  \E d \in 0 .. PSize - 1 : PartnerAt(pstates, i, d) = j
    <3> DEFINE d == IF j <= i THEN i - j ELSE i + PSize - j
    <3>1. d \in 0 .. PSize - 1 /\ j = IF d <= i THEN i - d ELSE i + PSize - d
      OBVIOUS
    <3> HIDE DEF d
    <3> QED BY <2>1, <3>1
  <2>3. PartnerAt(pstates, i, 0) = i /\ \A d \in 0 .. PSize - 1 : PartnerAt(pstates, i, d) \in PRank
    BY <2>1
  <2>4. \A d, e \in 0 .. PSize - 1 : PartnerAt(pstates, i, d) = PartnerAt(pstates, i, e) => d = e
    BY <2>1
  <2> QED BY <2>2, <2>3, <2>4
<1> QED BY <1>1, <1>2 DEF StatesTyped

LEMMA StatesOnWalk ==
    ASSUME StatesTyped, NEW i \in PRank, NEW d \in 0 .. PSize - 1
    PROVE  PartnerAt(pstates, i, d) \in PRank /\ pstates[PartnerAt(pstates, i, d)] \in BOOLEAN
<1>1. PartnerAt(pstates, i, d) \in PRank
  BY Walk
<1> QED BY <1>1 DEF StatesTyped

\* From a member at distance e with the other state the walk goes back.
LEMMA WalkBack ==
    ASSUME StatesTyped, NEW i \in PRank, NEW e \in 0 .. PSize - 1, NEW k \in 0 .. e,
           pstates[PartnerAt(pstates, i, e)] # pstates[i]
    PROVE  PartnerAt(pstates, PartnerAt(pstates, i, e), k) = PartnerAt(pstates, i, e - k)
<1> USE SizeFacts
<1> DEFINE j == PartnerAt(pstates, i, e)
<1>1. j \in PRank /\ pstates[i] \in BOOLEAN /\ pstates[j] \in BOOLEAN
  <2>1. j \in PRank
    BY Walk
  <2> HIDE DEF j
  <2> QED BY <2>1 DEF StatesTyped
<1>2. CASE pstates[i]
  <2>1. j = (i + e) % PSize
    BY <1>2 DEF PartnerAt
  <2>2. PartnerAt(pstates, j, k) = (j + PSize - k) % PSize
    <3>1. ~pstates[j]
      BY <1>1, <1>2
    <3> HIDE DEF j
    <3> QED BY <3>1 DEF PartnerAt
  <2>3. PartnerAt(pstates, i, e - k) = (i + (e - k)) % PSize
    BY <1>2 DEF PartnerAt
  <2>4. (((i + e) % PSize) + (PSize - k)) % PSize = (i + e + (PSize - k)) % PSize
    <3>1. i + e \in Nat /\ PSize - k \in Nat
      OBVIOUS
    <3> QED BY <3>1, ModAdd
  <2>5. (i + (e - k) + PSize) % PSize = (i + (e - k)) % PSize
    <3>1. i + (e - k) \in Nat
      OBVIOUS
    <3> QED BY <3>1, ModPeriod
  <2>6. i + e + (PSize - k) = i + (e - k) + PSize /\ j + PSize - k = j + (PSize - k)
    BY <1>1
  <2> QED BY <2>1, <2>2, <2>3, <2>4, <2>5, <2>6
<1>3. CASE ~pstates[i]
  <2>1. j = (i + PSize - e) % PSize
    BY <1>3 DEF PartnerAt
  <2>2. PartnerAt(pstates, j, k) = (j + k) % PSize
    <3>1. pstates[j]
      BY <1>1, <1>3
    <3> HIDE DEF j
    <3> QED BY <3>1 DEF PartnerAt
  <2>3. PartnerAt(pstates, i, e - k) = (i + PSize - (e - k)) % PSize
    BY <1>3 DEF PartnerAt
  <2>4. (((i + PSize - e) % PSize) + k) % PSize = (i + PSize - e + k) % PSize
    <3>1. i + PSize - e \in Nat /\ k \in Nat
      OBVIOUS
    <3> QED BY <3>1, ModAdd
  <2>5. i + PSize - e + k = i + PSize - (e - k)
    OBVIOUS
  <2> QED BY <2>1, <2>2, <2>3, <2>4, <2>5
<1> QED BY <1>1, <1>2, <1>3

-----------------------------------------------------------------------------
(* Counting on the way.                                                    *)

\* Like and unlike members make up the walk.
LEMMA Counted ==
    ASSUME StatesTyped, NEW i \in PRank, NEW d \in 0 .. PSize - 1
    PROVE  /\ IsFiniteSet(Like(i, d)) /\ IsFiniteSet(Unlike(i, d))
           /\ likes(i, d) \in Nat /\ likes(i, d) <= d + 1
           /\ Cardinality(Unlike(i, d)) = d + 1 - likes(i, d)
<1> USE SizeFacts
<1>1. IsFiniteSet(0 .. d) /\ Cardinality(0 .. d) = d + 1
  BY FS_Interval
<1>2. Like(i, d) \subseteq 0 .. d /\ Unlike(i, d) \subseteq 0 .. d
  BY DEF Like, Unlike
<1>3. IsFiniteSet(Like(i, d)) /\ IsFiniteSet(Unlike(i, d))
  BY <1>1, <1>2, FS_Subset
<1>4. Like(i, d) \cap Unlike(i, d) = {} /\ Like(i, d) \cup Unlike(i, d) = 0 .. d
  BY DEF Like, Unlike
<1>5. Cardinality(0 .. d) = Cardinality(Like(i, d)) + Cardinality(Unlike(i, d))
  BY <1>3, <1>4, PartsAdd
<1>6. Cardinality(Like(i, d)) \in Nat /\ Cardinality(Unlike(i, d)) \in Nat
  BY <1>3, FS_CardinalityType
<1> QED BY <1>1, <1>3, <1>5, <1>6 DEF likes

\* The code counts full and waiting members, whichever the first one is.
LEMMA BalancedIsHalf ==
    ASSUME StatesTyped, NEW i \in PRank, NEW d \in 0 .. PSize - 1
    PROVE  Balanced(pstates, i, d) <=> 2 * likes(i, d) = d + 1
<1> DEFINE walk(b) == {k \in 0 .. d : pstates[PartnerAt(pstates, i, k)] = b}
<1>1. Balanced(pstates, i, d) <=> Cardinality(walk(TRUE)) = Cardinality(walk(FALSE))
  BY DEF Balanced
<1>2. \A k \in 0 .. d : pstates[PartnerAt(pstates, i, k)] \in BOOLEAN
  <2>1. 0 .. d \subseteq 0 .. PSize - 1
    BY SizeFacts
  <2> QED BY <2>1, StatesOnWalk
<1>3. pstates[i] \in BOOLEAN
  BY DEF StatesTyped
<1>5. \/ walk(TRUE) = Like(i, d) /\ walk(FALSE) = Unlike(i, d)
      \/ walk(TRUE) = Unlike(i, d) /\ walk(FALSE) = Like(i, d)
  <2>1. CASE pstates[i] = TRUE
    <3>1. walk(TRUE) = Like(i, d)
      BY <2>1 DEF Like
    <3>2. walk(FALSE) = Unlike(i, d)
      BY <1>2, <2>1 DEF Unlike
    <3> QED BY <3>1, <3>2
  <2>2. CASE pstates[i] = FALSE
    <3>1. walk(FALSE) = Like(i, d)
      BY <2>2 DEF Like
    <3>2. walk(TRUE) = Unlike(i, d)
      BY <1>2, <2>2 DEF Unlike
    <3> QED BY <3>1, <3>2
  <2> QED BY <1>3, <2>1, <2>2
<1> HIDE DEF walk
<1>6. Balanced(pstates, i, d) <=> likes(i, d) = Cardinality(Unlike(i, d))
  BY <1>1, <1>5 DEF likes
<1>7. likes(i, d) \in Nat /\ Cardinality(Unlike(i, d)) = d + 1 - likes(i, d)
  BY Counted
<1> QED BY <1>6, <1>7, SizeFacts

\* One member more.
LEMMA CountNext ==
    ASSUME StatesTyped, NEW i \in PRank
    PROVE  /\ likes(i, 0) = 1
           /\ \A d \in 1 .. PSize - 1 :
                likes(i, d) = IF pstates[PartnerAt(pstates, i, d)] = pstates[i] THEN likes(i, d - 1) + 1
                              ELSE likes(i, d - 1)
<1> USE SizeFacts
<1>1. likes(i, 0) = 1
  <2>1. Like(i, 0) = {0}
    <3>1. PartnerAt(pstates, i, 0) = i
      BY Walk
    <3>2. 0 .. 0 = {0}
      OBVIOUS
    <3> QED BY <3>1, <3>2 DEF Like
  <2> QED BY <2>1, FS_Singleton DEF likes
<1>2. ASSUME NEW d \in 1 .. PSize - 1
      PROVE  likes(i, d) = IF pstates[PartnerAt(pstates, i, d)] = pstates[i] THEN likes(i, d - 1) + 1
                           ELSE likes(i, d - 1)
  <2>1. d - 1 \in 0 .. PSize - 1 /\ 0 .. d = 0 .. (d - 1) \cup {d} /\ d \notin 0 .. (d - 1)
    OBVIOUS
  <2>2. IsFiniteSet(Like(i, d - 1)) /\ d \notin Like(i, d - 1)
    BY <2>1, Counted DEF Like
  <2>3. CASE pstates[PartnerAt(pstates, i, d)] = pstates[i]
    <3>1. Like(i, d) = Like(i, d - 1) \cup {d}
      BY <2>1, <2>3 DEF Like
    <3> QED BY <2>2, <2>3, <3>1, FS_AddElement DEF likes
  <2>4. CASE pstates[PartnerAt(pstates, i, d)] # pstates[i]
    <3>1. Like(i, d) = Like(i, d - 1)
      BY <2>1, <2>4 DEF Like
    <3> QED BY <2>4, <3>1 DEF likes
  <2> QED BY <2>3, <2>4
<1> QED BY <1>1, <1>2

\* If at some distance half of the walk is unlike, a walk that begins with a
\* like member has met the first balance with an unlike one.
LEMMA FirstBalance ==
    ASSUME StatesTyped, NEW i \in PRank, NEW d \in 0 .. PSize - 1, 2 * likes(i, d) <= d + 1
    PROVE  \E e \in 1 .. d : /\ 2 * likes(i, e) = e + 1
                             /\ \A f \in 0 .. e - 1 : 2 * likes(i, f) > f + 1
                             /\ pstates[PartnerAt(pstates, i, e)] # pstates[i]
<1> USE SizeFacts
<1> DEFINE S == {e \in 0 .. d : 2 * likes(i, e) <= e + 1}
<1>1. S \in SUBSET Nat /\ S # {}
  OBVIOUS
<1>2. PICK e \in S : \A f \in S : e <= f
  <2> HIDE DEF S
  <2> QED BY <1>1, LeastOf
<1>3. \A f \in 0 .. d : likes(i, f) \in Nat
  <2>1. 0 .. d \subseteq 0 .. PSize - 1
    OBVIOUS
  <2> HIDE DEF S
  <2> QED BY <2>1, Counted
<1>4. e # 0
  BY <1>2, CountNext
<1>5. e \in 1 .. d /\ e \in 1 .. PSize - 1 /\ e - 1 \in 0 .. d /\ 2 * likes(i, e) <= e + 1
  BY <1>2, <1>4
<1>6. \A f \in 0 .. e - 1 : 2 * likes(i, f) > f + 1
  <2> TAKE f \in 0 .. e - 1
  <2>1. f \notin S /\ f \in 0 .. d
    <3>1. f < e /\ e \in Nat /\ f \in Nat
      BY <1>5
    <3>2. f \in S => e <= f
      BY <1>2
    <3> QED BY <1>5, <3>1, <3>2
  <2> QED BY <1>3, <2>1
<1>7. 2 * likes(i, e - 1) > e
  <2>1. e - 1 \in 0 .. e - 1 /\ (e - 1) + 1 = e
    BY <1>5
  <2> QED BY <1>6, <2>1
<1>8. likes(i, e) \in Nat /\ likes(i, e - 1) \in Nat
  BY <1>3, <1>5
<1>9. /\ pstates[PartnerAt(pstates, i, e)] = pstates[i] => likes(i, e) = likes(i, e - 1) + 1
      /\ pstates[PartnerAt(pstates, i, e)] # pstates[i] => likes(i, e) = likes(i, e - 1)
  BY <1>5, CountNext
<1> HIDE DEF S
<1>10. pstates[PartnerAt(pstates, i, e)] # pstates[i]
  BY <1>5, <1>7, <1>8, <1>9
<1>11. 2 * likes(i, e) = e + 1
  BY <1>5, <1>7, <1>8, <1>9, <1>10
<1> QED BY <1>5, <1>6, <1>10, <1>11

\* Seen from a member at the first balance, the walk back has its first balance
\* where the walk began.
LEMMA BalanceBack ==
    ASSUME StatesTyped, NEW i \in PRank, NEW e \in 1 .. PSize - 1,
           2 * likes(i, e) = e + 1, \A f \in 0 .. e - 1 : 2 * likes(i, f) > f + 1,
           pstates[PartnerAt(pstates, i, e)] # pstates[i]
    PROVE  LET j == PartnerAt(pstates, i, e)
           IN  /\ 2 * likes(j, e) = e + 1
               /\ \A f \in 0 .. e - 1 : 2 * likes(j, f) > f + 1
<1> USE SizeFacts
<1> DEFINE j == PartnerAt(pstates, i, e)
<1>1. j \in PRank
  BY Walk
<1>2. \A k \in 0 .. e : PartnerAt(pstates, j, k) = PartnerAt(pstates, i, e - k)
  BY WalkBack
<1>3. \A k \in 0 .. e : pstates[PartnerAt(pstates, i, k)] \in BOOLEAN
  <2>1. 0 .. e \subseteq 0 .. PSize - 1
    OBVIOUS
  <2> QED BY <2>1, StatesOnWalk
<1>4. pstates[i] \in BOOLEAN /\ pstates[j] \in BOOLEAN /\ pstates[j] # pstates[i]
  BY <1>1 DEF StatesTyped
<1> HIDE DEF j
<1>5. ASSUME NEW f \in 0 .. e
      PROVE  likes(j, f) = Cardinality({k \in e - f .. e : k \in Unlike(i, e)})
  <2> DEFINE T == {k \in e - f .. e : k \in Unlike(i, e)}
             g == [k \in Like(j, f) |-> e - k]
  <2>1. IsFiniteSet(Like(j, f)) /\ Like(j, f) \subseteq 0 .. f
    <3>1. f \in 0 .. PSize - 1
      OBVIOUS
    <3>2. IsFiniteSet(Like(j, f))
      BY <1>1, <3>1, Counted
    <3> QED BY <3>2 DEF Like
  <2>2. \A k \in 0 .. f : k \in Like(j, f) <=> e - k \in T
    <3> TAKE k \in 0 .. f
    <3>1. e - k \in e - f .. e /\ e - k \in 0 .. e /\ k \in 0 .. e
      OBVIOUS
    <3>2. k \in Like(j, f) <=> pstates[PartnerAt(pstates, i, e - k)] = pstates[j]
      BY <1>2, <3>1 DEF Like
    <3>3. pstates[PartnerAt(pstates, i, e - k)] = pstates[j] <=> pstates[PartnerAt(pstates, i, e - k)] # pstates[i]
      BY <1>3, <1>4, <3>1
    <3> QED BY <3>1, <3>2, <3>3 DEF Unlike
  <2>3. g \in [Like(j, f) -> T]
    BY <2>1, <2>2
  <2>4. \A a, b \in Like(j, f) : g[a] = g[b] => a = b
    BY <2>1
  <2>5. ASSUME NEW t \in T
        PROVE  \E s \in Like(j, f) : g[s] = t
    <3>1. e - t \in 0 .. f /\ e - (e - t) = t
      OBVIOUS
    <3>2. e - t \in Like(j, f)
      BY <2>2, <3>1
    <3> QED BY <3>1, <3>2
  <2> HIDE DEF g, T
  <2>6. Cardinality(T) = Cardinality(Like(j, f))
    BY <2>1, <2>3, <2>4, <2>5, SameSize
  <2> QED BY <2>6 DEF likes, T
<1>6. Cardinality(Unlike(i, e)) = e + 1 - likes(i, e) /\ likes(i, e) \in Nat
  BY Counted
<1>7. 2 * likes(j, e) = e + 1
  <2>1. {k \in e - e .. e : k \in Unlike(i, e)} = Unlike(i, e)
    BY DEF Unlike
  <2>2. likes(j, e) = Cardinality({k \in e - e .. e : k \in Unlike(i, e)})
    <3>1. e \in 0 .. e
      OBVIOUS
    <3> QED BY <1>5, <3>1
  <2>3. likes(j, e) = e + 1 - likes(i, e)
    BY <1>6, <2>1, <2>2
  <2>4. 2 * likes(i, e) = e + 1
    OBVIOUS
  <2> QED BY <1>6, <2>3, <2>4
<1>8. ASSUME NEW f \in 0 .. e - 1
      PROVE  2 * likes(j, f) > f + 1
  <2> DEFINE c == e - f - 1
             T == {k \in e - f .. e : k \in Unlike(i, e)}
  <2>1. c \in 0 .. e - 1 /\ c \in 0 .. PSize - 1 /\ f \in 0 .. e
    OBVIOUS
  <2>2. Unlike(i, c) \cap T = {} /\ Unlike(i, c) \cup T = Unlike(i, e)
    BY <2>1 DEF Unlike
  <2>3. IsFiniteSet(Unlike(i, c)) /\ IsFiniteSet(T)
    <3>1. T \subseteq Unlike(i, e)
      OBVIOUS
    <3>2. e \in 0 .. PSize - 1
      OBVIOUS
    <3> HIDE DEF T, c
    <3>3. IsFiniteSet(Unlike(i, c)) /\ IsFiniteSet(Unlike(i, e))
      BY <2>1, <3>2, Counted
    <3> QED BY <3>1, <3>3, FS_Subset
  <2> HIDE DEF T, c
  <2>4. Cardinality(Unlike(i, e)) = Cardinality(Unlike(i, c)) + Cardinality(T)
    BY <2>2, <2>3, PartsAdd
  <2>5. Cardinality(Unlike(i, c)) = c + 1 - likes(i, c) /\ likes(i, c) \in Nat
    BY <2>1, Counted
  <2>6. 2 * likes(i, c) > c + 1
    BY <2>1
  <2>7. likes(j, f) = Cardinality(T)
    BY <1>5, <2>1 DEF T
  <2>8. c = e - f - 1
    BY DEF c
  <2>9. Cardinality(T) = (e + 1 - likes(i, e)) - (c + 1 - likes(i, c))
    <3>1. Cardinality(T) \in Nat
      BY <2>3, FS_CardinalityType
    <3> DEFINE g == Cardinality(T)
               h == Cardinality(Unlike(i, c))
    <3>2. g \in Nat /\ h = c + 1 - likes(i, c) /\ e + 1 - likes(i, e) = h + g
      BY <1>6, <2>1, <2>4, <2>5, <3>1
    <3>3. c + 1 - likes(i, c) \in Int
      BY <2>1, <2>5, <2>8
    <3> HIDE DEF g, h
    <3>4. g = (e + 1 - likes(i, e)) - (c + 1 - likes(i, c))
      BY <3>2, <3>3
    <3> QED BY <3>4 DEF g
  <2> DEFINE u == likes(i, e)
             v == likes(i, c)
             w == likes(j, f)
  <2>10. u \in Nat /\ v \in Nat /\ 2 * u = e + 1 /\ 2 * v > c + 1 /\ w = (e + 1 - u) - (c + 1 - v)
    BY <1>6, <2>5, <2>6, <2>7, <2>9
  <2>11. e \in Nat /\ f \in Nat
    OBVIOUS
  <2> HIDE DEF u, v, w
  <2>12. 2 * w > f + 1
    BY <2>8, <2>10, <2>11
  <2> QED BY <2>12 DEF w
<1> QED BY <1>7, <1>8 DEF j

-----------------------------------------------------------------------------
(* assign_partner.                                                         *)

\* A member keeps to itself if like ones prevail all the way round; its partner
\* is else at the first balance.
LEMMA AssignedWhere ==
    ASSUME StatesTyped, NEW i \in PRank
    PROVE  \/ /\ assign_partner(pstates, i) = i
              /\ 2 * likes(i, PSize - 1) > PSize
           \/ \E e \in 1 .. PSize - 1 :
                /\ assign_partner(pstates, i) = PartnerAt(pstates, i, e)
                /\ 2 * likes(i, e) = e + 1
                /\ \A f \in 0 .. e - 1 : 2 * likes(i, f) > f + 1
                /\ pstates[PartnerAt(pstates, i, e)] # pstates[i]
<1> USE SizeFacts
<1> DEFINE stops == {d \in 1 .. PSize - 1 : Balanced(pstates, i, d)}
<1>1. assign_partner(pstates, i) =
        IF stops = {} THEN i ELSE PartnerAt(pstates, i, CHOOSE d \in stops : \A e \in stops : d <= e)
  BY DEF assign_partner
<1>2. \A d \in 1 .. PSize - 1 : d \in stops <=> 2 * likes(i, d) = d + 1
  <2> TAKE d \in 1 .. PSize - 1
  <2>1. d \in 0 .. PSize - 1
    OBVIOUS
  <2>2. Balanced(pstates, i, d) <=> 2 * likes(i, d) = d + 1
    BY <2>1, BalancedIsHalf
  <2> QED BY <2>2
<1>3. stops \subseteq 1 .. PSize - 1
  OBVIOUS
<1> HIDE DEF stops
<1>4. \A d \in 0 .. PSize - 1 : likes(i, d) \in Nat
  BY Counted
<1>5. CASE stops = {}
  <2>1. PSize - 1 \in 0 .. PSize - 1 /\ (PSize - 1) + 1 = PSize
    OBVIOUS
  <2>2. ASSUME 2 * likes(i, PSize - 1) <= (PSize - 1) + 1
        PROVE  FALSE
    <3>1. PICK e \in 1 .. PSize - 1 : 2 * likes(i, e) = e + 1
      BY <2>1, <2>2, FirstBalance
    <3> QED BY <1>2, <1>5, <3>1
  <2> QED BY <1>1, <1>4, <1>5, <2>1, <2>2
<1>6. CASE stops # {}
  <2>1. PICK d \in stops : TRUE
    BY <1>6
  <2>2. d \in 0 .. PSize - 1 /\ d \in 1 .. PSize - 1 /\ 2 * likes(i, d) = d + 1
    BY <1>2, <1>3, <2>1
  <2>3. 2 * likes(i, d) <= d + 1
    BY <2>2
  <2>4. PICK e \in 1 .. d : /\ 2 * likes(i, e) = e + 1
                            /\ \A f \in 0 .. e - 1 : 2 * likes(i, f) > f + 1
                            /\ pstates[PartnerAt(pstates, i, e)] # pstates[i]
    BY <2>2, <2>3, FirstBalance
  <2>5. e \in 1 .. PSize - 1 /\ e \in stops
    BY <1>2, <2>2, <2>4
  <2>6. \A f \in stops : e <= f
    <3> TAKE f \in stops
    <3>1. f \in 1 .. PSize - 1 /\ 2 * likes(i, f) = f + 1
      BY <1>2, <1>3
    <3>2. ASSUME f < e
          PROVE  FALSE
      <4>1. f \in 0 .. e - 1
        BY <2>5, <3>1, <3>2
      <4> QED BY <2>4, <3>1, <4>1
    <3> QED BY <2>5, <3>1, <3>2
  <2>7. (CHOOSE x \in stops : \A y \in stops : x <= y) = e
    <3>1. \A x \in stops : (\A y \in stops : x <= y) => x = e
      <4> SUFFICES ASSUME NEW x \in stops, \A y \in stops : x <= y
                   PROVE  x = e
        OBVIOUS
      <4>1. x \in Int /\ e \in Int /\ x <= e /\ e <= x
        BY <1>3, <2>5, <2>6
      <4> QED BY <4>1
    <3> QED BY <2>5, <2>6, <3>1
  <2> QED BY <1>1, <1>6, <2>4, <2>5, <2>7
<1> QED BY <1>5, <1>6

\* Where a member finds its first balance it is found, too.
LEMMA AssignedAt ==
    ASSUME StatesTyped, NEW i \in PRank, NEW e \in 1 .. PSize - 1,
           2 * likes(i, e) = e + 1, \A f \in 0 .. e - 1 : 2 * likes(i, f) > f + 1
    PROVE  assign_partner(pstates, i) = PartnerAt(pstates, i, e)
<1> USE SizeFacts
<1>1. \A d \in 0 .. PSize - 1 : likes(i, d) \in Nat
  BY Counted
<1>2. CASE 2 * likes(i, PSize - 1) > PSize /\ assign_partner(pstates, i) = i
  <2> DEFINE stops == {d \in 1 .. PSize - 1 : Balanced(pstates, i, d)}
  <2>1. e \in stops
    <3>1. e \in 0 .. PSize - 1
      OBVIOUS
    <3> QED BY <3>1, BalancedIsHalf
  <2>2. \A d \in stops : e <= d
    <3> TAKE d \in stops
    <3>1. d \in 0 .. PSize - 1 /\ d \in 1 .. PSize - 1 /\ Balanced(pstates, i, d)
      OBVIOUS
    <3>2. 2 * likes(i, d) = d + 1
      BY <3>1, BalancedIsHalf
    <3>3. ~ d \in 0 .. e - 1
      BY <1>1, <3>1, <3>2
    <3> QED BY <3>1, <3>3
  <2>3. (CHOOSE x \in stops : \A y \in stops : x <= y) = e
    <3>1. \A x \in stops : (\A y \in stops : x <= y) => x = e
      <4> SUFFICES ASSUME NEW x \in stops, \A y \in stops : x <= y
                   PROVE  x = e
        OBVIOUS
      <4>1. x \in Int /\ e \in Int /\ x <= e /\ e <= x
        BY <2>1, <2>2
      <4> QED BY <4>1
    <3> HIDE DEF stops
    <3> QED BY <2>1, <2>2, <3>1
  <2>4. assign_partner(pstates, i) = PartnerAt(pstates, i, CHOOSE x \in stops : \A y \in stops : x <= y)
    BY <2>1 DEF assign_partner
  <2> QED BY <2>3, <2>4
<1>3. ASSUME NEW c \in 1 .. PSize - 1, assign_partner(pstates, i) = PartnerAt(pstates, i, c),
             2 * likes(i, c) = c + 1, \A f \in 0 .. c - 1 : 2 * likes(i, f) > f + 1
      PROVE  c = e
  <2>1. ~ c \in 0 .. e - 1
    BY <1>1, <1>3
  <2>2. ~ e \in 0 .. c - 1
    BY <1>1, <1>3
  <2> QED BY <2>1, <2>2
<1>4. CASE \E c \in 1 .. PSize - 1 : /\ assign_partner(pstates, i) = PartnerAt(pstates, i, c)
                                     /\ 2 * likes(i, c) = c + 1
                                     /\ \A f \in 0 .. c - 1 : 2 * likes(i, f) > f + 1
  BY <1>3, <1>4
<1> QED BY <1>2, <1>4, AssignedWhere

\* Partners assign each other, and only one of the two has data to send.
LEMMA Mutual ==
    ASSUME StatesTyped, NEW i \in PRank, assign_partner(pstates, i) # i
    PROVE  LET j == assign_partner(pstates, i)
           IN  j \in PRank /\ pstates[j] # pstates[i] /\ assign_partner(pstates, j) = i
<1> USE SizeFacts
<1>1. PICK e \in 1 .. PSize - 1 :
         /\ assign_partner(pstates, i) = PartnerAt(pstates, i, e)
         /\ 2 * likes(i, e) = e + 1
         /\ \A f \in 0 .. e - 1 : 2 * likes(i, f) > f + 1
         /\ pstates[PartnerAt(pstates, i, e)] # pstates[i]
  BY AssignedWhere
<1> DEFINE j == PartnerAt(pstates, i, e)
<1>2. j \in PRank /\ e \in 0 .. PSize - 1
  <2>1. e \in 0 .. PSize - 1
    OBVIOUS
  <2> QED BY <2>1, StatesOnWalk
<1>3. 2 * likes(j, e) = e + 1 /\ \A f \in 0 .. e - 1 : 2 * likes(j, f) > f + 1
  BY <1>1, BalanceBack
<1>4. assign_partner(pstates, j) = PartnerAt(pstates, j, e)
  <2> HIDE DEF j
  <2> QED BY <1>2, <1>3, AssignedAt
<1>5. PartnerAt(pstates, j, e) = PartnerAt(pstates, i, e - e)
  <2>1. e \in 0 .. e
    OBVIOUS
  <2> QED BY <1>1, <1>2, <2>1, WalkBack
<1>6. e - e = 0
  OBVIOUS
<1>7. PartnerAt(pstates, j, e) = i
  BY <1>5, <1>6, Walk
<1> QED BY <1>1, <1>2, <1>4, <1>7

\* All the way round a member meets every other once.
LEMMA LikesOfAll ==
    ASSUME StatesTyped, NEW i \in PRank
    PROVE  likes(i, PSize - 1) = Cardinality({j \in PRank : pstates[j] = pstates[i]})
<1> USE SizeFacts
<1> DEFINE T == {j \in PRank : pstates[j] = pstates[i]}
           S == Like(i, PSize - 1)
           g == [k \in S |-> PartnerAt(pstates, i, k)]
<1>1. PSize - 1 \in 0 .. PSize - 1
  OBVIOUS
<1>2. IsFiniteSet(S)
  BY <1>1, Counted
<1>3. S = {k \in 0 .. PSize - 1 : pstates[PartnerAt(pstates, i, k)] = pstates[i]}
  BY DEF Like
<1>4. g \in [S -> T]
  BY <1>3, StatesOnWalk
<1>5. \A a, b \in S : g[a] = g[b] => a = b
  <2> SUFFICES ASSUME NEW a \in S, NEW b \in S, g[a] = g[b]
               PROVE  a = b
    OBVIOUS
  <2>1. a \in 0 .. PSize - 1 /\ b \in 0 .. PSize - 1
    BY <1>3
  <2>2. PartnerAt(pstates, i, a) = PartnerAt(pstates, i, b)
    OBVIOUS
  <2> HIDE DEF S, g
  <2> QED BY <2>1, <2>2, Walk
<1>6. \A t \in T : \E s \in S : g[s] = t
  <2> TAKE t \in T
  <2>1. PICK d \in 0 .. PSize - 1 : PartnerAt(pstates, i, d) = t
    BY Walk
  <2>2. d \in S
    BY <1>3, <2>1
  <2> QED BY <2>1, <2>2
<1> HIDE DEF S, T, g
<1>7. Cardinality(T) = Cardinality(S)
  BY <1>2, <1>4, <1>5, <1>6, SameSize
<1> QED BY <1>7 DEF S, T, likes

\* The members of the smaller side, and of sides of equal size, all get partners.
LEMMA SmallerSidePairs ==
    ASSUME StatesTyped, NEW i \in PRank, 2 * Cardinality({j \in PRank : pstates[j] = pstates[i]}) <= PSize
    PROVE  assign_partner(pstates, i) # i
<1> USE SizeFacts
<1>1. 2 * likes(i, PSize - 1) <= PSize
  BY LikesOfAll
<1>2. likes(i, PSize - 1) \in Nat
  <2>1. PSize - 1 \in 0 .. PSize - 1
    OBVIOUS
  <2> QED BY <2>1, Counted
<1>3. ~ 2 * likes(i, PSize - 1) > PSize
  BY <1>1, <1>2
<1>4. PICK e \in 1 .. PSize - 1 : /\ assign_partner(pstates, i) = PartnerAt(pstates, i, e)
                                  /\ pstates[PartnerAt(pstates, i, e)] # pstates[i]
  BY <1>3, AssignedWhere
<1> QED BY <1>4

-----------------------------------------------------------------------------
(* The theorems.                                                           *)

LEMMA RoundsTyped == RoundsSpec => []StatesTyped
<1>1. RoundsInit => StatesTyped
  BY DEF RoundsInit, StatesTyped
<1>2. StatesTyped /\ [PartnerRound \/ RoundsOver]_pstates => StatesTyped'
  <2>1. PartnerRound => StatesTyped'
    BY DEF PartnerRound, StatesTyped
  <2>2. RoundsOver \/ UNCHANGED pstates => pstates' = pstates
    BY DEF RoundsOver
  <2> QED BY <2>1, <2>2 DEF StatesTyped
<1> QED BY <1>1, <1>2, PTL DEF RoundsSpec

\* Whatever the size of the group and whoever is full, the partners that the
\* members work out one by one agree: nobody waits for a member that deals with
\* a third one, and of two partners exactly one has the checkpoint.
THEOREM PairsAlwaysAgree == RoundsSpec => []PairsAgree
<1>1. StatesTyped => PairsAgree
  <2> SUFFICES ASSUME StatesTyped, NEW i \in PRank, Assigned[i] # i
               PROVE  Assigned[Assigned[i]] = i /\ pstates[i] # pstates[Assigned[i]]
    BY DEF PairsAgree
  <2>1. Assigned[i] = assign_partner(pstates, i)
    BY DEF Assigned
  <2>2. Assigned[i] \in PRank /\ pstates[Assigned[i]] # pstates[i] /\ assign_partner(pstates, Assigned[i]) = i
    BY <2>1, Mutual
  <2>3. Assigned[Assigned[i]] = assign_partner(pstates, Assigned[i])
    BY <2>2 DEF Assigned
  <2> QED BY <2>2, <2>3
<1> QED BY <1>1, RoundsTyped, PTL

\* Who is full after a round, and how many that are.
LEMMA RoundCount ==
    ASSUME StatesTyped, PartnerRound
    PROVE  Cardinality(Full(pstates')) = Min({PSize, 2 * Cardinality(Full(pstates))})
<1> USE SizeFacts
<1> DEFINE F == Full(pstates)
           W == PRank \ F
           N == Full(pstates')
<1>1. IsFiniteSet(PRank) /\ Cardinality(PRank) = PSize
  BY FS_Interval
<1>2. F \subseteq PRank /\ W \subseteq PRank /\ F \cap W = {} /\ F \cup W = PRank
  BY DEF Full
<1>3. IsFiniteSet(F) /\ IsFiniteSet(W)
  BY <1>1, <1>2, FS_Subset
<1>4. Cardinality(F) \in Nat /\ Cardinality(W) \in Nat /\ Cardinality(F) + Cardinality(W) = PSize
  <2> HIDE DEF F, W
  <2> QED BY <1>1, <1>2, <1>3, PartsAdd, FS_CardinalityType
<1>5. \A i \in PRank : /\ i \in F => {j \in PRank : pstates[j] = pstates[i]} = F
                       /\ i \in W => {j \in PRank : pstates[j] = pstates[i]} = W
  BY DEF Full, StatesTyped
<1>6. \A i \in PRank : i \in N <=> i \in F \/ Assigned[i] \in F
  <2> TAKE i \in PRank
  <2>1. Assigned[i] \in PRank
    <3>1. Assigned[i] = assign_partner(pstates, i)
      BY DEF Assigned
    <3> QED BY <3>1, Mutual
  <2>2. pstates' = [k \in PRank |-> pstates[k] \/ pstates[Assigned[k]]]
    BY DEF PartnerRound
  <2>3. pstates'[i] = (pstates[i] \/ pstates[Assigned[i]])
    BY <2>2
  <2> QED BY <2>1, <2>3 DEF Full
<1>7. N \subseteq PRank
  BY DEF Full
<1>8. \A i \in PRank : Assigned[i] # i =>
         /\ Assigned[i] \in PRank /\ Assigned[Assigned[i]] = i
         /\ i \in F <=> Assigned[i] \in W
  <2> SUFFICES ASSUME NEW i \in PRank, Assigned[i] # i
               PROVE  /\ Assigned[i] \in PRank /\ Assigned[Assigned[i]] = i
                      /\ i \in F <=> Assigned[i] \in W
    OBVIOUS
  <2>1. Assigned[i] = assign_partner(pstates, i)
    BY DEF Assigned
  <2>2. /\ Assigned[i] \in PRank /\ pstates[Assigned[i]] # pstates[i]
        /\ assign_partner(pstates, Assigned[i]) = i
    BY <2>1, Mutual
  <2>3. Assigned[Assigned[i]] = i
    BY <2>2 DEF Assigned
  <2>4. pstates[i] \in BOOLEAN /\ pstates[Assigned[i]] \in BOOLEAN
    BY <2>2 DEF StatesTyped
  <2> QED BY <2>2, <2>3, <2>4 DEF Full
<1>9. \A i \in PRank : Assigned[i] = assign_partner(pstates, i)
  BY DEF Assigned
<1> HIDE DEF F, W, N
<1>10. CASE 2 * Cardinality(F) <= PSize
  <2>1. \A i \in F : Assigned[i] # i
    BY <1>2, <1>5, <1>9, <1>10, SmallerSidePairs
  <2> DEFINE P == {i \in W : Assigned[i] \in F}
             g == [i \in F |-> Assigned[i]]
  <2>2. N = F \cup P
    BY <1>2, <1>6, <1>7
  <2>3. g \in [F -> P]
    BY <1>2, <1>8, <2>1
  <2>4. \A a, b \in F : g[a] = g[b] => a = b
    BY <1>2, <1>8, <2>1
  <2>5. \A t \in P : \E s \in F : g[s] = t
    <3> TAKE t \in P
    <3>1. t \in PRank /\ Assigned[t] \in F /\ Assigned[t] # t
      BY <1>2
    <3>2. g[Assigned[t]] = t
      BY <1>8, <3>1
    <3> QED BY <3>1, <3>2
  <2>6. F \cap P = {}
    BY <1>2
  <2> HIDE DEF P, g
  <2>7. IsFiniteSet(P) /\ Cardinality(P) = Cardinality(F)
    BY <1>3, <2>3, <2>4, <2>5, SameSize
  <2>8. Cardinality(N) = 2 * Cardinality(F)
    <3>1. Cardinality(F \cup P) = Cardinality(F) + Cardinality(P)
      BY <1>3, <2>6, <2>7, PartsAdd
    <3> QED BY <1>4, <2>2, <2>7, <3>1
  <2>9. \A k \in Nat : 2 * k <= PSize => Min({PSize, 2 * k}) = 2 * k
    BY DEF Min
  <2>10. Min({PSize, 2 * Cardinality(F)}) = 2 * Cardinality(F)
    BY <1>4, <1>10, <2>9
  <2> QED BY <2>8, <2>10 DEF F, N
<1>11. CASE 2 * Cardinality(F) > PSize
  <2>1. 2 * Cardinality(W) <= PSize
    BY <1>4, <1>11
  <2>2. \A i \in W : Assigned[i] # i
    BY <1>2, <1>5, <1>9, <2>1, SmallerSidePairs
  <2>3. \A i \in W : Assigned[i] \in F
    BY <1>2, <1>8, <2>2
  <2>4. N = PRank
    BY <1>2, <1>6, <1>7, <2>3
  <2>5. \A k \in Nat : 2 * k > PSize => Min({PSize, 2 * k}) = PSize
    BY DEF Min
  <2>6. Min({PSize, 2 * Cardinality(F)}) = PSize
    BY <1>4, <1>11, <2>5
  <2> QED BY <1>1, <2>4, <2>6 DEF F, N
<1> QED BY <1>4, <1>10, <1>11

\* No full member idles while another waits, whatever the size of the group:
\* after a round twice as many members are full, or all.
THEOREM RoundsDouble == RoundsSpec => RoundDoubles
<1>1. StatesTyped /\ [PartnerRound \/ RoundsOver]_pstates =>
        [Cardinality(Full(pstates')) = Min({PSize, 2 * Cardinality(Full(pstates))})]_pstates
  BY RoundCount DEF RoundsOver
<1> QED BY <1>1, RoundsTyped, PTL DEF RoundsSpec, RoundDoubles
=============================================================================
