----------------------------- MODULE FileProofs -----------------------------
(***************************************************************************)
(* Theorems about the file of a rank and what is read back from it, for    *)
(* every group, every list of variables, parity and chunk size, and every  *)
(* failoffset the metadata may carry.                                      *)
(***************************************************************************)
EXTENDS FileLayout, Numbers, TLAPS

-----------------------------------------------------------------------------
(* The registered variables as one run of bytes.                           *)

Shaped == shape \in Seq(Nat) /\ \E v \in DOMAIN shape : shape[v] > 0

\* The places of one variable.
LEMMA VarPlaces ==
    ASSUME shape \in Seq(Nat), NEW v \in DOMAIN shape
    PROVE  IsFiniteSet({v} \X (1 .. shape[v])) /\ Cardinality({v} \X (1 .. shape[v])) = shape[v]
<1> DEFINE s == shape[v]
<1>1. s \in Nat
  OBVIOUS
<1> HIDE DEF s
<1>2. IsFiniteSet(1 .. s) /\ Cardinality(1 .. s) = s
  BY <1>1, FS_Interval
<1>3. IsFiniteSet({v}) /\ Cardinality({v}) = 1
  BY FS_Singleton
<1>4. IsFiniteSet({v} \X (1 .. s)) /\ Cardinality({v} \X (1 .. s)) = 1 * s
  BY <1>2, <1>3, FS_Product
<1>5. Cardinality({v} \X (1 .. s)) = s
  BY <1>1, <1>4
<1> QED BY <1>4, <1>5 DEF s

LEMMA PlacesFinite ==
    ASSUME shape \in Seq(Nat)
    PROVE  IsFiniteSet(Places)
<1> DEFINE V == {{v} \X (1 .. shape[v]) : v \in DOMAIN shape}
           f == [v \in DOMAIN shape |-> {v} \X (1 .. shape[v])]
<1>1. f \in Surjection(DOMAIN shape, V)
  BY DEF Surjection
<1>2. IsFiniteSet(DOMAIN shape)
  BY FS_Interval
<1>3. \A S \in V : IsFiniteSet(S)
  BY VarPlaces
<1> HIDE DEF f, V
<1>4. IsFiniteSet(V)
  BY <1>1, <1>2, FS_Surjection
<1> QED BY <1>3, <1>4, FS_UNION DEF V, Places

\* Where the variables start among the registered bytes.
LEMMA StartsFacts ==
    ASSUME Shaped
    PROVE  /\ totaldatasize \in Nat \ {0}
           /\ \A v \in 1 .. Len(shape) + 1 : VarStart(v) \in Nat
           /\ VarStart(1) = 0 /\ VarStart(Len(shape) + 1) = totaldatasize
           /\ \A v \in DOMAIN shape : VarStart(v + 1) = VarStart(v) + shape[v]
           /\ \A v, w \in 1 .. Len(shape) + 1 : v <= w => VarStart(v) <= VarStart(w)
<1> DEFINE before(v) == {p \in Places : p[1] < v}
           L == Len(shape)
<1>1. IsFiniteSet(Places) /\ shape \in Seq(Nat) /\ L \in Nat /\ DOMAIN shape = 1 .. L
  BY PlacesFinite DEF Shaped
<1>2. \A v : IsFiniteSet(before(v)) /\ Cardinality(before(v)) \in Nat /\ VarStart(v) = Cardinality(before(v))
  <2> TAKE v
  <2>1. before(v) \in SUBSET Places
    OBVIOUS
  <2>2. VarStart(v) = Cardinality(before(v))
    BY DEF VarStart
  <2> HIDE DEF before
  <2> QED BY <1>1, <2>1, <2>2, FS_Subset, FS_CardinalityType
<1>3. \A p \in Places : p[1] \in DOMAIN shape
  BY DEF Places
<1>4. VarStart(1) = 0
  <2>1. before(1) = {}
    BY <1>1, <1>3
  <2> QED BY <1>2, <2>1, FS_EmptySet
<1>5. VarStart(L + 1) = totaldatasize
  <2>1. before(L + 1) = Places
    BY <1>1, <1>3
  <2> QED BY <1>2, <2>1 DEF totaldatasize
<1>6. \A v \in DOMAIN shape : VarStart(v + 1) = VarStart(v) + shape[v]
  <2> TAKE v \in DOMAIN shape
  <2> DEFINE own == {v} \X (1 .. shape[v])
  <2>1. before(v + 1) = before(v) \cup own /\ before(v) \cap own = {}
    BY <1>1, <1>3 DEF Places
  <2>2. IsFiniteSet(own) /\ Cardinality(own) = shape[v]
    BY <1>1, VarPlaces
  <2> HIDE DEF before, own
  <2>3. Cardinality(before(v) \cup own) = Cardinality(before(v)) + Cardinality(own)
    BY <1>2, <2>1, <2>2, PartsAdd
  <2> QED BY <1>2, <2>1, <2>2, <2>3
<1>7. \A v, w \in 1 .. L + 1 : v <= w => VarStart(v) <= VarStart(w)
  <2> SUFFICES ASSUME NEW v \in 1 .. L + 1, NEW w \in 1 .. L + 1, v <= w
               PROVE  VarStart(v) <= VarStart(w)
    OBVIOUS
  <2>1. before(v) \in SUBSET before(w)
    <3>1. \A p \in Places : p[1] \in Int
      BY <1>1, <1>3
    <3> QED BY <3>1
  <2> HIDE DEF before
  <2> QED BY <1>2, <2>1, FS_Subset
<1>8. totaldatasize # 0
  <2>1. PICK v \in DOMAIN shape : shape[v] > 0
    BY DEF Shaped
  <2>2. v + 1 \in 1 .. L + 1 /\ L + 1 \in 1 .. L + 1 /\ v + 1 <= L + 1 /\ shape[v] \in Nat /\ v \in 1 .. L + 1
    BY <1>1
  <2>3. VarStart(v + 1) <= VarStart(L + 1)
    BY <1>7, <2>2
  <2>4. VarStart(v) \in Nat /\ VarStart(v + 1) = VarStart(v) + shape[v]
    BY <1>2, <1>6
  <2> QED BY <1>5, <2>1, <2>2, <2>3, <2>4
<1> QED BY <1>2, <1>4, <1>5, <1>6, <1>7, <1>8

\* The registered bytes are numbered place by place.
LEMMA PlaceNumbers ==
    ASSUME Shaped
    PROVE  /\ \A i \in 1 .. totaldatasize :
                \E v \in DOMAIN shape, k \in Nat : k \in 1 .. shape[v] /\ PlaceOf(i) = <<v, k>> /\ i = VarStart(v) + k
           /\ \A v \in DOMAIN shape : \A k \in 1 .. shape[v] :
                VarStart(v) + k \in 1 .. totaldatasize /\ PlaceOf(VarStart(v) + k) = <<v, k>>
<1> DEFINE L == Len(shape)
           T == totaldatasize
           Of(i, w) == VarStart(w) < i /\ i <= VarStart(w + 1)
<1>1. shape \in Seq(Nat) /\ L \in Nat /\ DOMAIN shape = 1 .. L
  BY DEF Shaped
<1>2. /\ T \in Nat /\ \A v \in 1 .. L + 1 : VarStart(v) \in Nat
      /\ VarStart(1) = 0 /\ VarStart(L + 1) = T
      /\ \A v \in DOMAIN shape : VarStart(v + 1) = VarStart(v) + shape[v]
      /\ \A v, w \in 1 .. L + 1 : v <= w => VarStart(v) <= VarStart(w)
  BY StartsFacts
<1>3. \A i : \A v \in DOMAIN shape : (Of(i, v) /\ i \in Int) => PlaceOf(i) = <<v, i - VarStart(v)>>
  <2> SUFFICES ASSUME NEW i \in Int, NEW v \in DOMAIN shape, Of(i, v)
               PROVE  PlaceOf(i) = <<v, i - VarStart(v)>>
    OBVIOUS
  <2>1. \A w \in DOMAIN shape : Of(i, w) => w = v
    <3> SUFFICES ASSUME NEW w \in DOMAIN shape, Of(i, w), w # v
                 PROVE  FALSE
      OBVIOUS
    <3>1. w + 1 <= v \/ v + 1 <= w
      BY <1>1
    <3>2. VarStart(w + 1) <= VarStart(v) \/ VarStart(v + 1) <= VarStart(w)
      <4>1. v \in 1 .. L + 1 /\ w \in 1 .. L + 1 /\ v + 1 \in 1 .. L + 1 /\ w + 1 \in 1 .. L + 1
        BY <1>1
      <4>2. \A x, y \in 1 .. L + 1 : x <= y => VarStart(x) <= VarStart(y)
        BY <1>2
      <4> QED BY <3>1, <4>1, <4>2
    <3>3. VarStart(v) \in Nat /\ VarStart(w) \in Nat /\ VarStart(v + 1) \in Nat /\ VarStart(w + 1) \in Nat
      BY <1>1, <1>2
    <3> QED BY <3>2, <3>3
  <2>2. (CHOOSE w \in DOMAIN shape : VarStart(w) < i /\ i <= VarStart(w + 1)) = v
    BY <2>1
  <2> QED BY <2>2 DEF PlaceOf
<1>4. ASSUME NEW i \in 1 .. T
      PROVE  \E v \in DOMAIN shape : Of(i, v)
  <2> DEFINE S == {v \in 1 .. L : VarStart(v) < i}
  <2>1. 1 \in S
    <3>1. L # 0
      BY <1>2
    <3> QED BY <1>1, <1>2, <3>1
  <2>2. S \in SUBSET Nat /\ \A v \in S : v <= L
    BY <1>1
  <2> HIDE DEF S
  <2>3. PICK v \in S : \A w \in S : w <= v
    BY <1>1, <2>1, <2>2, GreatestOf
  <2>4. v \in 1 .. L /\ VarStart(v) < i /\ (v + 1 \in 1 .. L => ~(VarStart(v + 1) < i))
    <3>1. v \in 1 .. L /\ VarStart(v) < i
      BY DEF S
    <3>2. v + 1 \notin S
      BY <1>1, <2>3, <3>1
    <3> QED BY <3>1, <3>2 DEF S
  <2>5. i <= VarStart(v + 1)
    <3>1. CASE v = L
      BY <1>2, <3>1
    <3>2. CASE v # L
      <4>1. v + 1 \in 1 .. L
        <5>1. v \in 1 .. L
          BY <2>4
        <5>2. L \in Nat
          BY <1>1
        <5> HIDE DEF L
        <5> QED BY <3>2, <5>1, <5>2
      <4>2. VarStart(v + 1) \in Nat /\ i \in Int
        BY <1>1, <1>2, <4>1
      <4> QED BY <2>4, <4>1, <4>2
    <3> QED BY <3>1, <3>2
  <2> QED BY <1>1, <2>4, <2>5
<1>5. ASSUME NEW i \in 1 .. T
      PROVE  \E v \in DOMAIN shape, k \in Nat : k \in 1 .. shape[v] /\ PlaceOf(i) = <<v, k>> /\ i = VarStart(v) + k
  <2>1. PICK v \in DOMAIN shape : Of(i, v)
    BY <1>4
  <2>2. PlaceOf(i) = <<v, i - VarStart(v)>>
    BY <1>2, <1>3, <2>1
  <2>3. VarStart(v) \in Nat /\ shape[v] \in Nat /\ VarStart(v + 1) = VarStart(v) + shape[v] /\ i \in Int
    BY <1>1, <1>2
  <2>4. i - VarStart(v) \in Nat /\ i - VarStart(v) \in 1 .. shape[v] /\ i = VarStart(v) + (i - VarStart(v))
    BY <2>1, <2>3
  <2> QED BY <2>2, <2>4
<1>6. ASSUME NEW v \in DOMAIN shape, NEW k \in 1 .. shape[v]
      PROVE  VarStart(v) + k \in 1 .. T /\ PlaceOf(VarStart(v) + k) = <<v, k>>
  <2> DEFINE i == VarStart(v) + k
  <2>1. VarStart(v) \in Nat /\ shape[v] \in Nat /\ VarStart(v + 1) = VarStart(v) + shape[v]
    BY <1>1, <1>2
  <2>2. VarStart(v + 1) <= T
    <3>1. v + 1 \in 1 .. L + 1 /\ L + 1 \in 1 .. L + 1 /\ v + 1 <= L + 1
      BY <1>1
    <3> QED BY <1>2, <3>1
  <2>3. Of(i, v) /\ i \in Int /\ i - VarStart(v) = k /\ i \in 1 .. T
    BY <1>2, <2>1, <2>2
  <2> HIDE DEF i
  <2>4. PlaceOf(i) = <<v, k>>
    BY <1>3, <2>3
  <2> QED BY <2>3, <2>4 DEF i
<1> QED BY <1>5, <1>6

\* A walk from a cursor takes the next places and leaves the cursor behind them.
LEMMA WalkFacts ==
    ASSUME Shaped, NEW c \in [var : DOMAIN shape, off : Int], NEW r \in Nat, Position(c) = r,
           NEW k \in Nat, r + k <= totaldatasize
    PROVE  /\ Walk(c, k).places = [i \in 1 .. k |-> PlaceOf(r + i)]
           /\ Walk(c, k).next \in [var : DOMAIN shape, off : Int]
           /\ Position(Walk(c, k).next) = r + k
<1> DEFINE L == Len(shape)
           end == r + k
           S == {v \in DOMAIN shape : v >= c.var /\ VarStart(v + 1) >= end}
           Last(v) == v >= c.var /\ VarStart(v + 1) >= end /\ (v = c.var \/ VarStart(v) < end)
           last == CHOOSE v \in DOMAIN shape : Last(v)
<1>1. L \in Nat /\ DOMAIN shape = 1 .. L /\ c.var \in 1 .. L
  BY DEF Shaped
<1>2. VarStart(L + 1) = totaldatasize /\ \A v \in 1 .. L + 1 : VarStart(v) \in Nat
  BY StartsFacts
<1>3. \E v \in DOMAIN shape : Last(v)
  <2>1. L \in S
    BY <1>1, <1>2, StartsFacts
  <2>2. S \in SUBSET Nat
    BY <1>1
  <2>3. PICK v \in S : \A w \in S : v <= w
    <3> HIDE DEF S
    <3> QED BY <2>1, <2>2, LeastOf
  <2>4. v = c.var \/ VarStart(v) < end
    <3> SUFFICES ASSUME v # c.var, ~(VarStart(v) < end)
                 PROVE  FALSE
      OBVIOUS
    <3>1. v \in 1 .. L /\ v - 1 \in 1 .. L /\ v - 1 >= c.var /\ (v - 1) + 1 = v
      BY <1>1
    <3>2. VarStart(v) \in Nat
      BY <1>2, <3>1
    <3>3. v - 1 \in S
      BY <1>1, <3>1, <3>2
    <3> QED BY <2>3, <3>1, <3>3
  <2> QED BY <2>4
<1>4. last \in DOMAIN shape
  <2> HIDE DEF Last
  <2> QED BY <1>3
<1>5. VarStart(last) \in Nat
  BY <1>1, <1>2, <1>4
<1>6. Walk(c, k) = [places |-> [i \in 1 .. k |-> PlaceOf(r + i)], next |-> [var |-> last, off |-> end - VarStart(last)]]
  BY DEF Walk
<1> HIDE DEF last
<1> QED BY <1>4, <1>5, <1>6 DEF Position

-----------------------------------------------------------------------------
(* Chunks, and where they lie in the file.                                 *)

Chunks(size) == {e \in 0 .. size - 1 : e % maxchunkb = 0}

LEMMA ChunkBytes ==
    BaseSize \in Nat \ {0} /\ maxchunkb \in Nat \ {0} /\ maxchunkb % BaseSize = 0
<1>1. BaseSize \in Nat \ {0} /\ MaxChunkElements \in Nat \ {0}
  BY SizesAssumption
<1> DEFINE M == MaxChunkElements * BaseSize
<1>2. M \in Nat /\ M # 0 /\ M = (BaseSize * MaxChunkElements) + 0
  BY <1>1
<1> HIDE DEF M
<1>3. M % BaseSize = 0
  BY <1>1, <1>2, DivUnique
<1> QED BY <1>1, <1>2, <1>3 DEF M, maxchunkb

\* fit_datasize is the next multiple of BaseSize.
LEMMA FitFacts ==
    ASSUME NEW d \in Nat
    PROVE  /\ fit_datasize(d) \in Nat /\ fit_datasize(d) >= d
           /\ fit_datasize(d) = d <=> d % BaseSize = 0
<1> DEFINE B == BaseSize
           u == d + B - 1
           q == u \div B
           f == u - (u % B)
<1>1. B \in Nat \ {0} /\ u \in Nat
  BY ChunkBytes
<1>2. fit_datasize(d) = f
  BY DEF fit_datasize, RoundUp, RoundDown
<1> HIDE DEF B
<1>3. q \in Nat /\ u % B \in 0 .. B - 1 /\ u = (B * q) + (u % B)
  <2> HIDE DEF u
  <2> QED BY <1>1, DivMod
<1>4. f = B * q /\ f \in Nat /\ f >= d
  BY <1>1, <1>3
<1>5. f = d => d % B = 0
  <2> HAVE f = d
  <2>1. d = (B * q) + 0 /\ 0 \in 0 .. B - 1 /\ q \in Int
    BY <1>1, <1>3, <1>4
  <2> HIDE DEF q
  <2> QED BY <1>1, <2>1, DivUnique
<1>6. d % B = 0 => f = d
  <2> HAVE d % B = 0
  <2>1. d = (B * (d \div B)) + (d % B) /\ d \div B \in Nat
    BY <1>1, DivMod
  <2> DEFINE c == d \div B
  <2>2. d = (B * c) + 0 /\ c \in Int
    BY <2>1
  <2> HIDE DEF c
  <2>4. u = (B * c) + (B - 1) /\ B - 1 \in 0 .. B - 1
    BY <1>1, <2>2
  <2> HIDE DEF u
  <2>3. u % B = B - 1
    BY <1>1, <2>2, <2>4, DivUnique
  <2> QED BY <1>1, <2>3 DEF u
<1> QED BY <1>2, <1>4, <1>5, <1>6 DEF B

LEMMA LeastFacts ==
    ASSUME NEW a \in Int, NEW b \in Int
    PROVE  Least(a, b) \in Int /\ Least(a, b) <= a /\ Least(a, b) <= b /\ (Least(a, b) = a \/ Least(a, b) = b)
BY DEF Least

\* A chunk is followed by another, or it is the last and ends with the data.
LEMMA ChunkFacts ==
    ASSUME NEW size \in Nat \ {0}, NEW e \in Chunks(size), NEW k, k = actualdatab(size, e)
    PROVE  /\ e \in Nat /\ k \in Nat \ {0} /\ k <= maxchunkb /\ e + k <= size
           /\ chunkdatab(size, e) = fit_datasize(k) /\ chunkdatab(size, e) \in Nat \ {0} /\ k <= chunkdatab(size, e)
           /\ e + k < size => k = maxchunkb /\ chunkdatab(size, e) = k /\ e + k \in Chunks(size)
           /\ e + k >= size => e = LastChunk(size) /\ e + k = size
<1> DEFINE M == maxchunkb
<1>1. M \in Nat \ {0} /\ e \in 0 .. size - 1 /\ e % M = 0 /\ e \in Nat
  BY ChunkBytes DEF Chunks
<1>2. k = Least(size - e, M)
  BY DEF actualdatab
<1>3. k \in Int /\ k <= size - e /\ k <= M /\ (k = size - e \/ k = M)
  BY <1>1, <1>2, LeastFacts
<1>4. k \in Nat \ {0}
  BY <1>1, <1>3
<1>5. chunkdatab(size, e) = fit_datasize(k) /\ chunkdatab(size, e) \in Nat /\ k <= chunkdatab(size, e)
  BY <1>4, FitFacts DEF chunkdatab
<1>6. e = (M * (e \div M)) + 0 /\ e \div M \in Nat
  BY <1>1, DivMod
<1> DEFINE q == e \div M
<1> HIDE DEF M, q
<1>7. e + k < size => k = M /\ chunkdatab(size, e) = k /\ e + k \in Chunks(size)
  <2> HAVE e + k < size
  <2>1. k = M
    BY <1>1, <1>3
  <2>2. k % BaseSize = 0
    BY <2>1, ChunkBytes DEF M
  <2>3. (e + M) % M = 0
    BY <1>1, ModPeriod
  <2> QED BY <1>1, <1>4, <1>5, <2>1, <2>2, <2>3, FitFacts DEF Chunks, M
<1>8. e + k >= size => e = LastChunk(size) /\ e + k = size
  <2> HAVE e + k >= size
  <2> DEFINE s == size - 1
             m == s - e
  <2>1. s \in Nat /\ m \in 0 .. M - 1 /\ s = (M * q) + m /\ q \in Int
    BY <1>1, <1>3, <1>6 DEF q
  <2> HIDE DEF s, m
  <2>2. s \div M = q
    BY <1>1, <2>1, DivUnique
  <2>3. LastChunk(size) = (s \div M) * M
    BY DEF LastChunk, s, M
  <2>4. q * M = M * q
    BY <1>1, <2>1
  <2>5. e = M * q
    BY <1>1, <1>6 DEF q
  <2>6. e + k = size
    BY <1>1, <1>3
  <2> QED BY <2>2, <2>3, <2>4, <2>5, <2>6
<1> QED BY <1>1, <1>3, <1>4, <1>5, <1>7, <1>8 DEF M

\* The first and the last chunk, and two chunks next to each other.
LEMMA ChunkOrder ==
    ASSUME NEW size \in Nat \ {0}
    PROVE  /\ 0 \in Chunks(size) /\ LastChunk(size) \in Chunks(size)
           /\ \A e \in Chunks(size) : e <= LastChunk(size)
           /\ \A e \in Chunks(size), f \in Chunks(size) \cup {size} : e < f => e + actualdatab(size, e) <= f
           /\ LastChunk(size) + actualdatab(size, LastChunk(size)) = size
<1> DEFINE M == maxchunkb
           s == size - 1
           L == LastChunk(size)
<1>1. M \in Nat \ {0} /\ s \in Nat /\ s + 1 = size
  BY ChunkBytes
<1>2. L = (s \div M) * M
  BY DEF LastChunk
<1>3. s \div M \in Nat /\ s % M \in 0 .. M - 1 /\ s = (M * (s \div M)) + (s % M)
  <2> HIDE DEF M, s
  <2> QED BY <1>1, DivMod
<1> HIDE DEF M
<1>4. 0 \in Chunks(size)
  <2>1. 0 = (M * 0) + 0
    BY <1>1
  <2>2. 0 % M = 0
    BY <1>1, <2>1, DivUnique
  <2> QED BY <1>1, <2>2 DEF Chunks, M
<1>5. L \in Nat /\ L <= s /\ s - L < M /\ L % M = 0
  <2> DEFINE q == s \div M
  <2>1. M * q = q * M /\ q * M \in Nat
    BY <1>1, <1>3
  <2>2. L = (M * q) + 0 /\ L \in Nat
    BY <1>2, <2>1
  <2>3. L <= s /\ s - L < M
    BY <1>1, <1>3, <2>1, <2>2
  <2>5. q \in Int /\ 0 \in 0 .. M - 1
    BY <1>1, <1>3
  <2> HIDE DEF q, L
  <2>4. L % M = 0
    BY <1>1, <2>2, <2>5, DivUnique
  <2> QED BY <2>2, <2>3, <2>4
<1> HIDE DEF L, s
<1>6. L \in Chunks(size)
  BY <1>1, <1>5 DEF Chunks, M
<1>7. \A e \in Chunks(size), f \in Chunks(size) \cup {size} : e < f => e + actualdatab(size, e) <= f
  <2> SUFFICES ASSUME NEW e \in Chunks(size), NEW f \in Chunks(size) \cup {size}, e < f
               PROVE  e + actualdatab(size, e) <= f
    OBVIOUS
  <2> DEFINE k == actualdatab(size, e)
  <2>1. e \in Nat /\ k \in Nat /\ k <= M /\ e + k <= size
    BY ChunkFacts DEF M
  <2>2. CASE f = size
    BY <2>1, <2>2
  <2>3. CASE f \in Chunks(size)
    <3>1. f \in Nat /\ f % M = 0 /\ e % M = 0
      BY <2>3 DEF Chunks, M
    <3>2. ~(f - e < M)
      BY <1>1, <2>1, <3>1, ModDistinct
    <3> HIDE DEF k
    <3>3. e + k <= f
      BY <1>1, <2>1, <3>1, <3>2
    <3> QED BY <3>3 DEF k
  <2> QED BY <2>2, <2>3
<1>8. L + actualdatab(size, L) = size
  <2> DEFINE k == actualdatab(size, L)
  <2>1. k = Least(size - L, M)
    BY DEF actualdatab, M
  <2>2. size - L \in Int /\ size - L <= M
    BY <1>1, <1>5
  <2>3. k = size - L
    BY <1>1, <2>1, <2>2 DEF Least
  <2> HIDE DEF k
  <2>4. L + k = size
    BY <1>5, <2>2, <2>3
  <2> QED BY <2>4 DEF k
<1>9. \A e \in Chunks(size) : e <= L
  <2> SUFFICES ASSUME NEW e \in Chunks(size), ~(e <= L)
               PROVE  FALSE
    OBVIOUS
  <2>1. e \in Nat /\ e < size
    BY DEF Chunks
  <2>2. L < e
    BY <1>5, <2>1
  <2>3. L + actualdatab(size, L) <= e
    BY <1>6, <1>7, <2>2
  <2> QED BY <1>1, <1>8, <2>1, <2>3
<1> QED BY <1>4, <1>6, <1>7, <1>8, <1>9 DEF L

\* Byte k of the part of member q of a chunk lies before the next chunk.
LEMMA Inside ==
    ASSUME NEW K \in Nat \ {0}, NEW e \in Nat, NEW s \in Nat, NEW u \in Nat, e + s <= u,
           NEW q \in 0 .. K - 1, NEW k \in 1 .. s
    PROVE  /\ e * K \in Nat /\ q * s \in Nat /\ u * K \in Nat
           /\ (e * K) + (q * s) + k \in 1 .. u * K
<1>1. e * K \in Nat /\ q * s \in Nat /\ u * K \in Nat /\ s * q \in Nat /\ K * u \in Nat /\ K * e \in Nat /\ K * s \in Nat
  OBVIOUS
<1>2. s * q <= s * (K - 1)
  BY MulMonotone
<1>3. s * (K - 1) = (K * s) - s /\ q * s = s * q
  OBVIOUS
<1>4. K * (e + s) <= K * u
  BY MulMonotone
<1>5. K * (e + s) = (K * e) + (K * s) /\ K * e = e * K /\ K * u = u * K
  OBVIOUS
<1>6. k <= s /\ k >= 1 /\ k \in Int
  OBVIOUS
<1> QED BY <1>1, <1>2, <1>3, <1>4, <1>5, <1>6

\* Sequences joined.
Sequence(s) == \E S : s \in Seq(S)

LEMMA Listed ==
    ASSUME NEW k \in Nat, NEW f, DOMAIN f = 1 .. k, f = [i \in 1 .. k |-> f[i]]
    PROVE  Sequence(f) /\ Len(f) = k
<1>1. f \in Seq({f[i] : i \in 1 .. k})
  OBVIOUS
<1>2. Len(f) \in Nat /\ DOMAIN f = 1 .. Len(f)
  BY <1>1
<1>3. \A l \in Nat : 1 .. l = 1 .. k => l = k
  OBVIOUS
<1>4. Len(f) = k
  BY <1>2, <1>3
<1>5. Sequence(f)
  BY <1>1 DEF Sequence
<1> QED BY <1>4, <1>5

LEMMA Joined ==
    ASSUME NEW a, NEW b, Sequence(a), Sequence(b)
    PROVE  /\ Sequence(a \o b) /\ Len(a) \in Nat /\ Len(b) \in Nat /\ Len(a \o b) = Len(a) + Len(b)
           /\ \A i \in 1 .. Len(a) : (a \o b)[i] = a[i]
           /\ \A i \in 1 .. Len(b) : (a \o b)[Len(a) + i] = b[i]
<1>1. PICK S : a \in Seq(S)
  BY DEF Sequence
<1>2. PICK T : b \in Seq(T)
  BY DEF Sequence
<1> DEFINE U == S \cup T
<1>3. a \in Seq(U) /\ b \in Seq(U)
  BY <1>1, <1>2
<1> HIDE DEF U
<1>4. a \o b \in Seq(U) /\ Len(a) \in Nat /\ Len(b) \in Nat /\ Len(a \o b) = Len(a) + Len(b)
  BY <1>3
<1>5. \A i \in 1 .. Len(a) : (a \o b)[i] = a[i]
  BY <1>3, <1>4
<1>6. \A i \in 1 .. Len(b) : (a \o b)[Len(a) + i] = b[i]
  BY <1>3, <1>4
<1> QED BY <1>4, <1>5, <1>6 DEF Sequence

LEMMA JoinedAt ==
    ASSUME NEW a, NEW b, Sequence(a), Sequence(b), NEW i \in 1 .. Len(b)
    PROVE  (a \o b)[Len(a) + i] = b[i]
BY Joined

\* An Allgather puts the members' parts behind each other.
LEMMA GatheredFacts ==
    ASSUME pranks \in Nat \ {0}, NEW size \in Nat \ {0}, NEW parts
    PROVE  /\ Sequence(Allgathered(parts, size)) /\ Len(Allgathered(parts, size)) = pranks * size
           /\ \A q \in 0 .. pranks - 1, k \in 1 .. size :
                /\ (q * size) + k \in 1 .. pranks * size
                /\ Allgathered(parts, size)[(q * size) + k] = Padded(parts[q], size)[k]
           /\ \A i \in 1 .. pranks * size : \E q \in 0 .. pranks - 1, k \in 1 .. size : i = (q * size) + k
<1> DEFINE K == pranks
           N == pranks * size
           all == Allgathered(parts, size)
<1>1. K \in Nat \ {0} /\ N \in Nat
  OBVIOUS
<1>2. all = [i \in 1 .. N |-> Padded(parts[(i - 1) \div size], size)[((i - 1) % size) + 1]]
  BY DEF Allgathered
<1>3. Sequence(all) /\ Len(all) = N
  <2>1. DOMAIN all = 1 .. N /\ all = [i \in 1 .. N |-> all[i]]
    BY <1>2
  <2> HIDE DEF all, N
  <2> QED BY <1>1, <2>1, Listed
<1>4. ASSUME NEW q \in 0 .. K - 1, NEW k \in 1 .. size
      PROVE  /\ (q * size) + k \in 1 .. N
             /\ all[(q * size) + k] = Padded(parts[q], size)[k]
  <2> DEFINE i == (q * size) + k
             d == i - 1
             c == k - 1
  <2>1. 0 \in Nat /\ 0 + size <= size /\ size \in Nat
    OBVIOUS
  <2>2. (0 * K) + (q * size) + k \in 1 .. size * K /\ q * size \in Nat
    <3> HIDE DEF K
    <3> QED BY <1>1, <2>1, Inside
  <2>3. 0 * K = 0 /\ size * K = N
    BY <1>1
  <2>4. i \in 1 .. N
    BY <2>2, <2>3
  <2>5. d \in Nat /\ d = (size * q) + c /\ c \in 0 .. size - 1 /\ q \in Int
    BY <2>2
  <2> HIDE DEF d, c
  <2>6. d \div size = q /\ d % size = c
    BY <2>5, DivUnique
  <2>7. all[i] = Padded(parts[d \div size], size)[(d % size) + 1]
    <3> HIDE DEF all, N, i
    <3> QED BY <1>2, <2>4 DEF d
  <2>8. c + 1 = k
    BY DEF c
  <2> HIDE DEF all, i
  <2> QED BY <2>4, <2>6, <2>7, <2>8 DEF i
<1>5. ASSUME NEW i \in 1 .. N
      PROVE  \E q \in 0 .. K - 1, k \in 1 .. size : i = (q * size) + k
  <2> DEFINE d == i - 1
             q == d \div size
             c == d % size
  <2>1. d \in Nat /\ d < N /\ i = d + 1
    BY <1>1
  <2> HIDE DEF d
  <2>2. q \in Nat /\ c \in 0 .. size - 1 /\ d = (size * q) + c
    BY <2>1, DivMod
  <2> HIDE DEF q, c
  <2>3. q < K
    <3> SUFFICES ASSUME K <= q
                 PROVE  FALSE
      BY <1>1, <2>2
    <3>1. size * K <= size * q
      BY <1>1, <2>2, MulMonotone
    <3>2. size * K = N /\ size * q \in Nat
      BY <1>1, <2>2
    <3> QED BY <1>1, <2>1, <2>2, <3>1, <3>2
  <2>4. q \in 0 .. K - 1 /\ c + 1 \in 1 .. size /\ q * size = size * q /\ size * q \in Nat
    BY <1>1, <2>2, <2>3
  <2>5. i = (q * size) + (c + 1)
    BY <2>1, <2>2, <2>4
  <2> QED BY <2>4, <2>5
<1> QED BY <1>3, <1>4, <1>5

-----------------------------------------------------------------------------
(* The registered variables.                                               *)

\* Byte i of the registered ones.
At(values, i) == values[PlaceOf(i)[1]][PlaceOf(i)[2]]

Cursors == [var : DOMAIN shape, off : Int]

Held(values) == values = [v \in DOMAIN shape |-> [k \in 1 .. shape[v] |-> values[v][k]]]

LEMMA TakenFacts ==
    ASSUME Shaped, NEW c \in Cursors, NEW r \in Nat, Position(c) = r, NEW k \in Nat, r + k <= totaldatasize
    PROVE  Taken(Walk(c, k).places) = [i \in 1 .. k |-> At(variables, r + i)]
<1> DEFINE w == Walk(c, k).places
<1>1. w = [i \in 1 .. k |-> PlaceOf(r + i)]
  BY WalkFacts DEF Cursors
<1> HIDE DEF w
<1>2. DOMAIN w = 1 .. k /\ \A i \in 1 .. k : w[i] = PlaceOf(r + i)
  BY <1>1
<1> QED BY <1>2 DEF Taken, At, w

LEMMA OriginalAt ==
    ASSUME Shaped
    PROVE  /\ Held(Original)
           /\ \A i \in 1 .. totaldatasize : At(Original, i) = Datum(prank, PlaceOf(i))
<1>1. ASSUME NEW i \in 1 .. totaldatasize
      PROVE  At(Original, i) = Datum(prank, PlaceOf(i))
  <2>1. PICK v \in DOMAIN shape, k \in Nat : k \in 1 .. shape[v] /\ PlaceOf(i) = <<v, k>>
    BY PlaceNumbers
  <2> QED BY <2>1 DEF At, Original
<1> QED BY <1>1 DEF Held, Original

\* All values are known from those of the registered bytes.
LEMMA HeldEqual ==
    ASSUME Shaped, NEW a, NEW b, Held(a), Held(b), \A i \in 1 .. totaldatasize : At(a, i) = At(b, i)
    PROVE  a = b
<1>1. ASSUME NEW v \in DOMAIN shape, NEW k \in 1 .. shape[v]
      PROVE  a[v][k] = b[v][k]
  <2> DEFINE i == VarStart(v) + k
  <2>1. i \in 1 .. totaldatasize /\ PlaceOf(i) = <<v, k>>
    BY PlaceNumbers
  <2> HIDE DEF i
  <2>2. At(a, i) = At(b, i)
    BY <2>1
  <2> QED BY <2>1, <2>2 DEF At
<1> QED BY <1>1 DEF Held

\* memcpy_to_vars fills the places behind the cursor and leaves the others.
LEMMA StoredFacts ==
    ASSUME Shaped, cursor \in Cursors, NEW r \in Nat, Position(cursor) = r,
           NEW buffer, NEW k \in Nat, Sequence(buffer), Len(buffer) = k, r + k <= totaldatasize, Held(variables)
    PROVE  /\ Held(Stored(buffer))
           /\ \A i \in 1 .. k : At(Stored(buffer), r + i) = buffer[i]
           /\ \A i \in 1 .. r : At(Stored(buffer), i) = At(variables, i)
<1> DEFINE w == Walk(cursor, Len(buffer)).places
           T == totaldatasize
<1>1. w = [i \in 1 .. k |-> PlaceOf(r + i)]
  BY WalkFacts DEF Cursors
<1>2. DOMAIN buffer = 1 .. k
  BY DEF Sequence
<1>3. Stored(buffer) = [v \in DOMAIN shape |-> [j \in 1 .. shape[v] |->
            IF \E i \in DOMAIN buffer : w[i] = <<v, j>>
            THEN buffer[CHOOSE i \in DOMAIN buffer : w[i] = <<v, j>>]
            ELSE variables[v][j]]]
  BY DEF Stored
<1> HIDE DEF w
<1>4. T \in Nat
  BY StartsFacts
<1>5. ASSUME NEW i \in 1 .. T
      PROVE  At(Stored(buffer), i) = IF \E h \in 1 .. k : w[h] = PlaceOf(i)
                                     THEN buffer[CHOOSE h \in 1 .. k : w[h] = PlaceOf(i)]
                                     ELSE At(variables, i)
  <2>1. PICK v \in DOMAIN shape, j \in Nat : j \in 1 .. shape[v] /\ PlaceOf(i) = <<v, j>>
    BY PlaceNumbers
  <2> QED BY <1>2, <1>3, <2>1 DEF At
<1>6. \A i, j \in 1 .. T : PlaceOf(i) = PlaceOf(j) => i = j
  <2> SUFFICES ASSUME NEW i \in 1 .. T, NEW j \in 1 .. T, PlaceOf(i) = PlaceOf(j)
               PROVE  i = j
    OBVIOUS
  <2>1. PICK v \in DOMAIN shape, h \in Nat : h \in 1 .. shape[v] /\ PlaceOf(i) = <<v, h>> /\ i = VarStart(v) + h
    BY PlaceNumbers
  <2>2. PICK u \in DOMAIN shape, g \in Nat : g \in 1 .. shape[u] /\ PlaceOf(j) = <<u, g>> /\ j = VarStart(u) + g
    BY PlaceNumbers
  <2>3. <<v, h>> = <<u, g>>
    BY <2>1, <2>2
  <2>4. v = u /\ h = g
    BY <2>3
  <2>5. i = VarStart(v) + h /\ j = VarStart(v) + h
    BY <2>1, <2>2, <2>4
  <2> QED BY <2>5
<1>7. ASSUME NEW i \in 1 .. k
      PROVE  At(Stored(buffer), r + i) = buffer[i]
  <2>1. r + i \in 1 .. T /\ w[i] = PlaceOf(r + i)
    BY <1>1, <1>4
  <2>2. \A h \in 1 .. k : w[h] = PlaceOf(r + i) => h = i
    <3> SUFFICES ASSUME NEW h \in 1 .. k, w[h] = PlaceOf(r + i)
                 PROVE  h = i
      OBVIOUS
    <3>1. r + h \in 1 .. T /\ w[h] = PlaceOf(r + h)
      BY <1>1, <1>4
    <3>2. r + h = r + i
      BY <1>6, <2>1, <3>1
    <3> QED BY <3>2
  <2>3. (CHOOSE h \in 1 .. k : w[h] = PlaceOf(r + i)) = i
    BY <2>1, <2>2
  <2> QED BY <1>5, <2>1, <2>3
<1>8. ASSUME NEW i \in 1 .. r
      PROVE  At(Stored(buffer), i) = At(variables, i)
  <2>1. i \in 1 .. T
    BY <1>4
  <2>2. \A h \in 1 .. k : w[h] # PlaceOf(i)
    <3> SUFFICES ASSUME NEW h \in 1 .. k, w[h] = PlaceOf(i)
                 PROVE  FALSE
      OBVIOUS
    <3>1. r + h \in 1 .. T /\ w[h] = PlaceOf(r + h)
      BY <1>1, <1>4
    <3>2. r + h = i
      BY <1>6, <2>1, <3>1
    <3> QED BY <3>2
  <2> QED BY <1>5, <2>1, <2>2
<1>9. Held(Stored(buffer))
  <2> DEFINE new == Stored(buffer)
  <2>1. DOMAIN new = DOMAIN shape /\ new = [v \in DOMAIN shape |-> new[v]]
    BY <1>3
  <2>2. \A v \in DOMAIN shape : new[v] = [j \in 1 .. shape[v] |-> new[v][j]]
    BY <1>3
  <2> HIDE DEF new
  <2>3. Held(new)
    BY <2>1, <2>2 DEF Held
  <2> QED BY <2>3 DEF new
<1> QED BY <1>7, <1>8, <1>9

-----------------------------------------------------------------------------
(* What the file holds, and what is read back of it.                       *)

FileTypes ==
    /\ Shaped /\ pranks \in Nat \ {0} /\ prank \in 0 .. pranks - 1
    /\ paritysize \in Nat \ {0} /\ paritysize % BaseSize = 0
    /\ failoffset \in Int /\ failoffset >= -1

\* Byte i of the data of member q.
Byte(q, i) == IF q = prank THEN Datum(prank, PlaceOf(i)) ELSE Datum(q, i)

\* The data of all members lies in the file up to chunk "upto".
DataLaid(upto) ==
    \A e \in Chunks(totaldatasize) : e < upto =>
        \A q \in 0 .. pranks - 1, k \in 1 .. actualdatab(totaldatasize, e) :
            bytes[(e * pranks) + (q * chunkdatab(totaldatasize, e)) + k] = Byte(q, e + k)

\* Where byte k of chunk e of the own parity lies, if the rank appended its
\* parity from byte w on by itself.
TailStart(w) == IF pranks = 1 THEN totaldatasize ELSE DataEnd + (w * pranks)
Slot(w, e, k) ==
    IF e < w THEN DataEnd + (e * pranks) + (prank * actualdatab(paritysize, e)) + k
    ELSE TailStart(w) + (e - w) + k

\* The own parity up to chunk "upto" lies there, and nowhere else.
ParityLaid(w, upto) ==
    \A e \in Chunks(paritysize) : e < upto =>
        \A k \in 1 .. actualdatab(paritysize, e) :
            Slot(w, e, k) \in 1 .. Len(bytes) /\ bytes[Slot(w, e, k)] = ParityByte(prank, e + k - 1)
ParityOnly(w, upto) ==
    \A i \in 1 .. Len(bytes) : \A e \in Chunks(paritysize) : \A k \in 1 .. actualdatab(paritysize, e) :
        bytes[i] = ParityByte(prank, e + k - 1) => e < upto /\ i = Slot(w, e, k)

\* A finished file: the Allgather of the parity failed at byte w, or at none of
\* them (w = paritysize).
FileIs(w) ==
    /\ w \in Chunks(paritysize) \cup {paritysize} /\ (pranks = 1 => w = 0)
    /\ Sequence(bytes) /\ Len(bytes) = TailStart(w) + (paritysize - w)
    /\ DataLaid(totaldatasize) /\ ParityLaid(w, paritysize) /\ ParityOnly(w, paritysize)
    /\ pranks # 1 /\ w # paritysize => failoffset = TailStart(w)

\* The data read back up to chunk "upto": in front of the failoffset the own,
\* behind it that of the first member.
Hid(e) == failoffset >= 0 /\ e * pranks > failoffset
GotData(upto) ==
    \A e \in Chunks(totaldatasize) : e < upto =>
        \A k \in 1 .. actualdatab(totaldatasize, e) :
            At(variables, e + k) = Byte(IF Hid(e) THEN 0 ELSE prank, e + k)

\* Where load_local_checkpoint takes the data to end.
LastSize == chunkdatab(totaldatasize, LastChunk(totaldatasize))
DataBase ==
    IF failoffset < 0 THEN DataEnd
    ELSE (LastChunk(totaldatasize) * pranks) + (IF Hid(LastChunk(totaldatasize)) THEN 0 ELSE prank * LastSize) + LastSize

\* Where it looks for a chunk of the parity, and whether the chunk lies there.
ParitySeek(e) ==
    DataBase + (e * pranks) +
    (IF failoffset >= 0 /\ (e * pranks) + DataBase > failoffset THEN 0 ELSE prank * actualdatab(paritysize, e))
Right(w, e) == ParitySeek(e) + 1 = Slot(w, e, 1)

ParityFound == IF pranks = 1 THEN totaldatasize % BaseSize = 0 ELSE WholeParityFound \/ OwnParityHit

\* The loops of the code.
WritesData ==
    /\ doing = "data" /\ failoffset = -1 /\ Sequence(bytes)
    /\ variables = Original /\ readb \in Chunks(totaldatasize) /\ cursor \in Cursors /\ Position(cursor) = readb
    /\ Len(bytes) = readb * pranks /\ DataLaid(readb) /\ ParityOnly(paritysize, 0) /\ (pranks = 1 => readb = 0)
WritesParity ==
    /\ doing = "parity" /\ failoffset = -1 /\ Sequence(bytes) /\ pranks # 1
    /\ readb \in Chunks(paritysize) /\ Len(bytes) = DataEnd + (readb * pranks)
    /\ DataLaid(totaldatasize) /\ ParityLaid(paritysize, readb) /\ ParityOnly(paritysize, readb)
ReadsData ==
    /\ \/ doing = "loaddata" /\ base = 0
       \/ doing = "recvdata" /\ pranks # 1 /\ failoffset = -1 /\ base = readb * pranks
    /\ readb \in Chunks(totaldatasize) /\ cursor \in Cursors /\ Position(cursor) = readb
    /\ Held(variables) /\ GotData(readb) /\ xorparity = <<>>
ReadsParity(w) ==
    /\ Held(variables) /\ GotData(totaldatasize)
    /\ readb \in Chunks(paritysize) /\ Sequence(xorparity) /\ Len(xorparity) = readb
    /\ \/ /\ doing = "loadparity" /\ base = DataBase
          /\ xorparity = OwnParity(0, readb) <=> \A e \in Chunks(paritysize) : e < readb => Right(w, e)
       \/ /\ doing = "recvparity" /\ pranks # 1 /\ failoffset = -1 /\ base = DataEnd + (readb * pranks)
          /\ xorparity = OwnParity(0, readb)
HasRead ==
    /\ Held(variables) /\ GotData(totaldatasize)
    /\ doing \in {"loaded", "failed"}
    /\ xorparity = OwnParity(0, paritysize) <=> ParityFound
    /\ ShortReads

FileInv ==
    /\ FileTypes
    /\ \/ WritesData \/ WritesParity
       \/ \E w \in 0 .. paritysize : FileIs(w) /\ (doing = "restart" \/ ReadsData \/ ReadsParity(w) \/ HasRead)

-----------------------------------------------------------------------------
(* When the own parity is found.                                           *)

LEMMA SizeFacts ==
    ASSUME FileTypes
    PROVE  /\ totaldatasize \in Nat \ {0} /\ LastChunk(totaldatasize) \in Chunks(totaldatasize)
           /\ LastChunk(totaldatasize) \in Nat /\ LastSize \in Nat \ {0}
           /\ LastSize = fit_datasize(totaldatasize - LastChunk(totaldatasize))
           /\ totaldatasize - LastChunk(totaldatasize) \in Nat
           /\ DataEnd = (LastChunk(totaldatasize) + LastSize) * pranks /\ DataEnd \in Nat
<1> DEFINE T == totaldatasize
           L == LastChunk(T)
           k == actualdatab(T, L)
<1>1. T \in Nat \ {0}
  BY StartsFacts DEF FileTypes
<1> HIDE DEF T
<1>2. L \in Chunks(T) /\ L + k = T
  BY <1>1, ChunkOrder
<1>3. L \in Nat /\ k \in Nat \ {0} /\ chunkdatab(T, L) = fit_datasize(k) /\ chunkdatab(T, L) \in Nat \ {0}
  BY <1>1, <1>2, ChunkFacts
<1> HIDE DEF L, k
<1>4. T - L = k
  BY <1>1, <1>2, <1>3
<1>5. LastSize = fit_datasize(T - L) /\ LastSize \in Nat \ {0}
  BY <1>3, <1>4 DEF LastSize, L, T
<1>6. DataEnd = (L + LastSize) * pranks
  BY <1>5 DEF DataEnd, L, T
<1>7. (L + LastSize) * pranks \in Nat
  BY <1>3, <1>5 DEF FileTypes
<1> QED BY <1>1, <1>2, <1>3, <1>4, <1>5, <1>6, <1>7 DEF L, T

\* A chunk starts at a multiple of BaseSize.
LEMMA ChunkAligned ==
    ASSUME NEW size \in Nat \ {0}, NEW e \in Chunks(size), NEW d \in Nat, e <= d
    PROVE  (d - e) % BaseSize = 0 <=> d % BaseSize = 0
<1> DEFINE M == maxchunkb
           B == BaseSize
           q == e \div M
           u == M \div B
           j == d - e
           a == j \div B
           b == d \div B
<1>1. B \in Nat \ {0} /\ M \in Nat \ {0} /\ M % B = 0 /\ e \in Nat /\ e % M = 0 /\ j \in Nat
  BY ChunkBytes DEF Chunks
<1>2. q \in Nat /\ e = M * q
  <2> HIDE DEF M
  <2>1. e \div M \in Nat /\ e = (M * (e \div M)) + (e % M)
    BY <1>1, DivMod
  <2>2. M * (e \div M) \in Nat
    BY <1>1, <2>1
  <2> QED BY <1>1, <2>1, <2>2
<1>3. u \in Nat /\ M = B * u
  <2> HIDE DEF M, B
  <2>1. M \div B \in Nat /\ M = (B * (M \div B)) + (M % B)
    BY <1>1, DivMod
  <2>2. B * (M \div B) \in Nat
    BY <1>1, <2>1
  <2> QED BY <1>1, <2>1, <2>2
<1>4. /\ a \in Nat /\ j = (B * a) + (j % B) /\ j % B \in 0 .. B - 1
      /\ b \in Nat /\ d = (B * b) + (d % B) /\ d % B \in 0 .. B - 1
  <2> HIDE DEF B, j
  <2> QED BY <1>1, DivMod
<1>5. e + j = d
  BY <1>1
<1> DEFINE c == u * q
<1> HIDE DEF M, B, q, u, j, a, b
<1>6. e = B * c /\ c \in Nat
  BY <1>1, <1>2, <1>3
<1> HIDE DEF c
<1>7. j % B = 0 => d % B = 0
  <2> HAVE j % B = 0
  <2>1. d = (B * (c + a)) + 0 /\ c + a \in Int /\ 0 \in 0 .. B - 1
    BY <1>1, <1>4, <1>5, <1>6
  <2> DEFINE f == c + a
  <2> HIDE DEF f
  <2>2. d = (B * f) + 0 /\ f \in Int
    BY <2>1 DEF f
  <2> QED BY <1>1, <2>1, <2>2, DivUnique
<1>8. d % B = 0 => j % B = 0
  <2> HAVE d % B = 0
  <2>1. j = (B * (b - c)) + 0 /\ b - c \in Int /\ 0 \in 0 .. B - 1
    BY <1>1, <1>4, <1>5, <1>6
  <2> DEFINE f == b - c
  <2> HIDE DEF f
  <2>2. j = (B * f) + 0 /\ f \in Int
    BY <2>1 DEF f
  <2> QED BY <1>1, <2>1, <2>2, DivUnique
<1> QED BY <1>7, <1>8 DEF j, B

\* Chunks of the parity have no padding.
LEMMA ParityChunk ==
    ASSUME FileTypes, NEW e \in Chunks(paritysize), NEW k, k = actualdatab(paritysize, e)
    PROVE  chunkdatab(paritysize, e) = k
<1>1. /\ e \in Nat /\ k \in Nat \ {0} /\ e + k <= paritysize /\ paritysize \in Nat \ {0}
      /\ chunkdatab(paritysize, e) = fit_datasize(k)
      /\ e + k < paritysize => chunkdatab(paritysize, e) = k
  BY ChunkFacts DEF FileTypes
<1>2. CASE e + k < paritysize
  BY <1>1, <1>2
<1>3. CASE e + k = paritysize
  <2>1. e <= paritysize /\ paritysize - e = k
    BY <1>1, <1>3
  <2>2. k % BaseSize = 0
    <3>1. paritysize % BaseSize = 0
      BY DEF FileTypes
    <3>2. (paritysize - e) % BaseSize = 0
      BY <1>1, <2>1, <3>1, ChunkAligned
    <3> QED BY <2>1, <3>2
  <2> QED BY <1>1, <2>2, FitFacts
<1> QED BY <1>1, <1>2, <1>3

\* Where the data is taken to end: not behind its end, and there only if no
\* failoffset moves it.
LEMMA BaseFacts ==
    ASSUME FileTypes
    PROVE  /\ DataBase \in Nat /\ DataBase <= DataEnd
           /\ pranks = 1 => DataBase = LastChunk(totaldatasize) + LastSize
           /\ failoffset < 0 => DataBase = DataEnd
           /\ failoffset >= 0 /\ ~Hid(LastChunk(totaldatasize)) =>
                DataBase + (LastSize * (pranks - 1 - prank)) = DataEnd
           /\ failoffset >= 0 /\ Hid(LastChunk(totaldatasize)) /\ pranks # 1 => DataBase < DataEnd
           /\ failoffset >= DataEnd => ~Hid(LastChunk(totaldatasize))
<1> DEFINE L == LastChunk(totaldatasize)
           S == LastSize
           A == L * pranks
           D == DataEnd
           x == S * prank
           y == S * pranks
           z == S * (pranks - 1 - prank)
<1>1. L \in Nat /\ S \in Nat \ {0} /\ D = (L + S) * pranks /\ D \in Nat
  BY SizeFacts
<1>2. pranks \in Nat \ {0} /\ prank \in Nat /\ prank <= pranks - 1 /\ failoffset \in Int
  BY DEF FileTypes
<1>3. A \in Nat /\ x \in Nat /\ y \in Nat /\ D = A + y /\ x + S + z = y /\ z \in Nat
  <2> HIDE DEF L, S, D
  <2>1. D = (L * pranks) + (S * pranks) /\ L * pranks \in Nat /\ S * prank \in Nat /\ S * pranks \in Nat
    BY <1>1, <1>2
  <2>2. S * (pranks - 1 - prank) = (S * pranks) - S - (S * prank)
    BY <1>1, <1>2
  <2>3. S * (pranks - 1 - prank) \in Nat
    BY <1>1, <1>2
  <2> QED BY <1>1, <2>1, <2>2, <2>3
<1>4. pranks = 1 => A = L /\ x = 0 /\ y = S /\ z = 0
  <2> HIDE DEF L, S
  <2> QED BY <1>1, <1>2
<1>5. pranks # 1 => y > S
  <2> HAVE pranks # 1
  <2> HIDE DEF L, S, D
  <2>1. S * 2 <= S * pranks
    BY <1>1, <1>2, MulMonotone
  <2>2. S * 2 = S + S
    BY <1>1
  <2>3. S + S <= y
    BY <2>1, <2>2
  <2> HIDE DEF y
  <2> QED BY <1>1, <1>3, <2>3
<1>6. Hid(L) <=> failoffset >= 0 /\ A > failoffset
  BY DEF Hid
<1>7. DataBase = IF failoffset < 0 THEN D ELSE A + (IF Hid(L) THEN 0 ELSE x) + S
  <2>1. prank * S = S * prank
    BY <1>1, <1>2
  <2> QED BY <2>1 DEF DataBase
<1> HIDE DEF L, S, A, D, x, y, z
<1>8. /\ DataBase \in Nat /\ DataBase <= D
      /\ pranks = 1 => DataBase = L + S
      /\ failoffset < 0 => DataBase = D
      /\ failoffset >= 0 /\ ~Hid(L) => DataBase + z = D
      /\ failoffset >= 0 /\ Hid(L) /\ pranks # 1 => DataBase < D
      /\ failoffset >= D => ~Hid(L)
  <2>1. CASE failoffset < 0
    BY <1>1, <1>2, <1>3, <1>4, <1>6, <1>7, <2>1
  <2>2. CASE failoffset >= 0 /\ Hid(L)
    BY <1>1, <1>2, <1>3, <1>4, <1>5, <1>6, <1>7, <2>2
  <2>3. CASE failoffset >= 0 /\ ~Hid(L)
    BY <1>1, <1>2, <1>3, <1>4, <1>6, <1>7, <2>3
  <2> QED BY <1>2, <2>1, <2>2, <2>3
<1> QED BY <1>8 DEF L, S, D, z

\* Where a chunk is looked for, and where it lies.
LEMMA SeekFacts ==
    ASSUME FileTypes, NEW e \in Chunks(paritysize), NEW c, c = e * pranks,
           NEW k, k = actualdatab(paritysize, e), NEW d, d = prank * k
    PROVE  /\ c \in Nat /\ k \in Nat \ {0} /\ d \in Nat /\ (d = 0 <=> prank = 0)
           /\ c + DataBase <= failoffset \/ failoffset < 0 => ParitySeek(e) = DataBase + c + d
           /\ c + DataBase > failoffset /\ failoffset >= 0 => ParitySeek(e) = DataBase + c
           /\ \A w : e < w => Slot(w, e, 1) = DataEnd + c + d + 1
           /\ \A w : ~(e < w) => Slot(w, e, 1) = TailStart(w) + (e - w) + 1
<1>1. e \in Nat /\ k \in Nat \ {0}
  BY ChunkFacts DEF FileTypes
<1>2. pranks \in Nat /\ prank \in Nat /\ failoffset \in Int
  BY DEF FileTypes
<1>3. c \in Nat /\ d \in Nat
  BY <1>1, <1>2
<1>4. d = 0 <=> prank = 0
  BY <1>1, <1>2
<1>5. DataBase \in Nat
  BY BaseFacts
<1>6. ParitySeek(e) = DataBase + c + (IF failoffset >= 0 /\ c + DataBase > failoffset THEN 0 ELSE d)
  BY DEF ParitySeek
<1> QED BY <1>1, <1>2, <1>3, <1>4, <1>5, <1>6 DEF Slot

\* A group of one rank has no padding in its file.
LEMMA AloneRight ==
    ASSUME FileTypes, pranks = 1, NEW e \in Chunks(paritysize)
    PROVE  Right(0, e) <=> totaldatasize % BaseSize = 0
<1> DEFINE T == totaldatasize
           L == LastChunk(totaldatasize)
           j == T - L
           k == actualdatab(paritysize, e)
           c == e * pranks
           d == prank * k
<1>1. T \in Nat \ {0} /\ L \in Chunks(T) /\ L \in Nat /\ j \in Nat /\ LastSize = fit_datasize(j) /\ LastSize \in Nat
  BY SizeFacts
<1>2. DataBase = L + LastSize
  BY BaseFacts
<1>3. prank = 0 /\ e \in Nat /\ c = e
  BY ChunkFacts DEF FileTypes
<1>4. d = 0 /\ (ParitySeek(e) = DataBase + c + d \/ ParitySeek(e) = DataBase + c)
  <2>1. failoffset \in Int /\ c \in Nat /\ DataBase \in Nat
    BY <1>3, BaseFacts DEF FileTypes
  <2> HIDE DEF k, c, d
  <2> QED BY <1>3, <2>1, SeekFacts DEF k, c, d
<1>5. Slot(0, e, 1) = T + (e - 0) + 1
  <2>1. ~(e < 0)
    BY <1>3
  <2> QED BY <2>1 DEF Slot, TailStart
<1>6. LastSize = j <=> j % BaseSize = 0
  BY <1>1, FitFacts
<1>7. j % BaseSize = 0 <=> T % BaseSize = 0
  <2>1. L <= T
    BY <1>1
  <2> HIDE DEF T, L
  <2> QED BY <1>1, <2>1, ChunkAligned
<1>8. j + L = T
  BY <1>1
<1> HIDE DEF T, L, j, c, d
<1>9. ParitySeek(e) = L + LastSize + e
  BY <1>1, <1>2, <1>3, <1>4
<1>10. Right(0, e) <=> LastSize = j
  BY <1>1, <1>3, <1>5, <1>8, <1>9 DEF Right
<1> QED BY <1>6, <1>7, <1>10 DEF T

\* In the file of a whole group the parity is where it belongs; a failoffset
\* must hide nothing of it.
LEMMA WholeRight ==
    ASSUME FileTypes, pranks # 1
    PROVE  (\A e \in Chunks(paritysize) : Right(paritysize, e)) <=>
           \/ failoffset = -1
           \/ prank = pranks - 1 /\ failoffset >= DataEnd + (LastChunk(paritysize) * pranks)
<1> DEFINE P == paritysize
           D == DataEnd
           b == DataBase
           L == LastChunk(P)
           Z == LastSize * (pranks - 1 - prank)
           n(e) == actualdatab(P, e)
<1>1. P \in Nat \ {0} /\ pranks \in Nat /\ prank \in 0 .. pranks - 1 /\ failoffset \in Int /\ failoffset >= -1
  BY DEF FileTypes
<1>2. /\ b \in Nat /\ b <= D /\ D \in Nat
      /\ failoffset < 0 => b = D
      /\ failoffset >= 0 /\ ~Hid(LastChunk(totaldatasize)) => b + Z = D
      /\ failoffset >= 0 /\ Hid(LastChunk(totaldatasize)) => b < D
      /\ failoffset >= D => ~Hid(LastChunk(totaldatasize))
  BY BaseFacts, SizeFacts
<1>3. Z \in Nat /\ (Z = 0 <=> prank = pranks - 1)
  <2>1. LastSize \in Nat \ {0}
    BY SizeFacts
  <2> QED BY <1>1, <2>1
<1>4. 0 \in Chunks(P) /\ L \in Chunks(P) /\ \A e \in Chunks(P) : e <= L /\ e \in Nat
  BY <1>1, ChunkOrder DEF Chunks
<1>5. \A e \in Chunks(P) : e < P
  BY <1>1 DEF Chunks
<1>6. \A e \in Chunks(P) : /\ e * pranks \in Nat /\ prank * n(e) \in Nat /\ (prank * n(e) = 0 <=> prank = 0)
                           /\ (e * pranks) + b <= failoffset \/ failoffset < 0 => ParitySeek(e) = b + (e * pranks) + (prank * n(e))
                           /\ (e * pranks) + b > failoffset /\ failoffset >= 0 => ParitySeek(e) = b + (e * pranks)
                           /\ Slot(P, e, 1) = D + (e * pranks) + (prank * n(e)) + 1
  <2> SUFFICES ASSUME NEW e \in Chunks(P)
               PROVE  /\ e * pranks \in Nat /\ prank * n(e) \in Nat /\ (prank * n(e) = 0 <=> prank = 0)
                      /\ (e * pranks) + b <= failoffset \/ failoffset < 0 => ParitySeek(e) = b + (e * pranks) + (prank * n(e))
                      /\ (e * pranks) + b > failoffset /\ failoffset >= 0 => ParitySeek(e) = b + (e * pranks)
                      /\ Slot(P, e, 1) = D + (e * pranks) + (prank * n(e)) + 1
    OBVIOUS
  <2> DEFINE c == e * pranks
             k == n(e)
             d == prank * k
  <2> HIDE DEF c, k, d
  <2>1. c = e * pranks /\ k = actualdatab(paritysize, e) /\ d = prank * k /\ k = n(e)
    BY DEF c, k, d
  <2>2. /\ c \in Nat /\ k \in Nat \ {0} /\ d \in Nat /\ (d = 0 <=> prank = 0)
        /\ c + DataBase <= failoffset \/ failoffset < 0 => ParitySeek(e) = DataBase + c + d
        /\ c + DataBase > failoffset /\ failoffset >= 0 => ParitySeek(e) = DataBase + c
        /\ Slot(P, e, 1) = DataEnd + c + d + 1
    BY <1>5, <2>1, SeekFacts
  <2> QED BY <2>1, <2>2
<1> HIDE DEF P, D, b, L, Z, n
<1>7. ASSUME failoffset = -1, NEW e \in Chunks(P)
      PROVE  Right(P, e)
  <2> DEFINE c == e * pranks
             d == prank * n(e)
  <2>1. c \in Nat /\ d \in Nat /\ ParitySeek(e) = b + c + d /\ Slot(P, e, 1) = D + c + d + 1
    BY <1>6, <1>7
  <2>2. b = D
    BY <1>2, <1>7
  <2> HIDE DEF c, d
  <2> QED BY <1>2, <2>1, <2>2 DEF Right
<1>8. ASSUME prank = pranks - 1, failoffset >= D + (L * pranks), NEW e \in Chunks(P)
      PROVE  Right(P, e)
  <2> DEFINE c == e * pranks
             d == prank * n(e)
             l == L * pranks
  <2>1. c \in Nat /\ d \in Nat /\ Slot(P, e, 1) = D + c + d + 1 /\ l \in Nat
    BY <1>4, <1>6
  <2>2. c <= l
    <3>1. pranks * e <= pranks * L
      BY <1>1, <1>4, MulMonotone
    <3> QED BY <1>1, <1>4, <3>1
  <2>3. b = D
    <3> HIDE DEF l
    <3>1. failoffset >= D
      BY <1>1, <1>2, <1>8, <2>1 DEF l
    <3>2. Z = 0
      BY <1>3, <1>8
    <3>3. failoffset >= 0
      BY <1>1, <1>2, <3>1
    <3>4. b + Z = D
      BY <1>2, <3>1, <3>3
    <3> QED BY <1>2, <3>2, <3>4
  <2>4. c + b <= failoffset
    <3>1. failoffset >= D + l
      BY <1>8
    <3> HIDE DEF c, l
    <3> QED BY <1>1, <1>2, <2>1, <2>2, <2>3, <3>1
  <2>5. ParitySeek(e) = b + c + d
    BY <1>6, <2>4
  <2> HIDE DEF c, d
  <2> QED BY <1>2, <2>1, <2>3, <2>5 DEF Right
<1>9. ASSUME \A e \in Chunks(P) : Right(P, e), failoffset # -1
      PROVE  prank = pranks - 1 /\ failoffset >= D + (L * pranks)
  <2>1. failoffset >= 0
    BY <1>1, <1>9
  <2>2. b = D
    <3> DEFINE d == prank * n(0)
    <3>1. d \in Nat /\ (ParitySeek(0) = b + (0 * pranks) + d \/ ParitySeek(0) = b + (0 * pranks))
          /\ Slot(P, 0, 1) = D + (0 * pranks) + d + 1
      <4>1. (0 * pranks) + b <= failoffset \/ (0 * pranks) + b > failoffset
        BY <1>1, <1>2
      <4> QED BY <1>4, <1>6, <2>1, <4>1
    <3>2. 0 * pranks = 0
      BY <1>1
    <3>3. ParitySeek(0) + 1 = Slot(P, 0, 1)
      BY <1>4, <1>9 DEF Right
    <3> HIDE DEF d
    <3> QED BY <1>2, <3>1, <3>2, <3>3
  <2>3. prank = pranks - 1
    BY <1>2, <1>3, <2>1, <2>2
  <2>4. failoffset >= D + (L * pranks)
    <3> DEFINE c == L * pranks
               d == prank * n(L)
    <3> SUFFICES ASSUME c + b > failoffset
                 PROVE  FALSE
      <4>1. c \in Nat
        BY <1>4, <1>6
      <4> HIDE DEF c
      <4> QED BY <1>1, <1>2, <2>2, <4>1 DEF c
    <3>1. c \in Nat /\ d \in Nat /\ (d = 0 <=> prank = 0) /\ ParitySeek(L) = b + c /\ Slot(P, L, 1) = D + c + d + 1
      BY <1>4, <1>6, <2>1
    <3>2. ParitySeek(L) + 1 = Slot(P, L, 1)
      BY <1>4, <1>9 DEF Right
    <3> HIDE DEF c, d
    <3>3. d = 0
      BY <1>2, <2>2, <3>1, <3>2
    <3> QED BY <1>1, <2>3, <3>1, <3>3
  <2> QED BY <2>3, <2>4
<1>10. failoffset = -1 \/ (prank = pranks - 1 /\ failoffset >= D + (L * pranks)) => \A e \in Chunks(P) : Right(P, e)
  BY <1>7, <1>8
<1> QED BY <1>9, <1>10 DEF P, D, L

\* A parity appended by the rank itself begins at the failoffset, without the
\* parts of the others in front of it.
LEMMA TornRight ==
    ASSUME FileTypes, pranks # 1, NEW w \in Chunks(paritysize), failoffset = DataEnd + (w * pranks)
    PROVE  (\A e \in Chunks(paritysize) : Right(w, e)) <=>
           w = 0 /\ paritysize <= maxchunkb /\ paritysize * prank = LastSize * (pranks - 1 - prank)
<1> DEFINE P == paritysize
           K == pranks
           M == maxchunkb
           D == DataEnd
           b == DataBase
           Z == LastSize * (pranks - 1 - prank)
           f == w * K
           k == actualdatab(P, 0)
           d == prank * k
<1>1. /\ P \in Nat \ {0} /\ K \in Nat /\ K >= 2 /\ prank \in Nat /\ prank <= K - 1
      /\ M \in Nat \ {0} /\ w \in Nat /\ f \in Nat
  BY ChunkBytes DEF FileTypes, Chunks
<1>2. b \in Nat /\ D \in Nat /\ Z \in Nat /\ (Z = 0 <=> prank = K - 1) /\ b + Z = D
  <2>1. LastSize \in Nat \ {0} /\ D \in Nat
    BY SizeFacts
  <2>2. Z \in Nat /\ (Z = 0 <=> prank = K - 1)
    BY <1>1, <2>1
  <2>3. failoffset >= D
    <3> HIDE DEF D, f
    <3> QED BY <1>1, <2>1 DEF D, f
  <2>4. failoffset >= 0
    BY <2>1, <2>3 DEF FileTypes
  <2>5. b \in Nat /\ b + Z = D
    BY <2>3, <2>4, BaseFacts
  <2> QED BY <2>1, <2>2, <2>5
<1>3. 0 \in Chunks(P)
  BY <1>1, ChunkOrder
<1>4. k \in Nat \ {0} /\ d \in Nat /\ (d = 0 <=> prank = 0) /\ ParitySeek(0) = b + d
  <2> DEFINE c == 0 * K
  <2>1. c = 0 * pranks /\ c = 0
    BY <1>1
  <2> HIDE DEF c, k, d
  <2>2. c + b <= failoffset
    <3> HIDE DEF D, b, f, Z
    <3> QED BY <1>1, <1>2, <2>1 DEF D, f
  <2>3. c + DataBase <= failoffset
    BY <2>2
  <2>4. k \in Nat \ {0} /\ d \in Nat /\ (d = 0 <=> prank = 0) /\ ParitySeek(0) = DataBase + c + d
    BY <1>3, <2>1, <2>3, SeekFacts DEF k, d
  <2> QED BY <1>2, <2>1, <2>4
<1>5. CASE w = 0
  <2>1. TailStart(0) = D
    <3>1. 0 * pranks = 0
      BY <1>1
    <3> QED BY <1>2, <3>1 DEF TailStart
  <2>2. \A e \in Chunks(P) : Slot(w, e, 1) = D + e + 1
    <3> SUFFICES ASSUME NEW e \in Chunks(P)
                 PROVE  Slot(0, e, 1) = D + e + 1
      BY <1>5
    <3>1. e \in Nat /\ ~(e < 0)
      BY <1>1 DEF Chunks
    <3>2. Slot(0, e, 1) = TailStart(0) + (e - 0) + 1
      BY <3>1 DEF Slot
    <3> HIDE DEF D
    <3> QED BY <1>2, <2>1, <3>1, <3>2
  <2>3. Right(w, 0) <=> d = Z
    <3>1. Slot(w, 0, 1) = D + 0 + 1
      BY <1>3, <2>2
    <3> HIDE DEF D, b, Z, d
    <3> QED BY <1>2, <1>4, <3>1 DEF Right
  <2>4. CASE P <= M
    <3>1. k = P
      BY <1>1, <2>4 DEF actualdatab, Least
    <3>2. \A e \in Chunks(P) : e = 0
      <4>1. LastChunk(P) = 0
        <5>1. 0 + k >= P
          BY <1>1, <3>1
        <5> QED BY <1>1, <1>3, <5>1, ChunkFacts
      <4>2. \A e \in Chunks(P) : e <= LastChunk(P)
        BY <1>1, ChunkOrder
      <4>3. \A e \in Chunks(P) : e \in Nat
        BY <1>1 DEF Chunks
      <4> QED BY <4>1, <4>2, <4>3
    <3>3. P * prank = prank * P
      BY <1>1
    <3>4. (\A e \in Chunks(P) : Right(w, e)) <=> d = Z
      BY <1>3, <2>3, <3>2
    <3>5. d = prank * P
      BY <3>1
    <3> QED BY <1>5, <2>4, <3>3, <3>4, <3>5
  <2>5. CASE ~(P <= M)
    <3> SUFFICES ASSUME \A e \in Chunks(P) : Right(w, e)
                 PROVE  FALSE
      BY <2>5
    <3>1. k = M /\ M \in Chunks(P)
      <4>1. k = M
        BY <1>1, <2>5 DEF actualdatab, Least
      <4>2. 0 + k < P
        BY <1>1, <2>5, <4>1
      <4>3. 0 + k \in Chunks(P)
        BY <1>1, <1>3, <4>2, ChunkFacts
      <4> QED BY <1>1, <4>1, <4>3
    <3> DEFINE c == M * K
               h == actualdatab(P, M)
               g == prank * h
               x == M * prank
               y == M * (K - prank)
    <3>2. d = Z
      BY <1>3, <2>3
    <3>3. d = x /\ x + y = c /\ x \in Nat /\ y \in Nat /\ c \in Nat
      BY <1>1, <3>1
    <3>4. c = M * pranks /\ h = actualdatab(paritysize, M) /\ g = prank * h
      OBVIOUS
    <3>5. Slot(w, M, 1) = D + M + 1
      BY <2>2, <3>1
    <3>6. y >= M /\ (y = M => K - prank = 1)
      <4>1. CASE K - prank = 1
        <5>1. y = M
          BY <1>1, <4>1
        <5> HIDE DEF y
        <5> QED BY <1>1, <4>1, <5>1
      <4>2. CASE K - prank # 1
        <5>1. K - prank >= 2 /\ K - prank \in Nat
          BY <1>1, <4>2
        <5>2. M * 2 <= y
          BY <1>1, <5>1, MulMonotone
        <5>3. M * 2 = M + M
          BY <1>1
        <5> HIDE DEF y
        <5> QED BY <1>1, <3>3, <5>2, <5>3
      <4> QED BY <4>1, <4>2
    <3>7. Right(w, M)
      BY <3>1
    <3> HIDE DEF c, h, g
    <3>8. g \in Nat /\ (ParitySeek(M) = b + c + g \/ ParitySeek(M) = b + c)
      <4>1. /\ c \in Nat /\ g \in Nat
            /\ c + DataBase <= failoffset \/ failoffset < 0 => ParitySeek(M) = DataBase + c + g
            /\ c + DataBase > failoffset /\ failoffset >= 0 => ParitySeek(M) = DataBase + c
        BY <3>1, <3>4, SeekFacts
      <4>2. failoffset \in Int /\ DataBase \in Nat
        BY <1>2 DEF FileTypes
      <4> QED BY <4>1, <4>2
    <3>9. ParitySeek(M) + 1 = D + M + 1
      BY <3>5, <3>7 DEF Right
    <3> HIDE DEF D, b, Z, d, x, y, M
    <3>10. c = M + Z \/ c + g = M + Z
      BY <1>1, <1>2, <3>3, <3>8, <3>9
    <3>11. y = M
      BY <1>1, <1>2, <3>2, <3>3, <3>6, <3>8, <3>10
    <3>12. Z = 0
      BY <1>1, <1>2, <3>6, <3>11
    <3> QED BY <1>1, <1>2, <1>4, <3>2, <3>12
  <2> QED BY <2>4, <2>5
<1>6. CASE w # 0
  <2> SUFFICES ASSUME \A e \in Chunks(P) : Right(w, e)
               PROVE  FALSE
    BY <1>6
  <2>1. b = D
    <3>1. 0 < w
      BY <1>1, <1>6
    <3> DEFINE c == 0 * K
    <3>2. c = 0 * pranks /\ c = 0
      BY <1>1
    <3> HIDE DEF c, k, d
    <3>3. Slot(w, 0, 1) = DataEnd + c + d + 1
      BY <1>3, <3>1, <3>2, SeekFacts DEF k, d
    <3>4. ParitySeek(0) + 1 = Slot(w, 0, 1)
      BY <1>3 DEF Right
    <3> QED BY <1>2, <1>4, <3>2, <3>3, <3>4
  <2> DEFINE h == actualdatab(P, w)
             g == prank * h
  <2>2. f = w * pranks /\ h = actualdatab(paritysize, w) /\ g = prank * h
    OBVIOUS
  <2> HIDE DEF f, h, g
  <2>3. f + DataBase <= failoffset
    BY <1>1, <1>2, <2>1 DEF f
  <2>4. g \in Nat /\ (g = 0 <=> prank = 0) /\ ParitySeek(w) = DataBase + f + g
    BY <2>2, <2>3, SeekFacts
  <2>5. Slot(w, w, 1) = D + f + 1
    <3>1. Slot(w, w, 1) = TailStart(w) + (w - w) + 1 /\ TailStart(w) = D + f
      BY <1>1, <2>2 DEF Slot, TailStart
    <3> QED BY <1>1, <1>2, <3>1
  <2>6. ParitySeek(w) + 1 = Slot(w, w, 1)
    BY DEF Right
  <2> HIDE DEF D, Z
  <2>7. g = 0
    BY <1>1, <1>2, <2>1, <2>4, <2>5, <2>6
  <2>8. Z = 0
    BY <1>2, <2>1
  <2> QED BY <1>1, <1>2, <2>4, <2>7, <2>8
<1> QED BY <1>5, <1>6

\* The condition of ParityRestored says just when every chunk is found.
LEMMA FoundRight ==
    ASSUME FileTypes, NEW w, FileIs(w)
    PROVE  ParityFound <=> \A e \in Chunks(paritysize) : Right(w, e)
<1> DEFINE P == paritysize
           K == pranks
           D == DataEnd
           f == w * K
           g == P * K
<1>1. /\ P \in Nat \ {0} /\ K \in Nat \ {0} /\ D \in Nat
      /\ w \in Nat /\ w <= P /\ f \in Nat /\ g \in Nat
  <2>1. P \in Nat \ {0} /\ K \in Nat \ {0} /\ D \in Nat
    BY SizeFacts DEF FileTypes
  <2>2. w \in Nat /\ w <= P
    BY <2>1 DEF FileIs, Chunks
  <2> QED BY <2>1, <2>2
<1>2. CASE K = 1
  <2>1. w = 0 /\ 0 \in Chunks(P)
    BY <1>1, <1>2, ChunkOrder DEF FileIs
  <2>2. \A e \in Chunks(P) : Right(w, e) <=> totaldatasize % BaseSize = 0
    BY <1>2, <2>1, AloneRight
  <2> QED BY <1>2, <2>1, <2>2 DEF ParityFound
<1>3. CASE K # 1 /\ w = P
  <2>1. Len(bytes) = D + g
    <3>1. Len(bytes) = D + f + (P - w)
      BY <1>3 DEF FileIs, TailStart
    <3>2. f = g /\ P - w = 0
      BY <1>1, <1>3
    <3> HIDE DEF f, g, D
    <3> QED BY <1>1, <3>1, <3>2
  <2>2. ~OwnParityHit
    <3>1. P * 2 <= P * K
      BY <1>1, <1>3, MulMonotone
    <3>2. P * 2 = P + P
      BY <1>1
    <3>3. P + P <= g
      BY <3>1, <3>2
    <3> HIDE DEF g, D, P
    <3>4. Len(bytes) # D + P
      BY <1>1, <2>1, <3>3
    <3> QED BY <3>4 DEF OwnParityHit, D, P
  <2>3. WholeParityFound <=> \/ failoffset = -1
                             \/ prank = K - 1 /\ failoffset >= D + (LastChunk(P) * K)
    BY <2>1 DEF WholeParityFound
  <2> QED BY <1>3, <2>2, <2>3, WholeRight DEF ParityFound
<1>4. CASE K # 1 /\ w # P
  <2>1. w \in Chunks(P) /\ failoffset = D + f /\ Len(bytes) = D + f + (P - w)
    BY <1>4 DEF FileIs, TailStart
  <2>2. K * w <= K * (P - 1) /\ K * w = f /\ K * (P - 1) = g - K /\ w < P
    BY <1>1, <1>4, MulMonotone
  <2>3. ~WholeParityFound
    <3> DEFINE u == P - w
    <3>1. u \in Nat \ {0} /\ u * K = g - f
      BY <1>1, <2>2
    <3>2. u * 2 <= u * K
      BY <1>1, <1>4, <3>1, MulMonotone
    <3>3. u * 2 = u + u
      BY <3>1
    <3> HIDE DEF u, f, g, D
    <3>4. D + f + u # D + g
      BY <1>1, <3>1, <3>2, <3>3
    <3>5. Len(bytes) # D + g
      BY <2>1, <3>4 DEF u
    <3> QED BY <3>5 DEF WholeParityFound, D, g
  <2>4. LastSize = fit_datasize(totaldatasize - LastChunk(totaldatasize))
    BY SizeFacts
  <2>5. Len(bytes) = D + P <=> w = 0
    <3> DEFINE v == w * (K - 1)
    <3>1. v = f - w /\ v \in Nat /\ (v = 0 <=> w = 0)
      BY <1>1, <1>4
    <3> HIDE DEF v, f, D
    <3> QED BY <1>1, <2>1, <3>1
  <2>6. OwnParityHit <=> w = 0 /\ P <= maxchunkb /\ P * prank = LastSize * (K - 1 - prank)
    BY <2>4, <2>5 DEF OwnParityHit
  <2> QED BY <1>4, <2>1, <2>3, <2>6, TornRight DEF ParityFound
<1> QED BY <1>2, <1>3, <1>4

-----------------------------------------------------------------------------
(* Writing the file.                                                       *)

FileKept == UNCHANGED <<pranks, prank, shape, paritysize>>

LEMMA FileStays ==
    ASSUME FileKept
    PROVE  /\ pranks' = pranks /\ prank' = prank /\ shape' = shape /\ paritysize' = paritysize
           /\ Shaped' = Shaped /\ totaldatasize' = totaldatasize /\ DataEnd' = DataEnd /\ LastSize' = LastSize
           /\ Chunks(totaldatasize)' = Chunks(totaldatasize) /\ Chunks(paritysize)' = Chunks(paritysize)
           /\ \A e : /\ actualdatab(totaldatasize, e)' = actualdatab(totaldatasize, e)
                     /\ chunkdatab(totaldatasize, e)' = chunkdatab(totaldatasize, e)
                     /\ actualdatab(paritysize, e)' = actualdatab(paritysize, e)
           /\ \A i : PlaceOf(i)' = PlaceOf(i)
           /\ \A q, i : Byte(q, i)' = Byte(q, i)
           /\ \A c : Position(c)' = Position(c)
           /\ Cursors' = Cursors /\ Original' = Original /\ ListHead' = ListHead
           /\ \A a, b : OwnParity(a, b)' = OwnParity(a, b)
           /\ \A w : TailStart(w)' = TailStart(w)
           /\ \A w, e, k : Slot(w, e, k)' = Slot(w, e, k)
<1>1. pranks' = pranks /\ prank' = prank /\ shape' = shape /\ paritysize' = paritysize
  BY DEF FileKept
<1>2. Places' = Places /\ Shaped' = Shaped
  BY <1>1 DEF Places, Shaped
<1>3. totaldatasize' = totaldatasize /\ \A v : VarStart(v)' = VarStart(v)
  BY <1>2 DEF totaldatasize, VarStart
<1>4. \A i : PlaceOf(i)' = PlaceOf(i)
  BY <1>1, <1>3 DEF PlaceOf
<1>5. \A c : Position(c)' = Position(c)
  BY <1>3 DEF Position
<1>6. /\ DataEnd' = DataEnd /\ LastSize' = LastSize
      /\ Chunks(totaldatasize)' = Chunks(totaldatasize) /\ Chunks(paritysize)' = Chunks(paritysize)
      /\ \A e : /\ actualdatab(totaldatasize, e)' = actualdatab(totaldatasize, e)
                /\ chunkdatab(totaldatasize, e)' = chunkdatab(totaldatasize, e)
                /\ actualdatab(paritysize, e)' = actualdatab(paritysize, e)
  BY <1>1, <1>3 DEF DataEnd, LastSize, LastChunk, Chunks, actualdatab, chunkdatab
<1>7. \A q, i : Byte(q, i)' = Byte(q, i)
  BY <1>1, <1>4 DEF Byte, Datum
<1>8. Cursors' = Cursors /\ Original' = Original /\ ListHead' = ListHead /\ \A a, b : OwnParity(a, b)' = OwnParity(a, b)
  BY <1>1 DEF Cursors, Original, Datum, ListHead, OwnParity, ParityByte
<1>9. \A w : TailStart(w)' = TailStart(w)
  BY <1>1, <1>3, <1>6 DEF TailStart
<1>10. \A w, e, k : Slot(w, e, k)' = Slot(w, e, k)
  BY <1>1, <1>6, <1>9 DEF Slot
<1> QED BY <1>1, <1>2, <1>3, <1>4, <1>5, <1>6, <1>7, <1>8, <1>9, <1>10

LEMMA DataLaidLater ==
    ASSUME FileKept, NEW u
    PROVE  DataLaid(u)' <=>
           \A e \in Chunks(totaldatasize) : e < u =>
                \A q \in 0 .. pranks - 1, k \in 1 .. actualdatab(totaldatasize, e) :
                    bytes'[(e * pranks) + (q * chunkdatab(totaldatasize, e)) + k] = Byte(q, e + k)
<1>1. /\ pranks' = pranks /\ totaldatasize' = totaldatasize /\ Chunks(totaldatasize)' = Chunks(totaldatasize)
      /\ \A q, i : Byte(q, i)' = Byte(q, i)
  BY FileStays
<1> QED BY <1>1 DEF DataLaid

\* Each part of a chunk lies before the next chunk and in the data.
LEMMA DataSlots ==
    ASSUME FileTypes, NEW e \in Chunks(totaldatasize), NEW q \in 0 .. pranks - 1,
           NEW k \in 1 .. actualdatab(totaldatasize, e), NEW s, s = chunkdatab(totaldatasize, e)
    PROVE  /\ (e * pranks) + (q * s) + k \in 1 .. DataEnd
           /\ \A f \in Chunks(totaldatasize) : e < f => (e * pranks) + (q * s) + k \in 1 .. f * pranks
           /\ pranks = 1 => (e * pranks) + (q * s) + k = e + k
<1> DEFINE T == totaldatasize
           L == LastChunk(totaldatasize)
           n == actualdatab(T, e)
           z == L + LastSize
<1>1. T \in Nat \ {0} /\ L \in Chunks(T) /\ L \in Nat /\ LastSize \in Nat \ {0} /\ DataEnd = z * pranks /\ z \in Nat
  BY SizeFacts
<1>2. pranks \in Nat \ {0}
  BY DEF FileTypes
<1> HIDE DEF T
<1>3. /\ e \in Nat /\ n \in Nat \ {0} /\ s \in Nat \ {0} /\ n <= s
      /\ e + n < T => s = n
      /\ e + n >= T => e = LastChunk(T)
  BY <1>1, ChunkFacts DEF T
<1>4. k \in 1 .. s
  <2>1. k \in 1 .. n
    BY DEF T
  <2> HIDE DEF n
  <2> QED BY <1>3, <2>1
<1>5. e + s <= z
  <2>1. CASE e = LastChunk(T)
    <3>1. e = L /\ s = LastSize
      BY <2>1 DEF LastSize, T
    <3> QED BY <1>1, <3>1
  <2>2. CASE e # LastChunk(T)
    <3>1. s = n
      BY <1>1, <1>3, <2>2
    <3>2. e <= LastChunk(T)
      BY <1>1, ChunkOrder DEF T
    <3>3. e + actualdatab(T, e) <= LastChunk(T)
      <4>1. e < LastChunk(T) /\ LastChunk(T) \in Chunks(T) /\ e \in Chunks(T)
        BY <1>1, <1>3, <2>2, <3>2 DEF T
      <4> QED BY <1>1, <4>1, ChunkOrder
    <3>4. LastChunk(T) = L
      BY DEF T
    <3> HIDE DEF n, L
    <3> QED BY <1>1, <1>3, <3>1, <3>3, <3>4 DEF n
  <2> QED BY <2>1, <2>2
<1>6. (e * pranks) + (q * s) + k \in 1 .. z * pranks
  <2> HIDE DEF z
  <2> QED BY <1>1, <1>2, <1>3, <1>4, <1>5, Inside
<1>7. ASSUME NEW f \in Chunks(T), e < f
      PROVE  (e * pranks) + (q * s) + k \in 1 .. f * pranks
  <2>1. f \in Nat /\ f < T
    BY <1>1 DEF Chunks
  <2>2. e + actualdatab(T, e) <= f
    BY <1>1, <1>7, ChunkOrder DEF T
  <2>3. e + s <= f
    <3> HIDE DEF n
    <3> QED BY <1>1, <1>3, <2>1, <2>2 DEF n
  <2> QED BY <1>2, <1>3, <1>4, <2>1, <2>3, Inside
<1>8. pranks = 1 => (e * pranks) + (q * s) + k = e + k
  <2> HAVE pranks = 1
  <2>1. q = 0 /\ e * pranks = e /\ k \in Int
    BY <1>3, <1>4
  <2>2. q * s = 0
    BY <1>3, <2>1
  <2> QED BY <1>3, <2>1, <2>2
<1> QED BY <1>1, <1>6, <1>7, <1>8 DEF T

\* Data stays where it is when something is appended to the file.
LEMMA DataStays ==
    ASSUME FileTypes, FileKept, Sequence(bytes), NEW new, Sequence(new), bytes' = bytes \o new, NEW u, DataLaid(u),
           \/ u \in Chunks(totaldatasize) /\ Len(bytes) = u * pranks
           \/ Len(bytes) >= DataEnd
    PROVE  DataLaid(u)'
<1> SUFFICES ASSUME NEW e \in Chunks(totaldatasize), e < u, NEW q \in 0 .. pranks - 1,
                    NEW k \in 1 .. actualdatab(totaldatasize, e)
             PROVE  bytes'[(e * pranks) + (q * chunkdatab(totaldatasize, e)) + k] = Byte(q, e + k)
  BY DataLaidLater
<1> DEFINE i == (e * pranks) + (q * chunkdatab(totaldatasize, e)) + k
<1>1. bytes[i] = Byte(q, e + k)
  BY DEF DataLaid
<1>2. i \in 1 .. DataEnd /\ (u \in Chunks(totaldatasize) => i \in 1 .. u * pranks)
  BY DataSlots
<1>3. Len(bytes) \in Nat /\ DataEnd \in Nat /\ \A j \in 1 .. Len(bytes) : (bytes \o new)[j] = bytes[j]
  BY Joined, SizeFacts
<1> HIDE DEF i
<1>4. i \in 1 .. Len(bytes)
  BY <1>2, <1>3
<1> QED BY <1>1, <1>3, <1>4 DEF i

\* The members' parts of the next chunk.
LEMMA DataGrows ==
    ASSUME FileTypes, FileKept, Sequence(bytes), NEW e \in Chunks(totaldatasize), DataLaid(e), Len(bytes) = e * pranks,
           NEW new, Sequence(new), bytes' = bytes \o new, NEW n, n = actualdatab(totaldatasize, e),
           NEW s, s = chunkdatab(totaldatasize, e),
           \A q \in 0 .. pranks - 1, k \in 1 .. n : (q * s) + k \in 1 .. Len(new) /\ new[(q * s) + k] = Byte(q, e + k)
    PROVE  DataLaid(e + n)'
<1>1. DataLaid(e)'
  BY DataStays
<1>2. totaldatasize \in Nat \ {0} /\ e \in Nat /\ n \in Nat \ {0}
  <2>1. totaldatasize \in Nat \ {0}
    BY SizeFacts
  <2> QED BY <2>1, ChunkFacts
<1>3. \A f \in Chunks(totaldatasize) : f < e + n => f < e \/ f = e
  <2> SUFFICES ASSUME NEW f \in Chunks(totaldatasize), f < e + n, e < f
               PROVE  FALSE
    BY <1>2 DEF Chunks
  <2>1. e + n <= f
    BY <1>2, ChunkOrder
  <2>2. f \in Nat
    BY DEF Chunks
  <2> QED BY <1>2, <2>1, <2>2
<1>4. ASSUME NEW q \in 0 .. pranks - 1, NEW k \in 1 .. n
      PROVE  bytes'[(e * pranks) + (q * s) + k] = Byte(q, e + k)
  <2> DEFINE i == (q * s) + k
             a == e * pranks
  <2>1. i \in 1 .. Len(new) /\ new[i] = Byte(q, e + k)
    OBVIOUS
  <2>2. (bytes \o new)[Len(bytes) + i] = new[i]
    <3>1. i \in 1 .. Len(new)
      BY <2>1
    <3> HIDE DEF i
    <3> QED BY <3>1, JoinedAt, Zenon
  <2>3. a \in Nat /\ q * s \in Nat /\ k \in Int
    <3>1. s \in Nat /\ pranks \in Nat
      BY <1>2, ChunkFacts DEF FileTypes
    <3> QED BY <1>2, <3>1
  <2>4. a + (q * s) + k = Len(bytes) + i
    <3> DEFINE c == q * s
    <3>1. c \in Nat
      BY <2>3
    <3> HIDE DEF c, a
    <3> QED BY <2>3, <3>1 DEF a, c
  <2> QED BY <2>1, <2>2, <2>4
<1> DEFINE Laid(f) == \A q \in 0 .. pranks - 1, k \in 1 .. actualdatab(totaldatasize, f) :
                         bytes'[(f * pranks) + (q * chunkdatab(totaldatasize, f)) + k] = Byte(q, f + k)
<1>5. \A u : DataLaid(u)' <=> \A f \in Chunks(totaldatasize) : f < u => Laid(f)
  BY DataLaidLater
<1>6. Laid(e)
  BY <1>4
<1> HIDE DEF Laid
<1>7. \A f \in Chunks(totaldatasize) : f < e + n => Laid(f)
  BY <1>1, <1>3, <1>5, <1>6
<1> QED BY <1>5, <1>7

LEMMA BytesApart ==
    /\ \A q, i, r, j : ParityByte(q, i) = ParityByte(r, j) => q = r /\ i = j
    /\ \A q, i, r, j : Datum(q, i) = Datum(r, j) => q = r /\ i = j
    /\ \A q, i, r, j : ParityByte(q, i) # Datum(r, j)
    /\ \A q, i : ParityByte(q, i) # Pad
BY DEF ParityByte, Datum, Pad

\* A byte belongs to one chunk.
LEMMA OneChunk ==
    ASSUME NEW size \in Nat \ {0}, NEW e \in Chunks(size), NEW f \in Chunks(size),
           NEW k \in 1 .. actualdatab(size, e), NEW h \in 1 .. actualdatab(size, f), e + k = f + h
    PROVE  e = f /\ k = h
<1> DEFINE n == actualdatab(size, e)
           m1 == actualdatab(size, f)
<1>1. e \in Nat /\ f \in Nat /\ n \in Nat /\ m1 \in Nat
  BY ChunkFacts
<1>2. (e < f => e + n <= f) /\ (f < e => f + m1 <= e)
  BY ChunkOrder
<1>3. k \in 1 .. n /\ h \in 1 .. m1
  OBVIOUS
<1> HIDE DEF n, m1
<1> QED BY <1>1, <1>2, <1>3

LEMMA SomeChunk ==
    ASSUME NEW size \in Nat \ {0}, NEW i \in 1 .. size
    PROVE  \E e \in Chunks(size), k \in Nat : k \in 1 .. actualdatab(size, e) /\ i = e + k
<1> DEFINE S == {e \in Chunks(size) : e < i}
<1>1. S \in SUBSET Nat /\ 0 \in S /\ \A e \in S : e <= i
  <2>1. 0 \in Chunks(size)
    BY ChunkOrder
  <2> QED BY <2>1 DEF Chunks
<1>2. PICK e \in S : \A f \in S : f <= e
  <2>1. i \in Nat /\ S # {}
    BY <1>1
  <2> HIDE DEF S
  <2> QED BY <1>1, <2>1, GreatestOf
<1> DEFINE n == actualdatab(size, e)
<1>3. e \in Chunks(size) /\ e < i /\ e \in Nat /\ n \in Nat \ {0}
  <2>1. e \in Chunks(size) /\ e < i
    OBVIOUS
  <2> QED BY <2>1, ChunkFacts
<1>4. /\ e + n < size => e + n \in Chunks(size)
      /\ e + n >= size => e + n = size
  BY <1>3, ChunkFacts
<1>5. e + n < size => ~(e + n < i)
  <2> SUFFICES ASSUME e + n < size, e + n < i
               PROVE  FALSE
    OBVIOUS
  <2>1. e + n \in S
    BY <1>4
  <2> HIDE DEF S, n
  <2> QED BY <1>2, <1>3, <2>1
<1> HIDE DEF n
<1>6. i <= e + n
  BY <1>3, <1>4, <1>5
<1>7. i - e \in Nat /\ i - e \in 1 .. n /\ i = e + (i - e)
  BY <1>3, <1>6
<1> QED BY <1>3, <1>7 DEF n

LEMMA ParityLater ==
    ASSUME FileKept, NEW w, NEW u
    PROVE  /\ ParityLaid(w, u)' <=>
                \A e \in Chunks(paritysize) : e < u =>
                    \A k \in 1 .. actualdatab(paritysize, e) :
                        Slot(w, e, k) \in 1 .. Len(bytes') /\ bytes'[Slot(w, e, k)] = ParityByte(prank, e + k - 1)
           /\ ParityOnly(w, u)' <=>
                \A i \in 1 .. Len(bytes') : \A e \in Chunks(paritysize) : \A k \in 1 .. actualdatab(paritysize, e) :
                    bytes'[i] = ParityByte(prank, e + k - 1) => e < u /\ i = Slot(w, e, k)
<1>1. /\ prank' = prank /\ paritysize' = paritysize /\ Chunks(paritysize)' = Chunks(paritysize)
      /\ \A e, k : Slot(w, e, k)' = Slot(w, e, k)
  BY FileStays
<1> QED BY <1>1 DEF ParityLaid, ParityOnly

\* The bytes of "new", appended to the file, hold the own parity from chunk u to
\* chunk t.
AppendsParity(new, v, u, w, t) ==
    /\ \A e \in Chunks(paritysize), k \in Nat : e < u => e < t /\ Slot(w, e, k) = Slot(v, e, k)
    /\ \A e \in Chunks(paritysize) : \A k \in 1 .. actualdatab(paritysize, e) : ~(e < u) /\ e < t =>
         \E j \in 1 .. Len(new) : Slot(w, e, k) = Len(bytes) + j /\ new[j] = ParityByte(prank, e + k - 1)
    /\ \A j \in 1 .. Len(new) : \A e \in Chunks(paritysize) : \A k \in 1 .. actualdatab(paritysize, e) :
         new[j] = ParityByte(prank, e + k - 1) => e < t /\ Len(bytes) + j = Slot(w, e, k)

LEMMA ParityGrows ==
    ASSUME FileTypes, FileKept, Sequence(bytes), NEW new, Sequence(new), bytes' = bytes \o new,
           NEW v, NEW u, ParityLaid(v, u), ParityOnly(v, u), NEW w, NEW t,
           AppendsParity(new, v, u, w, t)
    PROVE  ParityLaid(w, t)' /\ ParityOnly(w, t)'
<1>1. /\ Len(bytes) \in Nat /\ Len(new) \in Nat /\ Len(bytes') = Len(bytes) + Len(new)
      /\ \A i \in 1 .. Len(bytes) : bytes'[i] = bytes[i]
      /\ \A i \in 1 .. Len(new) : bytes'[Len(bytes) + i] = new[i]
  BY Joined
<1>2. \A e \in Chunks(paritysize) : actualdatab(paritysize, e) \in Nat
  BY ChunkFacts DEF FileTypes
<1>3. ASSUME NEW e \in Chunks(paritysize), e < t, NEW k \in 1 .. actualdatab(paritysize, e)
      PROVE  Slot(w, e, k) \in 1 .. Len(bytes') /\ bytes'[Slot(w, e, k)] = ParityByte(prank, e + k - 1)
  <2>1. CASE e < u
    <3>1. Slot(w, e, k) = Slot(v, e, k)
      BY <1>2, <2>1 DEF AppendsParity
    <3>2. Slot(v, e, k) \in 1 .. Len(bytes) /\ bytes[Slot(v, e, k)] = ParityByte(prank, e + k - 1)
      BY <2>1 DEF ParityLaid
    <3> QED BY <1>1, <3>1, <3>2
  <2>2. CASE ~(e < u)
    <3>1. PICK j \in 1 .. Len(new) : Slot(w, e, k) = Len(bytes) + j /\ new[j] = ParityByte(prank, e + k - 1)
      BY <1>3, <2>2 DEF AppendsParity
    <3> QED BY <1>1, <3>1
  <2> QED BY <2>1, <2>2
<1>4. ASSUME NEW i \in 1 .. Len(bytes'), NEW e \in Chunks(paritysize), NEW k \in 1 .. actualdatab(paritysize, e),
             bytes'[i] = ParityByte(prank, e + k - 1)
      PROVE  e < t /\ i = Slot(w, e, k)
  <2>1. CASE i \in 1 .. Len(bytes)
    <3>1. e < u /\ i = Slot(v, e, k)
      BY <1>1, <1>4, <2>1 DEF ParityOnly
    <3> QED BY <1>2, <3>1 DEF AppendsParity
  <2>2. CASE i \notin 1 .. Len(bytes)
    <3> DEFINE j == i - Len(bytes)
    <3>1. j \in 1 .. Len(new) /\ i = Len(bytes) + j
      BY <1>1, <2>2
    <3> HIDE DEF j
    <3>2. new[j] = ParityByte(prank, e + k - 1)
      BY <1>1, <1>4, <3>1
    <3> QED BY <3>1, <3>2 DEF AppendsParity
  <2> QED BY <2>1, <2>2
<1> QED BY <1>3, <1>4, ParityLater

LEMMA ValuesLater ==
    ASSUME FileKept
    PROVE  /\ Position(cursor)' = Position(cursor')
           /\ Held(variables)' <=> Held(variables')
           /\ Sequence(bytes)' <=> Sequence(bytes')
           /\ Sequence(xorparity)' <=> Sequence(xorparity')
<1>1. shape' = shape
  BY DEF FileKept
<1>2. Position(cursor)' = Position(cursor')
  BY <1>1 DEF Position, VarStart, Places
<1>3. Held(variables)' <=> Held(variables')
  BY <1>1 DEF Held
<1> QED BY <1>2, <1>3 DEF Sequence

LEMMA TypesStay ==
    ASSUME FileTypes, FileKept, failoffset' \in Int, failoffset' >= -1
    PROVE  FileTypes'
BY FileStays DEF FileTypes

LEMMA FileStart ==
    ASSUME FileInit
    PROVE  FileInv
<1>1. FileTypes
  <2>1. shape \in Shapes /\ pranks \in PartnerGroupSizes /\ paritysize \in ParitySizes
        /\ prank \in 0 .. pranks - 1 /\ failoffset = -1
    BY DEF FileInit
  <2> QED BY <2>1, FileLayoutAssumption DEF FileTypes, Shaped
<1>2. /\ doing = "data" /\ readb = 0 /\ cursor = ListHead
      /\ bytes = <<>> /\ failoffset = -1 /\ variables = Original
  BY DEF FileInit
<1>3. totaldatasize \in Nat \ {0} /\ pranks \in Nat /\ shape \in Seq(Nat) /\ DOMAIN shape # {}
  BY <1>1, SizeFacts DEF FileTypes, Shaped
<1>4. readb \in Chunks(totaldatasize)
  BY <1>2, <1>3, ChunkOrder
<1>5. cursor \in Cursors /\ Position(cursor) = readb
  <2>1. VarStart(1) = 0
    BY <1>1, StartsFacts DEF FileTypes
  <2>2. 1 \in DOMAIN shape
    BY <1>3
  <2> QED BY <1>2, <2>1, <2>2 DEF ListHead, Cursors, Position
<1>6. Sequence(bytes) /\ Len(bytes) = 0
  <2>1. bytes \in Seq({})
    BY <1>2
  <2> QED BY <1>2, <2>1 DEF Sequence
<1>7. Len(bytes) = readb * pranks
  BY <1>2, <1>3, <1>6
<1>8. DataLaid(readb)
  <2>1. \A e \in Chunks(totaldatasize) : ~(e < readb)
    BY <1>2, <1>3 DEF Chunks
  <2> QED BY <2>1 DEF DataLaid
<1>9. ParityOnly(paritysize, 0)
  <2>1. 1 .. Len(bytes) = {}
    BY <1>6
  <2> QED BY <2>1 DEF ParityOnly
<1> QED BY <1>1, <1>2, <1>4, <1>5, <1>6, <1>7, <1>8, <1>9 DEF FileInv, WritesData

\* No chunk of the parity is written before any of it is.
LEMMA NoParityYet ==
    ASSUME FileTypes, NEW e \in Chunks(paritysize)
    PROVE  ~(e < 0)
BY DEF FileTypes, Chunks

LEMMA WriteDataKeeps ==
    ASSUME FileInv, WriteDataChunk
    PROVE  FileInv'
<1> DEFINE T == totaldatasize
<1>1. PICK e, n, s : e = readb /\ n = actualdatab(T, e) /\ s = chunkdatab(T, e)
  OBVIOUS
<1> DEFINE walk == Walk(cursor, n)
           parts == [q \in 0 .. pranks - 1 |->
                        IF q = prank THEN Taken(walk.places) ELSE [k \in 1 .. n |-> Datum(q, e + k)]]
<1>2. PICK new : new = Allgathered(parts, s)
  OBVIOUS
<1>14. /\ doing = "data" /\ pranks >= 2 /\ FileKept /\ failoffset' = failoffset /\ variables' = variables
       /\ bytes' = bytes \o new /\ cursor' = walk.next
       /\ IF e + n < T THEN readb' = e + n /\ doing' = doing ELSE readb' = 0 /\ doing' = "parity"
  BY <1>1, <1>2 DEF WriteDataChunk, FileKept
<1>15. FileTypes /\ WritesData
  BY <1>14 DEF FileInv, WritesParity, ReadsData, ReadsParity, HasRead
<1>3. /\ T \in Nat \ {0} /\ pranks \in Nat \ {0} /\ prank \in 0 .. pranks - 1 /\ paritysize \in Nat \ {0}
      /\ DataEnd = (LastChunk(T) + LastSize) * pranks
  BY <1>15, SizeFacts DEF FileTypes
<1>4. e \in Chunks(T) /\ cursor \in Cursors /\ Position(cursor) = e /\ Sequence(bytes) /\ Len(bytes) = e * pranks
      /\ DataLaid(e) /\ ParityOnly(paritysize, 0) /\ variables = Original /\ failoffset = -1
  BY <1>1, <1>15 DEF WritesData
<1>5. /\ e \in Nat /\ n \in Nat \ {0} /\ s \in Nat \ {0} /\ n <= s /\ e + n <= T
      /\ e + n < T => s = n /\ e + n \in Chunks(T)
      /\ e + n >= T => e = LastChunk(T) /\ e + n = T
  <2> HIDE DEF T
  <2> QED BY <1>1, <1>3, <1>4, ChunkFacts
<1>6. walk.next \in Cursors /\ Position(walk.next) = e + n
      /\ Taken(walk.places) = [k \in 1 .. n |-> At(variables, e + k)]
  <2>1. Shaped
    BY <1>15 DEF FileTypes
  <2>2. /\ cursor \in [var : DOMAIN shape, off : Int] /\ cursor \in Cursors /\ Position(cursor) = e
        /\ e \in Nat /\ n \in Nat /\ e + n <= totaldatasize
    BY <1>4, <1>5 DEF Cursors
  <2>3. walk.next \in [var : DOMAIN shape, off : Int] /\ Position(walk.next) = e + n
    BY <2>1, <2>2, WalkFacts
  <2>4. Taken(walk.places) = [k \in 1 .. n |-> At(variables, e + k)]
    BY <2>1, <2>2, TakenFacts
  <2> QED BY <2>3, <2>4 DEF Cursors
<1>7. \A q \in 0 .. pranks - 1 : parts[q] = [k \in 1 .. n |-> Byte(q, e + k)]
  <2> SUFFICES ASSUME NEW q \in 0 .. pranks - 1
               PROVE  parts[q] = [k \in 1 .. n |-> Byte(q, e + k)]
    OBVIOUS
  <2>1. CASE q = prank
    <3>1. \A k \in 1 .. n : At(variables, e + k) = Byte(q, e + k)
      <4> SUFFICES ASSUME NEW k \in 1 .. n
                   PROVE  At(variables, e + k) = Byte(q, e + k)
        OBVIOUS
      <4>1. e + k \in 1 .. T
        <5> HIDE DEF T
        <5> QED BY <1>3, <1>5
      <4>2. At(Original, e + k) = Datum(prank, PlaceOf(e + k))
        <5> QED BY <1>15, <4>1, OriginalAt DEF FileTypes
      <4> QED BY <1>4, <2>1, <4>2 DEF Byte
    <3> QED BY <1>6, <2>1, <3>1
  <2>2. CASE q # prank
    BY <2>2 DEF Byte
  <2> QED BY <2>1, <2>2
<1> HIDE DEF parts, walk
<1>8. /\ Sequence(new) /\ Len(new) = pranks * s
      /\ \A q \in 0 .. pranks - 1, k \in 1 .. s :
            (q * s) + k \in 1 .. pranks * s /\ new[(q * s) + k] = Padded(parts[q], s)[k]
      /\ \A i \in 1 .. pranks * s : \E q \in 0 .. pranks - 1, k \in 1 .. s : i = (q * s) + k
  <2>1. pranks \in Nat \ {0} /\ s \in Nat \ {0}
    BY <1>3, <1>5
  <2>2. /\ Sequence(Allgathered(parts, s)) /\ Len(Allgathered(parts, s)) = pranks * s
        /\ \A q \in 0 .. pranks - 1, k \in 1 .. s :
             /\ (q * s) + k \in 1 .. pranks * s
             /\ Allgathered(parts, s)[(q * s) + k] = Padded(parts[q], s)[k]
        /\ \A i \in 1 .. pranks * s : \E q \in 0 .. pranks - 1, k \in 1 .. s : i = (q * s) + k
    BY <2>1, GatheredFacts
  <2> QED BY <1>2, <2>2
<1>9. \A q \in 0 .. pranks - 1, k \in 1 .. s : Padded(parts[q], s)[k] = IF k <= n THEN Byte(q, e + k) ELSE Pad
  <2> SUFFICES ASSUME NEW q \in 0 .. pranks - 1, NEW k \in 1 .. s
               PROVE  Padded(parts[q], s)[k] = IF k <= n THEN Byte(q, e + k) ELSE Pad
    OBVIOUS
  <2> DEFINE p == parts[q]
  <2>1. p = [j \in 1 .. n |-> Byte(q, e + j)]
    BY <1>7
  <2> HIDE DEF p
  <2>2. Len(p) = n /\ \A j \in 1 .. n : p[j] = Byte(q, e + j)
    <3>1. DOMAIN p = 1 .. n /\ p = [j \in 1 .. n |-> p[j]]
      BY <2>1
    <3> QED BY <1>5, <2>1, <3>1, Listed
  <2>3. Padded(p, s)[k] = IF k <= Len(p) THEN p[k] ELSE Pad
    BY DEF Padded
  <2>4. k <= n => k \in 1 .. n
    BY <1>5
  <2> QED BY <2>2, <2>3, <2>4 DEF p
<1>10. DataLaid(e + n)'
  <2>1. \A q \in 0 .. pranks - 1, k \in 1 .. n : (q * s) + k \in 1 .. Len(new) /\ new[(q * s) + k] = Byte(q, e + k)
    <3> SUFFICES ASSUME NEW q \in 0 .. pranks - 1, NEW k \in 1 .. n
                 PROVE  (q * s) + k \in 1 .. Len(new) /\ new[(q * s) + k] = Byte(q, e + k)
      OBVIOUS
    <3>1. k \in 1 .. s /\ k <= n
      BY <1>5
    <3> QED BY <1>8, <1>9, <3>1
  <2>2. n = actualdatab(totaldatasize, e) /\ s = chunkdatab(totaldatasize, e)
    BY <1>1
  <2>3. FileTypes /\ FileKept /\ Sequence(bytes) /\ Sequence(new) /\ bytes' = bytes \o new
    BY <1>14, <1>15, <1>4, <1>8
  <2>4. e \in Chunks(totaldatasize) /\ DataLaid(e) /\ Len(bytes) = e * pranks
    BY <1>4
  <2> HIDE DEF T
  <2> QED BY <2>1, <2>2, <2>3, <2>4, DataGrows
<1>11. ParityLaid(paritysize, 0)' /\ ParityOnly(paritysize, 0)'
  <2>1. \A c \in Chunks(paritysize) : ~(c < 0)
    BY <1>15, NoParityYet
  <2>2. ParityLaid(paritysize, 0)
    BY <2>1 DEF ParityLaid
  <2>3. ASSUME NEW j \in 1 .. Len(new), NEW c \in Chunks(paritysize), NEW k \in 1 .. actualdatab(paritysize, c),
               new[j] = ParityByte(prank, c + k - 1)
        PROVE  FALSE
    <3>1. PICK q \in 0 .. pranks - 1, h \in 1 .. s : j = (q * s) + h
      BY <1>8
    <3>2. new[j] = IF h <= n THEN Byte(q, e + h) ELSE Pad
      BY <1>8, <1>9, <3>1
    <3>3. \A i : Byte(q, i) # ParityByte(prank, c + k - 1) /\ Pad # ParityByte(prank, c + k - 1)
      BY BytesApart DEF Byte
    <3> QED BY <2>3, <3>2, <3>3
  <2>4. PICK P : P = paritysize
    OBVIOUS
  <2>5. FileTypes /\ FileKept /\ Sequence(bytes) /\ Sequence(new) /\ bytes' = bytes \o new
    BY <1>14, <1>15, <1>4, <1>8
  <2>6. ParityLaid(P, 0) /\ ParityOnly(P, 0)
    BY <1>4, <2>2, <2>4
  <2>7. ParityLaid(P, 0)' /\ ParityOnly(P, 0)'
    <3>1. AppendsParity(new, P, 0, P, 0)
      BY <2>1, <2>3 DEF AppendsParity
    <3> QED BY <2>5, <2>6, <3>1, ParityGrows
  <2>8. paritysize' = P
    BY <1>14, <2>4, FileStays
  <2> QED BY <2>7, <2>8
<1>12. FileTypes'
  BY <1>14, <1>15, TypesStay DEF FileTypes
<1>13. Sequence(bytes)' /\ Len(bytes') = (e * pranks) + (pranks * s)
  <2>1. Sequence(bytes \o new) /\ Len(bytes \o new) = Len(bytes) + Len(new)
    BY <1>4, <1>8, Joined
  <2> QED BY <1>14, <1>4, <1>8, <2>1, ValuesLater
<1>16. readb' \in Nat /\ (readb' = e + n \/ readb' = 0)
  BY <1>5, <1>14
<1>17. CASE e + n < T
  <2>1. readb' = e + n /\ doing' = "data"
    BY <1>14, <1>17
  <2>2. readb' \in Chunks(totaldatasize)' /\ cursor' \in Cursors' /\ Position(cursor)' = readb'
    BY <1>5, <1>6, <1>14, <1>17, <2>1, FileStays, ValuesLater
  <2>3. Len(bytes') = readb' * pranks'
    <3>1. (e + n) * pranks = (e * pranks) + (pranks * n)
      BY <1>3, <1>5
    <3>2. s = n /\ pranks' = pranks
      BY <1>5, <1>14, <1>17, FileStays
    <3> QED BY <1>13, <2>1, <3>1, <3>2
  <2>4. DataLaid(readb)'
    BY <1>10, <2>1 DEF DataLaid
  <2>5. ParityOnly(paritysize, 0)' /\ (variables = Original)' /\ failoffset' = -1 /\ pranks' # 1
    BY <1>4, <1>11, <1>14, FileStays
  <2>6. WritesData'
    BY <1>13, <2>1, <2>2, <2>3, <2>4, <2>5 DEF WritesData
  <2> QED BY <1>12, <2>6 DEF FileInv
<1>18. CASE ~(e + n < T)
  <2>1. readb' = 0 /\ doing' = "parity"
    BY <1>14, <1>18
  <2>2. e = LastChunk(T) /\ e + n = T
    BY <1>3, <1>5, <1>18
  <2>3. readb' \in Chunks(paritysize)'
    BY <1>3, <1>14, <2>1, ChunkOrder, FileStays
  <2>4. Len(bytes') = DataEnd' + (readb' * pranks')
    <3>1. s = LastSize
      BY <1>1, <2>2 DEF LastSize
    <3>2. DataEnd = (e + s) * pranks
      BY <1>3, <2>2, <3>1
    <3>3. (e + s) * pranks = (e * pranks) + (pranks * s) /\ 0 * pranks = 0 /\ DataEnd \in Nat
      BY <1>3, <1>5, <3>2
    <3>4. DataEnd' = DataEnd /\ pranks' = pranks
      BY <1>14, FileStays
    <3>5. Len(bytes') = DataEnd
      BY <1>13, <3>2, <3>3
    <3> HIDE DEF T
    <3> QED BY <2>1, <3>3, <3>4, <3>5
  <2>5. DataLaid(totaldatasize)'
    <3>1. totaldatasize' = e + n
      BY <1>14, <2>2, FileStays
    <3> QED BY <1>10, <3>1 DEF DataLaid
  <2>6. ParityLaid(paritysize, readb)' /\ ParityOnly(paritysize, readb)'
    BY <1>11, <2>1 DEF ParityLaid, ParityOnly
  <2>7. pranks' # 1 /\ failoffset' = -1
    BY <1>4, <1>14, FileStays
  <2>8. WritesParity'
    BY <1>13, <2>1, <2>3, <2>4, <2>5, <2>6, <2>7 DEF WritesParity
  <2> QED BY <1>12, <2>8 DEF FileInv
<1> QED BY <1>17, <1>18

\* The chunk after the one at e is behind all of its bytes.
LEMMA ChunkAt ==
    ASSUME NEW size \in Nat \ {0}, NEW e \in Chunks(size), NEW c \in Chunks(size), c < e + actualdatab(size, e), ~(c < e)
    PROVE  c = e
<1>1. e \in Nat /\ c \in Nat
  BY DEF Chunks
<1>2. e < c => e + actualdatab(size, e) <= c
  BY ChunkOrder
<1>3. actualdatab(size, e) \in Nat
  BY ChunkFacts
<1> QED BY <1>1, <1>2, <1>3

LEMMA WriteParityKeeps ==
    ASSUME FileInv, WriteParityChunk
    PROVE  FileInv'
<1>1. PICK P, e, n : P = paritysize /\ e = readb /\ n = actualdatab(P, e)
  OBVIOUS
<1> DEFINE parts == [q \in 0 .. pranks - 1 |-> [k \in 1 .. n |-> ParityByte(q, e + k - 1)]]
           D == DataEnd
<1>2. FileTypes /\ WritesParity
  BY DEF FileInv, WritesData, ReadsData, ReadsParity, HasRead, WriteParityChunk
<1>3. /\ e \in Chunks(P) /\ e \in Chunks(paritysize) /\ Sequence(bytes) /\ Len(bytes) = D + (e * pranks) /\ pranks # 1 /\ failoffset = -1
      /\ DataLaid(totaldatasize) /\ ParityLaid(P, e) /\ ParityOnly(P, e)
  BY <1>1, <1>2 DEF WritesParity
<1>4. chunkdatab(P, e) = n
  BY <1>1, <1>2, <1>3, ParityChunk
<1>5. PICK new : new = Allgathered(parts, n)
  OBVIOUS
<1>6. /\ FileKept /\ failoffset' = failoffset /\ bytes' = bytes \o new
      /\ IF e + n < P THEN readb' = e + n /\ doing' = doing ELSE readb' = 0 /\ doing' = "restart"
  BY <1>1, <1>4, <1>5 DEF WriteParityChunk, FileKept
<1>7. P \in Nat \ {0} /\ pranks \in Nat \ {0} /\ prank \in 0 .. pranks - 1 /\ D \in Nat
  BY <1>1, <1>2, SizeFacts DEF FileTypes
<1>8. /\ e \in Nat /\ n \in Nat \ {0} /\ e + n <= P
      /\ e + n < P => e + n \in Chunks(P)
      /\ e + n >= P => e + n = P
  BY <1>1, <1>3, <1>7, ChunkFacts
<1> HIDE DEF D
<1>9. /\ Sequence(new) /\ Len(new) = pranks * n
      /\ \A q \in 0 .. pranks - 1, k \in 1 .. n :
            (q * n) + k \in 1 .. Len(new) /\ new[(q * n) + k] = ParityByte(q, e + k - 1)
      /\ \A i \in 1 .. Len(new) : \E q \in 0 .. pranks - 1, k \in 1 .. n : i = (q * n) + k
  <2>1. \A q \in 0 .. pranks - 1, k \in 1 .. n : Padded(parts[q], n)[k] = ParityByte(q, e + k - 1)
    <3> SUFFICES ASSUME NEW q \in 0 .. pranks - 1, NEW k \in 1 .. n
                 PROVE  Padded(parts[q], n)[k] = ParityByte(q, e + k - 1)
      OBVIOUS
    <3> DEFINE p == parts[q]
    <3>1. p = [j \in 1 .. n |-> ParityByte(q, e + j - 1)]
      OBVIOUS
    <3> HIDE DEF p
    <3>2. Len(p) = n
      <4>1. DOMAIN p = 1 .. n /\ p = [j \in 1 .. n |-> p[j]]
        BY <3>1
      <4> QED BY <1>8, <4>1, Listed
    <3>3. Padded(p, n)[k] = IF k <= Len(p) THEN p[k] ELSE Pad
      BY DEF Padded
    <3> QED BY <1>8, <3>1, <3>2, <3>3 DEF p
  <2> HIDE DEF parts
  <2>2. n \in Nat \ {0} /\ pranks \in Nat \ {0}
    BY <1>7, <1>8
  <2>3. /\ Sequence(Allgathered(parts, n)) /\ Len(Allgathered(parts, n)) = pranks * n
        /\ \A q \in 0 .. pranks - 1, k \in 1 .. n :
             /\ (q * n) + k \in 1 .. pranks * n
             /\ Allgathered(parts, n)[(q * n) + k] = Padded(parts[q], n)[k]
        /\ \A i \in 1 .. pranks * n : \E q \in 0 .. pranks - 1, k \in 1 .. n : i = (q * n) + k
    BY <2>2, GatheredFacts
  <2> QED BY <1>5, <2>1, <2>3
<1> HIDE DEF parts
<1>10. /\ Sequence(bytes') /\ Len(bytes') = D + ((e + n) * pranks)
       /\ (e * pranks) \in Nat /\ (prank * n) \in Nat
  <2>1. Sequence(bytes \o new) /\ Len(bytes \o new) = Len(bytes) + Len(new)
    BY <1>3, <1>9, Joined
  <2>2. (e + n) * pranks = (e * pranks) + (pranks * n) /\ e * pranks \in Nat /\ pranks * n \in Nat /\ prank * n \in Nat
    BY <1>7, <1>8
  <2> QED BY <1>3, <1>6, <1>7, <1>9, <2>1, <2>2
<1>11. DataLaid(totaldatasize)'
  <2>1. PICK T : T = totaldatasize
    OBVIOUS
  <2>2. Len(bytes) >= DataEnd
    BY <1>3, <1>7, <1>10 DEF D
  <2>3. DataLaid(T)'
    BY <1>2, <1>3, <1>6, <1>9, <2>1, <2>2, DataStays
  <2>4. totaldatasize' = T
    BY <1>6, <2>1, FileStays
  <2> QED BY <2>3, <2>4
<1>12. ParityLaid(P, e + n)' /\ ParityOnly(P, e + n)'
  <2>6. PICK t : t = e + n
    OBVIOUS
  <2>1. ASSUME NEW k \in 1 .. n
        PROVE  Slot(P, e, k) = Len(bytes) + ((prank * n) + k)
    <3>1. e < P
      BY <1>7, <1>8
    <3>2. Slot(P, e, k) = D + (e * pranks) + (prank * n) + k
      BY <1>1, <3>1 DEF Slot, D
    <3>3. k \in Int
      OBVIOUS
    <3> DEFINE x == e * pranks
               y == prank * n
    <3>4. x \in Nat /\ y \in Nat
      BY <1>10
    <3> HIDE DEF x, y
    <3>5. D + x + y + k = (D + x) + (y + k)
      BY <1>7, <3>3, <3>4
    <3> QED BY <1>3, <3>2, <3>5 DEF x, y
  <2>2. \A c \in Chunks(paritysize), k \in Nat : c < e => c < t /\ Slot(P, c, k) = Slot(P, c, k)
    BY <1>1, <1>7, <1>8, <2>6 DEF Chunks
  <2>3. \A c \in Chunks(paritysize) : \A k \in 1 .. actualdatab(paritysize, c) : ~(c < e) /\ c < t =>
            \E j \in 1 .. Len(new) : Slot(P, c, k) = Len(bytes) + j /\ new[j] = ParityByte(prank, c + k - 1)
    <3> SUFFICES ASSUME NEW c \in Chunks(paritysize), NEW k \in 1 .. actualdatab(paritysize, c), ~(c < e), c < t
                 PROVE  \E j \in 1 .. Len(new) : Slot(P, c, k) = Len(bytes) + j /\ new[j] = ParityByte(prank, c + k - 1)
      OBVIOUS
    <3>1. c = e
      BY <1>1, <1>3, <1>7, <2>6, ChunkAt
    <3>2. k \in 1 .. n
      BY <1>1, <3>1
    <3>3. (prank * n) + k \in 1 .. Len(new) /\ new[(prank * n) + k] = ParityByte(prank, e + k - 1)
      BY <1>7, <1>9, <3>2
    <3> QED BY <2>1, <3>1, <3>2, <3>3
  <2>4. \A j \in 1 .. Len(new) : \A c \in Chunks(paritysize) : \A k \in 1 .. actualdatab(paritysize, c) :
            new[j] = ParityByte(prank, c + k - 1) => c < t /\ Len(bytes) + j = Slot(P, c, k)
    <3> SUFFICES ASSUME NEW j \in 1 .. Len(new), NEW c \in Chunks(paritysize), NEW k \in 1 .. actualdatab(paritysize, c),
                        new[j] = ParityByte(prank, c + k - 1)
                 PROVE  c < t /\ Len(bytes) + j = Slot(P, c, k)
      OBVIOUS
    <3>1. PICK q \in 0 .. pranks - 1, h \in 1 .. n : j = (q * n) + h
      BY <1>9
    <3>2. new[j] = ParityByte(q, e + h - 1)
      BY <1>9, <3>1
    <3>3. q = prank /\ e + h - 1 = c + k - 1
      BY <3>2, BytesApart
    <3>4. c \in Nat /\ k \in Int
      BY <1>1, <1>7 DEF Chunks
    <3>5. e + h = c + k
      BY <1>8, <3>3, <3>4
    <3>6. e = c /\ h = k
      <4>1. h \in 1 .. actualdatab(paritysize, e)
        BY <1>1
      <4> QED BY <1>1, <1>3, <1>7, <3>5, <4>1, OneChunk
    <3>7. Len(bytes) + j = Slot(P, e, h)
      BY <2>1, <3>1, <3>3
    <3>8. c < t
      BY <1>8, <2>6, <3>6
    <3> QED BY <3>6, <3>7, <3>8
  <2>5. FileTypes /\ FileKept /\ Sequence(bytes) /\ Sequence(new) /\ bytes' = bytes \o new /\ ParityLaid(P, e) /\ ParityOnly(P, e)
    BY <1>2, <1>3, <1>6, <1>9
  <2>7. ParityLaid(P, t)' /\ ParityOnly(P, t)'
    <3>1. AppendsParity(new, P, e, P, t)
      BY <2>2, <2>3, <2>4 DEF AppendsParity
    <3> QED BY <2>5, <3>1, ParityGrows
  <2> QED BY <2>6, <2>7
<1>13. FileTypes' /\ pranks' = pranks /\ paritysize' = P /\ DataEnd' = D /\ totaldatasize' = totaldatasize
       /\ Chunks(paritysize)' = Chunks(P) /\ failoffset' = -1
  BY <1>1, <1>2, <1>3, <1>6, FileStays, TypesStay DEF FileTypes, D
<1>14. CASE e + n < P
  <2>1. readb' = e + n /\ doing' = "parity" /\ readb' \in Chunks(P)
    BY <1>2, <1>6, <1>8, <1>14 DEF WritesParity
  <2>2. ParityLaid(paritysize, readb)' /\ ParityOnly(paritysize, readb)'
    BY <1>12, <1>13, <2>1
  <2>3. Len(bytes') = DataEnd' + (readb' * pranks') /\ Sequence(bytes)' /\ pranks' # 1 /\ readb' \in Chunks(paritysize)'
    BY <1>3, <1>6, <1>10, <1>13, <2>1, ValuesLater
  <2>4. WritesParity'
    BY <1>11, <1>13, <2>1, <2>2, <2>3 DEF WritesParity
  <2> QED BY <1>13, <2>4 DEF FileInv
<1>15. CASE ~(e + n < P)
  <2>1. doing' = "restart" /\ e + n = P
    BY <1>6, <1>7, <1>8, <1>15
  <2>2. ParityLaid(P, paritysize)' /\ ParityOnly(P, paritysize)'
    BY <1>12, <1>13, <2>1
  <2>3. Len(bytes') = TailStart(P)' + (paritysize' - P)
    <3>1. TailStart(P)' = D + (P * pranks)
      BY <1>3, <1>13 DEF TailStart
    <3>2. P * pranks \in Nat /\ P - P = 0
      BY <1>7
    <3> QED BY <1>7, <1>10, <1>13, <2>1, <3>1, <3>2
  <2>4. FileIs(P)'
    BY <1>3, <1>6, <1>10, <1>11, <1>13, <2>2, <2>3, ValuesLater DEF FileIs
  <2>5. P \in 0 .. paritysize'
    BY <1>7, <1>13
  <2> QED BY <1>13, <2>1, <2>4, <2>5 DEF FileInv
<1> QED BY <1>14, <1>15

LEMMA WriteParityFailKeeps ==
    ASSUME FileInv, WriteParityFails
    PROVE  FileInv'
<1>1. PICK P, w, new : P = paritysize /\ w = readb /\ new = OwnParity(w, P - w)
  OBVIOUS
<1> DEFINE D == DataEnd
           x == w * pranks
           r == P - w
<1>2. FileTypes /\ WritesParity
  BY DEF FileInv, WritesData, ReadsData, ReadsParity, HasRead, WriteParityFails
<1>3. /\ w \in Chunks(P) /\ w \in Chunks(paritysize) /\ Sequence(bytes) /\ Len(bytes) = D + x /\ pranks # 1 /\ failoffset = -1
      /\ DataLaid(totaldatasize) /\ ParityLaid(P, w) /\ ParityOnly(P, w)
  BY <1>1, <1>2 DEF WritesParity
<1>4. FileKept /\ failoffset' = Len(bytes) /\ bytes' = bytes \o new /\ doing' = "restart"
  BY <1>1 DEF WriteParityFails, FileKept
<1>5. P \in Nat \ {0} /\ pranks \in Nat \ {0} /\ D \in Nat
  BY <1>1, <1>2, SizeFacts DEF FileTypes
<1>6. w \in Nat /\ w < P /\ r \in Nat /\ x \in Nat
  BY <1>3, <1>5 DEF Chunks
<1>7. Sequence(new) /\ Len(new) = r /\ \A j \in 1 .. r : new[j] = ParityByte(prank, w + j - 1)
  <2>1. DOMAIN new = 1 .. r /\ new = [j \in 1 .. r |-> new[j]] /\ \A j \in 1 .. r : new[j] = ParityByte(prank, w + j - 1)
    BY <1>1 DEF OwnParity
  <2> HIDE DEF r
  <2> QED BY <1>6, <2>1, Listed
<1> HIDE DEF D, x, r
<1>8. TailStart(w) = D + x
  BY <1>3 DEF TailStart, D, x
<1>9. r = P - w
  BY DEF r
<1>10. Sequence(bytes') /\ Len(bytes') = TailStart(w) + (P - w)
  <2>1. Sequence(bytes \o new) /\ Len(bytes \o new) = Len(bytes) + Len(new)
    BY <1>3, <1>7, Joined
  <2> QED BY <1>3, <1>4, <1>7, <1>8, <1>9, <2>1
<1>11. DataLaid(totaldatasize)'
  <2>1. PICK T : T = totaldatasize
    OBVIOUS
  <2>2. Len(bytes) >= DataEnd
    BY <1>3, <1>5, <1>6 DEF D
  <2>3. DataLaid(T)'
    BY <1>2, <1>3, <1>4, <1>7, <2>1, <2>2, DataStays
  <2>4. totaldatasize' = T
    BY <1>4, <2>1, FileStays
  <2> QED BY <2>3, <2>4
<1>12. ParityLaid(w, P)' /\ ParityOnly(w, P)'
  <2>1. \A c \in Chunks(paritysize) : c \in Nat /\ c < P /\ actualdatab(paritysize, c) \in Nat /\ c + actualdatab(paritysize, c) <= P
    BY <1>1, <1>5, ChunkFacts DEF Chunks
  <2>2. \A c \in Chunks(paritysize), k \in Nat : c < w => c < P /\ Slot(w, c, k) = Slot(P, c, k)
    BY <2>1 DEF Slot
  <2>3. \A c \in Chunks(paritysize) : \A k \in 1 .. actualdatab(paritysize, c) : ~(c < w) /\ c < P =>
            \E j \in 1 .. Len(new) : Slot(w, c, k) = Len(bytes) + j /\ new[j] = ParityByte(prank, c + k - 1)
    <3> SUFFICES ASSUME NEW c \in Chunks(paritysize), NEW k \in 1 .. actualdatab(paritysize, c), ~(c < w), c < P
                 PROVE  \E j \in 1 .. Len(new) : Slot(w, c, k) = Len(bytes) + j /\ new[j] = ParityByte(prank, c + k - 1)
      OBVIOUS
    <3> DEFINE j == (c - w) + k
    <3>1. c \in Nat /\ k \in Nat /\ k >= 1 /\ c + k <= P
      <4> DEFINE n == actualdatab(paritysize, c)
      <4>1. c \in Nat /\ n \in Nat /\ c + n <= P /\ k \in 1 .. n
        BY <2>1
      <4> HIDE DEF n
      <4> QED BY <1>5, <4>1
    <3>2. j \in 1 .. r /\ w + j - 1 = c + k - 1
      BY <1>5, <1>6, <1>9, <3>1
    <3>3. Slot(w, c, k) = TailStart(w) + (c - w) + k
      BY DEF Slot
    <3>4. Slot(w, c, k) = Len(bytes) + j
      BY <1>3, <1>5, <1>6, <1>8, <3>1, <3>3
    <3> HIDE DEF j
    <3> QED BY <1>7, <3>2, <3>4
  <2>4. \A j \in 1 .. Len(new) : \A c \in Chunks(paritysize) : \A k \in 1 .. actualdatab(paritysize, c) :
            new[j] = ParityByte(prank, c + k - 1) => c < P /\ Len(bytes) + j = Slot(w, c, k)
    <3> SUFFICES ASSUME NEW j \in 1 .. Len(new), NEW c \in Chunks(paritysize), NEW k \in 1 .. actualdatab(paritysize, c),
                        new[j] = ParityByte(prank, c + k - 1)
                 PROVE  c < P /\ Len(bytes) + j = Slot(w, c, k)
      OBVIOUS
    <3>1. j \in Nat /\ j >= 1 /\ k \in Nat /\ k <= actualdatab(paritysize, c)
      BY <1>6, <1>7, <2>1
    <3>2. w + j - 1 = c + k - 1
      <4>1. ParityByte(prank, w + j - 1) = ParityByte(prank, c + k - 1)
        BY <1>7
      <4> QED BY <4>1, BytesApart
    <3>3. ~(c < w)
      <4> SUFFICES ASSUME c < w
                   PROVE  FALSE
        OBVIOUS
      <4>1. c + actualdatab(paritysize, c) <= w
        BY <1>1, <1>3, <1>5, ChunkOrder
      <4> QED BY <1>6, <2>1, <3>1, <3>2, <4>1
    <3>4. Slot(w, c, k) = TailStart(w) + (c - w) + k
      BY <3>3 DEF Slot
    <3> QED BY <1>3, <1>5, <1>6, <1>8, <2>1, <3>1, <3>2, <3>4
  <2>5. FileTypes /\ FileKept /\ Sequence(bytes) /\ Sequence(new) /\ bytes' = bytes \o new /\ ParityLaid(P, w) /\ ParityOnly(P, w)
    BY <1>2, <1>3, <1>4, <1>7
  <2>6. AppendsParity(new, P, w, w, P)
    BY <2>2, <2>3, <2>4 DEF AppendsParity
  <2> QED BY <2>5, <2>6, ParityGrows
<1>13. failoffset' \in Int /\ failoffset' >= -1
  BY <1>3, <1>4, <1>5, <1>6
<1>14. FileTypes' /\ pranks' = pranks /\ paritysize' = P /\ Chunks(paritysize)' = Chunks(P) /\ TailStart(w)' = TailStart(w)
  BY <1>1, <1>2, <1>4, <1>13, FileStays, TypesStay
<1>15. FileIs(w)'
  <2>1. ParityLaid(w, paritysize)' /\ ParityOnly(w, paritysize)'
    BY <1>12, <1>14
  <2> QED BY <1>3, <1>4, <1>8, <1>10, <1>11, <1>14, <2>1, ValuesLater DEF FileIs
<1>16. w \in 0 .. paritysize'
  BY <1>5, <1>6, <1>14
<1> QED BY <1>4, <1>14, <1>15, <1>16 DEF FileInv

LEMMA WriteAloneKeeps ==
    ASSUME FileInv, WriteAlone
    PROVE  FileInv'
<1>1. PICK P, T, data, own : P = paritysize /\ T = totaldatasize /\ data = Taken(Walk(ListHead, T).places) /\ own = OwnParity(0, P)
  OBVIOUS
<1>2. FileTypes /\ WritesData
  BY DEF FileInv, WritesParity, ReadsData, ReadsParity, HasRead, WriteAlone
<1>3. FileKept /\ pranks = 1 /\ failoffset' = failoffset /\ bytes' = data \o own /\ doing' = "restart"
  BY <1>1 DEF WriteAlone, FileKept
<1>4. P \in Nat \ {0} /\ T \in Nat \ {0} /\ prank = 0 /\ failoffset = -1 /\ variables = Original /\ Shaped
  BY <1>1, <1>2, <1>3, SizeFacts DEF FileTypes, WritesData
<1>5. Sequence(data) /\ Len(data) = T /\ \A i \in 1 .. T : data[i] = Datum(prank, PlaceOf(i))
  <2>1. ListHead \in Cursors /\ Position(ListHead) = 0
    <3>1. VarStart(1) = 0 /\ 1 \in DOMAIN shape
      BY <1>4, StartsFacts DEF Shaped
    <3> QED BY <3>1 DEF ListHead, Cursors, Position
  <2>2. data = [i \in 1 .. T |-> At(variables, 0 + i)]
    <3>1. 0 \in Nat /\ T \in Nat /\ 0 + T <= totaldatasize
      BY <1>1, <1>4
    <3> QED BY <1>1, <1>4, <2>1, <3>1, TakenFacts
  <2>3. \A i \in 1 .. T : data[i] = Datum(prank, PlaceOf(i))
    <3> SUFFICES ASSUME NEW i \in 1 .. T
                 PROVE  data[i] = Datum(prank, PlaceOf(i))
      OBVIOUS
    <3>1. data[i] = At(variables, 0 + i) /\ 0 + i = i
      BY <2>2
    <3>2. At(Original, i) = Datum(prank, PlaceOf(i))
      BY <1>1, <1>4, OriginalAt
    <3> QED BY <1>4, <3>1, <3>2
  <2>4. DOMAIN data = 1 .. T /\ data = [i \in 1 .. T |-> data[i]]
    BY <2>2
  <2> QED BY <1>4, <2>3, <2>4, Listed
<1>6. Sequence(own) /\ Len(own) = P /\ \A j \in 1 .. P : own[j] = ParityByte(prank, j - 1)
  <2>1. DOMAIN own = 1 .. P /\ own = [j \in 1 .. P |-> own[j]] /\ \A j \in 1 .. P : own[j] = ParityByte(prank, 0 + j - 1)
    BY <1>1 DEF OwnParity
  <2>2. Sequence(own) /\ Len(own) = P
    BY <1>4, <2>1, Listed
  <2>3. \A j \in 1 .. P : 0 + j - 1 = j - 1
    BY <1>4
  <2> QED BY <2>1, <2>2, <2>3
<1>7. /\ Sequence(bytes') /\ Len(bytes') = T + P
      /\ \A i \in 1 .. T : bytes'[i] = Datum(prank, PlaceOf(i))
      /\ \A j \in 1 .. P : bytes'[T + j] = ParityByte(prank, j - 1)
  <2>1. /\ Sequence(data \o own) /\ Len(data \o own) = T + P
        /\ \A i \in 1 .. T : (data \o own)[i] = data[i]
        /\ \A j \in 1 .. P : (data \o own)[T + j] = own[j]
    BY <1>5, <1>6, Joined
  <2> QED BY <1>3, <1>5, <1>6, <2>1
<1>8. DataLaid(totaldatasize)'
  <2>1. ASSUME NEW e \in Chunks(totaldatasize), NEW q \in 0 .. pranks - 1, NEW k \in 1 .. actualdatab(totaldatasize, e)
        PROVE  bytes'[(e * pranks) + (q * chunkdatab(totaldatasize, e)) + k] = Byte(q, e + k)
    <3>1. (e * pranks) + (q * chunkdatab(totaldatasize, e)) + k = e + k
      BY <1>2, <1>3, DataSlots
    <3>2. e + k \in 1 .. T
      <4>1. e \in Nat /\ actualdatab(totaldatasize, e) \in Nat /\ e + actualdatab(totaldatasize, e) <= T
        BY <1>1, <1>4, ChunkFacts
      <4> QED BY <1>4, <4>1
    <3>3. q = prank
      BY <1>3, <1>4
    <3> QED BY <1>7, <3>1, <3>2, <3>3 DEF Byte
  <2>2. PICK u : u = totaldatasize
    OBVIOUS
  <2>3. DataLaid(u)'
    BY <1>3, <2>1, DataLaidLater
  <2>4. totaldatasize' = u
    BY <1>3, <2>2, FileStays
  <2> QED BY <2>3, <2>4
<1>9. \A c \in Chunks(paritysize), k \in Int : c \in Nat /\ c < P /\ Slot(0, c, k) = T + c + k
  <2> SUFFICES ASSUME NEW c \in Chunks(paritysize), NEW k \in Int
               PROVE  c \in Nat /\ c < P /\ Slot(0, c, k) = T + c + k
    OBVIOUS
  <2>1. c \in Nat /\ c < P
    BY <1>1, <1>4 DEF Chunks
  <2>2. Slot(0, c, k) = T + (c - 0) + k
    BY <1>1, <1>3, <2>1 DEF Slot, TailStart
  <2> QED BY <1>4, <2>1, <2>2
<1>10. \A c \in Chunks(paritysize) : actualdatab(paritysize, c) \in Nat /\ c + actualdatab(paritysize, c) <= P
  BY <1>1, <1>4, ChunkFacts
<1>11. ParityLaid(0, P)' /\ ParityOnly(0, P)'
  <2>1. ASSUME NEW c \in Chunks(paritysize), NEW k \in 1 .. actualdatab(paritysize, c)
        PROVE  Slot(0, c, k) \in 1 .. Len(bytes') /\ bytes'[Slot(0, c, k)] = ParityByte(prank, c + k - 1)
    <3> DEFINE j == c + k
               n == actualdatab(paritysize, c)
    <3>1. c \in Nat /\ n \in Nat /\ c + n <= P /\ k \in 1 .. n /\ Slot(0, c, k) = T + c + k
      BY <1>9, <1>10
    <3> HIDE DEF n
    <3>2. j \in 1 .. P /\ Slot(0, c, k) = T + j
      BY <1>4, <3>1
    <3> HIDE DEF j
    <3>3. T + j \in 1 .. Len(bytes') /\ bytes'[T + j] = ParityByte(prank, j - 1)
      BY <1>4, <1>7, <3>2
    <3>4. j - 1 = c + k - 1
      <4>1. k \in Int
        BY <3>1
      <4> QED BY <3>1, <4>1 DEF j
    <3> QED BY <3>2, <3>3, <3>4
  <2>2. ASSUME NEW i \in 1 .. Len(bytes'), NEW c \in Chunks(paritysize), NEW k \in 1 .. actualdatab(paritysize, c),
               bytes'[i] = ParityByte(prank, c + k - 1)
        PROVE  c < P /\ i = Slot(0, c, k)
    <3>1. i \notin 1 .. T
      BY <1>7, <2>2, BytesApart
    <3> DEFINE j == i - T
    <3>2. j \in 1 .. P /\ i = T + j
      BY <1>4, <1>7, <3>1
    <3> HIDE DEF j
    <3>3. ParityByte(prank, j - 1) = ParityByte(prank, c + k - 1)
      BY <1>7, <2>2, <3>2
    <3>4. j - 1 = c + k - 1
      BY <3>3, BytesApart
    <3>5. k \in Int /\ c \in Nat
      BY <1>9
    <3> QED BY <1>4, <1>9, <3>2, <3>4, <3>5
  <2> QED BY <1>3, <2>1, <2>2, ParityLater
<1>12. FileTypes' /\ pranks' = 1 /\ paritysize' = P /\ Chunks(paritysize)' = Chunks(P) /\ TailStart(0)' = T
  <2>1. TailStart(0) = T
    BY <1>1, <1>3 DEF TailStart
  <2> QED BY <1>1, <1>2, <1>3, <1>4, <2>1, FileStays, TypesStay
<1>13. FileIs(0)'
  <2>1. ParityLaid(0, paritysize)' /\ ParityOnly(0, paritysize)'
    BY <1>11, <1>12
  <2>2. 0 \in Chunks(P) /\ P - 0 = P
    BY <1>4, ChunkOrder
  <2> QED BY <1>3, <1>7, <1>8, <1>12, <2>1, <2>2, ValuesLater DEF FileIs
<1>14. 0 \in 0 .. paritysize'
  BY <1>4, <1>12
<1> QED BY <1>3, <1>12, <1>13, <1>14 DEF FileInv

-----------------------------------------------------------------------------
(* Reading the data back.                                                  *)

\* A finished file stays what it is; a failoffset may be taken over where none is set.
LEMMA FileIsStays ==
    ASSUME FileTypes, FileKept, bytes' = bytes, failoffset' = failoffset \/ failoffset = -1, NEW w, FileIs(w)
    PROVE  FileIs(w)'
<1>1. /\ pranks' = pranks /\ paritysize' = paritysize /\ Chunks(paritysize)' = Chunks(paritysize)
      /\ TailStart(w)' = TailStart(w) /\ totaldatasize' = totaldatasize
  BY FileStays
<1>2. PICK P, T : P = paritysize /\ T = totaldatasize
  OBVIOUS
<1>3. DataLaid(T)'
  BY <1>2, DataLaidLater DEF FileIs, DataLaid
<1>4. ParityLaid(w, P)' /\ ParityOnly(w, P)'
  <2>1. ParityLaid(w, P) /\ ParityOnly(w, P)
    BY <1>2 DEF FileIs
  <2>2. ParityLaid(w, P)'
    BY <2>1, ParityLater DEF ParityLaid
  <2>3. ParityOnly(w, P)'
    <3>1. \A i \in 1 .. Len(bytes') : \A e \in Chunks(paritysize) : \A k \in 1 .. actualdatab(paritysize, e) :
              bytes'[i] = ParityByte(prank, e + k - 1) => e < P /\ i = Slot(w, e, k)
      BY <2>1 DEF ParityOnly
    <3> QED BY <3>1, ParityLater
  <2> QED BY <2>2, <2>3
<1>5. pranks # 1 /\ w # paritysize => failoffset' = TailStart(w)
  <2> SUFFICES ASSUME pranks # 1, w # paritysize
               PROVE  failoffset' = TailStart(w)
    OBVIOUS
  <2>1. failoffset = TailStart(w)
    BY DEF FileIs
  <2>2. TailStart(w) \in Nat
    <3>1. w \in Nat /\ pranks \in Nat /\ DataEnd \in Nat
      BY SizeFacts DEF FileIs, FileTypes, Chunks
    <3>2. w * pranks \in Nat
      BY <3>1
    <3> QED BY <3>1, <3>2 DEF TailStart
  <2> QED BY <2>1, <2>2
<1>6. DataLaid(totaldatasize)' /\ ParityLaid(w, paritysize)' /\ ParityOnly(w, paritysize)'
  BY <1>1, <1>2, <1>3, <1>4
<1> QED BY <1>1, <1>5, <1>6, ValuesLater DEF FileIs

LEMMA GotDataLater ==
    ASSUME FileKept, NEW u
    PROVE  GotData(u)' <=>
           \A e \in Chunks(totaldatasize) : e < u =>
                \A k \in 1 .. actualdatab(totaldatasize, e) :
                    At(variables', e + k) = Byte(IF failoffset' >= 0 /\ e * pranks > failoffset' THEN 0 ELSE prank, e + k)
<1>1. /\ pranks' = pranks /\ prank' = prank /\ totaldatasize' = totaldatasize
      /\ Chunks(totaldatasize)' = Chunks(totaldatasize)
      /\ \A q, i : Byte(q, i)' = Byte(q, i)
      /\ \A i : PlaceOf(i)' = PlaceOf(i)
  BY FileStays
<1> QED BY <1>1 DEF GotData, At, Hid

LEMMA RestartKeeps ==
    ASSUME FileInv, Restart
    PROVE  FileInv'
<1>1. /\ doing = "restart" /\ FileKept /\ bytes' = bytes
      /\ readb' = 0 /\ base' = 0 /\ cursor' = ListHead /\ xorparity' = <<>>
      /\ variables' = [v \in DOMAIN shape |-> [k \in 1 .. shape[v] |-> Blank]]
      /\ \/ doing' = "loaddata" /\ (IF failoffset = -1 THEN failoffset' \in -1 .. Len(bytes) ELSE failoffset' = failoffset)
         \/ doing' = "recvdata" /\ pranks >= 2 /\ failoffset = -1 /\ failoffset' = failoffset
  BY DEF Restart, FileKept
<1>2. PICK w \in 0 .. paritysize : FileIs(w)
  BY <1>1 DEF FileInv, WritesData, WritesParity
<1>3. FileTypes
  BY DEF FileInv
<1>4. failoffset' \in Int /\ failoffset' >= -1
  BY <1>1, <1>3 DEF FileTypes
<1>5. FileTypes' /\ FileIs(w)' /\ paritysize' = paritysize /\ pranks' = pranks
  BY <1>1, <1>2, <1>3, <1>4, TypesStay, FileIsStays, FileStays
<1>6. totaldatasize \in Nat \ {0} /\ Shaped /\ pranks \in Nat
  BY <1>3, SizeFacts DEF FileTypes
<1>7. Held(variables)'
  BY <1>1, ValuesLater DEF Held
<1>8. ListHead \in Cursors /\ Position(ListHead) = 0
  <2>1. VarStart(1) = 0 /\ 1 \in DOMAIN shape
    BY <1>6, StartsFacts DEF Shaped
  <2> QED BY <2>1 DEF ListHead, Cursors, Position
<1>9. cursor' \in Cursors' /\ Position(cursor)' = readb'
  BY <1>1, <1>8, FileStays, ValuesLater
<1>10. readb' \in Chunks(totaldatasize)'
  BY <1>1, <1>6, ChunkOrder, FileStays
<1>11. GotData(readb)'
  <2>1. \A e \in Chunks(totaldatasize) : ~(e < 0)
    BY <1>6 DEF Chunks
  <2>2. GotData(0)'
    BY <1>1, <2>1, GotDataLater
  <2> QED BY <1>1, <2>2 DEF GotData
<1>12. \/ doing' = "loaddata" /\ base' = 0
       \/ doing' = "recvdata" /\ pranks' # 1 /\ failoffset' = -1 /\ base' = readb' * pranks'
  <2>1. 0 * pranks = 0 /\ (pranks >= 2 => pranks # 1)
    BY <1>6
  <2> QED BY <1>1, <1>5, <2>1
<1>13. ReadsData'
  BY <1>1, <1>7, <1>9, <1>10, <1>11, <1>12 DEF ReadsData
<1> QED BY <1>2, <1>5, <1>13 DEF FileInv

LEMMA ReadFacts ==
    ASSUME NEW o \in Nat, NEW n \in Nat, Len(bytes) \in Nat
    PROVE  /\ o <= Len(bytes) => Sequence(ReadAt(o, n)) /\ Len(ReadAt(o, n)) = Least(n, Len(bytes) - o)
           /\ \A k \in 1 .. n : o + k <= Len(bytes) => ReadAt(o, n)[k] = bytes[o + k]
           /\ Len(bytes) <= o => Sequence(ReadAt(o, n)) /\ Len(ReadAt(o, n)) = 0
<1> DEFINE L == Least(n, Len(bytes) - o)
           read == ReadAt(o, n)
<1>1. L \in Int /\ (L = n \/ L = Len(bytes) - o) /\ L <= n /\ L <= Len(bytes) - o
  <2>1. Len(bytes) - o \in Int /\ n \in Int
    OBVIOUS
  <2> QED BY <2>1, LeastFacts
<1>2. read = [k \in 1 .. L |-> bytes[o + k]]
  BY DEF ReadAt
<1> HIDE DEF L
<1>3. DOMAIN read = 1 .. L /\ read = [k \in 1 .. L |-> read[k]]
  BY <1>2
<1>4. ASSUME o <= Len(bytes)
      PROVE  Sequence(read) /\ Len(read) = L
  <2>1. L \in Nat
    BY <1>1, <1>4
  <2> HIDE DEF read
  <2> QED BY <1>3, <2>1, Listed
<1>5. ASSUME NEW k \in 1 .. n, o + k <= Len(bytes)
      PROVE  read[k] = bytes[o + k]
  <2>1. k \in 1 .. L
    BY <1>1, <1>5
  <2> QED BY <1>2, <2>1
<1>6. ASSUME Len(bytes) <= o
      PROVE  Sequence(read) /\ Len(read) = 0
  <2>1. 1 .. L = 1 .. 0
    BY <1>1, <1>6
  <2>2. DOMAIN read = 1 .. 0 /\ read = [k \in 1 .. 0 |-> read[k]]
    BY <1>3, <2>1
  <2> HIDE DEF read
  <2> QED BY <2>2, Listed
<1> QED BY <1>4, <1>5, <1>6 DEF L

\* Where the part of member q of a chunk of the data starts.
PartAt(e, q) == (e * pranks) + (q * chunkdatab(totaldatasize, e))

LEMMA ReadsBack ==
    ASSUME FileTypes, NEW w, FileIs(w), NEW e \in Chunks(totaldatasize), NEW q \in 0 .. pranks - 1,
           NEW n, n = actualdatab(totaldatasize, e), NEW o, o = PartAt(e, q)
    PROVE  /\ Sequence(ReadAt(o, n)) /\ Len(ReadAt(o, n)) = n
           /\ \A k \in 1 .. n : ReadAt(o, n)[k] = Byte(q, e + k)
<1>1. totaldatasize \in Nat \ {0} /\ pranks \in Nat \ {0} /\ DataEnd \in Nat /\ paritysize \in Nat
  BY SizeFacts DEF FileTypes
<1> DEFINE s == chunkdatab(totaldatasize, e)
<1>2. e \in Nat /\ n \in Nat \ {0} /\ s \in Nat /\ e + n <= totaldatasize
  BY <1>1, ChunkFacts
<1> HIDE DEF s
<1>3. o \in Nat
  <2>1. e * pranks \in Nat /\ q * s \in Nat
    BY <1>1, <1>2
  <2> QED BY <2>1 DEF PartAt, s
<1>4. w \in Nat /\ w <= paritysize /\ Len(bytes) \in Nat
      /\ (IF pranks = 1 THEN totaldatasize ELSE DataEnd) <= Len(bytes)
  <2>1. w \in Nat /\ w <= paritysize
    BY <1>1 DEF FileIs, Chunks
  <2>2. w * pranks \in Nat
    BY <1>1, <2>1
  <2>3. Len(bytes) = TailStart(w) + (paritysize - w)
    BY DEF FileIs
  <2> QED BY <1>1, <2>1, <2>2, <2>3 DEF TailStart
<1>5. \A k \in 1 .. n : o + k <= Len(bytes)
  <2> SUFFICES ASSUME NEW k \in 1 .. n
               PROVE  o + k <= Len(bytes)
    OBVIOUS
  <2>1. o + k \in 1 .. DataEnd /\ (pranks = 1 => o + k = e + k)
    <3>1. k \in 1 .. actualdatab(totaldatasize, e)
      OBVIOUS
    <3>2. (e * pranks) + (q * s) + k \in 1 .. DataEnd /\ (pranks = 1 => (e * pranks) + (q * s) + k = e + k)
      BY <3>1, DataSlots DEF s
    <3>3. o + k = (e * pranks) + (q * s) + k
      BY DEF PartAt, s
    <3> QED BY <3>2, <3>3
  <2>2. CASE pranks = 1
    BY <1>1, <1>2, <1>3, <1>4, <2>1, <2>2
  <2>3. CASE pranks # 1
    BY <1>1, <1>3, <1>4, <2>1, <2>3
  <2> QED BY <2>2, <2>3
<1>6. o + n <= Len(bytes)
  BY <1>2, <1>5
<1>7. Sequence(ReadAt(o, n)) /\ Len(ReadAt(o, n)) = n /\ \A k \in 1 .. n : ReadAt(o, n)[k] = bytes[o + k]
  <2>1. n <= Len(bytes) - o /\ o <= Len(bytes)
    BY <1>2, <1>3, <1>4, <1>6
  <2>2. Least(n, Len(bytes) - o) = n
    BY <2>1 DEF Least
  <2>3. n \in Nat
    BY <1>2
  <2> QED BY <1>3, <1>4, <1>5, <2>1, <2>2, <2>3, ReadFacts
<1>8. ASSUME NEW k \in 1 .. n
      PROVE  ReadAt(o, n)[k] = Byte(q, e + k)
  <2>1. e < totaldatasize
    BY <1>1 DEF Chunks
  <2>2. bytes[(e * pranks) + (q * s) + k] = Byte(q, e + k)
    BY <2>1 DEF FileIs, DataLaid, s
  <2>3. o + k = (e * pranks) + (q * s) + k
    BY DEF PartAt, s
  <2> QED BY <1>7, <2>2, <2>3
<1> QED BY <1>7, <1>8

\* Reading changes nothing of the file.
FileRead == FileKept /\ UNCHANGED <<bytes, failoffset>>

LEMMA ReadStays ==
    ASSUME FileTypes, FileRead, NEW w, FileIs(w)
    PROVE  /\ FileTypes' /\ FileIs(w)' /\ DataBase' = DataBase
           /\ pranks' = pranks /\ paritysize' = paritysize /\ totaldatasize' = totaldatasize
           /\ Chunks(totaldatasize)' = Chunks(totaldatasize) /\ Chunks(paritysize)' = Chunks(paritysize)
           /\ failoffset' = failoffset
           /\ ParityFound' = ParityFound
           /\ Cursors' = Cursors /\ DataEnd' = DataEnd /\ Len(bytes)' = Len(bytes)
<1>1. FileKept /\ bytes' = bytes /\ failoffset' = failoffset
  BY DEF FileRead
<1>2. /\ pranks' = pranks /\ prank' = prank /\ paritysize' = paritysize /\ totaldatasize' = totaldatasize
      /\ Chunks(totaldatasize)' = Chunks(totaldatasize) /\ Chunks(paritysize)' = Chunks(paritysize)
      /\ DataEnd' = DataEnd /\ LastSize' = LastSize /\ Cursors' = Cursors
  BY <1>1, FileStays
<1>3. DataBase' = DataBase
  BY <1>1, <1>2 DEF DataBase, Hid, LastChunk
<1>4. ParityFound' = ParityFound
  BY <1>1, <1>2 DEF ParityFound, WholeParityFound, OwnParityHit, LastChunk
<1>5. FileTypes' /\ FileIs(w)'
  BY <1>1, FileIsStays, TypesStay DEF FileTypes
<1> QED BY <1>1, <1>2, <1>3, <1>4, <1>5

\* The next chunk of the data, put behind what was read.
LEMMA DataGot ==
    ASSUME FileTypes, FileRead, NEW w, FileIs(w), NEW e \in Chunks(totaldatasize),
           cursor \in Cursors, Position(cursor) = e, Held(variables), GotData(e),
           NEW n, n = actualdatab(totaldatasize, e),
           variables' = Stored(ReadAt(PartAt(e, IF Hid(e) THEN 0 ELSE prank), n)), cursor' = Walk(cursor, n).next
    PROVE  /\ Held(variables)' /\ GotData(e + n)'
           /\ cursor' \in Cursors' /\ Position(cursor)' = e + n
           /\ Len(ReadAt(PartAt(e, IF Hid(e) THEN 0 ELSE prank), n)) = n
<1>1. PICK q : q = IF Hid(e) THEN 0 ELSE prank
  OBVIOUS
<1>2. q \in 0 .. pranks - 1 /\ Shaped /\ totaldatasize \in Nat \ {0} /\ FileKept /\ failoffset' = failoffset
  BY <1>1, SizeFacts DEF FileTypes, FileRead
<1>3. e \in Nat /\ n \in Nat \ {0} /\ e + n <= totaldatasize
  BY <1>2, ChunkFacts
<1>4. PICK buffer : buffer = ReadAt(PartAt(e, q), n)
  OBVIOUS
<1>5. Sequence(buffer) /\ Len(buffer) = n /\ \A k \in 1 .. n : buffer[k] = Byte(q, e + k)
  BY <1>2, <1>4, ReadsBack
<1>6. variables' = Stored(buffer)
  BY <1>1, <1>4
<1>7. /\ Held(Stored(buffer))
      /\ \A i \in 1 .. n : At(Stored(buffer), e + i) = buffer[i]
      /\ \A i \in 1 .. e : At(Stored(buffer), i) = At(variables, i)
  BY <1>2, <1>3, <1>5, StoredFacts
<1>8. GotData(e + n)'
  <2>1. ASSUME NEW f \in Chunks(totaldatasize), f < e + n, NEW k \in 1 .. actualdatab(totaldatasize, f)
        PROVE  At(variables', f + k) = Byte(IF Hid(f) THEN 0 ELSE prank, f + k)
    <3>1. CASE f < e
      <4>1. At(variables, f + k) = Byte(IF Hid(f) THEN 0 ELSE prank, f + k)
        BY <3>1 DEF GotData
      <4>2. f + k \in 1 .. e
        <5> DEFINE g == actualdatab(totaldatasize, f)
        <5>1. f + g <= e /\ f \in Nat /\ g \in Nat /\ k \in 1 .. g
          BY <1>2, <3>1, ChunkOrder, ChunkFacts
        <5> HIDE DEF g
        <5> QED BY <1>3, <5>1
      <4> QED BY <1>6, <1>7, <4>1, <4>2
    <3>2. CASE ~(f < e)
      <4>1. f = e
        BY <1>2, <2>1, <3>2, ChunkAt
      <4>2. k \in 1 .. n
        BY <4>1
      <4> QED BY <1>1, <1>5, <1>6, <1>7, <4>1, <4>2
    <3> QED BY <3>1, <3>2
  <2> QED BY <1>2, <2>1, GotDataLater DEF Hid
<1>9. cursor' \in Cursors' /\ Position(cursor)' = e + n
  <2>1. Walk(cursor, n).next \in Cursors /\ Position(Walk(cursor, n).next) = e + n
    <3>1. cursor \in [var : DOMAIN shape, off : Int] /\ e \in Nat /\ n \in Nat
          /\ Position(cursor) = e /\ e + n <= totaldatasize
      BY <1>3 DEF Cursors
    <3>2. /\ Walk(cursor, n).next \in [var : DOMAIN shape, off : Int]
          /\ Position(Walk(cursor, n).next) = e + n
      BY <1>2, <3>1, WalkFacts
    <3> QED BY <3>2 DEF Cursors
  <2> QED BY <1>2, <2>1, FileStays, ValuesLater
<1>10. Held(variables)'
  BY <1>2, <1>6, <1>7, ValuesLater
<1> QED BY <1>1, <1>4, <1>5, <1>8, <1>9, <1>10

LEMMA EmptyRead ==
    ASSUME FileTypes, FileRead, NEW w, FileIs(w), xorparity' = <<>>, readb' = 0
    PROVE  /\ readb' \in Chunks(paritysize)' /\ Sequence(xorparity)' /\ Len(xorparity') = readb'
           /\ xorparity' = OwnParity(0, readb)'
           /\ \A e \in Chunks(paritysize)' : ~(e < readb')
<1>1. paritysize \in Nat \ {0} /\ FileKept
  BY DEF FileTypes, FileRead
<1>2. Chunks(paritysize)' = Chunks(paritysize) /\ 0 \in Chunks(paritysize) /\ \A e \in Chunks(paritysize) : ~(e < 0)
  BY <1>1, FileStays, ChunkOrder, NoParityYet
<1>3. <<>> \in Seq({})
  OBVIOUS
<1>4. Sequence(xorparity') /\ Len(xorparity') = 0
  BY <1>3 DEF Sequence
<1>5. OwnParity(0, readb)' = <<>>
  BY DEF OwnParity
<1> QED BY <1>1, <1>2, <1>4, <1>5, ValuesLater

LEMMA LoadDataKeeps ==
    ASSUME FileInv, LoadDataChunk
    PROVE  FileInv'
<1>1. PICK T, e, n, s, q : /\ T = totaldatasize /\ e = readb /\ n = actualdatab(T, e) /\ s = chunkdatab(T, e)
                           /\ q = IF Hid(e) THEN 0 ELSE prank
  OBVIOUS
<1>2. PICK w \in 0 .. paritysize : FileIs(w) /\ ReadsData
  BY DEF FileInv, WritesData, WritesParity, ReadsParity, HasRead, LoadDataChunk
<1>3. FileTypes /\ FileRead /\ doing = "loaddata" /\ base = 0 /\ xorparity = <<>> /\ xorparity' = xorparity
  BY <1>2 DEF FileInv, LoadDataChunk, FileRead, FileKept, ReadsData
<1>4. /\ e \in Chunks(T) /\ e \in Chunks(totaldatasize) /\ cursor \in Cursors /\ Position(cursor) = e
      /\ Held(variables) /\ GotData(e)
  BY <1>1, <1>2 DEF ReadsData
<1>5. /\ T \in Nat \ {0} /\ pranks \in Nat \ {0} /\ prank \in Nat /\ DataEnd = (LastChunk(T) + LastSize) * pranks
      /\ failoffset \in Int
  BY <1>1, <1>3, SizeFacts DEF FileTypes
<1>6. /\ e \in Nat /\ n \in Nat \ {0} /\ s \in Nat
      /\ e + n < T => s = n /\ e + n \in Chunks(T)
      /\ e + n >= T => e = LastChunk(T) /\ e + n = T
  BY <1>1, <1>4, <1>5, ChunkFacts
<1>7. seekoffset(T) = PartAt(e, q)
  <2>1. e * pranks \in Nat /\ s * prank \in Nat /\ s * prank = prank * s /\ 0 * s = 0
    BY <1>5, <1>6
  <2>2. seekoffset(T) = IF failoffset >= 0 /\ (e * pranks) + 0 > failoffset THEN (e * pranks) + 0
                        ELSE (e * pranks) + (s * prank) + 0
    BY <1>1, <1>3 DEF seekoffset
  <2>3. PartAt(e, q) = (e * pranks) + (q * s)
    BY <1>1 DEF PartAt
  <2>4. CASE Hid(e)
    BY <1>1, <2>1, <2>2, <2>3, <2>4 DEF Hid
  <2>5. CASE ~Hid(e)
    BY <1>1, <2>1, <2>2, <2>3, <2>5 DEF Hid
  <2> QED BY <2>4, <2>5
<1>8. PICK buffer : buffer = ReadAt(seekoffset(T), n)
  OBVIOUS
<1>9. /\ variables' = Stored(buffer) /\ cursor' = Walk(cursor, n).next
      /\ IF Len(buffer) < n THEN doing' = "failed" /\ UNCHANGED <<readb, base>>
         ELSE IF e + n < T THEN readb' = e + s /\ UNCHANGED <<doing, base>>
         ELSE readb' = 0 /\ base' = NextBase(T) /\ doing' = "loadparity"
  BY <1>1, <1>8 DEF LoadDataChunk
<1>10. /\ Held(variables)' /\ GotData(e + n)' /\ cursor' \in Cursors' /\ Position(cursor)' = e + n
       /\ Len(buffer) = n
  <2>1. n = actualdatab(totaldatasize, e) /\ buffer = ReadAt(PartAt(e, IF Hid(e) THEN 0 ELSE prank), n)
    BY <1>1, <1>7, <1>8
  <2>2. /\ Held(variables)' /\ GotData(e + n)' /\ cursor' \in Cursors' /\ Position(cursor)' = e + n
        /\ Len(ReadAt(PartAt(e, IF Hid(e) THEN 0 ELSE prank), n)) = n
    BY <1>2, <1>3, <1>4, <1>9, <2>1, DataGot
  <2> QED BY <2>1, <2>2
<1>11. /\ FileTypes' /\ FileIs(w)' /\ DataBase' = DataBase /\ paritysize' = paritysize /\ totaldatasize' = T
       /\ Chunks(totaldatasize)' = Chunks(T)
  BY <1>1, <1>2, <1>3, ReadStays
<1>12. CASE e + n < T
  <2>1. readb' = e + n /\ doing' = "loaddata" /\ base' = 0
    BY <1>3, <1>6, <1>9, <1>10, <1>12
  <2>2. GotData(readb)' /\ readb' \in Chunks(totaldatasize)'
    BY <1>6, <1>10, <1>11, <1>12, <2>1 DEF GotData
  <2>3. ReadsData'
    BY <1>3, <1>10, <2>1, <2>2 DEF ReadsData
  <2> QED BY <1>2, <1>11, <2>3 DEF FileInv
<1>13. CASE ~(e + n < T)
  <2>1. readb' = 0 /\ doing' = "loadparity" /\ base' = NextBase(T)
    BY <1>6, <1>9, <1>10, <1>13
  <2>2. e = LastChunk(T) /\ e + n = T /\ s = LastSize
    BY <1>1, <1>5, <1>6, <1>13 DEF LastSize
  <2>3. GotData(totaldatasize)'
    BY <1>10, <1>11, <2>2 DEF GotData
  <2>4. NextBase(T) = DataBase
    <3>1. CASE failoffset < 0
      <4>1. NextBase(T) = 0 + ((e + s) * pranks)
        BY <1>1, <1>3, <3>1 DEF NextBase
      <4>2. (e + s) * pranks \in Nat /\ DataEnd = (e + s) * pranks
        BY <1>5, <1>6, <2>2
      <4>3. DataBase = DataEnd
        BY <3>1 DEF DataBase
      <4> QED BY <4>1, <4>2, <4>3
    <3>2. CASE ~(failoffset < 0)
      <4>1. NextBase(T) = seekoffset(T) + s
        BY <1>1, <3>2 DEF NextBase
      <4>2. PartAt(e, q) = (e * pranks) + (q * s)
        BY <1>1 DEF PartAt
      <4>3. q * s = IF Hid(e) THEN 0 ELSE prank * s
        BY <1>1, <1>6
      <4>4. DataBase = (e * pranks) + (IF Hid(e) THEN 0 ELSE prank * s) + s
        BY <1>1, <2>2, <3>2 DEF DataBase
      <4> QED BY <1>7, <4>1, <4>2, <4>3, <4>4
    <3> QED BY <3>1, <3>2
  <2>5. /\ readb' \in Chunks(paritysize)' /\ Sequence(xorparity)' /\ Len(xorparity') = readb'
        /\ xorparity' = OwnParity(0, readb)'
        /\ \A c \in Chunks(paritysize)' : ~(c < readb')
    BY <1>2, <1>3, <2>1, EmptyRead
  <2>6. ReadsParity(w)'
    BY <1>10, <1>11, <2>1, <2>3, <2>4, <2>5 DEF ReadsParity
  <2> QED BY <1>2, <1>11, <2>6 DEF FileInv
<1> QED BY <1>12, <1>13

LEMMA ReceiveDataKeeps ==
    ASSUME FileInv, ReceiveDataChunk
    PROVE  FileInv'
<1>1. PICK T, e, n, s : T = totaldatasize /\ e = readb /\ n = actualdatab(T, e) /\ s = chunkdatab(T, e)
  OBVIOUS
<1>2. PICK w \in 0 .. paritysize : FileIs(w) /\ ReadsData
  BY DEF FileInv, WritesData, WritesParity, ReadsParity, HasRead, ReceiveDataChunk
<1>3. /\ FileTypes /\ FileRead /\ doing = "recvdata" /\ base = e * pranks /\ xorparity = <<>> /\ xorparity' = xorparity
      /\ pranks # 1 /\ failoffset = -1
  BY <1>1, <1>2 DEF FileInv, ReceiveDataChunk, FileRead, FileKept, ReadsData
<1>4. /\ e \in Chunks(T) /\ e \in Chunks(totaldatasize) /\ cursor \in Cursors /\ Position(cursor) = e
      /\ Held(variables) /\ GotData(e)
  BY <1>1, <1>2 DEF ReadsData
<1>5. T \in Nat \ {0} /\ pranks \in Nat \ {0} /\ prank \in Nat /\ DataEnd = (LastChunk(T) + LastSize) * pranks
  BY <1>1, <1>3, SizeFacts DEF FileTypes
<1>6. /\ e \in Nat /\ n \in Nat \ {0} /\ s \in Nat
      /\ e + n < T => s = n /\ e + n \in Chunks(T)
      /\ e + n >= T => e = LastChunk(T) /\ e + n = T
  BY <1>1, <1>4, <1>5, ChunkFacts
<1>7. PartAt(e, IF Hid(e) THEN 0 ELSE prank) = base + (prank * s)
  <2>1. ~Hid(e)
    BY <1>3 DEF Hid
  <2> QED BY <1>1, <1>3, <2>1 DEF PartAt
<1>8. /\ variables' = Stored(ReadAt(base + (prank * s), n)) /\ cursor' = Walk(cursor, n).next
      /\ base' = base + (s * pranks)
      /\ IF e + n < T THEN readb' = e + n /\ UNCHANGED doing ELSE readb' = 0 /\ doing' = "recvparity"
  BY <1>1 DEF ReceiveDataChunk
<1>9. Held(variables)' /\ GotData(e + n)' /\ cursor' \in Cursors' /\ Position(cursor)' = e + n
  <2>1. n = actualdatab(totaldatasize, e) /\ variables' = Stored(ReadAt(PartAt(e, IF Hid(e) THEN 0 ELSE prank), n))
    BY <1>1, <1>7, <1>8
  <2> QED BY <1>2, <1>3, <1>4, <1>8, <2>1, DataGot
<1>10. /\ FileTypes' /\ FileIs(w)' /\ paritysize' = paritysize /\ totaldatasize' = T /\ pranks' = pranks
       /\ Chunks(totaldatasize)' = Chunks(T) /\ failoffset' = -1 /\ DataEnd' = DataEnd
  BY <1>1, <1>2, <1>3, ReadStays
<1>11. base' = (e + s) * pranks
  BY <1>3, <1>5, <1>6, <1>8
<1>12. CASE e + n < T
  <2>1. readb' = e + n /\ doing' = "recvdata" /\ base' = readb' * pranks
    BY <1>3, <1>6, <1>8, <1>11, <1>12
  <2>2. GotData(readb)' /\ readb' \in Chunks(totaldatasize)'
    BY <1>6, <1>9, <1>10, <1>12, <2>1 DEF GotData
  <2>3. ReadsData'
    BY <1>3, <1>9, <1>10, <2>1, <2>2 DEF ReadsData
  <2> QED BY <1>2, <1>10, <2>3 DEF FileInv
<1>13. CASE ~(e + n < T)
  <2>1. readb' = 0 /\ doing' = "recvparity"
    BY <1>8, <1>13
  <2>2. e = LastChunk(T) /\ e + n = T /\ s = LastSize
    BY <1>1, <1>5, <1>6, <1>13 DEF LastSize
  <2>3. GotData(totaldatasize)'
    BY <1>9, <1>10, <2>2 DEF GotData
  <2>4. base' = DataEnd' + (readb' * pranks')
    <3>1. (e + s) * pranks \in Nat /\ 0 * pranks = 0
      BY <1>5, <1>6
    <3> QED BY <1>5, <1>10, <1>11, <2>1, <2>2, <3>1
  <2>5. /\ readb' \in Chunks(paritysize)' /\ Sequence(xorparity)' /\ Len(xorparity') = readb'
        /\ xorparity' = OwnParity(0, readb)'
    BY <1>2, <1>3, <2>1, EmptyRead
  <2>6. ReadsParity(w)'
    BY <1>3, <1>9, <1>10, <2>1, <2>3, <2>4, <2>5 DEF ReadsParity
  <2> QED BY <1>2, <1>10, <2>6 DEF FileInv
<1> QED BY <1>12, <1>13

-----------------------------------------------------------------------------
(* Reading the parity back.                                                *)

\* The bytes of the own part of chunk e.
OwnChunk(buffer, e, n) == Len(buffer) = n /\ \A k \in 1 .. n : buffer[k] = ParityByte(prank, e + k - 1)

\* What is read is the own part of the chunk just if it was looked for where it lies.
LEMMA ChunkRead ==
    ASSUME FileTypes, NEW w, FileIs(w), NEW e \in Chunks(paritysize), NEW o \in Nat,
           NEW n, n = actualdatab(paritysize, e), NEW buffer, buffer = ReadAt(o, n)
    PROVE  /\ Sequence(buffer) /\ Len(buffer) \in Nat /\ Len(buffer) <= n
           /\ o + n <= Len(bytes) => Len(buffer) = n
           /\ o + 1 = Slot(w, e, 1) <=> OwnChunk(buffer, e, n)
<1>1. e \in Nat /\ n \in Nat \ {0} /\ paritysize \in Nat \ {0} /\ e < paritysize /\ w \in Nat /\ w <= paritysize
  <2>1. paritysize \in Nat \ {0}
    BY DEF FileTypes
  <2> QED BY <2>1, ChunkFacts DEF FileIs, Chunks
<1>2. Sequence(bytes) /\ Len(bytes) \in Nat /\ ParityLaid(w, paritysize) /\ ParityOnly(w, paritysize)
  <2>1. Sequence(bytes) /\ ParityLaid(w, paritysize) /\ ParityOnly(w, paritysize)
    BY DEF FileIs
  <2> QED BY <2>1, Joined
<1> DEFINE L == Len(bytes)
           l == Least(n, L - o)
<1>3. l \in Int /\ l <= n /\ l <= L - o /\ (l = n \/ l = L - o)
  <2>1. n \in Int /\ L - o \in Int
    BY <1>1, <1>2
  <2> QED BY <2>1, LeastFacts
<1>4. /\ o <= L => Sequence(buffer) /\ Len(buffer) = l
      /\ \A k \in 1 .. n : o + k <= L => buffer[k] = bytes[o + k]
      /\ L <= o => Sequence(buffer) /\ Len(buffer) = 0
  <2>1. n \in Nat
    BY <1>1
  <2> QED BY <1>2, <2>1, ReadFacts
<1> HIDE DEF l
<1>5. Sequence(buffer) /\ Len(buffer) \in Nat /\ Len(buffer) <= n
  BY <1>1, <1>2, <1>3, <1>4
<1>6. o + n <= L <=> Len(buffer) = n
  BY <1>1, <1>2, <1>3, <1>4
<1>7. \A k \in Int : Slot(w, e, k) = Slot(w, e, 1) + (k - 1)
  <2> SUFFICES ASSUME NEW k \in Int
               PROVE  Slot(w, e, k) = Slot(w, e, 1) + (k - 1)
    OBVIOUS
  <2> DEFINE x == e * pranks
             y == prank * actualdatab(paritysize, e)
             t == TailStart(w)
             d == DataEnd
  <2>1. x \in Nat /\ y \in Nat /\ d \in Nat /\ t \in Nat
    <3>1. pranks \in Nat /\ prank \in Nat /\ d \in Nat /\ totaldatasize \in Nat
      BY SizeFacts DEF FileTypes
    <3>2. w * pranks \in Nat
      BY <1>1, <3>1
    <3> QED BY <1>1, <3>1, <3>2 DEF TailStart
  <2>2. \A h : Slot(w, e, h) = IF e < w THEN d + x + y + h ELSE t + (e - w) + h
    BY DEF Slot
  <2> HIDE DEF x, y, t, d
  <2> QED BY <1>1, <2>1, <2>2
<1>8. ASSUME o + 1 = Slot(w, e, 1)
      PROVE  Len(buffer) = n /\ \A k \in 1 .. n : buffer[k] = ParityByte(prank, e + k - 1)
  <2>1. \A k \in 1 .. n : Slot(w, e, k) = o + k
    BY <1>1, <1>7, <1>8
  <2>2. \A k \in 1 .. n : o + k \in 1 .. L /\ bytes[o + k] = ParityByte(prank, e + k - 1)
    BY <1>1, <1>2, <2>1 DEF ParityLaid
  <2>3. o + n <= L
    BY <1>1, <2>2
  <2>4. ASSUME NEW k \in 1 .. n
        PROVE  buffer[k] = ParityByte(prank, e + k - 1)
    <3>1. o + k \in 1 .. L /\ bytes[o + k] = ParityByte(prank, e + k - 1)
      BY <2>2
    <3>2. buffer[k] = bytes[o + k]
      BY <1>4, <3>1
    <3> QED BY <3>1, <3>2
  <2> QED BY <1>6, <2>3, <2>4
<1>9. ASSUME Len(buffer) = n, \A k \in 1 .. n : buffer[k] = ParityByte(prank, e + k - 1)
      PROVE  o + 1 = Slot(w, e, 1)
  <2>1. o + n <= L /\ 1 \in 1 .. n
    BY <1>1, <1>6, <1>9
  <2>2. o + 1 \in 1 .. L
    BY <1>1, <1>2, <2>1
  <2>3. bytes[o + 1] = ParityByte(prank, e + 1 - 1)
    BY <1>4, <1>9, <2>1, <2>2
  <2>4. 1 \in 1 .. actualdatab(paritysize, e)
    BY <2>1
  <2> QED BY <1>2, <2>2, <2>3, <2>4 DEF ParityOnly
<1>10. o + 1 = Slot(w, e, 1) <=> OwnChunk(buffer, e, n)
  BY <1>8, <1>9 DEF OwnChunk
<1> QED BY <1>5, <1>6, <1>10

\* The parity loaded so far and the next chunk of it.
Follow(x, e, buffer, n, t) ==
    /\ e \in Nat /\ Sequence(x) /\ Len(x) = e
    /\ n \in Nat \ {0} /\ Sequence(buffer) /\ Len(buffer) <= n /\ t = e + n

LEMMA ParityJoin ==
    ASSUME NEW x, NEW e, NEW buffer, NEW n, NEW t, Follow(x, e, buffer, n, t)
    PROVE  /\ x \o buffer = OwnParity(0, t) <=> x = OwnParity(0, e) /\ OwnChunk(buffer, e, n)
           /\ Sequence(x \o buffer) /\ Len(x \o buffer) = e + Len(buffer)
<1> SUFFICES ASSUME e \in Nat, n \in Nat \ {0}, Sequence(x), Len(x) = e, Sequence(buffer), Len(buffer) <= n
             PROVE  /\ x \o buffer = OwnParity(0, e + n) <=> x = OwnParity(0, e) /\ OwnChunk(buffer, e, n)
                    /\ Sequence(x \o buffer) /\ Len(x \o buffer) = e + Len(buffer)
  BY DEF Follow
<1> DEFINE y == x \o buffer
<1>1. /\ Sequence(y) /\ Len(y) = e + Len(buffer) /\ Len(buffer) \in Nat
      /\ \A i \in 1 .. e : y[i] = x[i]
      /\ \A i \in 1 .. Len(buffer) : y[e + i] = buffer[i]
  BY Joined
<1> HIDE DEF y
<1>2. \A m1 \in Nat : /\ Sequence(OwnParity(0, m1)) /\ Len(OwnParity(0, m1)) = m1
                      /\ \A k \in 1 .. m1 : OwnParity(0, m1)[k] = ParityByte(prank, k - 1)
  <2> SUFFICES ASSUME NEW m1 \in Nat
               PROVE  /\ Sequence(OwnParity(0, m1)) /\ Len(OwnParity(0, m1)) = m1
                      /\ \A k \in 1 .. m1 : OwnParity(0, m1)[k] = ParityByte(prank, k - 1)
    OBVIOUS
  <2> DEFINE f == OwnParity(0, m1)
  <2>1. f = [k \in 1 .. m1 |-> ParityByte(prank, 0 + k - 1)]
    BY DEF OwnParity
  <2>2. \A k \in 1 .. m1 : 0 + k - 1 = k - 1
    OBVIOUS
  <2>3. \A k \in 1 .. m1 : f[k] = ParityByte(prank, k - 1)
    BY <2>1, <2>2
  <2>4. DOMAIN f = 1 .. m1 /\ f = [k \in 1 .. m1 |-> f[k]]
    BY <2>1
  <2> HIDE DEF f
  <2> QED BY <2>3, <2>4, Listed DEF f
<1>3. \A a, b : Sequence(a) /\ Sequence(b) /\ Len(a) = Len(b) /\ (\A i \in 1 .. Len(a) : a[i] = b[i]) => a = b
  BY DEF Sequence
<1>4. ASSUME y = OwnParity(0, e + n)
      PROVE  /\ x = OwnParity(0, e)
             /\ Len(buffer) = n /\ \A k \in 1 .. n : buffer[k] = ParityByte(prank, e + k - 1)
  <2>1. Len(buffer) = n /\ \A k \in 1 .. e + n : y[k] = ParityByte(prank, k - 1)
    BY <1>1, <1>2, <1>4
  <2>2. \A i \in 1 .. e : x[i] = OwnParity(0, e)[i]
    BY <1>1, <1>2, <2>1
  <2>3. x = OwnParity(0, e)
    BY <1>2, <1>3, <2>2
  <2>4. ASSUME NEW k \in 1 .. n
        PROVE  buffer[k] = ParityByte(prank, e + k - 1)
    <3>1. e + k \in 1 .. e + n /\ (e + k) - 1 = e + k - 1
      OBVIOUS
    <3>2. y[e + k] = buffer[k]
      BY <1>1, <2>1
    <3> QED BY <2>1, <3>1, <3>2
  <2> QED BY <2>1, <2>3, <2>4
<1>5. ASSUME x = OwnParity(0, e), Len(buffer) = n, \A k \in 1 .. n : buffer[k] = ParityByte(prank, e + k - 1)
      PROVE  y = OwnParity(0, e + n)
  <2>1. ASSUME NEW i \in 1 .. e + n
        PROVE  y[i] = ParityByte(prank, i - 1)
    <3>1. CASE i <= e
      <4>1. i \in 1 .. e
        BY <3>1
      <4>2. x[i] = ParityByte(prank, i - 1)
        BY <1>2, <1>5, <4>1
      <4> QED BY <1>1, <4>1, <4>2
    <3>2. CASE ~(i <= e)
      <4> DEFINE k == i - e
      <4>1. k \in 1 .. n /\ i = e + k /\ i - 1 = e + k - 1
        BY <3>2
      <4> HIDE DEF k
      <4>2. y[e + k] = ParityByte(prank, e + k - 1)
        BY <1>1, <1>5, <4>1
      <4> QED BY <4>1, <4>2
    <3> QED BY <3>1, <3>2
  <2>2. Len(y) = e + n /\ e + n \in Nat
    BY <1>1, <1>5
  <2>3. \A i \in 1 .. Len(y) : y[i] = OwnParity(0, e + n)[i]
    BY <1>2, <2>1, <2>2
  <2>4. Sequence(OwnParity(0, e + n)) /\ Len(OwnParity(0, e + n)) = Len(y)
    BY <1>2, <2>2
  <2> QED BY <1>1, <1>3, <2>3, <2>4
<1>6. y = OwnParity(0, e + n) <=> x = OwnParity(0, e) /\ OwnChunk(buffer, e, n)
  BY <1>4, <1>5 DEF OwnChunk
<1> QED BY <1>1, <1>6 DEF y

LEMMA WholeLength ==
    ASSUME FileTypes, NEW w, FileIs(w), pranks # 1
    PROVE  /\ w = paritysize => Len(bytes) = DataEnd + (paritysize * pranks)
           /\ w # paritysize => Len(bytes) < DataEnd + (paritysize * pranks) /\ failoffset >= 0
<1> DEFINE P == paritysize
           K == pranks
           D == DataEnd
           f == w * K
           g == P * K
           u == P - w
<1>1. P \in Nat \ {0} /\ K \in Nat /\ K >= 2 /\ D \in Nat
  BY SizeFacts DEF FileTypes
<1>2. w \in Nat /\ u \in Nat
  BY <1>1 DEF FileIs, Chunks
<1>3. f \in Nat /\ g \in Nat /\ u * K = g - f /\ (u # 0 => u * 2 <= u * K) /\ u * 2 = u + u
  <2>1. u * K = g - f
    BY <1>1, <1>2
  <2>2. u * 2 <= u * K
    BY <1>1, <1>2, MulMonotone
  <2> QED BY <1>1, <1>2, <2>1, <2>2
<1>4. Len(bytes) = (D + f) + u /\ (w # P => failoffset = D + f)
  BY DEF FileIs, TailStart
<1>5. w = P <=> u = 0
  BY <1>1, <1>2
<1>6. u = 0 => f = g
  BY <1>5
<1> HIDE DEF f, g, u, D
<1>7. w = P => Len(bytes) = D + g
  BY <1>1, <1>2, <1>3, <1>4, <1>5, <1>6
<1>8. w # P => Len(bytes) < D + g /\ failoffset >= 0
  BY <1>1, <1>2, <1>3, <1>4, <1>5
<1> QED BY <1>7, <1>8 DEF D, g

\* In the file of a whole group nothing is looked for behind the end.
LEMMA WholeRead ==
    ASSUME FileTypes, FileIs(paritysize), pranks # 1, NEW e \in Chunks(paritysize)
    PROVE  ParitySeek(e) + actualdatab(paritysize, e) <= Len(bytes)
<1> DEFINE P == paritysize
           n == actualdatab(P, e)
           c == e * pranks
           d == prank * n
           g == P * pranks
<1>1. P \in Nat \ {0} /\ pranks \in Nat \ {0} /\ prank \in 0 .. pranks - 1 /\ failoffset \in Int
  BY DEF FileTypes
<1>2. e \in Nat /\ n \in Nat \ {0} /\ e + n <= P
  BY <1>1, ChunkFacts
<1>3. c \in Nat /\ d \in Nat /\ c + d + n \in 1 .. g
  <2>1. n \in 1 .. n /\ P \in Nat
    BY <1>1, <1>2
  <2> HIDE DEF n, P
  <2> QED BY <1>1, <1>2, <2>1, Inside
<1>5. DataBase \in Nat /\ DataBase <= DataEnd /\ DataEnd \in Nat /\ g \in Nat
  BY <1>1, BaseFacts, SizeFacts
<1>4. ParitySeek(e) = DataBase + c + d \/ ParitySeek(e) = DataBase + c
  <2>1. ParitySeek(e) = DataBase + c + (IF failoffset >= 0 /\ c + DataBase > failoffset THEN 0 ELSE d)
    BY DEF ParitySeek
  <2> HIDE DEF c, d
  <2> QED BY <1>3, <1>5, <2>1
<1>6. Len(bytes) = DataEnd + g
  BY WholeLength
<1> HIDE DEF c, d, g, n
<1>7. ParitySeek(e) + n <= Len(bytes)
  BY <1>2, <1>3, <1>4, <1>5, <1>6
<1> QED BY <1>7 DEF n

LEMMA ParityStays ==
    ASSUME FileTypes, FileRead, NEW w, FileIs(w), variables' = variables, Held(variables), GotData(totaldatasize)
    PROVE  /\ FileTypes' /\ FileIs(w)' /\ Held(variables)' /\ GotData(totaldatasize)'
           /\ DataBase' = DataBase /\ ParityFound' = ParityFound /\ failoffset' = failoffset
           /\ pranks' = pranks /\ paritysize' = paritysize /\ Chunks(paritysize)' = Chunks(paritysize)
           /\ DataEnd' = DataEnd /\ Len(bytes)' = Len(bytes)
           /\ \A e : Right(w, e)' = Right(w, e)
           /\ \A a, b : OwnParity(a, b)' = OwnParity(a, b)
<1>1. FileKept /\ bytes' = bytes /\ failoffset' = failoffset
  BY DEF FileRead
<1>2. /\ FileTypes' /\ FileIs(w)' /\ DataBase' = DataBase /\ ParityFound' = ParityFound /\ pranks' = pranks
      /\ paritysize' = paritysize /\ Chunks(paritysize)' = Chunks(paritysize) /\ DataEnd' = DataEnd
      /\ Len(bytes)' = Len(bytes) /\ totaldatasize' = totaldatasize
  BY ReadStays
<1>3. Held(variables)'
  BY <1>1, ValuesLater
<1>4. GotData(totaldatasize)'
  <2>1. PICK T : T = totaldatasize
    OBVIOUS
  <2>2. GotData(T)'
    BY <1>1, <2>1, GotDataLater DEF GotData, Hid
  <2> QED BY <1>2, <2>1, <2>2
<1>5. \A e : Right(w, e)' = Right(w, e)
  <2>1. \A e : Slot(w, e, 1)' = Slot(w, e, 1) /\ actualdatab(paritysize, e)' = actualdatab(paritysize, e)
    BY <1>1, FileStays
  <2>2. prank' = prank
    BY <1>1, FileStays
  <2>3. \A e : ParitySeek(e)' = ParitySeek(e)
    BY <1>1, <1>2, <2>1, <2>2 DEF ParitySeek
  <2> QED BY <2>1, <2>3 DEF Right
<1>6. \A a, b : OwnParity(a, b)' = OwnParity(a, b)
  BY <1>1, FileStays
<1> QED BY <1>1, <1>2, <1>3, <1>4, <1>5, <1>6

LEMMA LoadParityKeeps ==
    ASSUME FileInv, LoadParityChunk
    PROVE  FileInv'
<1>1. PICK P, e, n, buffer : /\ P = paritysize /\ e = readb /\ n = actualdatab(P, e)
                             /\ buffer = ReadAt(seekoffset(paritysize), n)
  OBVIOUS
<1>2. PICK w \in 0 .. paritysize : FileIs(w) /\ ReadsParity(w)
  BY DEF FileInv, WritesData, WritesParity, ReadsData, HasRead, LoadParityChunk
<1>3. /\ FileTypes /\ FileRead /\ doing = "loadparity" /\ base = DataBase /\ base' = base /\ variables' = variables
      /\ xorparity' = xorparity \o buffer /\ readb' = e + n
      /\ doing' = IF Len(buffer) < n THEN "failed" ELSE IF e + n < P THEN doing ELSE "loaded"
  BY <1>1, <1>2 DEF FileInv, LoadParityChunk, FileRead, FileKept, ReadsParity
<1>4. /\ Held(variables) /\ GotData(totaldatasize)
      /\ e \in Chunks(P) /\ e \in Chunks(paritysize) /\ Sequence(xorparity) /\ Len(xorparity) = e
      /\ xorparity = OwnParity(0, e) <=> \A c \in Chunks(P) : c < e => Right(w, c)
  BY <1>1, <1>2, <1>3 DEF ReadsParity
<1>5. P \in Nat \ {0} /\ pranks \in Nat \ {0} /\ prank \in Nat /\ DataBase \in Nat /\ failoffset \in Int
  BY <1>1, <1>3, BaseFacts DEF FileTypes
<1>6. /\ e \in Nat /\ n \in Nat \ {0} /\ e + n <= P
      /\ e + n < P => e + n \in Chunks(P)
      /\ e + n >= P => e + n = P
  BY <1>1, <1>4, <1>5, ChunkFacts
<1>7. seekoffset(paritysize) = ParitySeek(e) /\ ParitySeek(e) \in Nat
  <2> DEFINE c == e * pranks
             d == prank * n
  <2>1. chunkdatab(paritysize, e) = n
    BY <1>1, <1>3, <1>4, ParityChunk
  <2>2. c \in Nat /\ d \in Nat /\ n * prank = d
    BY <1>5, <1>6
  <2>3. seekoffset(paritysize) = IF failoffset >= 0 /\ c + DataBase > failoffset THEN c + DataBase
                                 ELSE c + d + DataBase
    BY <1>1, <1>3, <2>1, <2>2 DEF seekoffset
  <2>4. ParitySeek(e) = DataBase + c + (IF failoffset >= 0 /\ c + DataBase > failoffset THEN 0 ELSE d)
    BY <1>1 DEF ParitySeek
  <2> HIDE DEF c, d
  <2> QED BY <1>5, <2>2, <2>3, <2>4
<1>8. /\ Sequence(buffer) /\ Len(buffer) \in Nat /\ Len(buffer) <= n
      /\ ParitySeek(e) + n <= Len(bytes) => Len(buffer) = n
      /\ Right(w, e) <=> OwnChunk(buffer, e, n)
  <2>1. PICK o \in Nat : o = ParitySeek(e)
    BY <1>7
  <2>2. n = actualdatab(paritysize, e) /\ buffer = ReadAt(o, n)
    BY <1>1, <1>7, <2>1
  <2>3. /\ Sequence(buffer) /\ Len(buffer) \in Nat /\ Len(buffer) <= n
        /\ o + n <= Len(bytes) => Len(buffer) = n
        /\ o + 1 = Slot(w, e, 1) <=> OwnChunk(buffer, e, n)
    BY <1>2, <1>3, <1>4, <2>2, ChunkRead
  <2> QED BY <2>1, <2>3 DEF Right
<1>9. /\ xorparity' = OwnParity(0, e + n) <=> xorparity = OwnParity(0, e) /\ Right(w, e)
      /\ Sequence(xorparity') /\ Len(xorparity') = e + Len(buffer)
  <2>1. /\ xorparity \o buffer = OwnParity(0, e + n) <=> xorparity = OwnParity(0, e) /\ OwnChunk(buffer, e, n)
        /\ Sequence(xorparity \o buffer) /\ Len(xorparity \o buffer) = e + Len(buffer)
    <3>1. PICK x : x = xorparity
      OBVIOUS
    <3>2. PICK t : t = e + n
      OBVIOUS
    <3>3. Follow(x, e, buffer, n, t)
      BY <1>4, <1>6, <1>8, <3>1, <3>2 DEF Follow
    <3>4. /\ x \o buffer = OwnParity(0, t) <=> x = OwnParity(0, e) /\ OwnChunk(buffer, e, n)
          /\ Sequence(x \o buffer) /\ Len(x \o buffer) = e + Len(buffer)
      BY <3>3, ParityJoin
    <3> QED BY <3>1, <3>2, <3>4
  <2> QED BY <1>3, <1>8, <2>1
<1>10. (\A c \in Chunks(P) : c < e + n => Right(w, c)) <=> (\A c \in Chunks(P) : c < e => Right(w, c)) /\ Right(w, e)
  <2>1. \A c \in Chunks(P) : c < e + n /\ ~(c < e) => c = e
    BY <1>1, <1>4, <1>5, ChunkAt
  <2>2. \A c \in Chunks(P) : c < e => c < e + n
    BY <1>5, <1>6 DEF Chunks
  <2>3. e < e + n
    BY <1>6
  <2> QED BY <1>4, <2>1, <2>2, <2>3
<1>11. xorparity' = OwnParity(0, e + n) <=> \A c \in Chunks(P) : c < e + n => Right(w, c)
  BY <1>4, <1>9, <1>10
<1>12. ParityFound <=> \A c \in Chunks(P) : Right(w, c)
  BY <1>1, <1>2, <1>3, FoundRight
<1>13. /\ FileTypes' /\ FileIs(w)' /\ Held(variables)' /\ GotData(totaldatasize)'
       /\ DataBase' = DataBase /\ ParityFound' = ParityFound
       /\ pranks' = pranks /\ paritysize' = P /\ Chunks(paritysize)' = Chunks(P)
       /\ DataEnd' = DataEnd /\ Len(bytes') = Len(bytes)
       /\ \A c : Right(w, c)' = Right(w, c)
       /\ \A a, b : OwnParity(a, b)' = OwnParity(a, b)
  BY <1>1, <1>2, <1>3, <1>4, ParityStays
<1>14. CASE Len(buffer) < n
  <2>1. doing' = "failed"
    BY <1>3, <1>14
  <2>2. ~ParityFound
    <3>1. ~OwnChunk(buffer, e, n)
      BY <1>6, <1>8, <1>14 DEF OwnChunk
    <3> QED BY <1>4, <1>8, <1>12, <3>1
  <2>3. xorparity' # OwnParity(0, P)
    <3>1. Len(OwnParity(0, P)) = P
      <4> DEFINE f == OwnParity(0, P)
      <4>1. DOMAIN f = 1 .. P /\ f = [k \in 1 .. P |-> f[k]]
        BY DEF OwnParity
      <4> HIDE DEF f
      <4>2. Len(f) = P
        BY <1>5, <4>1, Listed
      <4> QED BY <4>2 DEF f
    <3>2. e + Len(buffer) # P
      BY <1>6, <1>8, <1>14
    <3> QED BY <1>9, <3>1, <3>2
  <2>4. pranks = 1 \/ Len(bytes) < DataEnd + (paritysize * pranks)
    <3> SUFFICES ASSUME pranks # 1
                 PROVE  w # paritysize
      BY <1>2, <1>3, WholeLength
    <3> SUFFICES ASSUME w = paritysize
                 PROVE  FALSE
      OBVIOUS
    <3>1. ParitySeek(e) + n <= Len(bytes)
      BY <1>1, <1>2, <1>3, <1>4, WholeRead
    <3> QED BY <1>6, <1>8, <1>14, <3>1
  <2>5. ShortReads'
    BY <1>1, <1>13, <2>4 DEF ShortReads
  <2>6. xorparity' = OwnParity(0, paritysize)' <=> ParityFound'
    <3>1. OwnParity(0, paritysize)' = OwnParity(0, P)
      BY <1>1, <1>13
    <3> QED BY <1>13, <2>2, <2>3, <3>1
  <2>7. HasRead'
    BY <1>13, <2>1, <2>5, <2>6 DEF HasRead
  <2> QED BY <1>2, <1>1, <1>13, <2>7 DEF FileInv
<1>15. CASE ~(Len(buffer) < n) /\ e + n < P
  <2>1. doing' = "loadparity" /\ Len(buffer) = n
    BY <1>3, <1>6, <1>8, <1>15
  <2>2. readb' \in Chunks(paritysize)' /\ Sequence(xorparity)' /\ Len(xorparity') = readb' /\ base' = DataBase'
    BY <1>3, <1>6, <1>9, <1>13, <1>15, <2>1 DEF Sequence
  <2>3. xorparity' = OwnParity(0, readb)' <=> \A c \in Chunks(paritysize)' : c < readb' => Right(w, c)'
    <3>1. OwnParity(0, readb)' = OwnParity(0, e + n)
      <4>1. prank' = prank
        BY <1>3, FileStays DEF FileRead
      <4> QED BY <1>3, <4>1 DEF OwnParity, ParityByte
    <3> QED BY <1>3, <1>11, <1>13, <3>1
  <2>4. ReadsParity(w)'
    BY <1>13, <2>1, <2>2, <2>3 DEF ReadsParity
  <2> QED BY <1>1, <1>2, <1>13, <2>4 DEF FileInv
<1>16. CASE ~(Len(buffer) < n) /\ ~(e + n < P)
  <2>1. doing' = "loaded" /\ e + n = P
    BY <1>3, <1>5, <1>6, <1>16
  <2>2. xorparity' = OwnParity(0, P) <=> ParityFound
    <3>1. \A c \in Chunks(P) : c < P
      BY <1>5 DEF Chunks
    <3> QED BY <1>11, <1>12, <2>1, <3>1
  <2>3. xorparity' = OwnParity(0, paritysize)' <=> ParityFound'
    <3>1. OwnParity(0, paritysize)' = OwnParity(0, P)
      BY <1>1, <1>13
    <3> QED BY <1>13, <2>2, <3>1
  <2>4. ShortReads'
    BY <2>1 DEF ShortReads
  <2>5. HasRead'
    BY <1>13, <2>1, <2>3, <2>4 DEF HasRead
  <2> QED BY <1>1, <1>2, <1>13, <2>5 DEF FileInv
<1> QED BY <1>14, <1>15, <1>16

LEMMA ReceiveParityKeeps ==
    ASSUME FileInv, ReceiveParityChunk
    PROVE  FileInv'
<1>1. PICK P, e, n, buffer : /\ P = paritysize /\ e = readb /\ n = actualdatab(P, e)
                             /\ buffer = ReadAt(base + (prank * chunkdatab(P, e)), n)
  OBVIOUS
<1>2. PICK w \in 0 .. paritysize : FileIs(w) /\ ReadsParity(w)
  BY DEF FileInv, WritesData, WritesParity, ReadsData, HasRead, ReceiveParityChunk
<1>3. /\ FileTypes /\ FileRead /\ doing = "recvparity" /\ variables' = variables
      /\ base = DataEnd + (e * pranks) /\ base' = base + (chunkdatab(P, e) * pranks)
      /\ pranks # 1 /\ failoffset = -1
      /\ xorparity' = xorparity \o buffer /\ readb' = e + n
      /\ doing' = IF e + n < P THEN doing ELSE "loaded"
  BY <1>1, <1>2 DEF FileInv, ReceiveParityChunk, FileRead, FileKept, ReadsParity
<1>4. /\ Held(variables) /\ GotData(totaldatasize)
      /\ e \in Chunks(P) /\ e \in Chunks(paritysize) /\ Sequence(xorparity) /\ Len(xorparity) = e
      /\ xorparity = OwnParity(0, e)
  BY <1>1, <1>2, <1>3 DEF ReadsParity
<1>5. P \in Nat \ {0} /\ pranks \in Nat \ {0} /\ prank \in Nat /\ DataEnd \in Nat
  BY <1>1, <1>3, SizeFacts DEF FileTypes
<1>6. /\ e \in Nat /\ n \in Nat \ {0} /\ e + n <= P
      /\ e + n < P => e + n \in Chunks(P)
      /\ e + n >= P => e + n = P
  BY <1>1, <1>4, <1>5, ChunkFacts
<1>7. chunkdatab(P, e) = n
  BY <1>1, <1>3, <1>4, ParityChunk
<1>8. w = paritysize /\ Len(bytes) = DataEnd + (paritysize * pranks)
  <2>1. ~(failoffset >= 0)
    BY <1>3
  <2> QED BY <1>2, <1>3, <2>1, WholeLength
<1>9. Sequence(buffer) /\ Len(buffer) <= n /\ Len(buffer) \in Nat /\ OwnChunk(buffer, e, n)
  <2>1. PICK o : o = base + (prank * n)
    OBVIOUS
  <2>5. FileIs(w)
    BY <1>2
  <2>2. e * pranks \in Nat /\ prank * n \in Nat
    BY <1>5, <1>6
  <2>3. o \in Nat /\ o + 1 = Slot(w, e, 1)
    <3>1. e < w
      BY <1>1, <1>5, <1>6, <1>8
    <3>2. Slot(w, e, 1) = DataEnd + (e * pranks) + (prank * n) + 1
      BY <1>1, <3>1 DEF Slot
    <3>3. PICK y, z : y = e * pranks /\ z = prank * n
      OBVIOUS
    <3>4. o = DataEnd + y + z /\ y \in Nat /\ z \in Nat /\ Slot(w, e, 1) = DataEnd + y + z + 1
      BY <1>3, <2>1, <2>2, <3>2, <3>3
    <3> QED BY <1>5, <3>4
  <2>4. n = actualdatab(paritysize, e) /\ buffer = ReadAt(o, n)
    BY <1>1, <1>7, <2>1
  <2>6. /\ Sequence(buffer) /\ Len(buffer) \in Nat /\ Len(buffer) <= n
        /\ o + 1 = Slot(w, e, 1) <=> OwnChunk(buffer, e, n)
    BY <1>3, <1>4, <2>3, <2>4, <2>5, ChunkRead
  <2> QED BY <2>3, <2>6
<1>10. xorparity' = OwnParity(0, e + n) /\ Sequence(xorparity') /\ Len(xorparity') = e + n
  <2>1. PICK x : x = xorparity
    OBVIOUS
  <2>5. PICK t : t = e + n
    OBVIOUS
  <2>2. Follow(x, e, buffer, n, t)
    BY <1>4, <1>6, <1>9, <2>1, <2>5 DEF Follow
  <2>3. /\ x \o buffer = OwnParity(0, t) <=> x = OwnParity(0, e) /\ OwnChunk(buffer, e, n)
        /\ Sequence(x \o buffer) /\ Len(x \o buffer) = e + Len(buffer)
    BY <2>2, ParityJoin
  <2>4. Len(buffer) = n
    BY <1>9 DEF OwnChunk
  <2> QED BY <1>3, <1>4, <1>9, <2>1, <2>3, <2>4, <2>5
<1>11. /\ FileTypes' /\ FileIs(w)' /\ Held(variables)' /\ GotData(totaldatasize)'
       /\ ParityFound' = ParityFound /\ failoffset' = failoffset
       /\ pranks' = pranks /\ paritysize' = P /\ Chunks(paritysize)' = Chunks(P)
       /\ DataEnd' = DataEnd
       /\ \A a, b : OwnParity(a, b)' = OwnParity(a, b)
  BY <1>1, <1>2, <1>3, <1>4, ParityStays
<1>12. CASE e + n < P
  <2>1. doing' = "recvparity" /\ readb' \in Chunks(paritysize)' /\ Sequence(xorparity)' /\ Len(xorparity') = readb'
    BY <1>3, <1>6, <1>10, <1>11, <1>12 DEF Sequence
  <2>2. base' = DataEnd' + (readb' * pranks')
    <3>1. (e + n) * pranks = (e * pranks) + (n * pranks) /\ e * pranks \in Nat /\ n * pranks \in Nat
      BY <1>5, <1>6
    <3> QED BY <1>3, <1>5, <1>7, <1>11, <3>1
  <2>3. xorparity' = OwnParity(0, readb)'
    <3>1. prank' = prank
      BY <1>3, FileStays DEF FileRead
    <3> QED BY <1>3, <1>10, <3>1 DEF OwnParity, ParityByte
  <2>4. ReadsParity(w)'
    BY <1>3, <1>11, <2>1, <2>2, <2>3 DEF ReadsParity
  <2> QED BY <1>1, <1>2, <1>11, <2>4 DEF FileInv
<1>13. CASE ~(e + n < P)
  <2>1. doing' = "loaded" /\ e + n = P
    BY <1>3, <1>5, <1>6, <1>13
  <2>2. ParityFound
    BY <1>3, <1>8 DEF ParityFound, WholeParityFound
  <2>3. xorparity' = OwnParity(0, paritysize)'
    <3>1. OwnParity(0, paritysize)' = OwnParity(0, P)
      BY <1>1, <1>11
    <3> QED BY <1>10, <2>1, <3>1
  <2>4. ShortReads'
    BY <2>1 DEF ShortReads
  <2>5. HasRead'
    BY <1>11, <2>1, <2>2, <2>3, <2>4 DEF HasRead
  <2> QED BY <1>1, <1>2, <1>11, <2>5 DEF FileInv
<1> QED BY <1>12, <1>13

-----------------------------------------------------------------------------
(* The properties.                                                         *)

LEMMA FileStutter ==
    ASSUME FileInv, UNCHANGED filevars
    PROVE  FileInv'
<1>1. /\ FileKept /\ FileRead /\ bytes' = bytes /\ failoffset' = failoffset /\ variables' = variables
      /\ doing' = doing /\ readb' = readb /\ cursor' = cursor /\ base' = base /\ xorparity' = xorparity
  BY DEF filevars, FileKept, FileRead
<1>2. FileTypes
  BY DEF FileInv
<1>3. /\ FileTypes' /\ pranks' = pranks /\ prank' = prank /\ totaldatasize' = totaldatasize /\ paritysize' = paritysize
      /\ Chunks(totaldatasize)' = Chunks(totaldatasize) /\ Chunks(paritysize)' = Chunks(paritysize)
      /\ Cursors' = Cursors /\ Position(cursor)' = Position(cursor) /\ Original' = Original /\ DataEnd' = DataEnd
      /\ Sequence(bytes)' = Sequence(bytes) /\ Sequence(xorparity)' = Sequence(xorparity)
      /\ Held(variables)' = Held(variables)
      /\ \A a, b : OwnParity(a, b)' = OwnParity(a, b)
  <2>1. FileTypes'
    BY <1>1, <1>2, TypesStay DEF FileTypes
  <2>2. /\ totaldatasize' = totaldatasize /\ Chunks(totaldatasize)' = Chunks(totaldatasize)
        /\ Chunks(paritysize)' = Chunks(paritysize) /\ Cursors' = Cursors /\ Original' = Original /\ DataEnd' = DataEnd
        /\ \A a, b : OwnParity(a, b)' = OwnParity(a, b)
    BY <1>1, FileStays
  <2>3. Position(cursor)' = Position(cursor)
    BY <1>1, ValuesLater
  <2>4. Held(variables)' = Held(variables) /\ Sequence(bytes)' = Sequence(bytes) /\ Sequence(xorparity)' = Sequence(xorparity)
    BY <1>1 DEF Held, Sequence, FileKept
  <2> QED BY <1>1, <2>1, <2>2, <2>3, <2>4 DEF FileKept
<1>4. readb' \in Chunks(totaldatasize)' <=> readb \in Chunks(totaldatasize)
  BY <1>1, <1>3
<1>5. readb' \in Chunks(paritysize)' <=> readb \in Chunks(paritysize)
  BY <1>1, <1>3
<1>6. \A u : DataLaid(u)' <=> DataLaid(u)
  BY <1>1, DataLaidLater DEF DataLaid
<1>7. \A w, u : (ParityLaid(w, u)' <=> ParityLaid(w, u)) /\ (ParityOnly(w, u)' <=> ParityOnly(w, u))
  <2> TAKE w, u
  <2>1. ParityLaid(w, u)' <=> ParityLaid(w, u)
    BY <1>1, ParityLater DEF ParityLaid
  <2>2. ParityOnly(w, u)' <=>
            \A i \in 1 .. Len(bytes) : \A e \in Chunks(paritysize) : \A k \in 1 .. actualdatab(paritysize, e) :
                bytes[i] = ParityByte(prank, e + k - 1) => e < u /\ i = Slot(w, e, k)
    BY <1>1, ParityLater
  <2> QED BY <2>1, <2>2 DEF ParityOnly
<1>8. \A u : GotData(u)' <=> GotData(u)
  BY <1>1, GotDataLater DEF GotData, Hid
<1>9. CASE WritesData
  <2>1. PICK r, P : r = readb /\ P = paritysize
    OBVIOUS
  <2>2. DataLaid(r)' /\ ParityOnly(P, 0)'
    BY <1>6, <1>7, <1>9, <2>1 DEF WritesData
  <2>3. DataLaid(readb)' /\ ParityOnly(paritysize, 0)'
    BY <1>1, <1>3, <2>1, <2>2 DEF DataLaid
  <2>4. WritesData'
    BY <1>1, <1>3, <1>9, <2>3 DEF WritesData
  <2> QED BY <1>3, <2>4 DEF FileInv
<1>10. CASE WritesParity
  <2>1. PICK r, P, T : r = readb /\ P = paritysize /\ T = totaldatasize
    OBVIOUS
  <2>2. DataLaid(T)' /\ ParityLaid(P, r)' /\ ParityOnly(P, r)'
    BY <1>6, <1>7, <1>10, <2>1 DEF WritesParity
  <2>3. DataLaid(totaldatasize)' /\ ParityLaid(paritysize, readb)' /\ ParityOnly(paritysize, readb)'
    BY <1>1, <1>3, <2>1, <2>2 DEF DataLaid
  <2>4. WritesParity'
    BY <1>1, <1>3, <1>10, <2>3 DEF WritesParity
  <2> QED BY <1>3, <2>4 DEF FileInv
<1>11. ASSUME NEW w \in 0 .. paritysize, FileIs(w), doing = "restart" \/ ReadsData \/ ReadsParity(w) \/ HasRead
       PROVE  FileInv'
  <2>1. FileIs(w)' /\ DataBase' = DataBase /\ ParityFound' = ParityFound
    BY <1>1, <1>2, <1>11, ReadStays
  <2>2. PICK r, P, T : r = readb /\ P = paritysize /\ T = totaldatasize
    OBVIOUS
  <2>3. GotData(r)' <=> GotData(r)
    BY <1>8
  <2>4. GotData(readb)' <=> GotData(readb)
    BY <1>1, <2>2, <2>3 DEF GotData
  <2>5. GotData(T)' <=> GotData(T)
    BY <1>8
  <2>6. GotData(totaldatasize)' <=> GotData(totaldatasize)
    BY <1>3, <2>2, <2>5 DEF GotData
  <2>7. CASE doing = "restart"
    BY <1>1, <1>3, <2>1, <2>7 DEF FileInv
  <2>8. CASE ReadsData
    <3>1. ReadsData'
      BY <1>1, <1>3, <2>4, <2>8 DEF ReadsData
    <3> QED BY <1>3, <2>1, <3>1 DEF FileInv
  <2>9. CASE ReadsParity(w)
    <3>1. \A e : Right(w, e)' = Right(w, e)
      BY <1>1, <1>2, <1>11, <2>9, ParityStays DEF ReadsParity
    <3>2. OwnParity(0, readb)' = OwnParity(0, readb)
      BY <1>1, <1>3 DEF OwnParity, ParityByte
    <3>3. (\A e \in Chunks(paritysize)' : e < readb' => Right(w, e)') <=> \A e \in Chunks(paritysize) : e < readb => Right(w, e)
      BY <1>1, <1>3, <3>1
    <3>4. Held(variables)' /\ GotData(totaldatasize)' /\ readb' \in Chunks(paritysize)' /\ Sequence(xorparity)'
          /\ Len(xorparity') = readb'
      BY <1>1, <1>3, <2>6, <2>9 DEF ReadsParity
    <3>5. CASE doing = "loadparity"
      <4>1. base' = DataBase'
            /\ (xorparity' = OwnParity(0, readb)' <=> \A e \in Chunks(paritysize)' : e < readb' => Right(w, e)')
        BY <1>1, <2>1, <2>9, <3>2, <3>3, <3>5 DEF ReadsParity
      <4>2. ReadsParity(w)'
        BY <1>1, <3>4, <3>5, <4>1 DEF ReadsParity
      <4> QED BY <1>3, <2>1, <4>2 DEF FileInv
    <3>6. CASE doing # "loadparity"
      <4>1. /\ doing' = "recvparity" /\ pranks' # 1 /\ failoffset' = -1 /\ base' = DataEnd' + (readb' * pranks')
            /\ xorparity' = OwnParity(0, readb)'
        BY <1>1, <1>3, <2>9, <3>2, <3>6 DEF ReadsParity
      <4>2. ReadsParity(w)'
        BY <3>4, <4>1 DEF ReadsParity
      <4> QED BY <1>3, <2>1, <4>2 DEF FileInv
    <3> QED BY <3>5, <3>6
  <2>10. CASE HasRead
    <3>1. OwnParity(0, paritysize)' = OwnParity(0, paritysize)
      BY <1>1, <1>3 DEF OwnParity, ParityByte
    <3>2. ShortReads'
      BY <1>1, <1>3, <2>10 DEF HasRead, ShortReads
    <3>3. HasRead'
      BY <1>1, <1>3, <2>1, <2>6, <2>10, <3>1, <3>2 DEF HasRead
    <3> QED BY <1>3, <2>1, <3>3 DEF FileInv
  <2> QED BY <1>11, <2>7, <2>8, <2>9, <2>10
<1> QED BY <1>9, <1>10, <1>11 DEF FileInv

\* The invariant from which the three properties follow: which parts of the file
\* are written, and what has been read back of them, in each loop of the code.
THEOREM FileInvariant == FileSpec => []FileInv
<1>1. FileInit => FileInv
  BY FileStart
<1>2. FileInv /\ [FileNext]_filevars => FileInv'
  <2> SUFFICES ASSUME FileInv, [FileNext]_filevars
               PROVE  FileInv'
    OBVIOUS
  <2>1. CASE WriteDataChunk
    BY <2>1, WriteDataKeeps
  <2>2. CASE WriteParityChunk
    BY <2>2, WriteParityKeeps
  <2>3. CASE WriteParityFails
    BY <2>3, WriteParityFailKeeps
  <2>4. CASE WriteAlone
    BY <2>4, WriteAloneKeeps
  <2>5. CASE Restart
    BY <2>5, RestartKeeps
  <2>6. CASE LoadDataChunk
    BY <2>6, LoadDataKeeps
  <2>7. CASE LoadParityChunk
    BY <2>7, LoadParityKeeps
  <2>8. CASE ReceiveDataChunk
    BY <2>8, ReceiveDataKeeps
  <2>9. CASE ReceiveParityChunk
    BY <2>9, ReceiveParityKeeps
  <2>10. CASE UNCHANGED filevars
    BY <2>10, FileStutter
  <2> QED BY <2>1, <2>2, <2>3, <2>4, <2>5, <2>6, <2>7, <2>8, <2>9, <2>10 DEF FileNext
<1> QED BY <1>1, <1>2, PTL DEF FileSpec

LEMMA DataComesBack ==
    ASSUME FileInv
    PROVE  DataRestored
<1> SUFFICES ASSUME doing \in {"loadparity", "recvparity", "loaded", "failed"}
             PROVE  variables # Original <=>
                        prank # 0 /\ failoffset >= 0 /\ LastChunk(totaldatasize) * pranks > failoffset
  BY DEF DataRestored
<1> DEFINE T == totaldatasize
           L == LastChunk(T)
<1>1. FileTypes /\ Held(variables) /\ GotData(T)
  BY DEF FileInv, WritesData, WritesParity, ReadsData, ReadsParity, HasRead
<1>2. T \in Nat \ {0} /\ L \in Chunks(T) /\ L \in Nat /\ Shaped /\ pranks \in Nat /\ failoffset \in Int /\ prank \in Nat
  BY <1>1, SizeFacts DEF FileTypes
<1>3. Hid(L) <=> failoffset >= 0 /\ L * pranks > failoffset
  BY DEF Hid
<1>4. Held(Original) /\ \A i \in 1 .. T : At(Original, i) = Datum(prank, PlaceOf(i))
  BY <1>2, OriginalAt
<1>5. ASSUME prank # 0, Hid(L)
      PROVE  variables # Original
  <2>1. 1 \in 1 .. actualdatab(T, L) /\ L + 1 \in 1 .. T /\ L < T
    <3>1. actualdatab(T, L) \in Nat \ {0} /\ L + actualdatab(T, L) <= T
      BY <1>2, ChunkFacts
    <3> HIDE DEF T, L
    <3> QED BY <1>2, <3>1
  <2>2. At(variables, L + 1) = Datum(0, L + 1)
    BY <1>1, <1>2, <1>5, <2>1 DEF GotData, Byte
  <2>3. At(Original, L + 1) = Datum(prank, PlaceOf(L + 1))
    BY <1>4, <2>1
  <2> QED BY <1>5, <2>2, <2>3, BytesApart
<1>6. ASSUME prank = 0 \/ ~Hid(L)
      PROVE  variables = Original
  <2>1. ASSUME NEW i \in 1 .. T
        PROVE  At(variables, i) = At(Original, i)
    <3>1. PICK e \in Chunks(T), k \in Nat : k \in 1 .. actualdatab(T, e) /\ i = e + k
      BY <1>2, SomeChunk
    <3>2. e \in Nat /\ e < T /\ e <= L
      BY <1>2, ChunkOrder DEF Chunks
    <3>3. Hid(e) => Hid(L)
      <4> HIDE DEF L, T
      <4>1. pranks * e <= pranks * L
        BY <1>2, <3>2, MulMonotone
      <4>2. e * pranks \in Nat /\ L * pranks \in Nat /\ e * pranks <= L * pranks
        BY <1>2, <3>2, <4>1
      <4> QED BY <1>2, <4>2 DEF Hid
    <3>4. At(variables, e + k) = Byte(IF Hid(e) THEN 0 ELSE prank, e + k)
      BY <1>1, <3>1, <3>2 DEF GotData
    <3>5. (IF Hid(e) THEN 0 ELSE prank) = prank
      BY <1>6, <3>3
    <3> QED BY <1>4, <3>1, <3>4, <3>5 DEF Byte
  <2> QED BY <1>1, <1>2, <1>4, <2>1, HeldEqual
<1> QED BY <1>3, <1>5, <1>6

\* Every registered byte comes back to its place in its variable, wherever the
\* variables end inside the chunks of load_local_checkpoint and
\* pair_transfer_and_write; exactly a failoffset in front of the last chunk makes
\* a rank other than the first load another member's part.
THEOREM DataRestoredHolds == FileSpec => []DataRestored
BY FileInvariant, DataComesBack, PTL

\* The rank reads back its own parity exactly when the offsets of
\* load_local_checkpoint and of the partner's transfer point at it: in a whole
\* group's file that no failoffset hides, by coincidence in one it appended its
\* parity to, and in a group of one rank if the data needs no padding.
THEOREM ParityRestoredHolds == FileSpec => []ParityRestored
<1>1. FileInv => ParityRestored
  BY DEF FileInv, WritesData, WritesParity, ReadsData, ReadsParity, HasRead, ParityFound, ParityRestored
<1> QED BY <1>1, FileInvariant, PTL

\* A read of load_local_checkpoint ends in front of the end of its chunk only in
\* a file whose Allgather of the parity failed, or in that of a group of one.
THEOREM ShortReadsHold == FileSpec => []ShortReads
<1>1. FileInv => ShortReads
  BY DEF FileInv, WritesData, WritesParity, ReadsData, ReadsParity, HasRead, ShortReads
<1> QED BY <1>1, FileInvariant, PTL
=============================================================================
