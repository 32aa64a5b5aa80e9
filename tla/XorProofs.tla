------------------------------ MODULE XorProofs ------------------------------
(***************************************************************************)
(* The XOR coding for every size of the group, of a chunk, of an element   *)
(* and of the data: the loops fill the parity they made room for, the data *)
(* of any one lost rank comes back, and its parity but for leftovers.      *)
(***************************************************************************)
EXTENDS XorCode, SequenceTheorems, FiniteSetTheorems, Numbers, TLAPS

-----------------------------------------------------------------------------
(* Sizes.                                                                  *)

\* Rounding to a multiple moves a number by less than the multiple's unit.
LEMMA RoundDownFacts ==
    ASSUME NEW k \in Nat, NEW b \in Nat \ {0}
    PROVE  /\ RoundDown(k, b) \in Nat
           /\ RoundDown(k, b) <= k /\ RoundDown(k, b) > k - b
           /\ RoundDown(k, b) = b * (k \div b)
<1>1. k \div b \in Nat /\ k % b \in 0 .. b - 1 /\ k = (b * (k \div b)) + (k % b)
  BY DivMod
<1>2. b * (k \div b) \in Nat
  BY <1>1
<1> QED BY <1>1, <1>2 DEF RoundDown

LEMMA RoundUpFacts ==
    ASSUME NEW k \in Nat, NEW b \in Nat \ {0}
    PROVE  /\ RoundUp(k, b) \in Nat
           /\ RoundUp(k, b) >= k /\ RoundUp(k, b) < k + b
           /\ \E u \in Nat : RoundUp(k, b) = b * u
<1> DEFINE n == k + b - 1
<1>1. n \in Nat /\ RoundUp(k, b) = RoundDown(n, b)
  BY DEF RoundUp
<1>2. n \div b \in Nat
  <2> HIDE DEF n
  <2> QED BY <1>1, DivMod
<1>3. RoundUp(k, b) \in Nat /\ RoundUp(k, b) <= n /\ RoundUp(k, b) > n - b /\ RoundUp(k, b) = b * (n \div b)
  <2> HIDE DEF n
  <2> QED BY <1>1, RoundDownFacts
<1>4. \E u \in Nat : RoundUp(k, b) = b * u
  <2> HIDE DEF n
  <2> QED BY <1>2, <1>3
<1> QED BY <1>3, <1>4

\* The segments of a group of w + 1 ranks hold its data.  A segment that is to
\* hold d bytes is no larger than one, of whole elements, that holds them.
LEMMA SegmentFacts ==
    ASSUME xranks \in Nat, xranks >= 3, MaxChunkElements >= xranks - 1, NEW d \in Nat \ {0}
    PROVE  /\ segmentsize(d) \in Nat \ {0}
           /\ \E t \in Nat : segmentsize(d) = BaseSize * t
           /\ maxchunkb >= d => (xranks - 1) * segmentsize(d) >= d
           /\ ~ (maxchunkb >= d) => (xranks - 1) * segmentsize(d) <= maxchunkb
           /\ \A t \in Nat : maxchunkb >= d /\ (xranks - 1) * (BaseSize * t) >= d => segmentsize(d) <= BaseSize * t
<1> DEFINE w == xranks - 1
           b == BaseSize
<1>1. w \in Nat \ {0} /\ b \in Nat \ {0} /\ MaxChunkElements \in Nat \ {0} /\ maxchunkb = MaxChunkElements * b
  BY SizesAssumption DEF maxchunkb
<1>2. maxchunkb \in Nat /\ maxchunkb >= w * b
  <2> DEFINE e == MaxChunkElements
  <2>1. e \in Nat /\ w <= e /\ maxchunkb = e * b
    BY <1>1
  <2> HIDE DEF b, e, w
  <2>2. b * w <= b * e
    BY <1>1, <2>1, MulMonotone
  <2>3. b * w = w * b /\ b * e = e * b /\ e * b \in Nat
    BY <1>1, <2>1
  <2> QED BY <2>1, <2>2, <2>3
<1>3. CASE maxchunkb >= d
  <2>1. PICK u \in Nat : RoundUp(d, w) = w * u /\ w * u >= d /\ w * u < d + w
    <3> DEFINE z == RoundUp(d, w)
    <3> HIDE DEF w
    <3>1. z >= d /\ z < d + w /\ \E u \in Nat : z = w * u
      BY <1>1, RoundUpFacts
    <3> HIDE DEF z
    <3>2. \E u \in Nat : z = w * u /\ w * u >= d /\ w * u < d + w
      BY <3>1
    <3> QED BY <3>2 DEF z
  <2>2. RoundUp(d, w) \div w = u
    <3>1. 0 \in 0 .. w - 1 /\ (w * u) + 0 = w * u /\ w * u \in Nat
      BY <1>1
    <3> HIDE DEF w
    <3>2. (w * u) \div w = u
      BY <1>1, <3>1, DivUnique
    <3> QED BY <2>1, <3>2
  <2>3. segmentsize(d) = RoundUp(u, b)
    BY <1>3, <2>2 DEF segmentsize
  <2>4. segmentsize(d) \in Nat /\ segmentsize(d) >= u /\ \E t \in Nat : segmentsize(d) = b * t
    BY <1>1, <2>3, RoundUpFacts
  <2>5. u # 0
    BY <1>1, <2>1
  <2>6. w * segmentsize(d) >= d
    <3>1. w * segmentsize(d) >= w * u
      BY <1>1, <2>4, MulMonotone
    <3> HIDE DEF w
    <3> QED BY <1>1, <2>1, <2>4, <3>1
  <2>7. ASSUME NEW t \in Nat, w * (b * t) >= d
        PROVE  segmentsize(d) <= b * t
    <3>1. b * t \in Nat /\ w * (b * t) \in Nat
      BY <1>1
    <3>2. u <= b * t
      <4>1. SUFFICES ASSUME b * t <= u - 1
                     PROVE  FALSE
        BY <3>1
      <4>2. w * (b * t) <= w * (u - 1)
        BY <1>1, <3>1, <4>1, MulMonotone
      <4>3. w * (u - 1) = (w * u) - w
        BY <1>1
      <4> HIDE DEF w, b
      <4> QED BY <1>1, <2>1, <2>7, <3>1, <4>2, <4>3
    <3>3. PICK v \in Nat : segmentsize(d) = b * v /\ b * v < u + b
      <4>1. RoundUp(u, b) < u + b /\ \E v \in Nat : RoundUp(u, b) = b * v
        BY <1>1, RoundUpFacts
      <4> QED BY <2>3, <4>1
    <3>4. v <= t
      <4>1. SUFFICES ASSUME t + 1 <= v
                     PROVE  FALSE
        OBVIOUS
      <4>2. b * (t + 1) <= b * v
        BY <1>1, <4>1, MulMonotone
      <4>3. b * (t + 1) = (b * t) + b
        BY <1>1
      <4> HIDE DEF w, b
      <4> QED BY <1>1, <3>1, <3>2, <3>3, <4>2, <4>3
    <3> QED BY <1>1, <3>3, <3>4, MulMonotone
  <2> QED BY <1>1, <1>3, <2>4, <2>5, <2>6, <2>7
<1>4. CASE ~ (maxchunkb >= d)
  <2> DEFINE u == maxchunkb \div w
             m == maxchunkb % w
  <2>1. u \in Nat /\ m \in 0 .. w - 1 /\ maxchunkb = (w * u) + m
    BY <1>1, <1>2, DivMod
  <2>2. segmentsize(d) = RoundDown(u, b)
    BY <1>4 DEF segmentsize
  <2> HIDE DEF u, m
  <2>3. segmentsize(d) \in Nat /\ segmentsize(d) <= u /\ segmentsize(d) > u - b /\ segmentsize(d) = b * (u \div b)
    BY <1>1, <2>1, <2>2, RoundDownFacts
  <2>4. u \div b \in Nat
    BY <1>1, <2>1, DivMod
  <2>5. u >= b
    <3>1. SUFFICES ASSUME u <= b - 1
                   PROVE  FALSE
      BY <1>1, <2>1
    <3>2. w * u <= w * (b - 1)
      BY <1>1, <2>1, <3>1, MulMonotone
    <3>3. w * (b - 1) = (w * b) - w
      BY <1>1
    <3>4. w * u \in Nat /\ w * b \in Nat
      BY <1>1, <2>1
    <3> HIDE DEF w, b
    <3> QED BY <1>1, <1>2, <2>1, <3>2, <3>3, <3>4
  <2>6. w * segmentsize(d) <= maxchunkb
    <3>1. w * segmentsize(d) <= w * u /\ w * u \in Nat /\ w * segmentsize(d) \in Nat
      BY <1>1, <2>1, <2>3, MulMonotone
    <3> HIDE DEF w
    <3> QED BY <1>1, <1>2, <2>1, <3>1
  <2>7. segmentsize(d) >= 1
    BY <1>1, <2>1, <2>3, <2>5
  <2> QED BY <1>4, <2>3, <2>4, <2>6, <2>7
<1> QED BY <1>3, <1>4

\* The group has a size the code accepts, and some data.
Sized ==
    /\ xranks \in Nat /\ xranks >= 3 /\ MaxChunkElements >= xranks - 1
    /\ datasize \in Nat \ {0}
    /\ lost \in XRank

\* A chunk holds some of the data, and no more than its data segments.
LEMMA StructFacts ==
    ASSUME Sized, NEW d \in Nat \ {0}, NEW xs, xs = compute_xstruct(d)
    PROVE  /\ xs.chunkxparitysize = segmentsize(d) /\ xs.chunkxparitysize \in Nat \ {0}
           /\ xs.chunksize = xs.chunkxparitysize * xranks
           /\ xs.realdatasize \in Nat \ {0} /\ xs.realdatasize <= d
           /\ xs.realdatasize <= (xranks - 1) * xs.chunkxparitysize
           /\ xs.chunkdatasize \in Nat /\ xs.chunkdatasize >= xs.realdatasize
           /\ maxchunkb >= d => xs.realdatasize = d
           /\ ~ (maxchunkb >= d) => /\ xs.realdatasize = (xranks - 1) * xs.chunkxparitysize
                                    /\ xs.realdatasize <= maxchunkb
<1> DEFINE seg == segmentsize(d)
<1>1. /\ xranks \in Nat /\ xranks >= 3 /\ maxchunkb \in Nat
      /\ seg \in Nat \ {0}
      /\ maxchunkb >= d => (xranks - 1) * seg >= d
      /\ ~ (maxchunkb >= d) => (xranks - 1) * seg <= maxchunkb
  BY SegmentFacts, SizesAssumption DEF Sized, maxchunkb
<1>2. /\ xs.chunkxparitysize = seg /\ xs.chunksize = seg * xranks
      /\ xs.chunkdatasize = IF maxchunkb >= d THEN RoundUp(d, seg) ELSE seg * (xranks - 1)
      /\ xs.realdatasize = IF maxchunkb >= d THEN d ELSE seg * (xranks - 1)
  BY DEF compute_xstruct
<1> HIDE DEF seg
<1>3. RoundUp(d, seg) \in Nat /\ RoundUp(d, seg) >= d
  BY <1>1, RoundUpFacts
<1>4. seg * (xranks - 1) = (xranks - 1) * seg /\ (xranks - 1) * seg \in Nat /\ (xranks - 1) * seg >= 1
  <2>1. (xranks - 1) * seg >= (xranks - 1) * 1
    BY <1>1, MulMonotone
  <2> QED BY <1>1, <2>1
<1>5. CASE maxchunkb >= d
  BY <1>1, <1>2, <1>3, <1>4, <1>5 DEF seg
<1>6. CASE ~ (maxchunkb >= d)
  BY <1>1, <1>2, <1>4, <1>6 DEF seg
<1> QED BY <1>5, <1>6

-----------------------------------------------------------------------------
(* The turns of the loops of xor_checkpoint and xor_recover.               *)

Seg == segmentsize(datasize)
Real == compute_xstruct(datasize).realdatasize

\* A turn begins where a number of full chunks ends; c bytes are done by then.
Starts == {c \in 0 .. datasize - 1 : c % Real = 0}
Turn(c) == compute_xstruct(IF datasize - c < Real THEN datasize - c ELSE datasize)

\* The parity of c bytes.
ParityOf(c) == (c \div Real) * Seg + (IF c % Real = 0 THEN 0 ELSE segmentsize(c % Real))

LEMMA FullFacts ==
    ASSUME Sized
    PROVE  /\ Seg \in Nat \ {0} /\ Real \in Nat \ {0} /\ Real <= datasize
           /\ xorparitysize(datasize) = ParityOf(datasize)
           /\ compute_xstruct(datasize).chunksize = Seg * xranks
           /\ maxchunkb >= datasize => Real = datasize
           /\ ~ (maxchunkb >= datasize) => Real = (xranks - 1) * Seg /\ Real <= maxchunkb
<1> DEFINE xs == compute_xstruct(datasize)
<1>1. datasize \in Nat \ {0}
  BY DEF Sized
<1>2. xs.realdatasize = Real
  BY DEF Real
<1> HIDE DEF xs
<1>3. xs = compute_xstruct(datasize)
  BY DEF xs
<1>4. /\ xs.chunkxparitysize = Seg /\ xs.chunkxparitysize \in Nat \ {0}
      /\ xs.chunksize = xs.chunkxparitysize * xranks
      /\ xs.realdatasize \in Nat \ {0} /\ xs.realdatasize <= datasize
      /\ maxchunkb >= datasize => xs.realdatasize = datasize
      /\ ~ (maxchunkb >= datasize) => /\ xs.realdatasize = (xranks - 1) * xs.chunkxparitysize
                                      /\ xs.realdatasize <= maxchunkb
  BY <1>1, <1>3, StructFacts DEF Seg
<1>5. xorparitysize(datasize) = ParityOf(datasize)
  BY DEF xorparitysize, ParityOf, Real, Seg
<1> QED BY <1>2, <1>3, <1>4, <1>5

\* A turn does at least a byte and no more than is left; behind it the loop ends
\* or the next turn begins, and its segment is the next of the parity.
LEMMA TurnFacts ==
    ASSUME Sized, NEW c \in Starts, NEW xs, xs = Turn(c)
    PROVE  /\ c \in Nat /\ c < datasize
           /\ xs.chunkxparitysize \in Nat \ {0} /\ xs.chunkxparitysize <= Seg
           /\ xs.chunksize = xs.chunkxparitysize * xranks
           /\ xs.realdatasize \in Nat \ {0} /\ xs.realdatasize <= (xranks - 1) * xs.chunkxparitysize
           /\ xs.chunkdatasize \in Nat /\ xs.chunkdatasize >= xs.realdatasize
           /\ c + xs.realdatasize = datasize \/ c + xs.realdatasize \in Starts
           /\ xs.realdatasize <= Real
           /\ ParityOf(c) \in Nat
           /\ ParityOf(c + xs.realdatasize) = ParityOf(c) + xs.chunkxparitysize
           /\ ~ (datasize - c < Real) => xs = compute_xstruct(datasize)
<1> DEFINE q == c \div Real
<1>1. /\ Seg \in Nat \ {0} /\ Real \in Nat \ {0} /\ Real <= datasize
      /\ maxchunkb >= datasize => Real = datasize
      /\ ~ (maxchunkb >= datasize) => Real = (xranks - 1) * Seg /\ Real <= maxchunkb
  BY FullFacts
<1>2. c \in Nat /\ c < datasize /\ c % Real = 0 /\ datasize \in Nat \ {0} /\ xranks \in Nat /\ xranks >= 3
  BY DEF Starts, Sized
<1>3. q \in Nat /\ c = Real * q
  <2>1. q \in Nat /\ c = (Real * q) + (c % Real)
    BY <1>1, <1>2, DivMod
  <2> HIDE DEF q
  <2> QED BY <1>1, <1>2, <2>1
<1>4. ParityOf(c) = q * Seg /\ q * Seg \in Nat
  <2>1. ParityOf(c) = q * Seg + 0
    BY <1>2 DEF ParityOf
  <2> HIDE DEF q
  <2> QED BY <1>1, <1>3, <2>1
<1> HIDE DEF q
<1>5. CASE datasize - c < Real
  <2> DEFINE rem == datasize - c
  <2>1. rem \in Nat \ {0} /\ rem < Real /\ rem \in 0 .. Real - 1 /\ xs = compute_xstruct(rem)
    BY <1>1, <1>2, <1>5 DEF Turn
  <2>2. datasize = (Real * q) + rem
    BY <1>1, <1>2, <1>3
  <2> HIDE DEF rem
  <2>3. datasize \div Real = q /\ datasize % Real = rem
    <3>1. Real \in Nat \ {0} /\ datasize \in Nat /\ q \in Int /\ rem \in 0 .. Real - 1
      BY <1>1, <1>2, <1>3, <2>1
    <3> QED BY <2>2, <3>1, DivUnique
  <2>4. ~ (maxchunkb >= datasize)
    <3>1. SUFFICES ASSUME Real = datasize
                   PROVE  FALSE
      BY <1>1
    <3>2. q = 0
      <4>1. SUFFICES ASSUME q >= 1
                     PROVE  FALSE
        BY <1>3
      <4>2. Real * q >= Real * 1
        BY <1>1, <1>3, <4>1, MulMonotone
      <4> QED BY <1>1, <1>2, <1>3, <3>1, <4>2
    <3> QED BY <1>1, <1>3, <2>1, <2>2, <3>1, <3>2
  <2>5. Real = (xranks - 1) * Seg /\ Real <= maxchunkb /\ maxchunkb \in Nat
    BY <1>1, <2>4, SizesAssumption DEF maxchunkb
  <2>6. maxchunkb >= rem
    BY <1>1, <2>1, <2>5
  <2>7. /\ xs.chunkxparitysize = segmentsize(rem) /\ xs.chunkxparitysize \in Nat \ {0}
        /\ xs.chunksize = xs.chunkxparitysize * xranks
        /\ xs.realdatasize = rem /\ xs.realdatasize <= (xranks - 1) * xs.chunkxparitysize
        /\ xs.chunkdatasize \in Nat /\ xs.chunkdatasize >= xs.realdatasize
    BY <2>1, <2>6, StructFacts
  <2>8. segmentsize(rem) <= Seg
    <3>1. PICK t \in Nat : Seg = BaseSize * t
      BY <1>2, SegmentFacts DEF Seg, Sized
    <3>2. (xranks - 1) * (BaseSize * t) >= rem
      BY <1>1, <2>1, <2>5, <3>1
    <3> QED BY <1>2, <2>1, <2>6, <3>1, <3>2, SegmentFacts DEF Sized
  <2>9. c + rem = datasize
    BY <1>2 DEF rem
  <2>10. ParityOf(datasize) = ParityOf(c) + xs.chunkxparitysize
    BY <1>4, <2>1, <2>3, <2>7 DEF ParityOf
  <2>11. xs.realdatasize <= Real
    BY <1>1, <2>1, <2>7
  <2> QED BY <1>2, <1>4, <1>5, <2>1, <2>7, <2>8, <2>9, <2>10, <2>11
<1>6. CASE ~ (datasize - c < Real)
  <2>1. xs = compute_xstruct(datasize) /\ xs.realdatasize = Real /\ xs.chunkxparitysize = Seg
    BY <1>6 DEF Turn, Real, compute_xstruct, Seg
  <2>2. /\ xs.chunksize = xs.chunkxparitysize * xranks
        /\ xs.realdatasize <= (xranks - 1) * xs.chunkxparitysize
        /\ xs.chunkdatasize \in Nat /\ xs.chunkdatasize >= xs.realdatasize
    BY <1>2, <2>1, StructFacts
  <2>3. c + Real = (Real * (q + 1)) + 0 /\ c + Real \in Nat /\ c + Real <= datasize
    BY <1>1, <1>2, <1>3, <1>6
  <2>4. (c + Real) \div Real = q + 1 /\ (c + Real) % Real = 0
    <3>1. Real \in Nat \ {0} /\ c + Real \in Nat /\ q + 1 \in Int /\ 0 \in 0 .. Real - 1
      BY <1>1, <1>3, <2>3
    <3> QED BY <2>3, <3>1, DivUnique
  <2>5. ParityOf(c + Real) = ParityOf(c) + Seg
    <3>1. ParityOf(c + Real) = (q + 1) * Seg + 0
      BY <2>4 DEF ParityOf
    <3> QED BY <1>1, <1>3, <1>4, <3>1
  <2>6. c + Real = datasize \/ c + Real \in Starts
    BY <1>1, <1>2, <2>3, <2>4 DEF Starts
  <2> QED BY <1>1, <1>2, <1>4, <1>6, <2>1, <2>2, <2>5, <2>6
<1> QED BY <1>5, <1>6

\* Two turns begin a full chunk apart.
LEMMA StartsApart ==
    ASSUME Sized, NEW c \in Starts, NEW e \in Starts, c < e
    PROVE  c + Real <= e
<1> DEFINE q == c \div Real
           a == e \div Real
<1>1. Real \in Nat \ {0} /\ datasize \in Nat
  BY FullFacts DEF Sized
<1>2. c \in Nat /\ e \in Nat /\ c % Real = 0 /\ e % Real = 0
  BY <1>1 DEF Starts
<1>3. q \in Nat /\ a \in Nat /\ c = (Real * q) + 0 /\ e = (Real * a) + 0
  BY <1>1, <1>2, DivMod
<1> HIDE DEF q, a
<1>4. q + 1 <= a
  <2>1. SUFFICES ASSUME a <= q
                 PROVE  FALSE
    BY <1>3
  <2>2. Real * a <= Real * q
    BY <1>1, <1>3, <2>1, MulMonotone
  <2> QED BY <1>1, <1>2, <1>3, <2>2
<1>5. Real * (q + 1) <= Real * a
  BY <1>1, <1>3, <1>4, MulMonotone
<1>6. Real * (q + 1) = (Real * q) + Real
  BY <1>1, <1>3
<1> QED BY <1>1, <1>2, <1>3, <1>5, <1>6

\* The parity grows with the loop.
LEMMA ParityBound ==
    ASSUME Sized, NEW c \in Starts \cup {datasize}
    PROVE  ParityOf(c) \in Nat /\ ParityOf(c) <= ParityOf(datasize)
<1> DEFINE q == c \div Real
           p == datasize \div Real
           rest == IF datasize % Real = 0 THEN 0 ELSE segmentsize(datasize % Real)
<1>1. Seg \in Nat \ {0} /\ Real \in Nat \ {0} /\ datasize \in Nat
  BY FullFacts DEF Sized
<1>2. p \in Nat /\ datasize % Real \in 0 .. Real - 1 /\ datasize = (Real * p) + (datasize % Real)
  BY <1>1, DivMod
<1>3. rest \in Nat
  <2>1. datasize % Real # 0 => segmentsize(datasize % Real) \in Nat
    BY <1>1, <1>2, SegmentFacts DEF Sized
  <2> QED BY <2>1
<1>4. ParityOf(datasize) = p * Seg + rest
  BY DEF ParityOf
<1>5. CASE c \in Starts
  <2>1. c \in Nat /\ c < datasize /\ c % Real = 0
    BY <1>1, <1>5 DEF Starts
  <2>2. q \in Nat /\ c = (Real * q) + (c % Real)
    BY <1>1, <2>1, DivMod
  <2>3. ParityOf(c) = q * Seg + 0
    BY <2>1 DEF ParityOf
  <2>c. c = Real * q
    <3> HIDE DEF q
    <3> QED BY <1>1, <2>1, <2>2
  <2> HIDE DEF q, p, rest
  <2>4. q <= p
    <3>1. SUFFICES ASSUME p + 1 <= q
                   PROVE  FALSE
      BY <1>2, <2>2
    <3>2. Real * (p + 1) <= Real * q
      BY <1>1, <1>2, <2>2, <3>1, MulMonotone
    <3>3. Real * (p + 1) = (Real * p) + Real
      BY <1>1, <1>2
    <3>4. datasize < (Real * p) + Real /\ Real * p \in Nat /\ Real * q \in Nat
      BY <1>1, <1>2, <2>2
    <3> QED BY <1>1, <2>1, <2>c, <3>2, <3>3, <3>4
  <2>5. q * Seg = Seg * q /\ p * Seg = Seg * p /\ q * Seg \in Nat /\ p * Seg \in Nat
    BY <1>1, <1>2, <2>2
  <2>6. Seg * q <= Seg * p
    BY <1>1, <1>2, <2>2, <2>4, MulMonotone
  <2> QED BY <1>3, <1>4, <2>3, <2>5, <2>6
<1>6. CASE c = datasize
  <2> HIDE DEF q, p, rest
  <2>1. p * Seg \in Nat
    BY <1>1, <1>2
  <2> QED BY <1>3, <1>4, <1>6, <2>1
<1> QED BY <1>5, <1>6

-----------------------------------------------------------------------------
(* The inductive invariant.                                                *)

Bytes == SUBSET (XRank \X {"data", "unwritten"} \X Nat)
Buffer == [0 .. compute_xstruct(datasize).chunksize - 1 -> Bytes]

\* Which byte of the data lies at a place outside the hole.
Unplace(r, xs, i) == IF i < r * xs.chunkxparitysize THEN i ELSE i - xs.chunkxparitysize

\* The byte at place i of rank r's chunk before any parity is put into the hole,
\* in the turn that begins at byte c; and the XOR of all ranks there.
Original(r, xs, c, i) ==
    IF i \notin Hole(r, xs) /\ Unplace(r, xs, i) < xs.realdatasize
    THEN DataByte(r, c + Unplace(r, xs, i)) ELSE ZeroByte
GroupParity(xs, c, i) == Xor([q \in XRank |-> Original(q, xs, c, i)])

XorTypeOK ==
    /\ Sized
    /\ step \in {"checkpoint", "recover", "rebuilt"}
    /\ computedb \in Starts \cup {datasize}
    /\ chunks \in [XRank -> Buffer]
    /\ parities \in [XRank -> Seq(Bytes)]
    /\ newdata \in Seq(Bytes) /\ newparity \in Seq(Bytes)
    /\ step = "rebuilt" => computedb = datasize

Encoded == IF step = "checkpoint" THEN computedb ELSE datasize

\* What is encoded has its parity in place, segment by segment.
ParitiesRight ==
    /\ \A r \in XRank : Len(parities[r]) = ParityOf(Encoded)
    /\ \A c \in Starts : c < Encoded =>
        /\ ParityOf(c) + Turn(c).chunkxparitysize <= ParityOf(Encoded)
        /\ \A r \in XRank : \A j \in 0 .. Turn(c).chunkxparitysize - 1 :
              parities[r][ParityOf(c) + j + 1] = GroupParity(Turn(c), c, r * Turn(c).chunkxparitysize + j)

\* The lost rank puts zeros into the XOR, and has got what was rebuilt.
Recovering ==
    /\ step = "recover" => \A i \in 0 .. compute_xstruct(datasize).chunksize - 1 :
          i < compute_xstruct(datasize).chunkdatasize + Seg => chunks[lost][i] = ZeroByte
    /\ step = "checkpoint" => newdata = <<>> /\ newparity = <<>>
    /\ step # "checkpoint" => /\ newdata = [i \in 1 .. computedb |-> DataByte(lost, i - 1)]
                              /\ Len(newparity) = ParityOf(computedb)

XorIInv == XorTypeOK /\ ParitiesRight /\ Recovering

-----------------------------------------------------------------------------
(* The places of a chunk.                                                  *)

\* A structure as the lemmas need it.
Formed(xs) ==
    /\ xs.chunkxparitysize \in Nat \ {0} /\ xs.realdatasize \in Nat \ {0} /\ xs.chunkdatasize \in Nat
    /\ xs.chunksize = xs.chunkxparitysize * xranks
    /\ xs.realdatasize <= (xranks - 1) * xs.chunkxparitysize /\ xs.realdatasize <= xs.chunkdatasize

LEMMA HoleFacts ==
    ASSUME NEW xs, xs.chunkxparitysize \in Nat \ {0}, NEW r \in Nat
    PROVE  /\ r * xs.chunkxparitysize \in Nat
           /\ Hole(r, xs) = r * xs.chunkxparitysize .. r * xs.chunkxparitysize + xs.chunkxparitysize - 1
           /\ \A j \in 0 .. xs.chunkxparitysize - 1 : r * xs.chunkxparitysize + j \in Hole(r, xs)
<1>1. r * xs.chunkxparitysize \in Nat /\ (r + 1) * xs.chunkxparitysize = r * xs.chunkxparitysize + xs.chunkxparitysize
  OBVIOUS
<1>2. Hole(r, xs) = r * xs.chunkxparitysize .. (r + 1) * xs.chunkxparitysize - 1
  BY DEF Hole
<1>3. Hole(r, xs) = r * xs.chunkxparitysize .. r * xs.chunkxparitysize + xs.chunkxparitysize - 1
  BY <1>1, <1>2
<1>4. \A j \in 0 .. xs.chunkxparitysize - 1 : r * xs.chunkxparitysize + j \in Hole(r, xs)
  BY <1>1, <1>3
<1> QED BY <1>1, <1>3, <1>4

\* Every place of a chunk lies in the hole of exactly one rank.
LEMMA HoleOf ==
    ASSUME xranks \in Nat, xranks >= 3, NEW xs, Formed(xs), NEW i \in Nat, i < xs.chunksize
    PROVE  \E p \in XRank : i \in Hole(p, xs) /\ \A r \in XRank : i \in Hole(r, xs) => r = p
<1> DEFINE seg == xs.chunkxparitysize
           p == i \div seg
           m == i % seg
<1>1. seg \in Nat \ {0} /\ i < seg * xranks
  BY DEF Formed
<1>2. p \in Nat /\ m \in 0 .. seg - 1 /\ i = (seg * p) + m
  BY <1>1, DivMod
<1>3. ASSUME NEW r \in Nat, i \in Hole(r, xs)
      PROVE  r = p
  <2> DEFINE j == i - r * seg
  <2>h. r * seg \in Nat /\ Hole(r, xs) = r * seg .. r * seg + seg - 1
    BY <1>1, HoleFacts
  <2>s. r * seg = seg * r
    BY <1>1
  <2>i. i \in r * seg .. r * seg + seg - 1
    BY <1>3, <2>h
  <2>1. j \in 0 .. seg - 1 /\ r \in Int /\ i = (seg * r) + j
    <3> HIDE DEF seg
    <3> QED BY <1>1, <2>h, <2>s, <2>i
  <2> HIDE DEF j
  <2> QED BY <1>1, <2>1, DivUnique
<1> HIDE DEF p, m, seg
<1>4. i \in Hole(p, xs)
  BY <1>1, <1>2, HoleFacts DEF seg
<1>5. p \in XRank
  <2>1. SUFFICES ASSUME xranks <= p
                 PROVE  FALSE
    BY <1>2 DEF XRank
  <2>2. seg * xranks <= seg * p
    BY <1>1, <1>2, <2>1, MulMonotone
  <2> QED BY <1>1, <1>2, <2>2
<1> QED BY <1>3, <1>4, <1>5 DEF XRank

\* Where byte k of the data goes, and that it is found there.
LEMMA PlaceFacts ==
    ASSUME xranks \in Nat, xranks >= 3, NEW xs, Formed(xs), NEW r \in XRank, NEW k \in 0 .. xs.realdatasize - 1
    PROVE  /\ Place(r, xs, k) \in Nat /\ Place(r, xs, k) < xs.chunksize
           /\ Place(r, xs, k) \notin Hole(r, xs)
           /\ Unplace(r, xs, Place(r, xs, k)) = k
           /\ Place(r, xs, k) < xs.realdatasize + xs.chunkxparitysize
<1> DEFINE seg == xs.chunkxparitysize
           h == r * seg
           real == xs.realdatasize
<1>1. seg \in Nat \ {0} /\ h \in Nat /\ real \in Nat /\ k \in 0 .. real - 1 /\ r \in Nat
  <2>1. seg \in Nat \ {0} /\ r \in Nat /\ real \in Nat
    BY DEF Formed, XRank
  <2> QED BY <2>1, HoleFacts
<1>2. Hole(r, xs) = h .. h + seg - 1
  BY <1>1, HoleFacts
<1>3. xs.chunksize = (xranks - 1) * seg + seg /\ real <= (xranks - 1) * seg /\ (xranks - 1) * seg \in Nat
  BY DEF Formed
<1>4. Place(r, xs, k) = IF k < h THEN k ELSE k + seg
  BY DEF Place
<1> DEFINE i == Place(r, xs, k)
<1>5. Unplace(r, xs, i) = IF i < h THEN i ELSE i - seg
  BY DEF Unplace
<1> HIDE DEF seg, h, real, i
<1>6. i = IF k < h THEN k ELSE k + seg
  BY <1>4 DEF i
<1>7. /\ i \in Nat /\ i < xs.chunksize /\ i \notin h .. h + seg - 1
      /\ (IF i < h THEN i ELSE i - seg) = k /\ i < real + seg
  BY <1>1, <1>3, <1>6
<1> QED BY <1>2, <1>5, <1>7 DEF i, real, seg

\* A place outside the hole is that of the byte found there.
LEMMA UnplaceFacts ==
    ASSUME NEW xs, Formed(xs), NEW r \in Nat, NEW i \in Nat, i \notin Hole(r, xs)
    PROVE  /\ Unplace(r, xs, i) \in Nat
           /\ \A k \in Nat : Place(r, xs, k) = i <=> k = Unplace(r, xs, i)
<1> DEFINE seg == xs.chunkxparitysize
           h == r * seg
<1>1. seg \in Nat \ {0} /\ h \in Nat
  BY HoleFacts DEF Formed
<1>2. i < h \/ i >= h + seg
  <2>1. Hole(r, xs) = h .. h + seg - 1
    BY <1>1, HoleFacts
  <2> HIDE DEF h
  <2> QED BY <1>1, <2>1
<1>3. Unplace(r, xs, i) = IF i < h THEN i ELSE i - seg
  BY DEF Unplace
<1>4. \A k \in Nat : Place(r, xs, k) = IF k < h THEN k ELSE k + seg
  BY DEF Place
<1> HIDE DEF seg, h
<1> QED BY <1>1, <1>2, <1>3, <1>4

\* fill_xor_chunk, place by place.
LEMMA Filled ==
    ASSUME NEW xs, Formed(xs), NEW r \in Nat, NEW c, NEW old, NEW parity, NEW i \in Nat, i \in DOMAIN old
    PROVE  fill_xor_chunk(old, r, xs, c, parity)[i] =
             IF i \in Hole(r, xs)
             THEN IF parity = NullParity THEN ZeroByte ELSE parity[i - r * xs.chunkxparitysize + 1]
             ELSE IF Unplace(r, xs, i) < xs.realdatasize THEN DataByte(r, c + Unplace(r, xs, i))
             ELSE IF Kept(r, xs, parity, i) THEN old[i] ELSE ZeroByte
<1> DEFINE K == 0 .. xs.realdatasize - 1
           u == Unplace(r, xs, i)
           v == CHOOSE k \in K : Place(r, xs, k) = i
<1>0. xs.realdatasize \in Nat \ {0}
  BY DEF Formed
<1>1. fill_xor_chunk(old, r, xs, c, parity)[i] =
        IF i \in Hole(r, xs)
        THEN IF parity = NullParity THEN ZeroByte ELSE parity[i - r * xs.chunkxparitysize + 1]
        ELSE IF \E k \in K : Place(r, xs, k) = i THEN DataByte(r, c + v)
        ELSE IF Kept(r, xs, parity, i) THEN old[i] ELSE ZeroByte
  BY DEF fill_xor_chunk
<1>2. ASSUME i \notin Hole(r, xs)
      PROVE  /\ (\E k \in K : Place(r, xs, k) = i) <=> u < xs.realdatasize
             /\ u < xs.realdatasize => v = u
  <2>1. u \in Nat /\ \A k \in Nat : Place(r, xs, k) = i <=> k = u
    BY <1>2, UnplaceFacts
  <2> HIDE DEF u
  <2>2. u < xs.realdatasize <=> u \in K
    BY <1>0, <2>1
  <2>3. \A k \in K : Place(r, xs, k) = i <=> k = u
    BY <1>0, <2>1
  <2> HIDE DEF K
  <2> QED BY <2>2, <2>3
<1> HIDE DEF K, u, v
<1>3. CASE i \in Hole(r, xs)
  BY <1>1, <1>3
<1>4. CASE i \notin Hole(r, xs)
  BY <1>1, <1>2, <1>4 DEF u
<1> QED BY <1>3, <1>4

-----------------------------------------------------------------------------
(* XOR.                                                                    *)

\* A symbol that one rank contributes comes out; one that two contribute does not.
LEMMA XorOne ==
    ASSUME NEW f, NEW x \in DOMAIN f, NEW b \in f[x], \A y \in DOMAIN f : b \in f[y] => y = x
    PROVE  b \in Xor(f)
<1> DEFINE givers == {r \in DOMAIN f : b \in f[r]}
<1>1. givers = {x}
  OBVIOUS
<1>2. Cardinality(givers) = 1
  BY <1>1, FS_Singleton
<1>3. Cardinality(givers) % 2 = 1
  BY <1>2
<1>4. b \in UNION {f[r] : r \in DOMAIN f}
  OBVIOUS
<1> QED BY <1>3, <1>4 DEF Xor

LEMMA XorTwo ==
    ASSUME NEW f, NEW x \in DOMAIN f, NEW y \in DOMAIN f, x # y, NEW b, b \in f[x], b \in f[y],
           \A z \in DOMAIN f : b \in f[z] => z = x \/ z = y
    PROVE  b \notin Xor(f)
<1> DEFINE givers == {r \in DOMAIN f : b \in f[r]}
<1>1. givers = {x} \cup {y}
  OBVIOUS
<1>2. Cardinality({x}) = 1 /\ IsFiniteSet({x})
  BY FS_Singleton
<1>3. Cardinality({x} \cup {y}) = 2
  <2> DEFINE S == {x}
  <2>1. y \notin S /\ IsFiniteSet(S) /\ Cardinality(S) = 1
    BY <1>2
  <2> HIDE DEF S
  <2>2. Cardinality(S \cup {y}) = Cardinality(S) + 1
    BY <2>1, FS_AddElement, Zenon
  <2> QED BY <2>1, <2>2 DEF S
<1>4. ~ (Cardinality(givers) % 2 = 1)
  BY <1>1, <1>3
<1> QED BY <1>4 DEF Xor

LEMMA XorMembers ==
    ASSUME NEW f, NEW b \in Xor(f)
    PROVE  \E r \in DOMAIN f : b \in f[r]
BY DEF Xor

\* A rank's original byte has symbols of that rank only.
LEMMA OwnSymbols ==
    ASSUME NEW q, NEW xs, NEW c, NEW i, NEW b \in Original(q, xs, c, i)
    PROVE  b[1] = q
BY DEF Original, DataByte, ZeroByte

\* ... so that the parity holds what any rank contributed.
LEMMA GroupParityMembers ==
    ASSUME NEW xs, NEW c, NEW i, NEW b
    PROVE  b \in GroupParity(xs, c, i) <=> \E q \in XRank : b \in Original(q, xs, c, i)
<1> DEFINE f == [q \in XRank |-> Original(q, xs, c, i)]
<1>1. DOMAIN f = XRank /\ \A q \in XRank : f[q] = Original(q, xs, c, i)
  OBVIOUS
<1>2. GroupParity(xs, c, i) = Xor(f)
  BY DEF GroupParity
<1> HIDE DEF f
<1>3. ASSUME b \in Xor(f)
      PROVE  \E q \in XRank : b \in Original(q, xs, c, i)
  BY <1>1, <1>3, XorMembers
<1>4. ASSUME NEW q \in XRank, b \in Original(q, xs, c, i)
      PROVE  b \in Xor(f)
  <2>1. \A y \in DOMAIN f : b \in f[y] => y = q
    BY <1>1, <1>4, OwnSymbols
  <2> QED BY <1>1, <1>4, <2>1, XorOne
<1> QED BY <1>2, <1>3, <1>4

\* What xor_recover rests on: one rank contributes the parity of all, the lost one
\* nothing, the others what they contributed to the parity.  All they contributed
\* cancels, and the byte of the lost rank is left.
LEMMA OthersCancel ==
    ASSUME NEW xs, NEW c, NEW i, NEW f, DOMAIN f = XRank, lost \in XRank,
           NEW p \in XRank, p # lost, i \in Hole(p, xs),
           f[p] = GroupParity(xs, c, i), f[lost] = ZeroByte,
           \A r \in XRank \ {p, lost} : f[r] = Original(r, xs, c, i)
    PROVE  Xor(f) = Original(lost, xs, c, i)
<1>1. Original(p, xs, c, i) = ZeroByte
  BY DEF Original
<1>2. ASSUME NEW b \in Original(lost, xs, c, i)
      PROVE  b \in Xor(f)
  <2>1. b \in f[p]
    BY <1>2, GroupParityMembers
  <2>2. b[1] = lost
    BY <1>2, OwnSymbols
  <2>3. ASSUME NEW r \in XRank, b \in f[r]
        PROVE  r = p
    <3>1. r # lost
      BY <2>3 DEF ZeroByte
    <3>2. r \notin {p, lost} => b[1] = r
      BY <2>3, OwnSymbols
    <3> QED BY <2>2, <3>1, <3>2
  <2> QED BY <2>1, <2>3, XorOne
<1>3. ASSUME NEW b \in Xor(f)
      PROVE  b \in Original(lost, xs, c, i)
  <2>1. PICK r \in XRank : b \in f[r]
    BY <1>3, XorMembers
  <2>2. \E q \in XRank : b \in Original(q, xs, c, i)
    <3>1. CASE r = p
      BY <2>1, <3>1, GroupParityMembers
    <3>2. CASE r = lost
      BY <2>1, <3>2 DEF ZeroByte
    <3>3. CASE r \in XRank \ {p, lost}
      BY <2>1, <3>3
    <3> QED BY <3>1, <3>2, <3>3
  <2>3. PICK q \in XRank : b \in Original(q, xs, c, i)
    BY <2>2
  <2>4. q # p /\ b \in f[p]
    BY <1>1, <2>3, GroupParityMembers DEF ZeroByte
  <2>5. SUFFICES ASSUME q # lost
                 PROVE  FALSE
    BY <2>3
  <2>6. b \in f[q]
    BY <2>3, <2>4, <2>5
  <2>7. ASSUME NEW z \in XRank, b \in f[z]
        PROVE  z = p \/ z = q
    <3>1. z # lost
      BY <2>7 DEF ZeroByte
    <3>2. z # p => b[1] = z
      BY <2>7, <3>1, OwnSymbols
    <3>3. b[1] = q
      BY <2>3, OwnSymbols
    <3> QED BY <3>2, <3>3
  <2> QED BY <1>3, <2>4, <2>6, <2>7, XorTwo
<1> QED BY <1>2, <1>3

-----------------------------------------------------------------------------
(* Types.                                                                  *)

LEMMA ByteTypes ==
    /\ ZeroByte \in Bytes
    /\ \A q \in XRank, i \in Nat : DataByte(q, i) \in Bytes /\ Unwritten(q, i) \in Bytes
BY DEF Bytes, ZeroByte, DataByte, Unwritten

LEMMA XorTyped ==
    ASSUME NEW f, \A r \in DOMAIN f : f[r] \in Bytes
    PROVE  Xor(f) \in Bytes
BY DEF Xor, Bytes

LEMMA FillTyped ==
    ASSUME NEW xs, Formed(xs), NEW r \in XRank, NEW c \in Nat, NEW old \in Buffer, NEW parity \in Seq(Bytes),
           parity = NullParity \/ Len(parity) = xs.chunkxparitysize
    PROVE  fill_xor_chunk(old, r, xs, c, parity) \in Buffer
<1> DEFINE new == fill_xor_chunk(old, r, xs, c, parity)
           D == 0 .. compute_xstruct(datasize).chunksize - 1
<1>1. DOMAIN old = D /\ \A i \in D : old[i] \in Bytes
  BY DEF Buffer
<1>2. new = [i \in D |-> new[i]]
  BY <1>1 DEF fill_xor_chunk
<1>3. ASSUME NEW i \in D
      PROVE  new[i] \in Bytes
  <2>1. i \in Nat /\ i \in DOMAIN old /\ r \in Nat
    BY <1>1 DEF XRank
  <2>2. CASE i \in Hole(r, xs)
    <3>1. new[i] = IF parity = NullParity THEN ZeroByte ELSE parity[i - r * xs.chunkxparitysize + 1]
      BY <2>1, <2>2, Filled
    <3>2. parity # NullParity => i - r * xs.chunkxparitysize + 1 \in 1 .. Len(parity)
      <4>1. xs.chunkxparitysize \in Nat \ {0}
        BY DEF Formed
      <4>2. i \in r * xs.chunkxparitysize .. r * xs.chunkxparitysize + xs.chunkxparitysize - 1 /\ r * xs.chunkxparitysize \in Nat
        BY <2>1, <2>2, <4>1, HoleFacts
      <4> QED BY <2>1, <4>1, <4>2
    <3> QED BY <3>1, <3>2, ByteTypes, ElementOfSeq
  <2>3. CASE i \notin Hole(r, xs)
    <3>1. Unplace(r, xs, i) \in Nat
      BY <2>1, <2>3, UnplaceFacts
    <3>2. DataByte(r, c + Unplace(r, xs, i)) \in Bytes
      BY <3>1, ByteTypes
    <3>3. new[i] \in {DataByte(r, c + Unplace(r, xs, i)), old[i], ZeroByte}
      BY <2>1, <2>3, Filled
    <3> QED BY <1>1, <3>2, <3>3, ByteTypes
  <2> QED BY <2>2, <2>3
<1> HIDE DEF new
<1> QED BY <1>2, <1>3 DEF Buffer, new

\* The sizes do not change.
LEMMA SizesStay ==
    ASSUME UNCHANGED <<xranks, datasize, lost>>
    PROVE  /\ Sized' = Sized /\ XRank' = XRank /\ Starts' = Starts /\ Seg' = Seg /\ Real' = Real
           /\ Bytes' = Bytes /\ Buffer' = Buffer
           /\ \A d : compute_xstruct(d)' = compute_xstruct(d)
           /\ \A c : Turn(c)' = Turn(c) /\ ParityOf(c)' = ParityOf(c)
           /\ \A xs, c, i : GroupParity(xs, c, i)' = GroupParity(xs, c, i)
<1>1. XRank' = XRank /\ Bytes' = Bytes /\ Sized' = Sized
  BY DEF XRank, Bytes, Sized
<1>2. \A d : segmentsize(d)' = segmentsize(d)
  BY DEF segmentsize
<1>3. \A d : compute_xstruct(d)' = compute_xstruct(d)
  BY <1>2 DEF compute_xstruct
<1>4. Seg' = Seg /\ Real' = Real
  BY <1>2, <1>3 DEF Seg, Real
<1>5. Starts' = Starts
  BY <1>4 DEF Starts
<1>6. Buffer' = Buffer
  BY <1>1, <1>3 DEF Buffer
<1>7. \A c : Turn(c)' = Turn(c)
  BY <1>3, <1>4 DEF Turn
<1>8. \A c : ParityOf(c)' = ParityOf(c)
  BY <1>2, <1>4 DEF ParityOf
<1>9. \A xs, c, i : GroupParity(xs, c, i)' = GroupParity(xs, c, i)
  BY <1>1 DEF GroupParity
<1> QED BY <1>1, <1>3, <1>4, <1>5, <1>6, <1>7, <1>8, <1>9

\* The structure of the turn the loop is in.
LEMMA TurnHere ==
    ASSUME Sized, computedb \in Starts \cup {datasize}, computedb < datasize
    PROVE  /\ computedb \in Starts /\ xstruct = Turn(computedb)
           /\ lastchunk <=> datasize - computedb < Real
           /\ Formed(xstruct)
<1>1. computedb \in Starts /\ datasize \in Nat
  BY DEF Sized
<1>2. lastchunk <=> datasize - computedb < Real
  BY DEF lastchunk, Real
<1>3. xstruct = Turn(computedb)
  BY <1>2 DEF xstruct, Turn
<1> DEFINE xs == xstruct
<1>4. xs = Turn(computedb)
  BY <1>3
<1> HIDE DEF xs
<1>5. Formed(xs)
  BY <1>1, <1>4, TurnFacts DEF Formed
<1> QED BY <1>1, <1>2, <1>3, <1>5 DEF xs

-----------------------------------------------------------------------------
(* Each step keeps the invariant.                                          *)

LEMMA SeqOfForm ==
    ASSUME NEW S, NEW n \in Nat, NEW s, s = [k \in 1 .. n |-> s[k]], \A k \in 1 .. n : s[k] \in S
    PROVE  s \in Seq(S) /\ Len(s) = n
<1>1. s \in [1 .. n -> S]
  OBVIOUS
<1>2. s \in Seq(S)
  BY <1>1, SeqDef
<1>3. Len(s) \in Nat /\ DOMAIN s = 1 .. Len(s)
  BY <1>2, LenProperties
<1>4. DOMAIN s = 1 .. n
  BY <1>1
<1> QED BY <1>2, <1>3, <1>4

LEMMA ZeroStarts ==
    ASSUME Sized
    PROVE  0 \in Starts /\ ParityOf(0) = 0
<1>1. Real \in Nat \ {0} /\ Seg \in Nat \ {0} /\ datasize \in Nat \ {0}
  BY FullFacts DEF Sized
<1>2. 0 % Real = 0 /\ 0 \div Real = 0
  <2>1. 0 \in 0 .. Real - 1 /\ 0 = (Real * 0) + 0 /\ 0 \in Int /\ 0 \in Nat /\ Real \in Nat \ {0}
    BY <1>1
  <2> QED BY <2>1, DivUnique
<1>3. ParityOf(0) = 0 * Seg + 0
  BY <1>2 DEF ParityOf
<1> QED BY <1>1, <1>2, <1>3 DEF Starts

LEMMA XorStart ==
    ASSUME XorInit
    PROVE  XorIInv
<1>1. Sized
  BY XorCodeAssumption DEF XorInit, Sized, XRank
<1>2. Real \in Nat \ {0} /\ Seg \in Nat \ {0} /\ datasize \in Nat \ {0}
  BY <1>1, FullFacts DEF Sized
<1>3. 0 \in Starts /\ ParityOf(0) = 0
  BY <1>1, ZeroStarts
<1>4. chunks \in [XRank -> Buffer]
  <2>1. \A r \in XRank, i \in 0 .. compute_xstruct(datasize).chunksize - 1 : Unwritten(r, i) \in Bytes
    BY ByteTypes
  <2> QED BY <2>1, ByteTypes DEF XorInit, Allocated, Buffer
<1>5. \A S : <<>> \in Seq(S) /\ Len(<<>>) = 0
  BY EmptySeq
<1>6. XorTypeOK
  BY <1>1, <1>3, <1>4, <1>5 DEF XorTypeOK, XorInit
<1>7. ParitiesRight
  <2>1. Encoded = 0 /\ \A r \in XRank : parities[r] = <<>>
    BY DEF Encoded, XorInit
  <2>2. \A c \in Starts : ~ (c < 0)
    BY <1>2 DEF Starts
  <2> QED BY <1>3, <1>5, <2>1, <2>2 DEF ParitiesRight
<1>8. Recovering
  BY DEF Recovering, XorInit
<1> QED BY <1>6, <1>7, <1>8 DEF XorIInv

LEMMA CheckpointChunkKeeps ==
    ASSUME XorIInv, CheckpointChunk
    PROVE  XorIInv'
<1> DEFINE xs == xstruct
           c == computedb
           D == 0 .. compute_xstruct(datasize).chunksize - 1
           seg == xs.chunkxparitysize
           piece(r) == [k \in 1 .. seg |-> Xor([q \in XRank |-> chunks'[q][r * seg + k - 1]])]
<1>1. XorTypeOK /\ ParitiesRight /\ Recovering /\ Sized
  BY DEF XorIInv, XorTypeOK
<1>2. step = "checkpoint" /\ c < datasize /\ UNCHANGED <<xranks, datasize, lost, step, dirty, newdata, newparity>>
  BY DEF CheckpointChunk
<1>3. c \in Starts /\ xs = Turn(c) /\ Formed(xs)
  BY <1>1, <1>2, TurnHere DEF XorTypeOK
<1>4. /\ chunks' = [r \in XRank |-> fill_xor_chunk(chunks[r], r, xs, c, NullParity)]
      /\ parities' = [r \in XRank |-> parities[r] \o piece(r)]
      /\ computedb' = c + xs.realdatasize
  BY DEF CheckpointChunk
<1>s. /\ Sized' = Sized /\ XRank' = XRank /\ Starts' = Starts /\ Seg' = Seg
      /\ Bytes' = Bytes /\ Buffer' = Buffer
      /\ \A d : compute_xstruct(d)' = compute_xstruct(d)
      /\ \A e : Turn(e)' = Turn(e) /\ ParityOf(e)' = ParityOf(e)
      /\ \A ys, e, i : GroupParity(ys, e, i)' = GroupParity(ys, e, i)
  BY <1>2, SizesStay
<1> HIDE DEF xs, c
<1>5. /\ c \in Nat /\ c < datasize
      /\ seg \in Nat \ {0} /\ seg <= Seg /\ xs.chunksize = seg * xranks
      /\ c + xs.realdatasize = datasize \/ c + xs.realdatasize \in Starts
      /\ ParityOf(c) \in Nat
      /\ ParityOf(c + xs.realdatasize) = ParityOf(c) + seg
      /\ xs.realdatasize \in Nat \ {0}
  BY <1>1, <1>3, TurnFacts
<1>6. /\ xranks \in Nat /\ xranks >= 3 /\ Seg \in Nat \ {0}
      /\ D = 0 .. Seg * xranks - 1 /\ seg * xranks \in Nat /\ seg * xranks <= Seg * xranks
  <2>1. compute_xstruct(datasize).chunksize = Seg * xranks /\ Seg \in Nat \ {0}
    BY <1>1, FullFacts
  <2>2. xranks \in Nat /\ xranks >= 3
    BY <1>1 DEF Sized
  <2>3. xranks * seg <= xranks * Seg
    BY <1>5, <2>1, <2>2, MulMonotone
  <2> HIDE DEF seg
  <2> QED BY <1>5, <2>1, <2>2, <2>3
<1>i. \A i \in 0 .. seg * xranks - 1 : i \in Nat /\ i \in D /\ i < xs.chunksize
  <2> DEFINE a == seg * xranks
             b == Seg * xranks
  <2>1. a \in Nat /\ a <= b /\ b \in Int /\ xs.chunksize = a /\ D = 0 .. b - 1
    BY <1>5, <1>6
  <2> HIDE DEF a, b, D
  <2>2. \A i \in 0 .. a - 1 : i \in Nat /\ i \in D /\ i < xs.chunksize
    BY <2>1
  <2> QED BY <2>2 DEF a
<1>7. chunks' \in [XRank -> Buffer]
  <2>1. NullParity \in Seq(Bytes)
    BY EmptySeq DEF NullParity
  <2>2. \A r \in XRank : chunks[r] \in Buffer
    BY <1>1 DEF XorTypeOK
  <2>3. \A r \in XRank : fill_xor_chunk(chunks[r], r, xs, c, NullParity) \in Buffer
    BY <1>3, <1>5, <2>1, <2>2, FillTyped
  <2> QED BY <1>4, <2>3
<1>8. \A q \in XRank : \A i \in 0 .. seg * xranks - 1 : chunks'[q][i] = Original(q, xs, c, i)
  <2> TAKE q \in XRank
  <2> TAKE i \in 0 .. seg * xranks - 1
  <2>1. i \in Nat /\ i \in D /\ q \in Nat /\ i < xs.chunksize
    <3>1. q \in Nat
      BY DEF XRank
    <3> QED BY <1>i, <3>1
  <2>2. DOMAIN chunks[q] = D
    BY <1>1 DEF XorTypeOK, Buffer
  <2>3. ~ Kept(q, xs, NullParity, i)
    BY <1>5, <1>6, <2>1 DEF Kept
  <2>4. chunks'[q][i] = fill_xor_chunk(chunks[q], q, xs, c, NullParity)[i]
    BY <1>4
  <2> HIDE DEF D
  <2>5. chunks'[q][i] =
             IF i \in Hole(q, xs) THEN ZeroByte
             ELSE IF Unplace(q, xs, i) < xs.realdatasize THEN DataByte(q, c + Unplace(q, xs, i))
             ELSE ZeroByte
    BY <1>3, <2>1, <2>2, <2>3, <2>4, Filled
  <2> QED BY <2>5 DEF Original
<1>9. \A r \in XRank : \A j \in 0 .. seg - 1 : r * seg + j \in 0 .. seg * xranks - 1
  <2> TAKE r \in XRank
  <2> TAKE j \in 0 .. seg - 1
  <2>1. r \in Nat /\ r <= xranks - 1
    BY <1>6 DEF XRank
  <2> HIDE DEF seg
  <2>2. seg * r <= seg * (xranks - 1)
    BY <1>5, <1>6, <2>1, MulMonotone
  <2>3. seg * (xranks - 1) = seg * xranks - seg /\ seg * r = r * seg /\ r * seg \in Nat
    BY <1>5, <1>6, <2>1
  <2> QED BY <1>5, <1>6, <2>2, <2>3
<1>10. \A r \in XRank : /\ piece(r) \in Seq(Bytes) /\ Len(piece(r)) = seg
                        /\ \A j \in 0 .. seg - 1 : piece(r)[j + 1] = GroupParity(xs, c, r * seg + j)
  <2> TAKE r \in XRank
  <2>1. ASSUME NEW j \in 0 .. seg - 1
        PROVE  /\ piece(r)[j + 1] = GroupParity(xs, c, r * seg + j)
               /\ piece(r)[j + 1] \in Bytes
    <3> DEFINE i == r * seg + j
               f == [q \in XRank |-> chunks'[q][i]]
    <3>1. i \in 0 .. seg * xranks - 1 /\ i \in D
      <4>1. i \in 0 .. seg * xranks - 1
        BY <1>9
      <4> HIDE DEF i, D
      <4> QED BY <1>i, <4>1
    <3>2. piece(r)[j + 1] = Xor(f)
      <4>1. j + 1 \in 1 .. seg /\ r * seg + (j + 1) - 1 = i
        BY <1>5, <3>1
      <4> QED BY <4>1
    <3> HIDE DEF i
    <3>3. f = [q \in XRank |-> Original(q, xs, c, i)]
      BY <1>8, <3>1
    <3>4. \A q \in XRank : f[q] \in Bytes
      BY <1>7, <3>1 DEF Buffer
    <3>5. DOMAIN f = XRank
      OBVIOUS
    <3>6. Xor(f) = GroupParity(xs, c, i)
      BY <3>3 DEF GroupParity
    <3> HIDE DEF f
    <3>7. Xor(f) \in Bytes
      BY <3>4, <3>5, XorTyped
    <3> QED BY <3>2, <3>6, <3>7 DEF i
  <2>2. \A k \in 1 .. seg : piece(r)[k] \in Bytes
    <3> TAKE k \in 1 .. seg
    <3>1. k - 1 \in 0 .. seg - 1 /\ (k - 1) + 1 = k
      BY <1>5
    <3> HIDE DEF piece
    <3> QED BY <2>1, <3>1
  <2>3. piece(r) = [k \in 1 .. seg |-> piece(r)[k]]
    OBVIOUS
  <2> HIDE DEF piece, seg
  <2>4. piece(r) \in Seq(Bytes) /\ Len(piece(r)) = seg
    BY <1>5, <2>2, <2>3, SeqOfForm
  <2> QED BY <2>1, <2>4
<1> HIDE DEF piece, D
<1>11. \A r \in XRank : /\ parities'[r] \in Seq(Bytes)
                        /\ Len(parities'[r]) = ParityOf(c) + seg
                        /\ \A j \in 1 .. ParityOf(c) : parities'[r][j] = parities[r][j]
                        /\ \A j \in 0 .. seg - 1 : parities'[r][ParityOf(c) + j + 1] = piece(r)[j + 1]
  <2> TAKE r \in XRank
  <2>1. parities[r] \in Seq(Bytes) /\ Len(parities[r]) = ParityOf(c)
    BY <1>1, <1>2 DEF XorTypeOK, ParitiesRight, Encoded, c
  <2>2. parities'[r] = parities[r] \o piece(r)
    BY <1>4
  <2>3. piece(r) \in Seq(Bytes) /\ Len(piece(r)) = seg
    BY <1>10
  <2> DEFINE n == ParityOf(c)
             g == seg
  <2>4. n \in Nat /\ g \in Nat \ {0}
    BY <1>5
  <2>5. /\ parities'[r] \in Seq(Bytes) /\ Len(parities'[r]) = n + g
        /\ \A j \in 1 .. n + g : parities'[r][j] = IF j <= n THEN parities[r][j] ELSE piece(r)[j - n]
    <3> DEFINE s == parities[r]
               t == piece(r)
    <3>1. s \in Seq(Bytes) /\ t \in Seq(Bytes) /\ Len(s) = n /\ Len(t) = g /\ parities'[r] = s \o t
      BY <2>1, <2>2, <2>3
    <3> HIDE DEF s, t, n, g
    <3>2. /\ s \o t \in Seq(Bytes) /\ Len(s \o t) = Len(s) + Len(t)
          /\ \A j \in 1 .. Len(s) + Len(t) : (s \o t)[j] = IF j <= Len(s) THEN s[j] ELSE t[j - Len(s)]
      BY <3>1, ConcatProperties
    <3>3. /\ parities'[r] \in Seq(Bytes) /\ Len(parities'[r]) = n + g
          /\ \A j \in 1 .. n + g : parities'[r][j] = IF j <= n THEN s[j] ELSE t[j - n]
      BY <3>1, <3>2
    <3> QED BY <3>3 DEF s, t
  <2> HIDE DEF n, seg
  <2>6. \A j \in 1 .. n : parities'[r][j] = parities[r][j]
    BY <2>4, <2>5
  <2>7. \A j \in 0 .. g - 1 : parities'[r][n + j + 1] = piece(r)[j + 1]
    <3> TAKE j \in 0 .. g - 1
    <3>1. n + j + 1 \in 1 .. n + g /\ ~ (n + j + 1 <= n) /\ (n + j + 1) - n = j + 1
      BY <2>4
    <3> QED BY <2>5, <3>1
  <2> QED BY <2>5, <2>6, <2>7 DEF n
<1>12. XorTypeOK'
  <2>1. parities' \in [XRank -> Seq(Bytes)]
    BY <1>4, <1>11
  <2> QED BY <1>1, <1>2, <1>4, <1>5, <1>7, <1>s, <2>1 DEF XorTypeOK
<1>13. ParitiesRight'
  <2>1. Encoded' = c + xs.realdatasize
    BY <1>2, <1>4 DEF Encoded
  <2>2. \A r \in XRank : Len(parities'[r]) = ParityOf(c + xs.realdatasize)
    BY <1>5, <1>11
  <2>3. ASSUME NEW e \in Starts, e < c + xs.realdatasize
        PROVE  /\ ParityOf(e) + Turn(e).chunkxparitysize <= ParityOf(c + xs.realdatasize)
               /\ \A r \in XRank : \A j \in 0 .. Turn(e).chunkxparitysize - 1 :
                    parities'[r][ParityOf(e) + j + 1] = GroupParity(Turn(e), e, r * Turn(e).chunkxparitysize + j)
    <3>1. e \in Nat /\ ParityOf(e) \in Nat /\ Turn(e).chunkxparitysize \in Nat \ {0}
      BY <1>1, TurnFacts
    <3>2. CASE e < c
      <4>1. /\ ParityOf(e) + Turn(e).chunkxparitysize <= ParityOf(c)
            /\ \A r \in XRank : \A j \in 0 .. Turn(e).chunkxparitysize - 1 :
                 parities[r][ParityOf(e) + j + 1] = GroupParity(Turn(e), e, r * Turn(e).chunkxparitysize + j)
        BY <1>1, <1>2, <3>2 DEF ParitiesRight, Encoded, c
      <4>2. \A j \in 0 .. Turn(e).chunkxparitysize - 1 : ParityOf(e) + j + 1 \in 1 .. ParityOf(c)
        BY <1>5, <3>1, <4>1
      <4>3. \A r \in XRank : \A j \in 0 .. Turn(e).chunkxparitysize - 1 :
              parities'[r][ParityOf(e) + j + 1] = parities[r][ParityOf(e) + j + 1]
        BY <1>11, <4>2
      <4>4. ParityOf(e) + Turn(e).chunkxparitysize <= ParityOf(c + xs.realdatasize)
        BY <1>5, <3>1, <4>1
      <4> QED BY <4>1, <4>3, <4>4
    <3>3. CASE e = c
      BY <1>3, <1>5, <1>10, <1>11, <3>3
    <3>4. CASE e > c
      <4>1. c + Real <= e /\ xs.realdatasize <= Real /\ Real \in Nat
        <5>1. c + Real <= e
          BY <1>1, <1>3, <3>4, StartsApart
        <5>2. xs.realdatasize <= Real
          BY <1>1, <1>3, TurnFacts
        <5> QED BY <1>1, <5>1, <5>2, FullFacts
      <4> QED BY <1>5, <2>3, <3>1, <4>1
    <3> QED BY <1>5, <3>1, <3>2, <3>3, <3>4
  <2> QED BY <1>s, <2>1, <2>2, <2>3 DEF ParitiesRight
<1>14. Recovering'
  BY <1>1, <1>2 DEF Recovering
<1> QED BY <1>12, <1>13, <1>14 DEF XorIInv

LEMMA FillNothingTyped ==
    ASSUME NEW old \in Buffer, NEW xs
    PROVE  FillNothing(old, xs) \in Buffer
BY ByteTypes DEF FillNothing, Buffer

LEMMA RecoverBeginsKeeps ==
    ASSUME XorIInv, RecoverBegins
    PROVE  XorIInv'
<1>1. XorTypeOK /\ ParitiesRight /\ Recovering /\ Sized
  BY DEF XorIInv, XorTypeOK
<1>2. /\ step = "checkpoint" /\ computedb >= datasize /\ step' = "recover" /\ computedb' = 0
      /\ dirty' \in SUBSET XRank
      /\ chunks' = [Allocated(dirty') EXCEPT ![lost] = FillNothing(@, compute_xstruct(datasize))]
      /\ UNCHANGED <<xranks, datasize, lost, parities, newdata, newparity>>
  BY DEF RecoverBegins
<1>s. /\ Sized' = Sized /\ XRank' = XRank /\ Starts' = Starts /\ Seg' = Seg
      /\ Bytes' = Bytes /\ Buffer' = Buffer
      /\ \A d : compute_xstruct(d)' = compute_xstruct(d)
      /\ \A e : Turn(e)' = Turn(e) /\ ParityOf(e)' = ParityOf(e)
      /\ \A ys, e, i : GroupParity(ys, e, i)' = GroupParity(ys, e, i)
  BY <1>2, SizesStay
<1>3. computedb = datasize
  <2>1. \A e \in Starts : e < datasize
    BY <1>1 DEF Starts, Sized
  <2> QED BY <1>1, <1>2, <2>1 DEF XorTypeOK, Sized, Starts
<1>4. 0 \in Starts /\ ParityOf(0) = 0
  BY <1>1, ZeroStarts
<1>5. lost \in XRank
  BY <1>1 DEF Sized
<1>6. /\ chunks' \in [XRank -> Buffer]
      /\ chunks'[lost] = FillNothing(Allocated(dirty')[lost], compute_xstruct(datasize))
      /\ Allocated(dirty')[lost] \in Buffer
  <2> DEFINE A == Allocated(dirty')
  <2>1. A \in [XRank -> Buffer]
    <3>1. \A r \in XRank, i \in 0 .. compute_xstruct(datasize).chunksize - 1 : Unwritten(r, i) \in Bytes
      BY ByteTypes
    <3> QED BY <3>1, ByteTypes DEF Allocated, Buffer
  <2>2. chunks' = [A EXCEPT ![lost] = FillNothing(A[lost], compute_xstruct(datasize))]
    BY <1>2
  <2> HIDE DEF A
  <2>3. A[lost] \in Buffer /\ FillNothing(A[lost], compute_xstruct(datasize)) \in Buffer
    BY <1>5, <2>1, FillNothingTyped
  <2>4. chunks' \in [XRank -> Buffer] /\ chunks'[lost] = FillNothing(A[lost], compute_xstruct(datasize))
    BY <1>5, <2>1, <2>2, <2>3
  <2> QED BY <2>3, <2>4 DEF A
<1>7. XorTypeOK'
  BY <1>1, <1>2, <1>4, <1>6, <1>s DEF XorTypeOK
<1>8. ParitiesRight'
  <2>1. Encoded' = Encoded /\ Encoded = datasize
    BY <1>2, <1>3 DEF Encoded
  <2> QED BY <1>1, <1>2, <1>s, <2>1 DEF ParitiesRight
<1>9. Recovering'
  <2>1. newdata = <<>> /\ newparity = <<>>
    BY <1>1, <1>2 DEF Recovering
  <2>2. newdata = [i \in 1 .. 0 |-> DataByte(lost, i - 1)]
    <3> DEFINE none == [i \in 1 .. 0 |-> DataByte(lost, i - 1)]
    <3>1. none = [i \in 1 .. 0 |-> none[i]] /\ \A i \in 1 .. 0 : none[i] \in Bytes
      OBVIOUS
    <3> HIDE DEF none
    <3>2. none \in Seq(Bytes) /\ Len(none) = 0
      BY <3>1, SeqOfForm
    <3>3. <<>> \in Seq(Bytes) /\ Len(<<>>) = 0
      BY EmptySeq
    <3>4. none = <<>>
      BY <3>2, <3>3, SeqEqual
    <3> QED BY <2>1, <3>4 DEF none
  <2>3. Len(newparity) = 0
    BY <2>1, EmptySeq
  <2>4. ASSUME NEW i \in 0 .. compute_xstruct(datasize).chunksize - 1,
               i < compute_xstruct(datasize).chunkdatasize + Seg
        PROVE  chunks'[lost][i] = ZeroByte
    <3>1. compute_xstruct(datasize).chunkxparitysize = Seg
      BY DEF compute_xstruct, Seg
    <3>2. i \in DOMAIN Allocated(dirty')[lost]
      BY <1>6 DEF Buffer
    <3> QED BY <1>6, <2>4, <3>1, <3>2 DEF FillNothing
  <2> QED BY <1>2, <1>4, <1>s, <2>2, <2>3, <2>4 DEF Recovering
<1> QED BY <1>7, <1>8, <1>9 DEF XorIInv

\* The part of a survivor's own parity that belongs to the turn of xor_recover:
\* the XOR of what all ranks had at the places of its hole.
LEMMA OwnParity ==
    ASSUME XorIInv, step = "recover", computedb < datasize, NEW xs, xs = xstruct, NEW r \in XRank,
           NEW own, own = SubSeq(parities[r], Len(newparity) + 1, Len(newparity) + xs.chunkxparitysize)
    PROVE  /\ own \in Seq(Bytes) /\ Len(own) = xs.chunkxparitysize /\ own # NullParity
           /\ \A i \in Hole(r, xs) : own[i - r * xs.chunkxparitysize + 1] = GroupParity(xs, computedb, i)
<1> DEFINE s == parities[r]
           seg == xs.chunkxparitysize
           c == computedb
           l == Len(newparity)
           t == ParityOf(datasize)
<1>1. XorTypeOK /\ ParitiesRight /\ Recovering /\ Sized
  BY DEF XorIInv, XorTypeOK
<1>2. c \in Starts /\ xs = Turn(c)
  BY <1>1, TurnHere DEF XorTypeOK
<1>3. s \in Seq(Bytes) /\ Len(s) = t /\ l = ParityOf(c)
  BY <1>1 DEF XorTypeOK, ParitiesRight, Recovering, Encoded
<1>4. /\ ParityOf(c) + seg <= t
      /\ \A j \in 0 .. seg - 1 : s[ParityOf(c) + j + 1] = GroupParity(xs, c, r * seg + j)
  <2>1. c < Encoded /\ Encoded = datasize
    BY DEF Encoded
  <2> QED BY <1>1, <1>2, <2>1 DEF ParitiesRight
<1>5. seg \in Nat \ {0} /\ ParityOf(c) \in Nat /\ t \in Nat
  <2>1. seg \in Nat \ {0} /\ ParityOf(c) \in Nat
    BY <1>1, <1>2, TurnFacts
  <2> QED BY <1>1, <2>1, ParityBound
<1>6. own = SubSeq(s, l + 1, l + seg)
  OBVIOUS
<1>7. r \in Nat /\ r * seg \in Nat /\ Hole(r, xs) = r * seg .. r * seg + seg - 1
  BY <1>5, HoleFacts DEF XRank
<1> DEFINE a == l + 1
           b == l + seg
<1> HIDE DEF s, seg, c, l, t
<1>8. a \in Int /\ b \in Int /\ a <= b /\ b - a + 1 = seg /\ \A i \in a .. b : i \in 1 .. Len(s)
  BY <1>3, <1>4, <1>5
<1> HIDE DEF a, b
<1>9. \A i \in a .. b : s[i] \in Bytes
  BY <1>3, <1>8, ElementOfSeq
<1>10. /\ SubSeq(s, a, b) \in Seq(Bytes) /\ Len(SubSeq(s, a, b)) = seg
       /\ \A i \in 1 .. b - a + 1 : SubSeq(s, a, b)[i] = s[a + i - 1]
  BY <1>8, <1>9, SubSeqProperties
<1>11. own = SubSeq(s, a, b)
  BY <1>6 DEF a, b
<1>12. own # NullParity
  BY <1>5, <1>10, <1>11, EmptySeq DEF NullParity
<1>13. ASSUME NEW i \in Hole(r, xs)
       PROVE  own[i - r * seg + 1] = GroupParity(xs, c, i)
  <2> DEFINE h == r * seg
             j == i - h
  <2>1. h \in Nat /\ i \in h .. h + seg - 1
    BY <1>7
  <2> HIDE DEF h
  <2>2. j \in 0 .. seg - 1 /\ h + j = i
    BY <1>5, <2>1
  <2> HIDE DEF j
  <2>a. l \in Nat /\ a = l + 1 /\ b - a + 1 = seg
    BY <1>3, <1>5, <1>8 DEF a
  <2>3. j + 1 \in 1 .. b - a + 1 /\ a + (j + 1) - 1 = l + j + 1
    BY <1>5, <2>2, <2>a
  <2>4. own[j + 1] = s[l + j + 1]
    <3> DEFINE k == j + 1
    <3>1. k \in 1 .. b - a + 1 /\ a + k - 1 = l + j + 1
      BY <2>3
    <3> HIDE DEF k
    <3>2. SubSeq(s, a, b)[k] = s[a + k - 1]
      BY <1>10, <3>1
    <3> QED BY <1>11, <3>1, <3>2 DEF k
  <2>5. s[l + j + 1] = GroupParity(xs, c, h + j)
    BY <1>3, <1>4, <2>2 DEF h
  <2>6. i - h + 1 = j + 1
    BY DEF j
  <2> QED BY <2>2, <2>4, <2>5, <2>6 DEF h
<1> QED BY <1>10, <1>11, <1>12, <1>13 DEF seg, c

LEMMA RecoverChunkKeeps ==
    ASSUME XorIInv, RecoverChunk
    PROVE  XorIInv'
<1> DEFINE xs == xstruct
           c == computedb
           D == 0 .. compute_xstruct(datasize).chunksize - 1
           seg == xs.chunkxparitysize
           real == xs.realdatasize
           own(r) == SubSeq(parities[r], Len(newparity) + 1, Len(newparity) + seg)
           received == [i \in DOMAIN chunks[lost] |-> Xor([r \in XRank |-> chunks'[r][i]])]
<1>1. XorTypeOK /\ ParitiesRight /\ Recovering /\ Sized /\ lost \in XRank
  BY DEF XorIInv, XorTypeOK, Sized
<1>2. step = "recover" /\ c < datasize /\ UNCHANGED <<xranks, datasize, lost, step, dirty, parities>>
  BY DEF RecoverChunk
<1>3. c \in Starts /\ xs = Turn(c) /\ Formed(xs) /\ (lastchunk <=> datasize - c < Real)
  BY <1>1, <1>2, TurnHere DEF XorTypeOK
<1>4. /\ chunks' = [r \in XRank |->
            IF r # lost THEN fill_xor_chunk(chunks[r], r, xs, c, own(r))
            ELSE IF lastchunk THEN FillNothing(chunks[r], xs)
            ELSE chunks[r]]
      /\ newdata' = newdata \o ExtractData(received, xs)
      /\ newparity' = newparity \o ExtractParity(received, xs)
      /\ computedb' = c + real
  BY DEF RecoverChunk
<1>s. /\ Sized' = Sized /\ XRank' = XRank /\ Starts' = Starts /\ Seg' = Seg
      /\ Bytes' = Bytes /\ Buffer' = Buffer
      /\ \A d : compute_xstruct(d)' = compute_xstruct(d)
      /\ \A e : Turn(e)' = Turn(e) /\ ParityOf(e)' = ParityOf(e)
      /\ \A ys, e, i : GroupParity(ys, e, i)' = GroupParity(ys, e, i)
  BY <1>2, SizesStay
<1> HIDE DEF xs, c
<1>5. /\ c \in Nat /\ c < datasize /\ datasize \in Nat
      /\ seg \in Nat \ {0} /\ seg <= Seg /\ xs.chunksize = seg * xranks
      /\ c + real = datasize \/ c + real \in Starts
      /\ ParityOf(c) \in Nat
      /\ ParityOf(c + real) = ParityOf(c) + seg
      /\ real \in Nat \ {0} /\ xs.chunkdatasize \in Nat /\ real <= xs.chunkdatasize
      /\ datasize - c < Real \/ xs = compute_xstruct(datasize)
  BY <1>1, <1>3, TurnFacts DEF Sized
<1>6. xranks \in Nat /\ xranks >= 3 /\ \A i \in Nat : i < xs.chunksize => i \in D
  <2>1. compute_xstruct(datasize).chunksize = Seg * xranks /\ Seg \in Nat \ {0}
    BY <1>1, FullFacts
  <2>2. xranks \in Nat /\ xranks >= 3
    BY <1>1 DEF Sized
  <2>3. xranks * seg <= xranks * Seg
    BY <1>5, <2>1, <2>2, MulMonotone
  <2>4. seg * xranks = xranks * seg /\ Seg * xranks = xranks * Seg /\ xranks * seg \in Nat /\ xranks * Seg \in Nat
    BY <1>5, <2>1, <2>2
  <2> HIDE DEF seg
  <2> QED BY <1>5, <2>1, <2>2, <2>3, <2>4
<1>7. \A r \in XRank : /\ own(r) \in Seq(Bytes) /\ Len(own(r)) = seg /\ own(r) # NullParity
                       /\ \A i \in Hole(r, xs) : own(r)[i - r * seg + 1] = GroupParity(xs, c, i)
  <2> TAKE r \in XRank
  <2> DEFINE s == own(r)
  <2>1. s = SubSeq(parities[r], Len(newparity) + 1, Len(newparity) + xs.chunkxparitysize) /\ xs = xstruct
    BY DEF xs
  <2> HIDE DEF s
  <2>2. computedb < datasize
    BY <1>2 DEF c
  <2> QED BY <1>2, <2>1, <2>2, OwnParity DEF s, c
<1> HIDE DEF own
<1>8. \A r \in XRank : chunks[r] \in Buffer /\ DOMAIN chunks[r] = D
  BY <1>1 DEF XorTypeOK, Buffer
<1>9. chunks' \in [XRank -> Buffer]
  <2> SUFFICES ASSUME NEW r \in XRank
               PROVE  chunks'[r] \in Buffer
    BY <1>4
  <2>1. CASE r # lost
    <3>1. fill_xor_chunk(chunks[r], r, xs, c, own(r)) \in Buffer
      BY <1>3, <1>5, <1>7, <1>8, FillTyped
    <3> QED BY <1>4, <2>1, <3>1
  <2>2. CASE r = lost
    BY <1>4, <1>8, <2>2, FillNothingTyped
  <2> QED BY <2>1, <2>2
<1>10. \A k \in 0 .. real - 1 : received[Place(lost, xs, k)] = DataByte(lost, c + k)
  <2> SUFFICES ASSUME NEW k \in 0 .. real - 1
               PROVE  received[Place(lost, xs, k)] = DataByte(lost, c + k)
    OBVIOUS
  <2> DEFINE i == Place(lost, xs, k)
             f == [r \in XRank |-> chunks'[r][i]]
  <2>1. /\ i \in Nat /\ i < xs.chunksize /\ i \notin Hole(lost, xs)
        /\ Unplace(lost, xs, i) = k /\ i < real + seg
    BY <1>1, <1>3, <1>6, PlaceFacts
  <2>2. i \in D
    BY <1>6, <2>1
  <2>3. received[i] = Xor(f)
    BY <1>1, <1>8, <2>2
  <2> HIDE DEF i, received, D
  <2>4. PICK p \in XRank : i \in Hole(p, xs) /\ \A r \in XRank : i \in Hole(r, xs) => r = p
    BY <1>3, <1>6, <2>1, HoleOf
  <2>5. p # lost /\ p \in Nat
    BY <2>1, <2>4 DEF XRank
  <2>6. chunks'[p][i] = GroupParity(xs, c, i)
    <3>1. chunks'[p] = fill_xor_chunk(chunks[p], p, xs, c, own(p))
      BY <1>4, <2>5
    <3>2. i \in DOMAIN chunks[p]
      BY <1>8, <2>2
    <3>3. chunks'[p][i] = own(p)[i - p * seg + 1]
      BY <1>3, <1>7, <2>1, <2>4, <2>5, <3>1, <3>2, Filled
    <3> QED BY <1>7, <2>4, <3>3
  <2>7. chunks'[lost][i] = ZeroByte
    <3>1. i \in DOMAIN chunks[lost] /\ i < xs.chunkdatasize + seg
      BY <1>1, <1>5, <1>8, <2>1, <2>2
    <3>2. CASE lastchunk
      BY <1>1, <1>4, <3>1, <3>2 DEF FillNothing
    <3>3. CASE ~ lastchunk
      <4>1. xs = compute_xstruct(datasize)
        BY <1>3, <1>5, <3>3
      <4>2. seg = Seg
        BY <4>1 DEF compute_xstruct, Seg
      <4>3. chunks[lost][i] = ZeroByte
        BY <1>1, <1>2, <2>2, <3>1, <4>1, <4>2 DEF Recovering, D
      <4> QED BY <1>1, <1>4, <3>3, <4>3
    <3> QED BY <3>2, <3>3
  <2>8. ASSUME NEW r \in XRank \ {p, lost}
        PROVE  chunks'[r][i] = Original(r, xs, c, i)
    <3>1. chunks'[r] = fill_xor_chunk(chunks[r], r, xs, c, own(r)) /\ i \in DOMAIN chunks[r] /\ r \in Nat
      BY <1>4, <1>8, <2>2 DEF XRank
    <3>2. i \notin Hole(r, xs)
      BY <2>4
    <3>3. ~ (Unplace(r, xs, i) < real) => ~ Kept(r, xs, own(r), i)
      <4>1. (r + 1) * seg = r * seg + seg /\ r * seg \in Nat
        BY <1>5, <3>1
      <4>2. real <= r * seg => ~ (i >= (r + 1) * seg)
        <5> HIDE DEF seg, real
        <5> QED BY <1>5, <2>1, <4>1
      <4>3. ~ (i >= xs.chunksize)
        <5>1. xs.chunksize \in Nat
          BY <1>5, <1>6
        <5> HIDE DEF seg, real
        <5> QED BY <2>1, <5>1
      <4> QED BY <4>2, <4>3 DEF Kept
    <3>4. chunks'[r][i] = IF Unplace(r, xs, i) < real THEN DataByte(r, c + Unplace(r, xs, i))
                          ELSE IF Kept(r, xs, own(r), i) THEN chunks[r][i] ELSE ZeroByte
      BY <1>3, <2>1, <3>1, <3>2, Filled
    <3> QED BY <3>2, <3>3, <3>4 DEF Original
  <2>9. Xor(f) = Original(lost, xs, c, i)
    <3>1. /\ DOMAIN f = XRank /\ f[p] = GroupParity(xs, c, i) /\ f[lost] = ZeroByte
          /\ \A r \in XRank \ {p, lost} : f[r] = Original(r, xs, c, i)
      BY <1>1, <2>6, <2>7, <2>8
    <3> HIDE DEF f
    <3> QED BY <1>1, <2>4, <2>5, <3>1, OthersCancel
  <2>10. Original(lost, xs, c, i) = DataByte(lost, c + k)
    BY <1>5, <2>1 DEF Original
  <2> QED BY <2>3, <2>9, <2>10 DEF i
<1>11. \A i \in D : received[i] \in Bytes
  <2> SUFFICES ASSUME NEW i \in D
               PROVE  received[i] \in Bytes
    OBVIOUS
  <2> DEFINE f == [r \in XRank |-> chunks'[r][i]]
  <2>1. received[i] = Xor(f)
    BY <1>1, <1>8
  <2>2. DOMAIN f = XRank /\ \A r \in XRank : f[r] \in Bytes
    BY <1>9 DEF Buffer
  <2> HIDE DEF f
  <2> QED BY <2>1, <2>2, XorTyped
<1> HIDE DEF received, D
<1>12. /\ newdata' \in Seq(Bytes)
       /\ newdata' = [i \in 1 .. c + real |-> DataByte(lost, i - 1)]
  <2> DEFINE e == ExtractData(received, xs)
             old == [i \in 1 .. c |-> DataByte(lost, i - 1)]
             new == [i \in 1 .. c + real |-> DataByte(lost, i - 1)]
  <2>1. newdata = old /\ newdata \in Seq(Bytes)
    BY <1>1, <1>2 DEF Recovering, XorTypeOK, c
  <2>2. \A k \in 1 .. real : e[k] = DataByte(lost, c + k - 1)
    <3> TAKE k \in 1 .. real
    <3>1. k - 1 \in 0 .. real - 1 /\ c + (k - 1) = c + k - 1
      BY <1>5
    <3>2. e[k] = received[Place(lost, xs, k - 1)]
      BY DEF ExtractData
    <3> QED BY <1>10, <3>1, <3>2
  <2>3. e = [k \in 1 .. real |-> e[k]]
    BY DEF ExtractData
  <2>4. \A k \in 1 .. real : e[k] \in Bytes
    <3> TAKE k \in 1 .. real
    <3>1. c + k - 1 \in Nat
      BY <1>5
    <3> QED BY <1>1, <2>2, <3>1, ByteTypes
  <2> HIDE DEF e
  <2>5. e \in Seq(Bytes) /\ Len(e) = real
    BY <1>5, <2>3, <2>4, SeqOfForm
  <2>6. Len(newdata) = c
    <3>1. old = [k \in 1 .. c |-> old[k]] /\ \A k \in 1 .. c : old[k] \in Bytes
      BY <1>1, ByteTypes
    <3> HIDE DEF old
    <3> QED BY <1>5, <2>1, <3>1, SeqOfForm
  <2>7. /\ newdata' \in Seq(Bytes) /\ Len(newdata') = c + real
        /\ \A i \in 1 .. c + real : newdata'[i] = IF i <= c THEN newdata[i] ELSE e[i - c]
    <3>1. newdata' = newdata \o e
      BY <1>4 DEF e
    <3>2. /\ newdata \o e \in Seq(Bytes) /\ Len(newdata \o e) = Len(newdata) + Len(e)
          /\ \A j \in 1 .. Len(newdata) + Len(e) : (newdata \o e)[j] = IF j <= Len(newdata) THEN newdata[j] ELSE e[j - Len(newdata)]
      BY <2>1, <2>5, ConcatProperties
    <3> QED BY <2>5, <2>6, <3>1, <3>2
  <2>8. new \in Seq(Bytes) /\ Len(new) = c + real
    <3>1. new = [k \in 1 .. c + real |-> new[k]] /\ c + real \in Nat
      BY <1>5
    <3>2. \A k \in 1 .. c + real : new[k] \in Bytes
      <4> TAKE k \in 1 .. c + real
      <4>1. k - 1 \in Nat /\ new[k] = DataByte(lost, k - 1)
        BY <1>5
      <4> QED BY <1>1, <4>1, ByteTypes
    <3> HIDE DEF new
    <3> QED BY <3>1, <3>2, SeqOfForm
  <2>9. \A i \in 1 .. c + real : newdata'[i] = new[i]
    <3> TAKE i \in 1 .. c + real
    <3>1. CASE i <= c
      <4>1. i \in 1 .. c
        BY <1>5, <3>1
      <4> QED BY <2>1, <2>7, <3>1, <4>1
    <3>2. CASE ~ (i <= c)
      <4>1. i - c \in 1 .. real /\ c + (i - c) - 1 = i - 1
        BY <1>5, <3>2
      <4> QED BY <2>2, <2>7, <3>2, <4>1
    <3> QED BY <3>1, <3>2
  <2> HIDE DEF new
  <2>10. newdata' = new
    BY <2>7, <2>8, <2>9, SeqEqual
  <2> QED BY <2>7, <2>10 DEF new
<1>13. newparity' \in Seq(Bytes) /\ Len(newparity') = ParityOf(c + real)
  <2> DEFINE e == ExtractParity(received, xs)
  <2>1. \A k \in 1 .. seg : e[k] \in Bytes
    <3> TAKE k \in 1 .. seg
    <3>1. e[k] = received[lost * seg + k - 1]
      BY DEF ExtractParity
    <3>2. lost * seg + k - 1 \in D
      <4>1. lost \in Nat /\ lost <= xranks - 1
        BY <1>1, <1>6 DEF XRank
      <4>2. seg * lost <= seg * (xranks - 1)
        BY <1>5, <1>6, <4>1, MulMonotone
      <4>3. seg * (xranks - 1) = seg * xranks - seg /\ seg * lost = lost * seg /\ lost * seg \in Nat /\ seg * xranks \in Nat
        BY <1>5, <1>6, <4>1
      <4>4. lost * seg + k - 1 \in Nat /\ lost * seg + k - 1 < xs.chunksize
        <5> HIDE DEF seg
        <5> QED BY <1>5, <4>2, <4>3
      <4> QED BY <1>6, <4>4
    <3> QED BY <1>11, <3>1, <3>2
  <2>2. e = [k \in 1 .. seg |-> e[k]]
    BY DEF ExtractParity
  <2> HIDE DEF e
  <2>3. e \in Seq(Bytes) /\ Len(e) = seg
    BY <1>5, <2>1, <2>2, SeqOfForm
  <2>4. newparity \in Seq(Bytes) /\ Len(newparity) = ParityOf(c)
    BY <1>1, <1>2 DEF Recovering, XorTypeOK, c
  <2>5. newparity' = newparity \o e
    BY <1>4 DEF e
  <2>6. newparity \o e \in Seq(Bytes) /\ Len(newparity \o e) = Len(newparity) + Len(e)
    BY <2>3, <2>4, ConcatProperties
  <2> QED BY <1>5, <2>3, <2>4, <2>5, <2>6
<1>14. XorTypeOK'
  BY <1>1, <1>2, <1>4, <1>5, <1>9, <1>12, <1>13, <1>s DEF XorTypeOK
<1>15. ParitiesRight'
  <2>1. Encoded' = Encoded
    BY <1>2 DEF Encoded
  <2> QED BY <1>1, <1>2, <1>s, <2>1 DEF ParitiesRight
<1>16. Recovering'
  <2>1. ASSUME NEW i \in D, i < compute_xstruct(datasize).chunkdatasize + Seg
        PROVE  chunks'[lost][i] = ZeroByte
    <3>1. chunks[lost][i] = ZeroByte /\ i \in DOMAIN chunks[lost]
      BY <1>1, <1>2, <1>8, <2>1 DEF Recovering, D
    <3> QED BY <1>1, <1>4, <3>1 DEF FillNothing
  <2> QED BY <1>2, <1>4, <1>12, <1>13, <1>s, <2>1 DEF Recovering, D
<1> QED BY <1>14, <1>15, <1>16 DEF XorIInv

LEMMA RecoverEndsKeeps ==
    ASSUME XorIInv, RecoverEnds
    PROVE  XorIInv'
<1>1. XorTypeOK /\ ParitiesRight /\ Recovering /\ Sized
  BY DEF XorIInv, XorTypeOK
<1>2. /\ step = "recover" /\ computedb >= datasize /\ step' = "rebuilt"
      /\ UNCHANGED <<xranks, datasize, lost, dirty, computedb, chunks, parities, newdata, newparity>>
  BY DEF RecoverEnds
<1>s. /\ Sized' = Sized /\ XRank' = XRank /\ Starts' = Starts /\ Seg' = Seg
      /\ Bytes' = Bytes /\ Buffer' = Buffer
      /\ \A d : compute_xstruct(d)' = compute_xstruct(d)
      /\ \A e : Turn(e)' = Turn(e) /\ ParityOf(e)' = ParityOf(e)
      /\ \A ys, e, i : GroupParity(ys, e, i)' = GroupParity(ys, e, i)
  BY <1>2, SizesStay
<1>3. computedb = datasize
  <2>1. \A e \in Starts : e < datasize
    BY <1>1 DEF Starts, Sized
  <2> QED BY <1>1, <1>2, <2>1 DEF XorTypeOK, Sized, Starts
<1>4. XorTypeOK'
  BY <1>1, <1>2, <1>3, <1>s DEF XorTypeOK
<1>5. ParitiesRight'
  <2>1. Encoded' = Encoded
    BY <1>2 DEF Encoded
  <2> QED BY <1>1, <1>2, <1>s, <2>1 DEF ParitiesRight
<1>6. Recovering'
  BY <1>1, <1>2, <1>s DEF Recovering
<1> QED BY <1>4, <1>5, <1>6 DEF XorIInv

LEMMA XorStutters ==
    ASSUME XorIInv, UNCHANGED xorvars
    PROVE  XorIInv'
<1>1. XorTypeOK /\ ParitiesRight /\ Recovering
  BY DEF XorIInv
<1>2. UNCHANGED <<xranks, datasize, lost, step, dirty, computedb, chunks, parities, newdata, newparity>>
  BY DEF xorvars
<1>s. /\ Sized' = Sized /\ XRank' = XRank /\ Starts' = Starts /\ Seg' = Seg
      /\ Bytes' = Bytes /\ Buffer' = Buffer
      /\ \A d : compute_xstruct(d)' = compute_xstruct(d)
      /\ \A e : Turn(e)' = Turn(e) /\ ParityOf(e)' = ParityOf(e)
      /\ \A ys, e, i : GroupParity(ys, e, i)' = GroupParity(ys, e, i)
  BY <1>2, SizesStay
<1>3. XorTypeOK'
  BY <1>1, <1>2, <1>s DEF XorTypeOK
<1>4. ParitiesRight'
  <2>1. Encoded' = Encoded
    BY <1>2 DEF Encoded
  <2> QED BY <1>1, <1>2, <1>s, <2>1 DEF ParitiesRight
<1>5. Recovering'
  BY <1>1, <1>2, <1>s DEF Recovering
<1> QED BY <1>3, <1>4, <1>5 DEF XorIInv

-----------------------------------------------------------------------------
(* The theorems.                                                           *)

\* Whatever the sizes, xor_checkpoint encodes every byte of the data, the byte
\* of rank r at a place of the chunk with those of the other ranks there, and
\* xor_recover has rebuilt the data of the lost rank up to the byte its loop is
\* at.
THEOREM XorInvariant == XorSpec => []XorIInv
<1>1. XorInit => XorIInv
  BY XorStart
<1>2. XorIInv /\ [XorNext]_xorvars => XorIInv'
  BY CheckpointChunkKeeps, RecoverBeginsKeeps, RecoverChunkKeeps, RecoverEndsKeeps, XorStutters DEF XorNext
<1> QED BY <1>1, <1>2, PTL DEF XorSpec

\* The loop of xor_checkpoint, which counts chunks, and the sum in
\* compute_xstruct, which divides, agree on the size of the parity for every
\* size of the data; so does the loop of xor_recover.
THEOREM ParityFitsHolds == XorSpec => []ParityFits
<1>1. XorIInv => ParityFits
  <2> SUFFICES ASSUME XorIInv
               PROVE  ParityFits
    OBVIOUS
  <2>1. XorTypeOK /\ ParitiesRight /\ Recovering /\ Sized
    BY DEF XorIInv, XorTypeOK
  <2>2. xorparitysize(datasize) = ParityOf(datasize)
    BY DEF xorparitysize, ParityOf, Real, Seg
  <2>3. Encoded \in Starts \cup {datasize}
    BY <2>1 DEF Encoded, XorTypeOK
  <2>4. ParityOf(Encoded) \in Nat /\ ParityOf(Encoded) <= ParityOf(datasize)
    BY <2>1, <2>3, ParityBound
  <2>5. \A r \in XRank : Len(parities[r]) = ParityOf(Encoded)
    BY <2>1 DEF ParitiesRight
  <2>6. step # "checkpoint" => ParityOf(Encoded) = ParityOf(datasize)
    BY DEF Encoded
  <2>7. step = "rebuilt" => Len(newparity) = ParityOf(datasize)
    BY <2>1 DEF Recovering, XorTypeOK
  <2> QED BY <2>2, <2>4, <2>5, <2>6, <2>7 DEF ParityFits
<1> QED BY <1>1, XorInvariant, PTL

\* The data of the lost rank comes back exact, whatever the buffers of the ranks
\* held before and although the last, smaller chunk is reduced over the size of
\* a full one.
THEOREM DataRebuiltHolds == XorSpec => []DataRebuilt
<1>1. XorIInv => DataRebuilt
  BY DEF XorIInv, XorTypeOK, Recovering, DataRebuilt
<1> QED BY <1>1, XorInvariant, PTL

-----------------------------------------------------------------------------
(* The parity of the lost rank.  Unlike its data it depends on what the    *)
(* buffers held before, so the invariant follows them from turn to turn.   *)

Full == compute_xstruct(datasize)
Places == 0 .. Full.chunksize - 1

\* What the buffers of xor_recover hold when a turn begins: before the first one
\* what malloc returned, the lost rank's cleared as far as a full chunk's data
\* and parity go; then the full chunk of the turn before.
Buffered ==
    step = "recover" /\ computedb < datasize =>
      /\ computedb = 0 => \A r \in XRank : \A i \in Places :
            chunks[r][i] = IF r \in dirty /\ (r = lost => i >= Full.chunkdatasize + Seg)
                           THEN Unwritten(r, i) ELSE ZeroByte
      /\ computedb > 0 => \A r \in XRank : \A i \in Places :
            chunks[r][i] = IF r = lost THEN ZeroByte
                           ELSE IF i \in Hole(r, Full) THEN GroupParity(Full, computedb - Real, i)
                           ELSE DataByte(r, computedb - Real + Unplace(r, Full, i))

\* The structure of the last chunk, and what ParityRebuilt says of it.
LastXs == compute_xstruct(IF datasize % Real = 0 THEN Real ELSE datasize % Real)
Leftovers ==
    \/ lost \in dirty /\ datasize <= Real /\ lost * LastXs.chunkxparitysize > LastXs.chunkdatasize
    \/ \E s \in 0 .. lost - 1 :
          (s \in dirty \/ datasize > Real) /\ LastXs.realdatasize <= s * LastXs.chunkxparitysize

\* The parity comes back segment by segment; only the last one may differ.
ParityBack ==
    step # "checkpoint" =>
      /\ computedb < datasize => \A k \in 1 .. ParityOf(computedb) : newparity[k] = parities[lost][k]
      /\ computedb >= datasize => (newparity # parities[lost] <=> Leftovers)

RebuildIInv == XorIInv /\ Buffered /\ ParityBack

\* The places of the turn's chunk lie in the buffer.
LEMMA TurnPlaces ==
    ASSUME Sized, NEW c \in Starts, NEW xs, xs = Turn(c), NEW i \in Nat, i < xs.chunksize
    PROVE  i \in Places
<1> DEFINE seg == xs.chunkxparitysize
<1>1. xranks \in Nat /\ Seg \in Nat \ {0} /\ Places = 0 .. Seg * xranks - 1
  BY FullFacts DEF Sized, Places, Full
<1>2. seg \in Nat \ {0} /\ seg <= Seg /\ xs.chunksize = seg * xranks
  BY TurnFacts
<1> HIDE DEF seg
<1>3. xranks * seg <= xranks * Seg
  BY <1>1, <1>2, MulMonotone
<1>4. seg * xranks = xranks * seg /\ Seg * xranks = xranks * Seg /\ xranks * seg \in Nat /\ xranks * Seg \in Nat
  BY <1>1, <1>2
<1> QED BY <1>1, <1>2, <1>3, <1>4

\* One turn of xor_recover, place by place.
LEMMA RecoverTurn ==
    ASSUME XorIInv, RecoverChunk, NEW xs, xs = xstruct, NEW c, c = computedb
    PROVE  /\ c \in Starts /\ xs = Turn(c) /\ Formed(xs) /\ Len(newparity) = ParityOf(c)
           /\ \A r \in XRank \ {lost} : \A i \in Places :
                chunks'[r][i] =
                  IF i \in Hole(r, xs) THEN GroupParity(xs, c, i)
                  ELSE IF Unplace(r, xs, i) < xs.realdatasize THEN DataByte(r, c + Unplace(r, xs, i))
                  ELSE IF \/ i >= xs.chunksize
                          \/ /\ xs.realdatasize <= r * xs.chunkxparitysize
                             /\ i >= (r + 1) * xs.chunkxparitysize
                  THEN chunks[r][i] ELSE ZeroByte
           /\ \A i \in Places :
                chunks'[lost][i] = IF datasize - c < Real /\ i < xs.chunkdatasize + xs.chunkxparitysize
                                   THEN ZeroByte ELSE chunks[lost][i]
           /\ \A k \in 1 .. ParityOf(c) : newparity'[k] = newparity[k]
           /\ \A j \in 0 .. xs.chunkxparitysize - 1 :
                newparity'[ParityOf(c) + j + 1] =
                  Xor([r \in XRank |-> chunks'[r][lost * xs.chunkxparitysize + j]])
<1> DEFINE seg == xs.chunkxparitysize
           own(r) == SubSeq(parities[r], Len(newparity) + 1, Len(newparity) + seg)
           received == [i \in DOMAIN chunks[lost] |-> Xor([r \in XRank |-> chunks'[r][i]])]
<1>1. XorTypeOK /\ Recovering /\ Sized /\ lost \in XRank
  BY DEF XorIInv, XorTypeOK, Sized
<1>2. step = "recover" /\ c < datasize
  BY DEF RecoverChunk
<1>3. c \in Starts /\ xs = Turn(c) /\ Formed(xs) /\ (lastchunk <=> datasize - c < Real)
  BY <1>1, <1>2, TurnHere DEF XorTypeOK
<1>4. /\ chunks' = [r \in XRank |->
            IF r # lost THEN fill_xor_chunk(chunks[r], r, xs, c, own(r))
            ELSE IF lastchunk THEN FillNothing(chunks[r], xs)
            ELSE chunks[r]]
      /\ newparity' = newparity \o ExtractParity(received, xs)
  BY DEF RecoverChunk
<1>5. \A r \in XRank : /\ own(r) # NullParity
                       /\ \A i \in Hole(r, xs) : own(r)[i - r * seg + 1] = GroupParity(xs, c, i)
  <2> TAKE r \in XRank
  <2> DEFINE s == own(r)
  <2>1. s = SubSeq(parities[r], Len(newparity) + 1, Len(newparity) + xs.chunkxparitysize)
    OBVIOUS
  <2> HIDE DEF s
  <2> QED BY <1>2, <2>1, OwnParity DEF s
<1> HIDE DEF own
<1>6. \A r \in XRank : chunks[r] \in Buffer /\ DOMAIN chunks[r] = Places
  BY <1>1 DEF XorTypeOK, Buffer, Places, Full
<1>7. \A i \in Places : i \in Nat
  BY DEF Places
<1>8. Len(newparity) = ParityOf(c)
  BY <1>1, <1>2 DEF Recovering
<1>9. ASSUME NEW r \in XRank \ {lost}, NEW i \in Places
      PROVE  chunks'[r][i] =
               IF i \in Hole(r, xs) THEN GroupParity(xs, c, i)
               ELSE IF Unplace(r, xs, i) < xs.realdatasize THEN DataByte(r, c + Unplace(r, xs, i))
               ELSE IF \/ i >= xs.chunksize
                       \/ xs.realdatasize <= r * xs.chunkxparitysize /\ i >= (r + 1) * xs.chunkxparitysize
               THEN chunks[r][i] ELSE ZeroByte
  <2>1. r \in Nat /\ i \in Nat /\ i \in DOMAIN chunks[r]
    BY <1>6, <1>7, <1>9 DEF XRank
  <2>2. chunks'[r] = fill_xor_chunk(chunks[r], r, xs, c, own(r))
    BY <1>4, <1>9
  <2>3. own(r) # NullParity /\ (i \in Hole(r, xs) => own(r)[i - r * seg + 1] = GroupParity(xs, c, i))
    BY <1>5, <1>9
  <2> DEFINE o == own(r)
  <2> HIDE DEF o
  <2>4. chunks'[r][i] = IF i \in Hole(r, xs) THEN IF o = NullParity THEN ZeroByte ELSE o[i - r * seg + 1]
                        ELSE IF Unplace(r, xs, i) < xs.realdatasize THEN DataByte(r, c + Unplace(r, xs, i))
                        ELSE IF Kept(r, xs, o, i) THEN chunks[r][i] ELSE ZeroByte
    BY <1>3, <2>1, <2>2, Filled DEF o
  <2>5. Kept(r, xs, o, i) <=> \/ i >= xs.chunksize
                              \/ xs.realdatasize <= r * xs.chunkxparitysize /\ i >= (r + 1) * xs.chunkxparitysize
    BY <2>3 DEF Kept, o
  <2> QED BY <2>3, <2>4, <2>5 DEF o
<1>10. ASSUME NEW i \in Places
       PROVE  chunks'[lost][i] = IF datasize - c < Real /\ i < xs.chunkdatasize + xs.chunkxparitysize
                                 THEN ZeroByte ELSE chunks[lost][i]
  BY <1>1, <1>3, <1>4, <1>6, <1>10 DEF FillNothing
<1>11. seg \in Nat \ {0} /\ ParityOf(c) \in Nat /\ xs.chunksize = seg * xranks /\ xranks \in Nat /\ xranks >= 3
  BY <1>1, <1>3, TurnFacts DEF Sized
<1>12. ASSUME NEW j \in 0 .. seg - 1
       PROVE  lost * seg + j \in Places
  <2> DEFINE h == lost * seg
  <2>1. lost \in Nat /\ lost <= xranks - 1
    BY <1>1, <1>11 DEF XRank
  <2>2. seg * lost <= seg * (xranks - 1)
    BY <1>11, <2>1, MulMonotone
  <2>3. seg * (xranks - 1) = seg * xranks - seg /\ seg * lost = h /\ h \in Nat /\ seg * xranks \in Nat
    BY <1>11, <2>1
  <2> HIDE DEF h, seg
  <2>4. h + j \in Nat /\ h + j < xs.chunksize
    BY <1>11, <1>12, <2>2, <2>3
  <2> QED BY <1>1, <1>3, <2>4, TurnPlaces DEF h
<1> DEFINE e == ExtractParity(received, xs)
<1>13. \A j \in 0 .. seg - 1 : e[j + 1] = Xor([r \in XRank |-> chunks'[r][lost * seg + j]])
  <2> TAKE j \in 0 .. seg - 1
  <2>1. j + 1 \in 1 .. seg /\ lost * seg + (j + 1) - 1 = lost * seg + j
    BY <1>11, <1>12 DEF Places
  <2>2. e[j + 1] = received[lost * seg + j]
    BY <2>1 DEF ExtractParity
  <2>3. lost * seg + j \in DOMAIN chunks[lost]
    BY <1>1, <1>6, <1>12
  <2> QED BY <2>2, <2>3
<1>14. chunks' \in [XRank -> Buffer]
  <2>1. UNCHANGED <<xranks, datasize, lost>>
    BY DEF RecoverChunk
  <2>2. XRank' = XRank /\ Buffer' = Buffer
    BY <2>1, SizesStay
  <2>3. (chunks \in [XRank -> Buffer])'
    BY RecoverChunkKeeps DEF XorIInv, XorTypeOK
  <2> QED BY <2>2, <2>3
<1>15. e \in Seq(Bytes) /\ Len(e) = seg
  <2>1. ASSUME NEW k \in 1 .. seg
        PROVE  e[k] \in Bytes
    <3> DEFINE j == k - 1
               f == [r \in XRank |-> chunks'[r][lost * seg + j]]
    <3>1. j \in 0 .. seg - 1 /\ j + 1 = k
      BY <1>11
    <3>2. lost * seg + j \in Places
      BY <1>12, <3>1
    <3>3. DOMAIN f = XRank /\ \A r \in XRank : f[r] \in Bytes
      BY <1>14, <3>2 DEF Buffer, Places, Full
    <3>4. e[k] = Xor(f)
      BY <1>13, <3>1
    <3> HIDE DEF f
    <3> QED BY <3>3, <3>4, XorTyped
  <2>2. e = [k \in 1 .. seg |-> e[k]]
    BY DEF ExtractParity
  <2> HIDE DEF e
  <2> QED BY <1>11, <2>1, <2>2, SeqOfForm
<1>16. newparity' = newparity \o e /\ newparity \in Seq(Bytes)
  BY <1>1, <1>4 DEF XorTypeOK
<1> DEFINE n == ParityOf(c)
<1>17. n \in Nat /\ Len(newparity) = n
  BY <1>8, <1>11
<1> HIDE DEF e, n, seg, received
<1>18. \A k \in 1 .. n + seg : newparity'[k] = IF k <= n THEN newparity[k] ELSE e[k - n]
  BY <1>15, <1>16, <1>17, ConcatProperties
<1>19. \A k \in 1 .. n : newparity'[k] = newparity[k]
  BY <1>11, <1>17, <1>18
<1>20. ASSUME NEW j \in 0 .. seg - 1
       PROVE  newparity'[n + j + 1] = Xor([r \in XRank |-> chunks'[r][lost * seg + j]])
  <2> DEFINE k == n + j + 1
  <2>1. k \in 1 .. n + seg /\ ~ (k <= n) /\ k - n = j + 1
    BY <1>11, <1>17
  <2> HIDE DEF k
  <2>2. newparity'[k] = e[j + 1]
    BY <1>18, <2>1
  <2> QED BY <1>13, <2>2 DEF k
<1> QED BY <1>3, <1>8, <1>9, <1>10, <1>19, <1>20 DEF n, seg

\* Data of more than one chunk: the full chunk has no margin.
LEMMA LargeFacts ==
    ASSUME Sized, datasize > Real
    PROVE  /\ Full.chunkxparitysize = Seg /\ Full.realdatasize = Real /\ Full.chunkdatasize = Real
           /\ Real = (xranks - 1) * Seg /\ maxchunkb \in Nat /\ maxchunkb >= Real
           /\ Seg \in Nat \ {0} /\ Real \in Nat \ {0} /\ Full.chunksize = Real + Seg
<1>1. xranks \in Nat /\ xranks >= 3 /\ datasize \in Nat /\ maxchunkb \in Nat
  BY SizesAssumption DEF Sized, maxchunkb
<1>2. /\ Seg \in Nat \ {0} /\ Real \in Nat \ {0} /\ Full.chunksize = Seg * xranks
      /\ maxchunkb >= datasize => Real = datasize
      /\ ~ (maxchunkb >= datasize) => Real = (xranks - 1) * Seg /\ Real <= maxchunkb
  BY FullFacts DEF Full
<1>3. ~ (maxchunkb >= datasize) /\ Real = (xranks - 1) * Seg /\ Real <= maxchunkb
  BY <1>1, <1>2
<1>4. Seg * (xranks - 1) = (xranks - 1) * Seg /\ Seg * xranks = (xranks - 1) * Seg + Seg
  BY <1>1, <1>2
<1>5. Full.chunkxparitysize = Seg /\ Full.realdatasize = Real /\ Full.chunkdatasize = Seg * (xranks - 1)
  BY <1>3 DEF Full, compute_xstruct, Seg, Real
<1> QED BY <1>1, <1>2, <1>3, <1>4, <1>5

\* A turn another one follows does a full chunk.
LEMMA NotLast ==
    ASSUME Sized, NEW c \in Starts, NEW xs, xs = Turn(c), c + xs.realdatasize < datasize
    PROVE  xs = Full /\ xs.realdatasize = Real /\ ~ (datasize - c < Real) /\ datasize > Real
<1> DEFINE real == xs.realdatasize
<1>1. /\ c \in Nat /\ real \in Nat \ {0} /\ real <= Real
      /\ c + real = datasize \/ c + real \in Starts
      /\ ~ (datasize - c < Real) => xs = compute_xstruct(datasize)
  BY TurnFacts
<1>2. Real \in Nat \ {0} /\ datasize \in Nat
  BY FullFacts DEF Sized
<1> HIDE DEF real
<1>3. c + real \in Starts /\ c < c + real
  BY <1>1, <1>2 DEF real
<1>4. c + Real <= c + real
  BY <1>3, StartsApart
<1>5. real = Real /\ ~ (datasize - c < Real) /\ datasize > Real
  BY <1>1, <1>2, <1>4 DEF real
<1> QED BY <1>1, <1>5 DEF real, Full

\* The last turn has the structure LastXs, in what ParityRebuilt says of it.
LEMMA LastTurn ==
    ASSUME Sized, NEW c \in Starts, NEW xs, xs = Turn(c), c + xs.realdatasize = datasize
    PROVE  /\ LastXs.chunkxparitysize = xs.chunkxparitysize
           /\ LastXs.realdatasize = xs.realdatasize
           /\ datasize <= Real <=> c = 0
           /\ c = 0 => LastXs = xs /\ xs = Full /\ ~ (datasize - c < Real)
<1> DEFINE real == xs.realdatasize
           q == c \div Real
<1>1. /\ c \in Nat /\ c < datasize /\ real \in Nat \ {0} /\ real <= Real
      /\ ~ (datasize - c < Real) => xs = compute_xstruct(datasize)
  BY TurnFacts
<1>2. Real \in Nat \ {0} /\ Real <= datasize /\ datasize \in Nat \ {0} /\ 0 \in Starts
  BY FullFacts, ZeroStarts DEF Sized
<1>3. c # 0 => Real <= c
  <2>1. c # 0 => 0 + Real <= c
    BY <1>1, <1>2, StartsApart
  <2> QED BY <1>2, <2>1
<1>4. c \in Nat /\ c % Real = 0
  BY <1>1 DEF Starts
<1>5. q \in Nat /\ c = Real * q
  <2>1. q \in Nat /\ c = (Real * q) + (c % Real)
    BY <1>2, <1>4, DivMod
  <2> HIDE DEF q
  <2> QED BY <1>2, <1>4, <2>1
<1> HIDE DEF q
<1>6. CASE datasize - c < Real
  <2>1. real < Real /\ real \in 0 .. Real - 1 /\ datasize = (Real * q) + real /\ real = datasize - c /\ c # 0
    BY <1>1, <1>2, <1>5, <1>6 DEF real
  <2> HIDE DEF real
  <2>2. datasize % Real = real
    <3>1. Real \in Nat \ {0} /\ datasize \in Nat /\ q \in Int
      BY <1>2, <1>5
    <3> QED BY <2>1, <3>1, DivUnique
  <2>3. LastXs = compute_xstruct(real)
    BY <1>1, <2>2 DEF LastXs
  <2>4. xs = compute_xstruct(real)
    BY <1>6, <2>1 DEF Turn
  <2> QED BY <1>1, <1>2, <1>3, <2>1, <2>3, <2>4
<1>7. CASE ~ (datasize - c < Real)
  <2>1. xs = Full /\ real = Real /\ xs.chunkxparitysize = Seg
    BY <1>1, <1>7 DEF Full, Real, Seg, compute_xstruct
  <2>2. datasize = (Real * (q + 1)) + 0 /\ datasize = c + Real
    BY <1>2, <1>5, <2>1
  <2>3. datasize % Real = 0
    <3>1. Real \in Nat \ {0} /\ datasize \in Nat /\ q + 1 \in Int /\ 0 \in 0 .. Real - 1
      BY <1>2, <1>5
    <3> QED BY <2>2, <3>1, DivUnique
  <2>4. LastXs = compute_xstruct(Real)
    BY <2>3 DEF LastXs
  <2>5. CASE c = 0
    <3>1. datasize = Real
      BY <1>2, <2>2, <2>5
    <3>2. LastXs = xs
      BY <2>1, <2>4, <3>1 DEF Full
    <3>3. datasize <= Real
      BY <1>2, <3>1
    <3>4. LastXs.chunkxparitysize = xs.chunkxparitysize /\ LastXs.realdatasize = xs.realdatasize
      BY <3>2
    <3>5. ~ (datasize - c < Real)
      BY <1>7
    <3>6. c = 0 /\ xs = Full
      BY <2>1, <2>5
    <3> QED BY <3>2, <3>3, <3>4, <3>5, <3>6
  <2>6. CASE c # 0
    <3>1. datasize > Real
      BY <1>1, <1>2, <2>2, <2>6
    <3>2. Real = (xranks - 1) * Seg /\ maxchunkb >= Real /\ Seg \in Nat \ {0} /\ xranks \in Nat /\ xranks >= 3
      BY <3>1, LargeFacts DEF Sized
    <3>3. LastXs.realdatasize = Real /\ LastXs.chunkxparitysize = segmentsize(Real)
      BY <2>4, <3>2 DEF compute_xstruct
    <3>4. PICK t \in Nat : Seg = BaseSize * t
      BY <1>2, SegmentFacts DEF Seg, Sized
    <3>5. segmentsize(Real) \in Nat \ {0} /\ (xranks - 1) * segmentsize(Real) >= Real /\ segmentsize(Real) <= Seg
      BY <1>2, <3>2, <3>4, SegmentFacts DEF Sized
    <3>6. segmentsize(Real) = Seg
      <4> DEFINE g == segmentsize(Real)
      <4>1. SUFFICES ASSUME g <= Seg - 1
                     PROVE  FALSE
        BY <3>2, <3>5
      <4> HIDE DEF g
      <4>2. g \in Nat /\ (xranks - 1) * g >= (xranks - 1) * Seg
        BY <3>2, <3>5 DEF g
      <4>3. (xranks - 1) * g <= (xranks - 1) * (Seg - 1)
        BY <3>2, <4>1, <4>2, MulMonotone
      <4>4. (xranks - 1) * (Seg - 1) = (xranks - 1) * Seg - (xranks - 1) /\ (xranks - 1) * g \in Nat
            /\ (xranks - 1) * Seg \in Nat
        BY <3>2, <4>2
      <4> QED BY <3>2, <4>2, <4>3, <4>4
    <3> QED BY <2>1, <2>6, <3>1, <3>3, <3>6, <1>2
  <2> QED BY <2>5, <2>6
<1> QED BY <1>6, <1>7

\* The survivors whose buffers show what they held before at the lost rank's
\* segment: the data ends before their hole, and the segment lies behind it.
Leaky(xs) == {s \in 0 .. lost - 1 : xs.realdatasize <= s * xs.chunkxparitysize}

LEMMA LeakyFacts ==
    ASSUME Sized, NEW xs, Formed(xs), NEW i \in Hole(lost, xs)
    PROVE  /\ i \in Nat /\ i < xs.chunksize /\ Original(lost, xs, 0, i) = ZeroByte
           /\ \A c : Original(lost, xs, c, i) = ZeroByte
           /\ \A r \in XRank \ {lost} :
                /\ r \in Nat /\ i \notin Hole(r, xs)
                /\ r \in Leaky(xs) <=> /\ xs.realdatasize <= r * xs.chunkxparitysize
                                       /\ i >= (r + 1) * xs.chunkxparitysize
                /\ r \in Leaky(xs) => ~ (Unplace(r, xs, i) < xs.realdatasize)
<1> DEFINE seg == xs.chunkxparitysize
           h == lost * seg
           real == xs.realdatasize
<1>1. seg \in Nat \ {0} /\ real \in Nat /\ xs.chunksize = seg * xranks /\ xranks \in Nat /\ xranks >= 3
  BY DEF Formed, Sized
<1>2. lost \in Nat /\ lost <= xranks - 1 /\ lost \in XRank
  BY <1>1 DEF Sized, XRank
<1>3. h \in Nat /\ Hole(lost, xs) = h .. h + seg - 1
  BY <1>1, <1>2, HoleFacts
<1>4. i \in Nat /\ i >= h /\ i <= h + seg - 1
  <2>1. i \in h .. h + seg - 1
    BY <1>3
  <2> HIDE DEF h, seg
  <2> QED BY <1>1, <1>3, <2>1
<1>5. i < xs.chunksize
  <2>1. seg * lost <= seg * (xranks - 1)
    BY <1>1, <1>2, MulMonotone
  <2>2. seg * (xranks - 1) = seg * xranks - seg /\ seg * lost = h /\ seg * xranks \in Nat
    BY <1>1, <1>2
  <2> HIDE DEF h, seg
  <2> QED BY <1>1, <1>3, <1>4, <2>1, <2>2
<1>6. \A c : Original(lost, xs, c, i) = ZeroByte
  BY DEF Original
<1>7. ASSUME NEW r \in XRank \ {lost}
      PROVE  /\ r \in Nat /\ i \notin Hole(r, xs)
             /\ r \in Leaky(xs) <=> real <= r * seg /\ i >= (r + 1) * seg
             /\ r \in Leaky(xs) => ~ (Unplace(r, xs, i) < real)
  <2>1. r \in Nat /\ r # lost
    BY DEF XRank
  <2> DEFINE g == r * seg
             e == (r + 1) * seg
  <2>2. g \in Nat /\ Hole(r, xs) = g .. g + seg - 1 /\ e = g + seg
    BY <1>1, <2>1, HoleFacts
  <2>3. r < lost => g + seg <= h
    <3>1. r < lost => seg * (r + 1) <= seg * lost
      BY <1>1, <1>2, <2>1, MulMonotone
    <3>2. seg * (r + 1) = g + seg /\ seg * lost = h
      BY <1>1, <1>2, <2>1
    <3> QED BY <3>1, <3>2
  <2>4. r > lost => h + seg <= g
    <3>1. r > lost => seg * (lost + 1) <= seg * r
      BY <1>1, <1>2, <2>1, MulMonotone
    <3>2. seg * (lost + 1) = h + seg /\ seg * r = g
      BY <1>1, <1>2, <2>1
    <3> QED BY <3>1, <3>2
  <2>5. r \in Leaky(xs) <=> r < lost /\ real <= g
    BY <1>2, <2>1 DEF Leaky
  <2>6. Unplace(r, xs, i) = IF i < g THEN i ELSE i - seg
    BY DEF Unplace
  <2> HIDE DEF g, e, h, seg, real
  <2>7. i \notin g .. g + seg - 1 /\ (r < lost <=> i >= e)
    BY <1>1, <1>2, <1>3, <1>4, <2>1, <2>2, <2>3, <2>4
  <2>8. r < lost /\ real <= g => ~ ((IF i < g THEN i ELSE i - seg) < real)
    BY <1>1, <1>3, <1>4, <2>2, <2>3
  <2> QED BY <2>1, <2>2, <2>5, <2>6, <2>7, <2>8 DEF g, e
<1> QED BY <1>4, <1>5, <1>6, <1>7 DEF seg, real

\* What the ranks put into the XOR at the lost rank's segment.
LEMMA ParityPlace ==
    ASSUME XorIInv, RecoverChunk, NEW xs, xs = xstruct, NEW c, c = computedb, NEW i \in Hole(lost, xs)
    PROVE  /\ i \in Places
           /\ \A r \in XRank \ {lost} :
                chunks'[r][i] = IF r \in Leaky(xs) THEN chunks[r][i] ELSE Original(r, xs, c, i)
           /\ Original(lost, xs, c, i) = ZeroByte
           /\ \A s \in Leaky(xs) : s \in XRank \ {lost} /\ Original(s, xs, c, i) = ZeroByte
<1>1. Sized /\ c \in Starts /\ xs = Turn(c) /\ Formed(xs)
  BY RecoverTurn DEF XorIInv, XorTypeOK
<1>2. i \in Nat /\ i < xs.chunksize /\ Original(lost, xs, c, i) = ZeroByte
  BY <1>1, LeakyFacts
<1>3. i \in Places
  BY <1>1, <1>2, TurnPlaces
<1>4. ASSUME NEW r \in XRank \ {lost}
      PROVE  chunks'[r][i] = IF r \in Leaky(xs) THEN chunks[r][i] ELSE Original(r, xs, c, i)
  <2>1. chunks'[r][i] =
                  IF i \in Hole(r, xs) THEN GroupParity(xs, c, i)
                  ELSE IF Unplace(r, xs, i) < xs.realdatasize THEN DataByte(r, c + Unplace(r, xs, i))
                  ELSE IF \/ i >= xs.chunksize
                          \/ /\ xs.realdatasize <= r * xs.chunkxparitysize
                             /\ i >= (r + 1) * xs.chunkxparitysize
                  THEN chunks[r][i] ELSE ZeroByte
    BY <1>3, <1>4, RecoverTurn
  <2>2. /\ i \notin Hole(r, xs)
        /\ r \in Leaky(xs) <=> /\ xs.realdatasize <= r * xs.chunkxparitysize
                               /\ i >= (r + 1) * xs.chunkxparitysize
        /\ r \in Leaky(xs) => ~ (Unplace(r, xs, i) < xs.realdatasize)
    BY <1>1, <1>4, LeakyFacts
  <2>3. ~ (i >= xs.chunksize)
    <3>1. xs.chunksize \in Nat
      BY <1>1 DEF Formed, Sized
    <3> QED BY <1>2, <3>1
  <2>4. Original(r, xs, c, i) = IF Unplace(r, xs, i) < xs.realdatasize
                                THEN DataByte(r, c + Unplace(r, xs, i)) ELSE ZeroByte
    BY <2>2 DEF Original
  <2> QED BY <2>1, <2>2, <2>3, <2>4
<1>5. ASSUME NEW s \in Leaky(xs)
      PROVE  s \in XRank \ {lost} /\ Original(s, xs, c, i) = ZeroByte
  <2>1. s \in XRank \ {lost}
    BY <1>1 DEF Leaky, Sized, XRank
  <2>2. ~ (Unplace(s, xs, i) < xs.realdatasize)
    BY <1>1, <2>1, LeakyFacts
  <2> QED BY <2>1, <2>2 DEF Original
<1> QED BY <1>2, <1>3, <1>4, <1>5

\* Where they put in nothing but their data, the parity comes back ...
LEMMA CleanPlace ==
    ASSUME XorIInv, RecoverChunk, NEW xs, xs = xstruct, NEW c, c = computedb, NEW i \in Hole(lost, xs),
           chunks'[lost][i] = ZeroByte, \A s \in Leaky(xs) : chunks[s][i] = ZeroByte
    PROVE  Xor([r \in XRank |-> chunks'[r][i]]) = GroupParity(xs, c, i)
<1>1. \A r \in XRank : chunks'[r][i] = Original(r, xs, c, i)
  <2> TAKE r \in XRank
  <2>1. CASE r = lost
    BY <2>1, ParityPlace
  <2>2. CASE r \in Leaky(xs)
    BY <2>2, ParityPlace
  <2>3. CASE r # lost /\ r \notin Leaky(xs)
    BY <2>3, ParityPlace
  <2> QED BY <2>1, <2>2, <2>3
<1>2. [r \in XRank |-> chunks'[r][i]] = [r \in XRank |-> Original(r, xs, c, i)]
  BY <1>1
<1> QED BY <1>2 DEF GroupParity

\* ... and where one of them put in a symbol that no other did, it does not.
LEMMA SymbolLeft ==
    ASSUME NEW xs, NEW c, NEW i, NEW h \in XRank, NEW b \in chunks'[h][i],
           \A r \in XRank : b \in chunks'[r][i] => r = h,
           \A q \in XRank : b \notin Original(q, xs, c, i)
    PROVE  Xor([r \in XRank |-> chunks'[r][i]]) # GroupParity(xs, c, i)
<1> DEFINE f == [r \in XRank |-> chunks'[r][i]]
<1>1. DOMAIN f = XRank /\ \A r \in XRank : f[r] = chunks'[r][i]
  OBVIOUS
<1> HIDE DEF f
<1>2. b \in Xor(f)
  BY <1>1, XorOne
<1>3. b \notin GroupParity(xs, c, i)
  BY GroupParityMembers
<1> QED BY <1>2, <1>3 DEF f

\* The first turn: the symbols left over are those of memory that malloc returned.
LEMMA FirstTurn ==
    ASSUME XorIInv, Buffered, RecoverChunk, NEW xs, xs = xstruct, computedb = 0, xs = Full, Real <= datasize
    PROVE  (\E i \in Hole(lost, xs) : Xor([r \in XRank |-> chunks'[r][i]]) # GroupParity(xs, 0, i))
             <=> \/ lost \in dirty /\ lost * xs.chunkxparitysize > xs.chunkdatasize
                 \/ \E s \in Leaky(xs) : s \in dirty
<1> DEFINE seg == xs.chunkxparitysize
           h == lost * seg
           top == h + seg - 1
<1>1. Sized /\ Formed(xs) /\ xs = Turn(0) /\ 0 \in Starts
  BY RecoverTurn DEF XorIInv, XorTypeOK
<1>2. step = "recover" /\ 0 < datasize
  BY DEF RecoverChunk
<1>3. \A r \in XRank : \A i \in Places :
         chunks[r][i] = IF r \in dirty /\ (r = lost => i >= xs.chunkdatasize + Seg)
                        THEN Unwritten(r, i) ELSE ZeroByte
  BY <1>2 DEF Buffered
<1>4. \A i \in Places : chunks'[lost][i] = chunks[lost][i]
  <2>1. ~ (datasize - 0 < Real)
    <3>1. datasize \in Nat /\ Real \in Nat
      BY <1>1, FullFacts DEF Sized
    <3> QED BY <3>1
  <2> QED BY <2>1, RecoverTurn
<1>5. seg = Seg /\ seg \in Nat \ {0} /\ xs.chunkdatasize \in Nat /\ lost \in Nat /\ lost \in XRank
  <2>1. seg = Seg
    BY DEF Full, compute_xstruct, Seg
  <2> QED BY <1>1, <2>1 DEF Formed, Sized, XRank
<1>6. h \in Nat /\ Hole(lost, xs) = h .. top /\ top \in Nat
  <2>1. h \in Nat /\ Hole(lost, xs) = h .. h + seg - 1
    BY <1>5, HoleFacts
  <2> HIDE DEF h, seg
  <2> QED BY <1>5, <2>1
<1>7. \A i \in Hole(lost, xs) : i \in Places /\ i \in Nat
  BY ParityPlace DEF Places
<1>8. ASSUME NEW i \in Hole(lost, xs), NEW r \in XRank, NEW b \in chunks'[r][i]
      PROVE  b[1] = r
  <2>1. i \in Places
    BY <1>7
  <2>2. chunks[r][i] \in {Unwritten(r, i), ZeroByte}
    BY <1>3, <2>1
  <2>3. b \in chunks[r][i] \/ b \in Original(r, xs, 0, i)
    <3>1. CASE r = lost
      BY <1>4, <1>8, <2>1, <3>1
    <3>2. CASE r # lost
      BY <1>8, <3>2, ParityPlace
    <3> QED BY <3>1, <3>2
  <2>4. b \in Original(r, xs, 0, i) => b[1] = r
    BY OwnSymbols
  <2>5. b \in chunks[r][i] => b[1] = r
    BY <2>2 DEF Unwritten, ZeroByte
  <2> QED BY <2>3, <2>4, <2>5
<1>9. ASSUME NEW i \in Hole(lost, xs), NEW r \in XRank, <<r, "unwritten", i>> \in chunks'[r][i]
      PROVE  Xor([q \in XRank |-> chunks'[q][i]]) # GroupParity(xs, 0, i)
  <2> DEFINE b == <<r, "unwritten", i>>
  <2>1. b \in chunks'[r][i] /\ b[1] = r /\ b[2] = "unwritten"
    BY <1>9
  <2> HIDE DEF b
  <2>2. \A q \in XRank : b \in chunks'[q][i] => q = r
    BY <1>8, <1>9, <2>1
  <2>3. \A q \in XRank : b \notin Original(q, xs, 0, i)
    BY <2>1 DEF Original, DataByte, ZeroByte
  <2> QED BY <2>1, <2>2, <2>3, SymbolLeft
<1>10. ASSUME lost \in dirty, h > xs.chunkdatasize
       PROVE  \E i \in Hole(lost, xs) : Xor([r \in XRank |-> chunks'[r][i]]) # GroupParity(xs, 0, i)
  <2>1. top \in Hole(lost, xs) /\ top >= xs.chunkdatasize + Seg
    <3> HIDE DEF h, seg
    <3> QED BY <1>5, <1>6, <1>10
  <2>2. top \in Places
    BY <1>7, <2>1
  <2> HIDE DEF top
  <2>3. chunks[lost][top] = Unwritten(lost, top)
    BY <1>3, <1>5, <1>10, <2>1, <2>2
  <2>4. chunks'[lost][top] = Unwritten(lost, top)
    BY <1>4, <2>2, <2>3
  <2>5. <<lost, "unwritten", top>> \in chunks'[lost][top]
    BY <2>4 DEF Unwritten
  <2> QED BY <1>5, <1>9, <2>1, <2>5
<1>11. ASSUME NEW s \in Leaky(xs), s \in dirty
       PROVE  \E i \in Hole(lost, xs) : Xor([r \in XRank |-> chunks'[r][i]]) # GroupParity(xs, 0, i)
  <2>1. h \in Hole(lost, xs)
    <3> HIDE DEF h, seg
    <3> QED BY <1>5, <1>6
  <2> HIDE DEF h
  <2>2. h \in Places
    BY <1>7, <2>1
  <2>3. s \in XRank \ {lost} /\ chunks'[s][h] = chunks[s][h]
    BY <2>1, ParityPlace
  <2>4. chunks'[s][h] = Unwritten(s, h)
    BY <1>3, <1>11, <2>2, <2>3
  <2>5. <<s, "unwritten", h>> \in chunks'[s][h]
    BY <2>4 DEF Unwritten
  <2> QED BY <1>9, <2>1, <2>3, <2>5
<1>12. ASSUME ~ (lost \in dirty /\ h > xs.chunkdatasize), \A s \in Leaky(xs) : s \notin dirty,
              NEW i \in Hole(lost, xs)
       PROVE  Xor([r \in XRank |-> chunks'[r][i]]) = GroupParity(xs, 0, i)
  <2>1. i \in Places
    BY <1>7
  <2>2. lost \in dirty => ~ (i >= xs.chunkdatasize + Seg)
    <3>1. i \in h .. top /\ i \in Nat
      BY <1>6, <1>7
    <3>2. lost \in dirty => ~ (h > xs.chunkdatasize)
      BY <1>12
    <3> HIDE DEF h, seg
    <3> QED BY <1>5, <1>6, <3>1, <3>2
  <2>3. chunks'[lost][i] = ZeroByte
    BY <1>3, <1>4, <1>5, <2>1, <2>2
  <2>4. \A s \in Leaky(xs) : chunks[s][i] = ZeroByte
    <3> TAKE s \in Leaky(xs)
    <3>1. s \in XRank
      BY ParityPlace
    <3> QED BY <1>3, <1>12, <2>1, <3>1
  <2> QED BY <2>3, <2>4, CleanPlace
<1> QED BY <1>10, <1>11, <1>12

\* A later turn: what is left over is the data of the turn before, and where the
\* hole of that turn holds a parity, the lost rank's data in it.
LEMMA LaterTurn ==
    ASSUME XorIInv, Buffered, RecoverChunk, NEW xs, xs = xstruct, NEW c, c = computedb, c # 0, datasize > Real
    PROVE  (\E i \in Hole(lost, xs) : Xor([r \in XRank |-> chunks'[r][i]]) # GroupParity(xs, c, i))
             <=> Leaky(xs) # {}
<1> DEFINE p == c - Real
<1>1. Sized /\ Formed(xs) /\ xs = Turn(c) /\ c \in Starts
  BY RecoverTurn DEF XorIInv, XorTypeOK
<1>2. step = "recover" /\ c < datasize /\ c > 0 /\ c \in Nat
  <2>1. step = "recover" /\ c < datasize
    BY DEF RecoverChunk
  <2>2. c \in Nat
    BY <1>1, TurnFacts
  <2> QED BY <2>1, <2>2
<1>3. \A r \in XRank : \A i \in Places :
         chunks[r][i] = IF r = lost THEN ZeroByte
                        ELSE IF i \in Hole(r, Full) THEN GroupParity(Full, p, i)
                        ELSE DataByte(r, p + Unplace(r, Full, i))
  BY <1>2 DEF Buffered
<1> HIDE DEF p
<1>4. lost \in XRank /\ lost \in Nat /\ xranks \in Nat /\ xranks >= 3
  BY <1>1 DEF Sized, XRank
<1>5. \A i \in Hole(lost, xs) : i \in Places /\ i \in Nat
  BY ParityPlace DEF Places
<1>6. \A i \in Hole(lost, xs) : chunks'[lost][i] = ZeroByte
  <2> TAKE i \in Hole(lost, xs)
  <2>1. i \in Places
    BY <1>5
  <2>2. chunks[lost][i] = ZeroByte
    BY <1>3, <1>4, <2>1
  <2>3. chunks'[lost][i] \in {ZeroByte, chunks[lost][i]}
    BY <2>1, RecoverTurn
  <2> QED BY <2>2, <2>3
<1>7. ASSUME Leaky(xs) = {}, NEW i \in Hole(lost, xs)
      PROVE  Xor([r \in XRank |-> chunks'[r][i]]) = GroupParity(xs, c, i)
  BY <1>6, <1>7, CleanPlace
<1>8. ASSUME NEW t \in Leaky(xs)
      PROVE  \E i \in Hole(lost, xs) : Xor([r \in XRank |-> chunks'[r][i]]) # GroupParity(xs, c, i)
  <2> DEFINE i == lost * xs.chunkxparitysize
  <2>1. i \in Hole(lost, xs)
    <3>1. xs.chunkxparitysize \in Nat \ {0}
      BY <1>1 DEF Formed
    <3>2. i \in Nat /\ Hole(lost, xs) = i .. i + xs.chunkxparitysize - 1
      BY <1>4, <3>1, HoleFacts
    <3> HIDE DEF i
    <3> QED BY <3>1, <3>2
  <2> HIDE DEF i
  <2>2. i \in Places /\ i \in Nat
    BY <1>5, <2>1
  <2>3. Formed(Full) /\ i < Full.chunksize
    <3>1. /\ Full.chunkxparitysize = Seg /\ Full.realdatasize = Real /\ Full.chunkdatasize = Real
          /\ Real = (xranks - 1) * Seg /\ Seg \in Nat \ {0} /\ Real \in Nat \ {0}
          /\ Full.chunksize = Real + Seg
      BY <1>1, LargeFacts
    <3>2. Full.chunksize = Seg * xranks
      BY <1>1, FullFacts DEF Full
    <3> QED BY <2>2, <3>1, <3>2 DEF Formed, Places
  <2>4. PICK h \in XRank : i \in Hole(h, Full) /\ \A r \in XRank : i \in Hole(r, Full) => r = h
    BY <1>4, <2>2, <2>3, HoleOf
  <2>5. \A r \in XRank \ {lost} : chunks'[r][i] = IF r \in Leaky(xs) THEN chunks[r][i] ELSE Original(r, xs, c, i)
    BY <2>1, ParityPlace
  <2>6. \A r \in Leaky(xs) : r \in XRank \ {lost} /\ Original(r, xs, c, i) = ZeroByte
    BY <2>1, ParityPlace
  <2>7. Original(lost, xs, c, i) = ZeroByte /\ chunks'[lost][i] = ZeroByte
    BY <1>6, <2>1, ParityPlace
  \* A rank other than h puts in symbols of its own.
  <2>8. ASSUME NEW r \in XRank, r # h \/ r \notin Leaky(xs), NEW b \in chunks'[r][i]
        PROVE  b[1] = r /\ r # lost
    <3>1. r # lost
      BY <2>7, <2>8 DEF ZeroByte
    <3>2. CASE r \in Leaky(xs)
      <4>1. i \notin Hole(r, Full)
        BY <2>4, <2>8, <3>2
      <4>2. chunks'[r][i] = DataByte(r, p + Unplace(r, Full, i))
        BY <1>3, <2>2, <2>5, <3>1, <3>2, <4>1
      <4> QED BY <2>8, <3>1, <4>2 DEF DataByte
    <3>3. CASE r \notin Leaky(xs)
      <4>1. b \in Original(r, xs, c, i)
        BY <2>5, <2>8, <3>1, <3>3
      <4> QED BY <3>1, <4>1, OwnSymbols
    <3> QED BY <3>2, <3>3
  <2>9. CASE h \notin Leaky(xs)
    <3> DEFINE b == <<t, "data", p + Unplace(t, Full, i)>>
    <3>1. t \in XRank \ {lost} /\ t # h /\ Original(t, xs, c, i) = ZeroByte
      BY <2>6, <2>9
    <3>2. i \notin Hole(t, Full)
      BY <2>4, <3>1
    <3>3. chunks'[t][i] = DataByte(t, p + Unplace(t, Full, i))
      BY <1>3, <2>2, <2>5, <3>1, <3>2
    <3>4. b \in chunks'[t][i] /\ b[1] = t
      BY <3>3 DEF DataByte
    <3> HIDE DEF b
    <3>5. \A r \in XRank : b \in chunks'[r][i] => r = t
      BY <2>8, <2>9, <3>4
    <3>6. \A q \in XRank : b \notin Original(q, xs, c, i)
      <4> TAKE q \in XRank
      <4>1. b \in Original(q, xs, c, i) => q = t
        BY <3>4, OwnSymbols
      <4> QED BY <3>1, <4>1 DEF ZeroByte
    <3>7. t \in XRank
      BY <3>1
    <3> QED BY <2>1, <3>4, <3>5, <3>6, <3>7, SymbolLeft
  <2>10. CASE h \in Leaky(xs)
    <3> DEFINE b == <<lost, "data", p + Unplace(lost, Full, i)>>
    <3>1. h \in XRank \ {lost}
      BY <2>6, <2>10
    <3>2. i \notin Hole(lost, Full)
      BY <1>4, <2>4, <3>1
    <3>3. Unplace(lost, Full, i) < Full.realdatasize
      <4> DEFINE k == Unplace(lost, Full, i)
                 g == lost * Full.chunkxparitysize
      <4>1. /\ Full.chunkxparitysize = Seg /\ Full.realdatasize = Real
            /\ Real = (xranks - 1) * Seg /\ Seg \in Nat \ {0} /\ Real \in Nat \ {0}
            /\ Full.chunksize = Real + Seg
        BY <1>1, LargeFacts
      <4>2. k = IF i < g THEN i ELSE i - Seg
        BY <4>1 DEF Unplace
      <4>3. g \in Nat /\ g <= Real
        <5>1. lost <= xranks - 1
          BY <1>4 DEF XRank
        <5>2. Seg * lost <= Seg * (xranks - 1)
          BY <1>4, <4>1, <5>1, MulMonotone
        <5> QED BY <1>4, <4>1, <5>2
      <4> HIDE DEF k, g
      <4>4. k < Real
        BY <2>2, <2>3, <4>1, <4>2, <4>3
      <4> QED BY <4>1, <4>4 DEF k
    <3>4. b \in Original(lost, Full, p, i) /\ b[1] = lost
      BY <3>2, <3>3 DEF Original, DataByte
    <3> HIDE DEF b
    <3>5. b \in GroupParity(Full, p, i)
      BY <1>4, <3>4, GroupParityMembers
    <3>6. chunks'[h][i] = GroupParity(Full, p, i)
      BY <1>3, <2>2, <2>4, <2>5, <2>10, <3>1
    <3>7. b \in chunks'[h][i] /\ h \in XRank
      BY <3>5, <3>6
    <3>8. \A r \in XRank : b \in chunks'[r][i] => r = h
      BY <2>8, <3>4
    <3>9. \A q \in XRank : b \notin Original(q, xs, c, i)
      <4> TAKE q \in XRank
      <4>1. b \in Original(q, xs, c, i) => q = lost
        BY <3>4, OwnSymbols
      <4> QED BY <2>7, <4>1 DEF ZeroByte
    <3> QED BY <2>1, <3>7, <3>8, <3>9, SymbolLeft
  <2> QED BY <2>9, <2>10
<1> QED BY <1>7, <1>8

\* Constant as the sizes are.
LEMMA MoreSizesStay ==
    ASSUME UNCHANGED <<xranks, datasize, lost>>
    PROVE  /\ Full' = Full /\ Places' = Places
           /\ dirty' = dirty => Leftovers' = Leftovers
           /\ \A r, xs : Hole(r, xs)' = Hole(r, xs)
<1>1. Real' = Real /\ \A d : compute_xstruct(d)' = compute_xstruct(d)
  BY SizesStay
<1>2. Full' = Full /\ Places' = Places
  BY <1>1 DEF Full, Places
<1>3. LastXs' = LastXs
  BY <1>1 DEF LastXs
<1>4. dirty' = dirty => Leftovers' = Leftovers
  BY <1>1, <1>3 DEF Leftovers
<1> QED BY <1>2, <1>4 DEF Hole

LEMMA RebuildBegins ==
    ASSUME RebuildIInv, RecoverBegins
    PROVE  RebuildIInv'
<1>1. XorTypeOK /\ Recovering /\ Sized /\ lost \in XRank
  BY DEF RebuildIInv, XorIInv, XorTypeOK, Sized
<1>2. /\ step = "checkpoint" /\ step' = "recover" /\ computedb' = 0
      /\ dirty' \in SUBSET XRank
      /\ chunks' = [Allocated(dirty') EXCEPT ![lost] = FillNothing(@, Full)]
      /\ UNCHANGED <<xranks, datasize, lost, parities, newdata, newparity>>
  BY DEF RecoverBegins, Full
<1>3. /\ XRank' = XRank /\ Places' = Places /\ Full' = Full /\ Seg' = Seg
      /\ \A e : ParityOf(e)' = ParityOf(e)
  BY <1>2, SizesStay, MoreSizesStay
<1>4. XorIInv'
  BY RecoverBeginsKeeps DEF RebuildIInv
<1>5. Full.chunkxparitysize = Seg
  BY DEF Full, compute_xstruct, Seg
<1>6. \A r \in XRank : \A i \in Places :
         chunks'[r][i] = IF r \in dirty' /\ (r = lost => i >= Full.chunkdatasize + Seg)
                         THEN Unwritten(r, i) ELSE ZeroByte
  <2> DEFINE A == Allocated(dirty')
  <2>1. A = [r \in XRank |-> [i \in Places |-> IF r \in dirty' THEN Unwritten(r, i) ELSE ZeroByte]]
    BY DEF Allocated, Places, Full
  <2>2. chunks' = [A EXCEPT ![lost] = FillNothing(A[lost], Full)]
    BY <1>2
  <2> HIDE DEF A
  <2> TAKE r \in XRank
  <2> TAKE i \in Places
  <2>3. A[r][i] = IF r \in dirty' THEN Unwritten(r, i) ELSE ZeroByte
    BY <2>1
  <2>4. CASE r # lost
    BY <2>1, <2>2, <2>3, <2>4
  <2>5. CASE r = lost
    <3>1. chunks'[r] = FillNothing(A[r], Full) /\ i \in DOMAIN A[r]
      BY <1>1, <2>1, <2>2, <2>5
    <3>2. chunks'[r][i] = IF i < Full.chunkdatasize + Seg THEN ZeroByte ELSE A[r][i]
      BY <1>5, <3>1 DEF FillNothing
    <3>3. i \in Int /\ Full.chunkdatasize + Seg \in Int
      <4>1. datasize \in Nat \ {0}
        BY <1>1 DEF Sized
      <4>2. Full.chunkdatasize \in Nat
        BY <1>1, <4>1, StructFacts DEF Full
      <4> QED BY <1>1, <4>2, FullFacts DEF Places
    <3> QED BY <2>3, <2>5, <3>2, <3>3
  <2> QED BY <2>4, <2>5
<1>7. Buffered'
  BY <1>2, <1>3, <1>6 DEF Buffered
<1>8. ParityBack'
  <2>1. ParityOf(0) = 0 /\ datasize \in Nat \ {0}
    BY <1>1, ZeroStarts DEF Sized
  <2> QED BY <1>2, <1>3, <2>1 DEF ParityBack
<1> QED BY <1>4, <1>7, <1>8 DEF RebuildIInv

LEMMA RebuildBuffers ==
    ASSUME RebuildIInv, RecoverChunk
    PROVE  Buffered'
<1> DEFINE xs == xstruct
           c == computedb
<1>x. xs = xstruct /\ c = computedb
  OBVIOUS
<1>1. UNCHANGED <<xranks, datasize, lost, step, dirty, parities>> /\ computedb' = c + xs.realdatasize /\ step = "recover"
  BY DEF RecoverChunk
<1> HIDE DEF xs, c
<1>2. XorIInv /\ Recovering /\ Sized /\ Formed(xs) /\ xs = Turn(c) /\ c \in Starts /\ lost \in XRank
  BY <1>x, RecoverTurn DEF RebuildIInv, XorIInv, XorTypeOK, Sized
<1>3. /\ XRank' = XRank /\ Places' = Places /\ Full' = Full /\ Seg' = Seg /\ Real' = Real
      /\ \A r, ys : Hole(r, ys)' = Hole(r, ys)
      /\ \A ys, e, i : GroupParity(ys, e, i)' = GroupParity(ys, e, i)
  BY <1>1, SizesStay, MoreSizesStay
<1>4. SUFFICES ASSUME c + xs.realdatasize < datasize
               PROVE  \A r \in XRank : \A i \in Places :
                        chunks'[r][i] = IF r = lost THEN ZeroByte
                                        ELSE IF i \in Hole(r, Full) THEN GroupParity(Full, c, i)
                                        ELSE DataByte(r, c + Unplace(r, Full, i))
  <2>1. c \in Nat /\ xs.realdatasize \in Nat \ {0} /\ Real \in Nat
    BY <1>2, TurnFacts, FullFacts
  <2>2. c + xs.realdatasize # 0
    BY <2>1
  <2>3. ASSUME c + xs.realdatasize < datasize
        PROVE  (c + xs.realdatasize) - Real = c
    BY <1>2, <2>1, <2>3, NotLast
  <2>4. \A r, i : Unplace(r, Full, i)' = Unplace(r, Full, i)
    BY <1>3 DEF Unplace
  <2> QED BY <1>1, <1>3, <2>2, <2>3, <2>4 DEF Buffered, Unplace
<1>5. xs = Full /\ ~ (datasize - c < Real) /\ datasize > Real
  BY <1>2, <1>4, NotLast
<1>6. /\ Full.chunkxparitysize = Seg /\ Full.realdatasize = Real /\ Full.chunkdatasize = Real
      /\ Real = (xranks - 1) * Seg /\ Seg \in Nat \ {0} /\ Real \in Nat \ {0}
      /\ Full.chunksize = Real + Seg
  BY <1>2, <1>5, LargeFacts
<1> TAKE r \in XRank
<1> TAKE i \in Places
<1>7. i \in Nat /\ i < Real + Seg
  BY <1>6 DEF Places
<1>8. CASE r = lost
  <2>1. chunks'[lost][i] = chunks[lost][i]
    BY <1>2, <1>5, <1>x, RecoverTurn DEF RebuildIInv
  <2>2. chunks[lost][i] = ZeroByte
    BY <1>1, <1>2, <1>6, <1>7 DEF Recovering, Full, Places
  <2> QED BY <1>8, <2>1, <2>2
<1>9. CASE r # lost
  <2>1. chunks'[r][i] =
                  IF i \in Hole(r, Full) THEN GroupParity(Full, c, i)
                  ELSE IF Unplace(r, Full, i) < Real THEN DataByte(r, c + Unplace(r, Full, i))
                  ELSE IF \/ i >= Full.chunksize
                          \/ /\ Real <= r * Seg
                             /\ i >= (r + 1) * Seg
                  THEN chunks[r][i] ELSE ZeroByte
    BY <1>2, <1>5, <1>6, <1>9, <1>x, RecoverTurn
  <2>2. i \notin Hole(r, Full) => Unplace(r, Full, i) < Real
    <3> DEFINE g == r * Seg
               k == Unplace(r, Full, i)
    <3>1. r \in Nat /\ r <= xranks - 1 /\ xranks \in Nat /\ xranks >= 3
      BY <1>2 DEF XRank, Sized
    <3>2. g \in Nat /\ g <= Real
      <4>1. Seg * r <= Seg * (xranks - 1)
        BY <1>6, <3>1, MulMonotone
      <4> QED BY <1>6, <3>1, <4>1
    <3>3. k = IF i < g THEN i ELSE i - Seg
      BY <1>6 DEF Unplace
    <3> HIDE DEF g, k
    <3>4. k < Real
      BY <1>6, <1>7, <3>2, <3>3
    <3> QED BY <3>4 DEF k
  <2> QED BY <1>9, <2>1, <2>2
<1> QED BY <1>8, <1>9

LEMMA RebuildParity ==
    ASSUME RebuildIInv, RecoverChunk
    PROVE  ParityBack'
<1> DEFINE xs == xstruct
           c == computedb
           seg == xs.chunkxparitysize
           n == ParityOf(c)
           h == lost * seg
           back(i) == Xor([r \in XRank |-> chunks'[r][i]])
<1>x. xs = xstruct /\ c = computedb
  OBVIOUS
<1>1. /\ UNCHANGED <<xranks, datasize, lost, step, dirty, parities>> /\ computedb' = c + xs.realdatasize
      /\ step = "recover" /\ c < datasize
  BY DEF RecoverChunk
<1> HIDE DEF xs, c, back
<1>2. /\ XorIInv /\ XorIInv' /\ XorTypeOK /\ ParitiesRight /\ Recovering /\ Sized /\ Formed(xs) /\ xs = Turn(c)
      /\ c \in Starts /\ lost \in XRank
  BY <1>x, RecoverTurn, RecoverChunkKeeps DEF RebuildIInv, XorIInv, XorTypeOK, Sized
<1>3. /\ \A e : ParityOf(e)' = ParityOf(e)
      /\ Leftovers' = Leftovers
  BY <1>1, SizesStay, MoreSizesStay
<1>4. /\ c \in Nat /\ seg \in Nat \ {0} /\ n \in Nat /\ xs.realdatasize \in Nat \ {0}
      /\ c + xs.realdatasize = datasize \/ c + xs.realdatasize \in Starts
      /\ ParityOf(c + xs.realdatasize) = n + seg
      /\ datasize \in Nat
  BY <1>2, TurnFacts DEF Sized
<1>5. h \in Nat /\ Hole(lost, xs) = h .. h + seg - 1 /\ \A j \in 0 .. seg - 1 : h + j \in Hole(lost, xs)
  <2>1. lost \in Nat
    BY <1>2 DEF XRank
  <2> QED BY <1>4, <2>1, HoleFacts
\* Segment by segment, what is put behind newparity is compared with the parity.
<1>6. \A k \in 1 .. n : newparity'[k] = parities[lost][k]
  <2>1. \A k \in 1 .. n : newparity'[k] = newparity[k]
    BY <1>2, <1>x, RecoverTurn
  <2>2. \A k \in 1 .. n : newparity[k] = parities[lost][k]
    BY <1>1, <1>x DEF RebuildIInv, ParityBack
  <2> QED BY <2>1, <2>2
<1>7. \A j \in 0 .. seg - 1 : newparity'[n + j + 1] = back(h + j)
  BY <1>2, <1>x, RecoverTurn DEF back
<1>8. \A j \in 0 .. seg - 1 : parities[lost][n + j + 1] = GroupParity(xs, c, h + j)
  <2>1. c < Encoded
    BY <1>1 DEF Encoded
  <2> QED BY <1>2, <2>1 DEF ParitiesRight
<1> HIDE DEF seg, n, h
<1>9. CASE c + xs.realdatasize < datasize
  <2>1. xs = Full /\ ~ (datasize - c < Real) /\ datasize > Real
    BY <1>2, <1>9, NotLast
  <2>2. /\ Full.chunkxparitysize = Seg /\ Full.realdatasize = Real /\ Full.chunkdatasize = Real
        /\ Real = (xranks - 1) * Seg /\ Seg \in Nat \ {0} /\ Real \in Nat \ {0}
        /\ Full.chunksize = Real + Seg
    BY <1>2, <2>1, LargeFacts
  <2>3. Leaky(xs) = {}
    <3>1. SUFFICES ASSUME NEW s \in Leaky(xs)
                   PROVE  FALSE
      OBVIOUS
    <3>2. s \in Nat /\ s + 1 <= xranks - 1 /\ xranks \in Nat /\ xranks >= 3 /\ Real <= s * Seg
      BY <1>2, <2>1, <2>2, <3>1 DEF Leaky, XRank, Sized
    <3>3. Seg * (s + 1) <= Seg * (xranks - 1)
      BY <2>2, <3>2, MulMonotone
    <3>4. Seg * (s + 1) = s * Seg + Seg /\ s * Seg \in Nat /\ Seg * (xranks - 1) = Real
      BY <2>2, <3>2
    <3> QED BY <2>2, <3>2, <3>3, <3>4
  <2>4. ASSUME NEW i \in Hole(lost, xs)
        PROVE  back(i) = GroupParity(xs, c, i)
    <3>1. i \in Places
      BY <1>2, <1>x, <2>4, ParityPlace
    <3>2. chunks'[lost][i] = chunks[lost][i]
      BY <1>2, <1>x, <2>1, <3>1, RecoverTurn
    <3>3. chunks[lost][i] = ZeroByte
      <4>1. i < Full.chunkdatasize + Seg
        BY <2>2, <3>1 DEF Places
      <4> QED BY <1>1, <1>2, <3>1, <4>1 DEF Recovering, Full, Places
    <3>4. Xor([r \in XRank |-> chunks'[r][i]]) = GroupParity(xs, c, i)
      BY <1>2, <1>x, <2>3, <2>4, <3>2, <3>3, CleanPlace
    <3> QED BY <3>4 DEF back
  <2>5. \A k \in 1 .. n + seg : newparity'[k] = parities[lost][k]
    <3> TAKE k \in 1 .. n + seg
    <3>1. CASE k <= n
      <4>1. k \in 1 .. n
        BY <1>4, <3>1
      <4> QED BY <1>6, <4>1
    <3>2. CASE ~ (k <= n)
      <4> DEFINE j == k - n - 1
      <4>1. j \in 0 .. seg - 1 /\ n + j + 1 = k
        BY <1>4, <3>2
      <4> HIDE DEF j
      <4>2. h + j \in Hole(lost, xs)
        BY <1>5, <4>1
      <4> QED BY <1>7, <1>8, <2>4, <4>1, <4>2
    <3> QED BY <3>1, <3>2
  <2>6. ~ (c + xs.realdatasize >= datasize)
    BY <1>4, <1>9
  <2> QED BY <1>1, <1>3, <1>4, <2>5, <2>6 DEF ParityBack
<1>10. CASE c + xs.realdatasize = datasize
  <2>1. (newparity' # parities[lost]) <=> \E i \in Hole(lost, xs) : back(i) # GroupParity(xs, c, i)
    <3>1. newparity' \in Seq(Bytes) /\ parities[lost] \in Seq(Bytes)
      <4>1. Bytes' = Bytes
        BY <1>1, SizesStay
      <4> QED BY <1>2, <4>1 DEF XorIInv, XorTypeOK
    <3>2. Len(newparity') = n + seg
      <4>1. Len(newparity') = (ParityOf(computedb))'
        BY <1>1, <1>2 DEF XorIInv, Recovering
      <4>2. (ParityOf(computedb))' = ParityOf(c + xs.realdatasize)
        BY <1>1, <1>3 DEF ParityOf, Real, Seg, compute_xstruct, segmentsize
      <4> QED BY <1>4, <4>1, <4>2
    <3>3. Len(parities[lost]) = n + seg
      BY <1>1, <1>2, <1>4, <1>10 DEF ParitiesRight, Encoded
    <3>4. ASSUME NEW i \in Hole(lost, xs), back(i) # GroupParity(xs, c, i)
          PROVE  newparity' # parities[lost]
      <4> DEFINE j == i - h
      <4>1. i \in h .. h + seg - 1
        BY <1>5, <3>4
      <4>2. j \in 0 .. seg - 1 /\ h + j = i
        BY <1>4, <1>5, <4>1
      <4> HIDE DEF j
      <4>3. newparity'[n + j + 1] = back(i) /\ parities[lost][n + j + 1] = GroupParity(xs, c, i)
        BY <1>7, <1>8, <4>2
      <4> QED BY <3>4, <4>3
    <3>5. ASSUME \A i \in Hole(lost, xs) : back(i) = GroupParity(xs, c, i)
          PROVE  newparity' = parities[lost]
      <4>1. \A k \in 1 .. n + seg : newparity'[k] = parities[lost][k]
        <5> TAKE k \in 1 .. n + seg
        <5>1. CASE k <= n
          <6>1. k \in 1 .. n
            BY <1>4, <5>1
          <6> QED BY <1>6, <6>1
        <5>2. CASE ~ (k <= n)
          <6> DEFINE j == k - n - 1
          <6>1. j \in 0 .. seg - 1 /\ n + j + 1 = k
            BY <1>4, <5>2
          <6> HIDE DEF j
          <6>2. h + j \in Hole(lost, xs)
            BY <1>5, <6>1
          <6> QED BY <1>7, <1>8, <3>5, <6>1, <6>2
        <5> QED BY <5>1, <5>2
      <4> QED BY <3>1, <3>2, <3>3, <4>1, SeqEqual
    <3> QED BY <3>4, <3>5
  <2>2. /\ LastXs.chunkxparitysize = xs.chunkxparitysize /\ LastXs.realdatasize = xs.realdatasize
        /\ datasize <= Real <=> c = 0
        /\ c = 0 => LastXs = xs /\ xs = Full
    BY <1>2, <1>10, LastTurn
  <2>3. (\E s \in Leaky(xs) : s \in dirty \/ datasize > Real)
          <=> \E s \in 0 .. lost - 1 : (s \in dirty \/ datasize > Real) /\ LastXs.realdatasize <= s * LastXs.chunkxparitysize
    BY <2>2 DEF Leaky
  <2>4. Real \in Nat /\ Real <= datasize
    BY <1>2, FullFacts
  <2>5. CASE c = 0
    <3>1. (\E i \in Hole(lost, xs) : back(i) # GroupParity(xs, c, i))
             <=> \/ lost \in dirty /\ lost * xs.chunkxparitysize > xs.chunkdatasize
                 \/ \E s \in Leaky(xs) : s \in dirty
      BY <1>2, <1>x, <2>2, <2>4, <2>5, FirstTurn DEF RebuildIInv, back
    <3>2. datasize <= Real /\ ~ (datasize > Real)
      BY <1>4, <2>2, <2>4, <2>5
    <3>3. Leftovers <=> \/ lost \in dirty /\ lost * xs.chunkxparitysize > xs.chunkdatasize
                        \/ \E s \in Leaky(xs) : s \in dirty
      BY <2>2, <2>3, <2>5, <3>2 DEF Leftovers
    <3> QED BY <1>1, <1>3, <1>10, <2>1, <3>1, <3>3, <1>4 DEF ParityBack
  <2>6. CASE c # 0
    <3>1. datasize > Real /\ ~ (datasize <= Real)
      BY <1>4, <2>2, <2>4, <2>6
    <3>2. (\E i \in Hole(lost, xs) : back(i) # GroupParity(xs, c, i)) <=> Leaky(xs) # {}
      BY <1>2, <1>x, <2>6, <3>1, LaterTurn DEF RebuildIInv, back
    <3>3. Leftovers <=> Leaky(xs) # {}
      BY <2>3, <3>1 DEF Leftovers
    <3> QED BY <1>1, <1>3, <1>10, <2>1, <3>2, <3>3, <1>4 DEF ParityBack
  <2> QED BY <2>5, <2>6
<1>11. c + xs.realdatasize < datasize \/ c + xs.realdatasize = datasize
  BY <1>4 DEF Starts
<1> QED BY <1>9, <1>10, <1>11

\* The parity of the lost rank comes back too, whatever the sizes, but in exactly
\* the case ParityRebuilt names: a smaller last chunk whose data ends before the
\* hole of a rank in front of the lost one, or short of the lost rank's own.
THEOREM ParityRebuiltHolds == XorSpec => []ParityRebuilt
<1>1. XorInit => RebuildIInv
  BY XorStart DEF XorInit, RebuildIInv, Buffered, ParityBack
<1>2. RebuildIInv /\ [XorNext]_xorvars => RebuildIInv'
  <2> SUFFICES ASSUME RebuildIInv, [XorNext]_xorvars
               PROVE  RebuildIInv'
    OBVIOUS
  <2>1. CASE CheckpointChunk
    <3>1. step' = "checkpoint"
      BY <2>1 DEF CheckpointChunk
    <3> QED BY <2>1, <3>1, CheckpointChunkKeeps DEF RebuildIInv, Buffered, ParityBack
  <2>2. CASE RecoverBegins
    BY <2>2, RebuildBegins
  <2>3. CASE RecoverChunk
    BY <2>3, RecoverChunkKeeps, RebuildBuffers, RebuildParity DEF RebuildIInv
  <2>4. CASE RecoverEnds
    <3>1. /\ UNCHANGED <<xranks, datasize, lost, dirty, computedb, parities, newparity>>
          /\ step = "recover" /\ step' = "rebuilt" /\ computedb >= datasize
      BY <2>4 DEF RecoverEnds
    <3>2. Leftovers' = Leftovers
      BY <3>1, MoreSizesStay
    <3>3. ParityBack'
      <4>1. datasize \in Nat /\ computedb \in Nat
        <5>1. XorTypeOK /\ Sized
          BY DEF RebuildIInv, XorIInv, XorTypeOK
        <5>2. \A e \in Starts : e \in Nat
          BY DEF Starts
        <5> QED BY <5>1, <5>2 DEF XorTypeOK, Sized
      <4>2. ~ (computedb < datasize)
        BY <3>1, <4>1
      <4> QED BY <3>1, <3>2, <4>2 DEF RebuildIInv, ParityBack
    <3>4. Buffered'
      BY <3>1 DEF Buffered
    <3> QED BY <2>4, <3>3, <3>4, RecoverEndsKeeps DEF RebuildIInv
  <2>5. CASE UNCHANGED xorvars
    <3>1. UNCHANGED <<xranks, datasize, lost, step, dirty, computedb, chunks, parities, newdata, newparity>>
      BY <2>5 DEF xorvars
    <3>2. /\ Leftovers' = Leftovers /\ Places' = Places /\ Full' = Full /\ Seg' = Seg /\ Real' = Real
          /\ XRank' = XRank
          /\ \A r, ys : Hole(r, ys)' = Hole(r, ys)
          /\ \A e : ParityOf(e)' = ParityOf(e)
          /\ \A ys, e, i : GroupParity(ys, e, i)' = GroupParity(ys, e, i)
      BY <3>1, SizesStay, MoreSizesStay
    <3>3. ParityBack'
      BY <3>1, <3>2 DEF RebuildIInv, ParityBack
    <3>4. Buffered'
      BY <3>1, <3>2 DEF RebuildIInv, Buffered, Unplace
    <3> QED BY <2>5, <3>3, <3>4, XorStutters DEF RebuildIInv
  <2> QED BY <2>1, <2>2, <2>3, <2>4, <2>5 DEF XorNext
<1>3. RebuildIInv => ParityRebuilt
  <2> SUFFICES ASSUME RebuildIInv, step = "rebuilt"
               PROVE  newparity # parities[lost] <=> Leftovers
    BY DEF ParityRebuilt, Leftovers, LastXs, Real
  <2>1. XorTypeOK /\ Sized
    BY DEF RebuildIInv, XorIInv, XorTypeOK
  <2>2. computedb >= datasize
    BY <2>1 DEF XorTypeOK, Sized
  <2> QED BY <2>2 DEF RebuildIInv, ParityBack
<1> QED BY <1>1, <1>2, <1>3, PTL DEF XorSpec
=============================================================================
