------------------------------- MODULE XorCode -------------------------------
(***************************************************************************)
(* The coding of one XOR group, byte by byte (src/src/xor_struct.c and the *)
(* loops of xor_checkpoint and xor_recover): the data of every rank is cut *)
(* into chunks with a hole of one segment at the rank's own position; the  *)
(* XOR of all ranks over that segment is the rank's parity.  To rebuild a  *)
(* lost rank the others put their parity back into the hole, and the XOR   *)
(* of all chunks is the chunk of the lost rank.                            *)
(*                                                                         *)
(* A byte is the set of the symbols XORed into it: {} is zero, XOR is the  *)
(* symmetric difference.  A byte of memory nobody wrote is a symbol of its *)
(* own, so what depends on it never comes out right by accident.           *)
(***************************************************************************)
EXTENDS Sizes, FiniteSets, Sequences

CONSTANTS
    XGroupSizes, \* the sizes of the XOR group to explore
    DataSizes    \* the sizes of the registered data to explore, in bytes

\* COMB_Init asks for three ranks; a segment of a large chunk is not empty.
ASSUME XorCodeAssumption ==
    /\ \A n \in XGroupSizes : n \in Nat /\ n >= 3 /\ MaxChunkElements >= n - 1
    /\ DataSizes \subseteq Nat \ {0}

VARIABLES
    xranks,    \* size of the group
    datasize,  \* totaldatasize, the same on every rank
    lost,      \* the rank xor_recover rebuilds
    step,      \* "checkpoint", "recover" or "rebuilt"
    dirty,     \* ghost: ranks whose malloc returned memory that was used before
    computedb, \* bytes of the data behind the loop
    chunks,    \* rank -> its buffer "chunk"
    parities,  \* rank -> xorparity
    newdata,   \* what the lost rank extracted so far: data
    newparity  \* ... and parity

xorvars == <<xranks, datasize, lost, step, dirty, computedb, chunks, parities, newdata, newparity>>

XRank == 0 .. xranks - 1

DataByte(r, i) == {<<r, "data", i>>}
Unwritten(r, i) == {<<r, "unwritten", i>>}
ZeroByte == {}

\* compute_xor_op over the bytes a rank each contributes.
Xor(bytes) == {b \in UNION {bytes[r] : r \in DOMAIN bytes} :
                  Cardinality({r \in DOMAIN bytes : b \in bytes[r]}) % 2 = 1}

-----------------------------------------------------------------------------
(* compute_xstruct.                                                        *)

segmentsize(d) ==
    IF maxchunkb >= d THEN RoundUp(RoundUp(d, xranks - 1) \div (xranks - 1), BaseSize)
    ELSE RoundDown(maxchunkb \div (xranks - 1), BaseSize)

\* The structure of one chunk when d bytes are left: a small chunk ends in a
\* margin, a large one is full.
compute_xstruct(d) ==
    LET seg == segmentsize(d)
        small == maxchunkb >= d
    IN  [chunkxparitysize |-> seg,
         chunksize |-> seg * xranks,
         chunkdatasize |-> IF small THEN RoundUp(d, seg) ELSE seg * (xranks - 1),
         realdatasize |-> IF small THEN d ELSE seg * (xranks - 1)]

\* Mutant: the smaller chunk at the end has no parity.
parityOfFullChunks(d) == (d \div compute_xstruct(d).chunkdatasize) * segmentsize(d)

\* All segments of a rank's parity, that of the smaller chunk at the end too.
xorparitysize(d) ==
    LET real == compute_xstruct(d).realdatasize
    IN  (d \div real) * segmentsize(d) + (IF d % real = 0 THEN 0 ELSE segmentsize(d % real))

lastchunk == datasize - computedb < compute_xstruct(datasize).realdatasize
xstruct == compute_xstruct(IF lastchunk THEN datasize - computedb ELSE datasize)

\* Where rank r's own segment lies in its chunk, and the place of byte k of
\* the chunk's data around it.
Hole(r, xs) == r * xs.chunkxparitysize .. (r + 1) * xs.chunkxparitysize - 1
Place(r, xs, k) == IF k < r * xs.chunkxparitysize THEN k ELSE k + xs.chunkxparitysize

-----------------------------------------------------------------------------
(* fill_xor_chunk and extract_xor_chunk.                                   *)

NullParity == <<>>

\* Mutant: the margin behind the data is not cleared.
FillNoMargin(old, r, xs, from, parity) ==
    LET dataAt(i) == CHOOSE k \in 0 .. xs.realdatasize - 1 : Place(r, xs, k) = i
    IN  [i \in DOMAIN old |->
           IF i \in Hole(r, xs) THEN IF parity = NullParity THEN ZeroByte ELSE parity[i - r * xs.chunkxparitysize + 1]
           ELSE IF \E k \in 0 .. xs.realdatasize - 1 : Place(r, xs, k) = i THEN DataByte(r, from + dataAt(i))
           ELSE old[i]]

\* What keeps its old contents: bytes behind the structure and, when a parity
\* is put in and the data ends before the hole, bytes behind the hole.
Kept(r, xs, parity, i) ==
    \/ i >= xs.chunksize
    \/ /\ parity # NullParity
       /\ xs.realdatasize <= r * xs.chunkxparitysize
       /\ i >= (r + 1) * xs.chunkxparitysize

\* Rank r's chunk with the data from byte "from" on and the parity in the hole.
fill_xor_chunk(old, r, xs, from, parity) ==
    LET dataAt(i) == CHOOSE k \in 0 .. xs.realdatasize - 1 : Place(r, xs, k) = i
    IN  [i \in DOMAIN old |->
           IF i \in Hole(r, xs) THEN IF parity = NullParity THEN ZeroByte ELSE parity[i - r * xs.chunkxparitysize + 1]
           ELSE IF \E k \in 0 .. xs.realdatasize - 1 : Place(r, xs, k) = i THEN DataByte(r, from + dataAt(i))
           ELSE IF Kept(r, xs, parity, i) THEN old[i]
           ELSE ZeroByte]

\* Mutant: the segment of the parity is forgotten.
ClearData(old, xs) == [i \in DOMAIN old |-> IF i < xs.chunkdatasize THEN ZeroByte ELSE old[i]]

\* The lost rank's own contribution.
FillNothing(old, xs) ==
    [i \in DOMAIN old |-> IF i < xs.chunkdatasize + xs.chunkxparitysize THEN ZeroByte ELSE old[i]]

ExtractData(received, xs) == [k \in 1 .. xs.realdatasize |-> received[Place(lost, xs, k - 1)]]
ExtractParity(received, xs) ==
    [k \in 1 .. xs.chunkxparitysize |-> received[lost * xs.chunkxparitysize + k - 1]]

-----------------------------------------------------------------------------
(* xor_checkpoint and xor_recover, one turn of their loops a step.         *)

\* malloc(chunkb) of the ranks; those of S get memory that was used before.
Allocated(S) ==
    [r \in XRank |-> [i \in 0 .. compute_xstruct(datasize).chunksize - 1 |->
        IF r \in S THEN Unwritten(r, i) ELSE ZeroByte]]

XorInit ==
    /\ xranks \in XGroupSizes /\ datasize \in DataSizes
    /\ lost \in XRank
    /\ step = "checkpoint" /\ computedb = 0
    /\ dirty = XRank /\ chunks = Allocated(XRank)
    /\ parities = [r \in XRank |-> <<>>]
    /\ newdata = <<>> /\ newparity = <<>>

CheckpointChunk ==
    /\ step = "checkpoint" /\ computedb < datasize
    /\ LET seg == xstruct.chunkxparitysize
       IN  /\ chunks' = [r \in XRank |-> fill_xor_chunk(chunks[r], r, xstruct, computedb, NullParity)]
           /\ parities' = [r \in XRank |-> parities[r] \o
                [k \in 1 .. seg |-> Xor([q \in XRank |-> chunks'[q][r * seg + k - 1]])]]
    /\ computedb' = computedb + xstruct.realdatasize
    /\ UNCHANGED <<xranks, datasize, lost, step, dirty, newdata, newparity>>

\* Later, in another run of the job: the survivors have loaded their data and
\* parity, the lost rank has nothing, and xor_recover gets its buffers.
RecoverBegins ==
    /\ step = "checkpoint" /\ computedb >= datasize
    /\ step' = "recover" /\ computedb' = 0
    /\ dirty' \in SUBSET XRank
    /\ chunks' = [Allocated(dirty') EXCEPT ![lost] = FillNothing(@, compute_xstruct(datasize))]
    /\ UNCHANGED <<xranks, datasize, lost, parities, newdata, newparity>>

\* The Reduce goes over the size of a full chunk also for the smaller last one.
RecoverChunk ==
    /\ step = "recover" /\ computedb < datasize
    /\ LET own(r) == SubSeq(parities[r], Len(newparity) + 1, Len(newparity) + xstruct.chunkxparitysize)
           received == [i \in DOMAIN chunks[lost] |-> Xor([r \in XRank |-> chunks'[r][i]])]
       IN  /\ chunks' = [r \in XRank |->
                IF r # lost THEN fill_xor_chunk(chunks[r], r, xstruct, computedb, own(r))
                ELSE IF lastchunk THEN FillNothing(chunks[r], xstruct)
                ELSE chunks[r]]
           /\ newdata' = newdata \o ExtractData(received, xstruct)
           /\ newparity' = newparity \o ExtractParity(received, xstruct)
    /\ computedb' = computedb + xstruct.realdatasize
    /\ UNCHANGED <<xranks, datasize, lost, step, dirty, parities>>

RecoverEnds ==
    /\ step = "recover" /\ computedb >= datasize
    /\ step' = "rebuilt"
    /\ UNCHANGED <<xranks, datasize, lost, dirty, computedb, chunks, parities, newdata, newparity>>

XorNext == CheckpointChunk \/ RecoverBegins \/ RecoverChunk \/ RecoverEnds
XorSpec == XorInit /\ [][XorNext]_xorvars

-----------------------------------------------------------------------------
(* Properties.                                                             *)

\* The loops of xor_checkpoint and of xor_recover, which count in different
\* ways, fill exactly the parity compute_xstruct made room for (their closing
\* assertions).
ParityFits ==
    /\ \A r \in XRank : Len(parities[r]) <= xorparitysize(datasize)
    /\ step # "checkpoint" => \A r \in XRank : Len(parities[r]) = xorparitysize(datasize)
    /\ step = "rebuilt" => Len(newparity) = xorparitysize(datasize)

\* The data of the lost rank comes back, whichever rank it is, whatever size
\* the data has, and whatever the buffers held before.
DataRebuilt == step = "rebuilt" => newdata = [i \in 1 .. datasize |-> DataByte(lost, i - 1)]

\* The parity of the lost rank, which the exchange phase stores with the data,
\* comes back too, except in one case: the data of the last chunk ends before
\* the hole of some survivor that lies in front of the lost rank's, and what is
\* left in that survivor's buffer behind its hole, or in the lost rank's own
\* buffer, goes into the XOR.  No such survivor exists when the data of the last
\* chunk reaches into the last of its data segments; the models of the protocol
\* assume sizes of that kind.
ParityRebuilt ==
    LET real == compute_xstruct(datasize).realdatasize
        tail == compute_xstruct(IF datasize % real = 0 THEN real ELSE datasize % real)
        leftovers(r) == r \in dirty \/ datasize > real
    IN  step = "rebuilt" =>
          (newparity # parities[lost] <=>
              \/ lost \in dirty /\ datasize <= real /\ lost * tail.chunkxparitysize > tail.chunkdatasize
              \/ \E s \in 0 .. lost - 1 : leftovers(s) /\ tail.realdatasize <= s * tail.chunkxparitysize)
=============================================================================
