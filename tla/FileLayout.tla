----------------------------- MODULE FileLayout -----------------------------
(***************************************************************************)
(* The bytes of one rank's checkpoint file: how partner_checkpoint         *)
(* (src/src/checkpoint_utils.c) lays out the parts of the partner group    *)
(* chunk by chunk, and how load_local_checkpoint and the partner transfer  *)
(* (recovery_utils.c) find the rank's own part again.  The data lies in    *)
(* registered variables, which memcpy_from_vars and memcpy_to_vars walk    *)
(* over (common.c).                                                        *)
(***************************************************************************)
EXTENDS Sizes, FiniteSets, Sequences

CONSTANTS
    PartnerGroupSizes, \* sizes of the partner group to explore
    Shapes,            \* sizes of the registered variables to explore, as sequences
    ParitySizes        \* values of xorparitysize to explore

\* Something is registered.  A parity is made of whole segments, which are
\* multiples of basesize.
ASSUME FileLayoutAssumption ==
    /\ PartnerGroupSizes \subseteq Nat \ {0}
    /\ \A s \in Shapes : s \in Seq(Nat) /\ \E v \in DOMAIN s : s[v] > 0
    /\ \A s \in ParitySizes : s \in Nat \ {0} /\ s % BaseSize = 0

VARIABLES
    pranks, prank, \* size of the partner group, the rank's place in it
    shape,         \* sizes of the rank's variables, in the order of the list
    paritysize,    \* xorparitysize
    doing,         \* the loop the code is in, or "restart", "loaded", "failed"
    readb,         \* how far that loop is (sentb, readb)
    cursor,        \* *data, *offset of the memcpy functions
    bytes,         \* the checkpoint file
    failoffset,    \* of the metadata: -1, or where an Allgather failed
    base,          \* *offset of load_local_checkpoint; position in a partner's file
    variables,     \* variable -> its bytes
    xorparity      \* the parity loaded so far

filevars == <<pranks, prank, shape, paritysize, doing, readb, cursor, bytes, failoffset, base,
              variables, xorparity>>

\* The places of the registered bytes: byte k of variable v.
Places == UNION {{v} \X (1 .. shape[v]) : v \in DOMAIN shape}
totaldatasize == Cardinality(Places)

\* A byte of the file: of member q's data or parity, or padding.
Datum(q, i) == <<"data", q, i>>
ParityByte(q, i) == <<"parity", q, i>>
Pad == <<"pad">>
Blank == <<"blank">>

OwnParity(from, n) == [k \in 1 .. n |-> ParityByte(prank, from + k - 1)]
Original == [v \in DOMAIN shape |-> [k \in 1 .. shape[v] |-> Datum(prank, <<v, k>>)]]

-----------------------------------------------------------------------------
(* memcpy_from_vars, memcpy_to_vars.                                       *)

ListHead == [var |-> 1, off |-> 0]

\* Bytes of the variables before variable v, and before a cursor.
VarStart(v) == Cardinality({p \in Places : p[1] < v})
Position(c) == VarStart(c.var) + c.off

\* The place of the i-th registered byte.
PlaceOf(i) ==
    LET v == CHOOSE w \in DOMAIN shape : VarStart(w) < i /\ i <= VarStart(w + 1)
    IN  <<v, i - VarStart(v)>>

\* The n places from cursor c on, and the cursor behind them; a variable that
\* is used up is left when more is asked for.
Walk(c, n) ==
    LET end == Position(c) + n
        last == CHOOSE v \in DOMAIN shape :
                    v >= c.var /\ VarStart(v + 1) >= end /\ (v = c.var \/ VarStart(v) < end)
    IN  [places |-> [i \in 1 .. n |-> PlaceOf(Position(c) + i)],
         next |-> [var |-> last, off |-> end - VarStart(last)]]

\* The bytes at these places.
Taken(places) == [i \in DOMAIN places |-> variables[places[i][1]][places[i][2]]]

-----------------------------------------------------------------------------
(* Writing: partner_checkpoint.                                            *)

Least(a, b) == IF a <= b THEN a ELSE b

\* Bytes of the next chunk of "size" bytes, "behind" of them done, and the size
\* that takes in the file.
actualdatab(size, behind) == Least(size - behind, maxchunkb)
chunkdatab(size, behind) == fit_datasize(actualdatab(size, behind))

Padded(part, n) == [k \in 1 .. n |-> IF k <= Len(part) THEN part[k] ELSE Pad]

\* Mutant: the members' parts follow each other without padding.
AllgatheredTight(parts, size) ==
    LET n == Len(parts[0])
    IN  [i \in 1 .. pranks * n |-> parts[(i - 1) \div n][((i - 1) % n) + 1]]

\* The chunk after the Allgather: the members' parts in the order of the group.
Allgathered(parts, size) ==
    [i \in 1 .. pranks * size |-> Padded(parts[(i - 1) \div size], size)[((i - 1) % size) + 1]]

\* One turn of the loop of all_transfer_and_write for the data.
WriteDataChunk ==
    /\ doing = "data" /\ pranks >= 2
    /\ LET n == actualdatab(totaldatasize, readb)
           walk == Walk(cursor, n)
           parts == [q \in 0 .. pranks - 1 |->
                        IF q = prank THEN Taken(walk.places) ELSE [k \in 1 .. n |-> Datum(q, readb + k)]]
       IN  /\ bytes' = bytes \o Allgathered(parts, chunkdatab(totaldatasize, readb))
           /\ cursor' = walk.next
           /\ IF readb + n < totaldatasize THEN readb' = readb + n /\ UNCHANGED doing
              ELSE readb' = 0 /\ doing' = "parity"
    /\ UNCHANGED <<pranks, prank, shape, paritysize, failoffset, base, variables, xorparity>>

\* The same for the parity.
WriteParityChunk ==
    /\ doing = "parity"
    /\ LET n == actualdatab(paritysize, readb)
           parts == [q \in 0 .. pranks - 1 |-> [k \in 1 .. n |-> ParityByte(q, readb + k - 1)]]
       IN  /\ bytes' = bytes \o Allgathered(parts, chunkdatab(paritysize, readb))
           /\ IF readb + n < paritysize THEN readb' = readb + n /\ UNCHANGED doing
              ELSE readb' = 0 /\ doing' = "restart"
    /\ UNCHANGED <<pranks, prank, shape, paritysize, cursor, failoffset, base, variables, xorparity>>

\* The Allgather of a chunk of the parity fails: the rest of the own parity is
\* appended, and the offset noted.
WriteParityFails ==
    /\ doing = "parity"
    /\ failoffset' = Len(bytes)
    /\ bytes' = bytes \o OwnParity(readb, paritysize - readb)
    /\ readb' = 0 /\ doing' = "restart"
    /\ UNCHANGED <<pranks, prank, shape, paritysize, cursor, base, variables, xorparity>>

\* A partner group of one rank: data and parity behind each other.
WriteAlone ==
    /\ doing = "data" /\ pranks = 1
    /\ bytes' = Taken(Walk(ListHead, totaldatasize).places) \o OwnParity(0, paritysize)
    /\ doing' = "restart"
    /\ UNCHANGED <<pranks, prank, shape, paritysize, readb, cursor, failoffset, base, variables, xorparity>>

-----------------------------------------------------------------------------
(* Reading, in a later run of the job.                                     *)

\* The rank loads from its file, whose metadata may carry the failoffset of an
\* earlier file of the slot or one that was never assigned; or, from a whole
\* file, what a partner sends it.
Restart ==
    /\ doing = "restart"
    /\ readb' = 0 /\ base' = 0 /\ cursor' = ListHead /\ xorparity' = <<>>
    /\ variables' = [v \in DOMAIN shape |-> [k \in 1 .. shape[v] |-> Blank]]
    /\ \/ /\ doing' = "loaddata"
          /\ IF failoffset = -1 THEN failoffset' \in -1 .. Len(bytes) ELSE UNCHANGED failoffset
       \/ /\ doing' = "recvdata" /\ pranks >= 2 /\ failoffset = -1
          /\ UNCHANGED failoffset
    /\ UNCHANGED <<pranks, prank, shape, paritysize, bytes>>

\* What variables hold after memcpy_to_vars.
Stored(buffer) ==
    LET walk == Walk(cursor, Len(buffer))
    IN  [v \in DOMAIN shape |-> [k \in 1 .. shape[v] |->
            IF \E j \in DOMAIN buffer : walk.places[j] = <<v, k>>
            THEN buffer[CHOOSE j \in DOMAIN buffer : walk.places[j] = <<v, k>>]
            ELSE variables[v][k]]]

\* read(fd, n) at an offset: short at the end of the file.
ReadAt(offset, n) == [k \in 1 .. Least(n, Len(bytes) - offset) |-> bytes[offset + k]]

\* Mutant: the members counted from one.
SeekNextMember(size) == readb * pranks + chunkdatab(size, readb) * (prank + 1) + base

\* Where load_local_checkpoint looks for the rank's part of a chunk.
seekoffset(size) ==
    IF failoffset >= 0 /\ readb * pranks + base > failoffset THEN readb * pranks + base
    ELSE readb * pranks + chunkdatab(size, readb) * prank + base

\* Mutant: the data ends where it would without padding.
NextBaseUnpadded(size) == IF failoffset < 0 THEN base + size * pranks ELSE seekoffset(size) + chunkdatab(size, readb)

\* *offset after the last chunk.
NextBase(size) ==
    IF failoffset < 0 THEN base + (readb + chunkdatab(size, readb)) * pranks
    ELSE seekoffset(size) + chunkdatab(size, readb)

\* One turn of load_local_checkpoint for the data, then for the parity.
LoadDataChunk ==
    /\ doing = "loaddata"
    /\ LET n == actualdatab(totaldatasize, readb)
           buffer == ReadAt(seekoffset(totaldatasize), n)
       IN  /\ variables' = Stored(buffer)
           /\ cursor' = Walk(cursor, n).next
           /\ IF Len(buffer) < n THEN doing' = "failed" /\ UNCHANGED <<readb, base>>
              ELSE IF readb + n < totaldatasize
                   THEN readb' = readb + chunkdatab(totaldatasize, readb) /\ UNCHANGED <<doing, base>>
              ELSE readb' = 0 /\ base' = NextBase(totaldatasize) /\ doing' = "loadparity"
    /\ UNCHANGED <<pranks, prank, shape, paritysize, bytes, failoffset, xorparity>>

LoadParityChunk ==
    /\ doing = "loadparity"
    /\ LET n == actualdatab(paritysize, readb)
           buffer == ReadAt(seekoffset(paritysize), n)
       IN  /\ xorparity' = xorparity \o buffer
           /\ readb' = readb + n
           /\ doing' = IF Len(buffer) < n THEN "failed" ELSE IF readb + n < paritysize THEN doing ELSE "loaded"
    /\ UNCHANGED <<pranks, prank, shape, paritysize, cursor, bytes, failoffset, base, variables>>

\* pair_transfer_and_write: the partner reads its file from the start, chunk by
\* chunk of the whole group, and the receiver takes its part out of each.
ReceiveDataChunk ==
    /\ doing = "recvdata"
    /\ LET n == actualdatab(totaldatasize, readb)
           size == chunkdatab(totaldatasize, readb)
       IN  /\ variables' = Stored(ReadAt(base + prank * size, n))
           /\ cursor' = Walk(cursor, n).next
           /\ base' = base + size * pranks
           /\ IF readb + n < totaldatasize THEN readb' = readb + n /\ UNCHANGED doing
              ELSE readb' = 0 /\ doing' = "recvparity"
    /\ UNCHANGED <<pranks, prank, shape, paritysize, bytes, failoffset, xorparity>>

ReceiveParityChunk ==
    /\ doing = "recvparity"
    /\ LET n == actualdatab(paritysize, readb)
           size == chunkdatab(paritysize, readb)
       IN  /\ xorparity' = xorparity \o ReadAt(base + prank * size, n)
           /\ base' = base + size * pranks
           /\ readb' = readb + n
           /\ doing' = IF readb + n < paritysize THEN doing ELSE "loaded"
    /\ UNCHANGED <<pranks, prank, shape, paritysize, cursor, bytes, failoffset, variables>>

FileInit ==
    /\ pranks \in PartnerGroupSizes /\ prank \in 0 .. pranks - 1
    /\ shape \in Shapes /\ paritysize \in ParitySizes
    /\ doing = "data" /\ readb = 0 /\ cursor = ListHead
    /\ bytes = <<>> /\ failoffset = -1 /\ base = 0
    /\ variables = Original /\ xorparity = <<>>

FileNext ==
    \/ WriteDataChunk \/ WriteParityChunk \/ WriteParityFails \/ WriteAlone
    \/ Restart \/ LoadDataChunk \/ LoadParityChunk \/ ReceiveDataChunk \/ ReceiveParityChunk

FileSpec == FileInit /\ [][FileNext]_filevars

-----------------------------------------------------------------------------
(* Properties: the protocol models say only whose data and parity can be   *)
(* read back from a file (Recovery: PairTransfer, DataLoads, ParityLoads); *)
(* these are the conditions under which that is so.                        *)

\* Start of the last chunk of "size" bytes.
LastChunk(size) == ((size - 1) \div maxchunkb) * maxchunkb

\* Size of the data of all members in the file.
DataEnd == (LastChunk(totaldatasize) + fit_datasize(totaldatasize - LastChunk(totaldatasize))) * pranks

\* Every byte of the data comes back to its place in its variable, also when
\* variables end inside chunks; only a failoffset in front of the last chunk
\* makes a rank other than the first read another member's part of it.
DataRestored ==
    doing \in {"loadparity", "recvparity", "loaded", "failed"} =>
        (variables # Original <=>
            prank # 0 /\ failoffset >= 0 /\ LastChunk(totaldatasize) * pranks > failoffset)

\* The own parity comes back from a file with the whole group's parity if no
\* failoffset is set, or if it hides neither the end of the data (to the last
\* member it does not) nor a chunk of the parity.  The parity a rank appended on
\* its own is found only where the wrong offset happens to hit it: by a member in
\* the middle of a group of three or more, all of it in one chunk.  A group of one
\* rank, whose file has no padding, finds it if its data needs none.
WholeParityFound ==
    /\ Len(bytes) = DataEnd + paritysize * pranks
    /\ \/ failoffset = -1
       \/ prank = pranks - 1 /\ failoffset >= DataEnd + LastChunk(paritysize) * pranks
OwnParityHit ==
    /\ Len(bytes) = DataEnd + paritysize /\ paritysize <= maxchunkb
    /\ paritysize * prank = fit_datasize(totaldatasize - LastChunk(totaldatasize)) * (pranks - 1 - prank)
ParityRestored ==
    doing \in {"loaded", "failed"} =>
        (xorparity = OwnParity(0, paritysize) <=>
            IF pranks = 1 THEN totaldatasize % BaseSize = 0 ELSE WholeParityFound \/ OwnParityHit)

\* A load stops short only in a file whose parity Allgather failed, or in the
\* unpadded file of a group of one.
ShortReads == doing = "failed" => pranks = 1 \/ Len(bytes) < DataEnd + paritysize * pranks
=============================================================================
