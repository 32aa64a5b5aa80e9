-------------------------- MODULE CheckpointProofs --------------------------
(***************************************************************************)
(* Theorems about COMB_Checkpoint, for every grid, every number of kept    *)
(* checkpoints, every number of checkpoints made and of failed MPI calls.  *)
(***************************************************************************)
EXTENDS Checkpoint, FiniteSetTheorems, Numbers, TLAPS

-----------------------------------------------------------------------------
(* Facts about the grid and the slots.                                     *)

LEMMA GridFacts ==
    /\ \A p \in PIDs : \A r : r \in pcomm(p) <=> r \in Rank /\ r[1] = p
    /\ \A x \in PRank : \A r : r \in xcomm(x) <=> r \in Rank /\ r[2] = x
    /\ \A r \in Rank : r[1] \in PIDs /\ r[2] \in PRank /\ r = <<r[1], r[2]>>
    /\ \A p \in PIDs, x \in PRank : <<p, x>> \in Rank
    /\ 0 \in PRank
BY GridAssumption DEF pcomm, xcomm, Rank, PRank

LEMMA SlotType == \A v \in Nat : slot(v) \in Slots
BY CommunityAssumption DEF slot, Slots

\* Versions less than CpCount apart have different files.
LEMMA SlotDistinct ==
    ASSUME NEW v \in Nat, NEW w \in Nat, v < w, w - v < CpCount
    PROVE  slot(v) # slot(w)
BY CommunityAssumption, ModDistinct DEF slot

-----------------------------------------------------------------------------
(* Type correctness.                                                       *)

LEMMA ConstantTypes ==
    /\ NoMeta \in Metas /\ TornMeta \in Metas
    /\ NoFile \in Files
    /\ NoCp \in Cps
    /\ \A v \in Nat : <<run, v>> \in Stamp <=> run \in Nat
BY GridAssumption DEF NoMeta, TornMeta, Metas, FailOffsets, States, NODATA, XORDATA, FULLDATA,
       NoFile, Files, Garbage, Stamp, PRank, NoCp, Cps

LEMMA GatheredType ==
    ASSUME TypeOK, NEW p \in PIDs, NEW r \in pcomm(p), NEW k
    PROVE  GatheredPart(p, r, k) \in Files
<1> DEFINE level == {q \in PRank : cp[<<p, q>>].chunks = cp[r].chunks}
           d == [q \in PRank |-> IF cp[r].chunks >= DataChunks THEN file[r][Cur(r)].data[q]
                                ELSE IF q \in level THEN mem[<<p, q>>] ELSE Garbage]
           y == [q \in PRank |-> IF q \in level THEN cp[<<p, q>>].parity ELSE Garbage]
<1>1. r \in Rank /\ Garbage \in Stamp /\ Cur(r) \in Slots
  BY GridFacts, SlotType DEF Garbage, Stamp, Cur, TypeOK
<1>2. \A q \in PRank : /\ file[r][Cur(r)].data[q] \in Stamp
                       /\ mem[<<p, q>>] \in Stamp
                       /\ cp[<<p, q>>].parity \in Stamp
  BY <1>1, GridFacts DEF TypeOK, Files, Cps
<1>3. d \in [PRank -> Stamp] /\ y \in [PRank -> Stamp]
  BY <1>1, <1>2
<1> HIDE DEF d, y
<1> QED BY <1>3 DEF GatheredPart, Files, d, y

\* The number of turns to the end of the loop.
LEMMA XorTurns ==
    ASSUME TypeOK, NEW x \in PRank, NEW r \in xcomm(x)
    PROVE  XorChunks - cp[r].chunks \in Int
BY GridFacts, CheckpointAssumption DEF TypeOK, Cps

LEMMA TransferTurns ==
    ASSUME TypeOK, NEW p \in PIDs, NEW r \in pcomm(p)
    PROVE  Transfers - cp[r].chunks \in Int
BY GridFacts, CheckpointAssumption DEF TypeOK, Cps, Transfers

LEMMA TypeStep ==
    ASSUME TypeOK, [CheckpointNext]_vars
    PROVE  TypeOK'
<1> USE DEF At, Go, TypeOK
<1>1. ASSUME NEW x \in PRank, NEW k \in Int, NEW S \in SUBSET xcomm(x), EnterXor(x, k, S), faults' \in Nat
      PROVE  TypeOK'
  <2>1. \A r \in Rank : Enters(r) \in Nat /\ <<run, Enters(r)>> \in Stamp
    BY DEF Enters, Stamp
  <2>2. \A r \in Rank : cp'[r] \in Cps
    <3> SUFFICES ASSUME NEW r \in Rank
                 PROVE  cp'[r] \in Cps
      OBVIOUS
    <3>1. NewCp(r) \in Cps
      BY DEF NewCp, Cps, States, FailOffsets, Stamp, Garbage
    <3>2. cp[r].chunks + k \in Nat
      <4>1. cp[r].chunks \in Nat /\ k > 0
        BY <1>1 DEF EnterXor, Cps
      <4> QED BY <4>1
    <3>3. [NewCp(r) EXCEPT !.state = NODATA, !.chunks = cp[r].chunks + k] \in Cps
      BY <3>1, <3>2 DEF Cps, States
    <3>4. cp'[r] \in {cp[r], NoCp, NewCp(r), [NewCp(r) EXCEPT !.state = NODATA, !.chunks = cp[r].chunks + k]}
      BY <1>1 DEF EnterXor
    <3> QED BY <3>1, <3>3, <3>4, ConstantTypes
  <2>3. /\ cp' \in [Rank -> Cps] /\ version' \in [Rank -> Nat] /\ mem' \in [Rank -> Stamp]
    BY <1>1, <2>1, <2>2 DEF EnterXor
  <2>4. pc' \in [Rank -> CheckpointPCs \cup RecoverPCs \cup {"clean", "done"}]
    BY <1>1 DEF EnterXor, CheckpointPCs
  <2> QED BY <1>1, <2>3, <2>4 DEF EnterXor
<1>2. ASSUME NEW x \in PRank, XorCheckpoint(x)
      PROVE  TypeOK'
  BY <1>1, <1>2, XorTurns DEF XorCheckpoint
<1>3. ASSUME NEW x \in PRank, NEW S \in SUBSET xcomm(x), XorFails(x, S)
      PROVE  TypeOK'
  BY <1>1, <1>3 DEF XorFails
<1>4. ASSUME NEW r \in Rank, PartnerOpen(r)
      PROVE  TypeOK'
  BY <1>4, ConstantTypes DEF PartnerOpen, OpenCpFile, CheckpointPCs
<1>5. ASSUME NEW p \in PIDs, NEW k \in Int, NEW S \in SUBSET pcomm(p), Transfer(p, k, S), faults' \in Nat
      PROVE  TypeOK'
  <2>1. pc' \in [Rank -> CheckpointPCs \cup RecoverPCs \cup {"clean", "done"}]
    BY <1>5 DEF Transfer, CheckpointPCs
  <2>2. cp' \in [Rank -> Cps]
    <3> SUFFICES ASSUME NEW r \in Rank
                 PROVE  cp'[r] \in Cps
      BY <1>5 DEF Transfer
    <3>1. cp[r] \in Cps /\ cp[r].chunks \in Nat /\ k > 0
      BY <1>5 DEF Transfer, Cps
    <3>2. cp'[r] \in {cp[r], [cp[r] EXCEPT !.chunks = 0, !.failoffset = "parity"],
                       [cp[r] EXCEPT !.chunks = 0, !.state = FULLDATA],
                       [cp[r] EXCEPT !.chunks = cp[r].chunks + k]}
      BY <1>5 DEF Transfer
    <3>3. cp[r].chunks + k \in Nat
      BY <3>1
    <3> HIDE DEF TypeOK
    <3>4. \A c \in Cps : /\ [c EXCEPT !.chunks = 0, !.failoffset = "parity"] \in Cps
                        /\ [c EXCEPT !.chunks = 0, !.state = FULLDATA] \in Cps
      BY DEF Cps, FailOffsets, States
    <3>5. [cp[r] EXCEPT !.chunks = cp[r].chunks + k] \in Cps
      BY <3>1, <3>3 DEF Cps
    <3> QED BY <3>1, <3>2, <3>4, <3>5
  <2>3. ASSUME NEW r \in pcomm(p)
        PROVE  /\ GatheredPart(p, r, k) \in Files
               /\ [GatheredPart(p, r, k) EXCEPT !.kind = "local",
                     !.parity = [q \in PRank |-> IF q = r[2] THEN cp[r].parity ELSE Garbage]] \in Files
    <3>1. GatheredPart(p, r, k) \in Files
      BY GatheredType
    <3> QED BY <3>1, GridFacts DEF Files, Cps, Garbage, Stamp
  <2>4. file' \in [Rank -> [Slots -> Files]]
    BY <1>5, <2>3 DEF Transfer
  <2> QED BY <1>5, <2>1, <2>2, <2>4 DEF Transfer
<1>6. ASSUME NEW p \in PIDs, PartnerTransfer(p)
      PROVE  TypeOK'
  BY <1>5, <1>6, TransferTurns DEF PartnerTransfer
<1>7. ASSUME NEW p \in PIDs, NEW S \in SUBSET pcomm(p), ParityFails(p, S)
      PROVE  TypeOK'
  BY <1>5, <1>7 DEF ParityFails
<1>8. ASSUME NEW r \in Rank, MetaOpen(r)
      PROVE  TypeOK'
  <2>1. pc' \in [Rank -> CheckpointPCs \cup RecoverPCs \cup {"clean", "done"}]
    BY <1>8 DEF MetaOpen, MetaFrom, CheckpointPCs, RecoverPCs
  <2>2. meta' \in [Rank -> [Slots -> Metas]]
    BY <1>8, ConstantTypes DEF MetaOpen
  <2> QED BY <1>8, <2>1, <2>2 DEF MetaOpen
<1>9. ASSUME NEW r \in Rank, MetaWrite(r)
      PROVE  TypeOK'
  <2>1. pc' \in [Rank -> CheckpointPCs \cup RecoverPCs \cup {"clean", "done"}]
    BY <1>9 DEF MetaWrite, MetaTo, CheckpointPCs, RecoverPCs
  <2>2. meta' \in [Rank -> [Slots -> Metas]]
    <3>1. PICK fo \in FailOffsets :
            meta' = [meta EXCEPT ![r][Cur(r)] =
               [is |-> "valid", version |-> version[r], state |-> cp[r].state, failoffset |-> fo]]
      BY <1>9 DEF MetaWrite, Cps, FailOffsets
    <3>2. [is |-> "valid", version |-> version[r], state |-> cp[r].state, failoffset |-> fo] \in Metas
      BY DEF Metas, Cps
    <3> QED BY <3>1, <3>2
  <2>3. cp' \in [Rank -> Cps]
    BY <1>9, ConstantTypes DEF MetaWrite
  <2> QED BY <1>9, <2>1, <2>2, <2>3 DEF MetaWrite
<1>10. ASSUME NEW r \in Rank, MetaFails(r)
       PROVE  TypeOK'
  BY <1>10, ConstantTypes DEF MetaFails, CheckpointPCs
<1>11. CASE UNCHANGED vars
  BY <1>11 DEF vars
<1> QED BY <1>2, <1>3, <1>4, <1>6, <1>7, <1>8, <1>9, <1>10, <1>11
        DEF CheckpointNext, CheckpointStep, MetaStep, CheckpointsMade

LEMMA InitTyped ==
    ASSUME Init
    PROVE  TypeOK
<1>1. /\ pc \in [Rank -> CheckpointPCs \cup RecoverPCs \cup {"clean", "done"}]
      /\ version \in [Rank -> Nat]
      /\ mem \in [Rank -> Stamp]
      /\ cp \in [Rank -> Cps]
  BY ConstantTypes DEF Init, CheckpointPCs, Stamp
<1>2. /\ partner \in [Rank -> PRank]
      /\ lostpgroup \in BOOLEAN
      /\ run \in Nat /\ faults \in Nat
  BY GridFacts DEF Init
<1>3. /\ meta \in [Rank -> [Slots -> Metas]]
      /\ file \in [Rank -> [Slots -> Files]]
  BY ConstantTypes DEF Init
<1> QED BY <1>1, <1>2, <1>3 DEF TypeOK

\* Every variable keeps its type, whatever calls fail.
THEOREM TypeCorrect == CheckpointSpec => []TypeOK
BY InitTyped, TypeStep, PTL DEF CheckpointSpec

-----------------------------------------------------------------------------
(* Progress.  A rank is so many loops and so many turns of one ahead of     *)
(* another.  A collective brings its ranks on by the same number of turns; *)
(* one that fails brings some of them to the end of the loop, which puts   *)
(* them at most one loop further ahead of the others.                      *)

\* Between COMB_Init and the end of COMB_Finalize, recovery aside.
CallPCs == CheckpointPCs \cup {"clean", "done"}

\* How far apart v loops and l turns are from w loops and m turns, rounded up.
Gap(v, l, w, m) == v - w + (IF l > m THEN 1 ELSE 0)

\* k more turns of a loop of n, or an early end of it if f.
Moved(v, l, v2, l2, k, n, f) ==
    \/ f /\ v2 = v + 1 /\ l2 = 0
    \/ ~f /\ l + k = n /\ v2 = v + 1 /\ l2 = 0
    \/ ~f /\ l + k < n /\ v2 = v /\ l2 = l + k

LEMMA GapStep ==
    ASSUME NEW v \in Int, NEW l \in Int, NEW v2 \in Int, NEW l2 \in Int,
           NEW w \in Int, NEW m \in Int, NEW w2 \in Int, NEW m2 \in Int,
           NEW k \in Int, NEW n \in Int, NEW f, NEW g,
           l >= 0, m >= 0, k > 0, l + k <= n, m + k <= n,
           Moved(v, l, v2, l2, k, n, f), Moved(w, m, w2, m2, k, n, g)
    PROVE  /\ Gap(v2, l2, w2, m2) <= Gap(v, l, w, m) + 1
           /\ ~f \/ g => Gap(v2, l2, w2, m2) <= Gap(v, l, w, m)
BY DEF Gap, Moved

\* Loops of xor_checkpoint that rank r has behind it, and turns of the next.
XorDone(r) == IF pc[r] = "xor" THEN version[r] - 1 ELSE version[r]
XorTurn(r) == IF pc[r] = "xor" THEN cp[r].chunks ELSE 0
XorGap(a, c) == Gap(XorDone(a), XorTurn(a), XorDone(c), XorTurn(c))

\* The same for the transfer.
TransferTurn(r) == IF pc[r] = "transfer" THEN cp[r].chunks ELSE 0
TransferGap(c, d) == Gap(Transferred(c), TransferTurn(c), Transferred(d), TransferTurn(d))

\* Only a failed collective leaves a rank in the middle of a loop.
Turns(r) ==
    /\ pc[r] = "xor" => cp[r].chunks > 0 /\ cp[r].chunks < XorChunks
    /\ pc[r] = "transfer" => cp[r].chunks < Transfers
    /\ pc[r] \notin {"xor", "transfer"} \/ faults = 0 => cp[r].chunks = 0

\* A rank is ahead of another by no more than failed calls, added up along the
\* way over its XOR group and the other's partner group.
PaceInv ==
    /\ \A r \in Rank : pc[r] \in CallPCs
    /\ \A r \in Rank : Turns(r)
    /\ faults = 0 \/ XorChunks = 1 => \A r, s \in Rank : r[2] = s[2] => version[r] = version[s]
    /\ \A a, c, d \in Rank : a[2] = c[2] /\ c[1] = d[1] => XorGap(a, c) + TransferGap(c, d) <= faults

LEMMA ProgressType ==
    ASSUME TypeOK, NEW r \in Rank
    PROVE  /\ XorDone(r) \in Int /\ XorTurn(r) \in Nat
           /\ Transferred(r) \in Int /\ TransferTurn(r) \in Nat
BY DEF TypeOK, Cps, XorDone, XorTurn, Transferred, TransferTurn

\* A gap is a number, and none of a rank to itself.
LEMMA GapType ==
    ASSUME TypeOK, NEW r \in Rank, NEW s \in Rank
    PROVE  /\ XorGap(r, s) \in Int /\ TransferGap(r, s) \in Int
           /\ XorGap(r, r) = 0 /\ TransferGap(r, r) = 0
<1>1. /\ XorDone(r) \in Int /\ XorTurn(r) \in Nat /\ Transferred(r) \in Int /\ TransferTurn(r) \in Nat
      /\ XorDone(s) \in Int /\ XorTurn(s) \in Nat /\ Transferred(s) \in Int /\ TransferTurn(s) \in Nat
  BY ProgressType
<1> QED BY <1>1 DEF XorGap, TransferGap, Gap

\* The same after a step.
LEMMA ProgressPrimed ==
    ASSUME TypeOK', NEW r \in Rank
    PROVE  /\ XorDone(r)' \in Int /\ XorTurn(r)' \in Nat
           /\ Transferred(r)' \in Int /\ TransferTurn(r)' \in Nat
BY DEF TypeOK, Cps, XorDone, XorTurn, Transferred, TransferTurn

LEMMA GapPrimed ==
    ASSUME TypeOK', NEW r \in Rank, NEW s \in Rank
    PROVE  /\ XorGap(r, s)' \in Int /\ TransferGap(r, s)' \in Int
           /\ XorGap(r, r)' = 0 /\ TransferGap(r, r)' = 0
<1>1. /\ XorDone(r)' \in Int /\ XorTurn(r)' \in Nat /\ Transferred(r)' \in Int /\ TransferTurn(r)' \in Nat
      /\ XorDone(s)' \in Int /\ XorTurn(s)' \in Nat /\ Transferred(s)' \in Int /\ TransferTurn(s)' \in Nat
  BY ProgressPrimed
<1> QED BY <1>1 DEF XorGap, TransferGap, Gap

\* Before a call fails nobody is in the middle of a loop, the versions agree in
\* an XOR group and the transfers in a partner group.
LEMMA PaceFacts ==
    ASSUME TypeOK, PaceInv, faults = 0
    PROVE  /\ \A r \in Rank : pc[r] # "xor" /\ cp[r].chunks = 0
           /\ \A r, s \in Rank : r[2] = s[2] => version[r] = version[s]
           /\ \A r, s \in Rank : r[1] = s[1] => Transferred(r) = Transferred(s)
<1>1. \A r \in Rank : pc[r] # "xor" /\ cp[r].chunks = 0
  BY DEF PaceInv, Turns
<1>2. \A r, s \in Rank : r[2] = s[2] => version[r] = version[s]
  BY DEF PaceInv
<1>3. ASSUME NEW r \in Rank, NEW s \in Rank, r[1] = s[1]
      PROVE  Transferred(r) <= Transferred(s)
  <2>1. XorGap(r, r) + TransferGap(r, s) <= 0
    BY <1>3 DEF PaceInv
  <2>2. XorGap(r, r) = 0 /\ TransferGap(r, s) \in Int
    BY GapType
  <2>3. TransferTurn(r) = 0 /\ TransferTurn(s) = 0
    BY <1>1 DEF TransferTurn
  <2>4. TransferGap(r, s) = Transferred(r) - Transferred(s)
    <3>1. Transferred(r) \in Int /\ Transferred(s) \in Int
      BY ProgressType
    <3> QED BY <2>3, <3>1 DEF TransferGap, Gap
  <2>5. Transferred(r) \in Int /\ Transferred(s) \in Int
    BY ProgressType
  <2> QED BY <2>1, <2>2, <2>4, <2>5
<1>4. \A r \in Rank : Transferred(r) \in Int
  BY ProgressType
<1>5. \A r, s \in Rank : r[1] = s[1] => Transferred(r) <= Transferred(s) /\ Transferred(s) <= Transferred(r)
  BY <1>3
<1> QED BY <1>1, <1>2, <1>4, <1>5

\* A step of an XOR group, whole or failed at the ranks of S: k calls of
\* Reduce_scatter.
XorStep(x, k, S) ==
    /\ EnterXor(x, k, S)
    /\ S = {} => \E z \in xcomm(x) : k = XorChunks - cp[z].chunks
    /\ faults' = IF S = {} THEN faults ELSE faults + 1

LEMMA XorSteps ==
    ASSUME TypeOK, NEW x \in PRank
    PROVE  /\ XorCheckpoint(x) => \E k \in Int : XorStep(x, k, {})
           /\ \A S \in SUBSET xcomm(x) : XorFails(x, S) => \E k \in Int : XorStep(x, k, S)
<1>1. ASSUME XorCheckpoint(x)
      PROVE  \E k \in Int : XorStep(x, k, {})
  <2>1. PICK z \in xcomm(x) : EnterXor(x, XorChunks - cp[z].chunks, {})
    BY <1>1 DEF XorCheckpoint
  <2>2. XorStep(x, XorChunks - cp[z].chunks, {})
    BY <1>1, <2>1 DEF XorCheckpoint, XorStep
  <2> QED BY <2>2, XorTurns
<1>2. ASSUME NEW S \in SUBSET xcomm(x), XorFails(x, S)
      PROVE  \E k \in Int : XorStep(x, k, S)
  BY <1>2 DEF XorFails, XorStep
<1> QED BY <1>1, <1>2

\* A step of a partner group: k calls of Allgather.
TransferStep(p, k, S) ==
    /\ Transfer(p, k, S)
    /\ S = {} => \E z \in pcomm(p) : k = Transfers - cp[z].chunks
    /\ \A r \in S : cp[r].chunks + k > DataChunks
    /\ faults' = IF S = {} THEN faults ELSE faults + 1

LEMMA TransferSteps ==
    ASSUME TypeOK, NEW p \in PIDs
    PROVE  /\ PartnerTransfer(p) => \E k \in Int : TransferStep(p, k, {})
           /\ \A S \in SUBSET pcomm(p) : ParityFails(p, S) => \E k \in Int : TransferStep(p, k, S)
<1>1. ASSUME PartnerTransfer(p)
      PROVE  \E k \in Int : TransferStep(p, k, {})
  <2>1. PICK z \in pcomm(p) : Transfer(p, Transfers - cp[z].chunks, {})
    BY <1>1 DEF PartnerTransfer
  <2>2. TransferStep(p, Transfers - cp[z].chunks, {})
    BY <1>1, <2>1 DEF PartnerTransfer, TransferStep
  <2> QED BY <2>2, TransferTurns
<1>2. ASSUME NEW S \in SUBSET pcomm(p), ParityFails(p, S)
      PROVE  \E k \in Int : TransferStep(p, k, S)
  BY <1>2 DEF ParityFails, TransferStep
<1> QED BY <1>1, <1>2

\* How calls of Reduce_scatter move the ranks of their XOR group.
LEMMA XorMoves ==
    ASSUME TypeOK, PaceInv, NEW x \in PRank, NEW k \in Int, NEW S \in SUBSET xcomm(x), XorStep(x, k, S),
           NEW r \in xcomm(x)
    PROVE  /\ k > 0 /\ XorTurn(r) >= 0 /\ XorTurn(r) + k <= XorChunks
           /\ Moved(XorDone(r), XorTurn(r), XorDone(r)', XorTurn(r)', k, XorChunks, r \in S)
           /\ Transferred(r)' = IF r \in S THEN Transferred(r) + 1 ELSE Transferred(r)
           /\ TransferTurn(r) = 0 /\ TransferTurn(r)' = 0
           /\ Turns(r)' /\ pc'[r] \in CallPCs
           /\ version'[r] = Enters(r)
<1> USE DEF At
<1>1. r \in Rank /\ version[r] \in Nat /\ cp[r].chunks \in Nat /\ k > 0 /\ XorChunks \in Nat /\ XorChunks > 0
  <2>1. r \in Rank
    BY GridFacts
  <2>2. version[r] \in Nat /\ cp[r] \in Cps
    BY <2>1 DEF TypeOK
  <2>3. cp[r].chunks \in Nat
    BY <2>2 DEF Cps
  <2>4. k > 0
    BY DEF XorStep, EnterXor
  <2> QED BY <2>1, <2>2, <2>3, <2>4, CheckpointAssumption
<1>2. /\ pc[r] \in {"app", "xor"} /\ cp[r].chunks + k <= XorChunks
      /\ version'[r] = Enters(r)
  BY <1>1 DEF XorStep, EnterXor, InXor
<1>3. pc[r] = "app" => cp[r].chunks = 0
  BY <1>1 DEF PaceInv, Turns
<1>4. Enters(r) = XorDone(r) + 1 /\ XorTurn(r) = cp[r].chunks /\ Transferred(r) = XorDone(r)
  BY <1>1, <1>2, <1>3 DEF Enters, XorDone, XorTurn, Transferred
<1>5. XorDone(r) \in Int
  BY <1>1 DEF XorDone
<1>6. CASE r \in S
  <2>1. pc'[r] = "app" /\ cp'[r] = NoCp
    BY <1>1, <1>6 DEF XorStep, EnterXor, TypeOK
  <2>2. cp'[r].chunks = 0
    BY <2>1 DEF NoCp
  <2>3. XorDone(r)' = XorDone(r) + 1 /\ XorTurn(r)' = 0 /\ Transferred(r)' = XorDone(r) + 1
    BY <1>2, <1>4, <2>1 DEF XorDone, XorTurn, Transferred
  <2>4. TransferTurn(r) = 0 /\ TransferTurn(r)' = 0 /\ Turns(r)' /\ pc'[r] \in CallPCs
    BY <1>2, <2>1, <2>2 DEF TransferTurn, Turns, CallPCs, CheckpointPCs
  <2> QED BY <1>1, <1>2, <1>4, <1>6, <2>3, <2>4 DEF Moved
<1>7. CASE r \notin S /\ cp[r].chunks + k = XorChunks
  <2>1. pc'[r] = "open" /\ cp'[r] = NewCp(r)
    BY <1>1, <1>7 DEF XorStep, EnterXor, TypeOK
  <2>2. cp'[r].chunks = 0
    BY <2>1 DEF NewCp
  <2>3. XorDone(r)' = XorDone(r) + 1 /\ XorTurn(r)' = 0 /\ Transferred(r)' = XorDone(r)
    BY <1>2, <1>4, <1>5, <2>1 DEF XorDone, XorTurn, Transferred
  <2>4. TransferTurn(r) = 0 /\ TransferTurn(r)' = 0 /\ Turns(r)' /\ pc'[r] \in CallPCs
    BY <1>2, <2>1, <2>2 DEF TransferTurn, Turns, CallPCs, CheckpointPCs
  <2> QED BY <1>1, <1>2, <1>4, <1>7, <2>3, <2>4 DEF Moved
<1>8. CASE r \notin S /\ cp[r].chunks + k # XorChunks
  <2>1. pc'[r] = "xor" /\ cp'[r] = [NewCp(r) EXCEPT !.state = NODATA, !.chunks = cp[r].chunks + k]
    BY <1>1, <1>8 DEF XorStep, EnterXor, TypeOK
  <2>2. cp'[r].chunks = cp[r].chunks + k
    BY <2>1 DEF NewCp
  <2>3. XorDone(r)' = XorDone(r) /\ XorTurn(r)' = XorTurn(r) + k /\ Transferred(r)' = XorDone(r)
    BY <1>2, <1>4, <1>5, <2>1, <2>2 DEF XorDone, XorTurn, Transferred
  <2>4. cp[r].chunks + k < XorChunks /\ cp[r].chunks + k > 0
    BY <1>1, <1>2, <1>8
  <2>5. TransferTurn(r) = 0 /\ TransferTurn(r)' = 0 /\ pc'[r] \in CallPCs
    BY <1>2, <2>1 DEF TransferTurn, CallPCs, CheckpointPCs
  <2>6. faults' # 0
    <3>1. S # {} => faults' = faults + 1 /\ faults \in Nat
      BY DEF XorStep, TypeOK
    <3>2. ASSUME S = {}, faults = 0
          PROVE  FALSE
      <4>1. PICK z \in xcomm(x) : k = XorChunks - cp[z].chunks
        BY <3>2 DEF XorStep
      <4>2. cp[z].chunks = 0 /\ cp[r].chunks = 0
        BY <1>1, <3>2, <4>1, GridFacts DEF PaceInv, Turns
      <4> QED BY <1>1, <1>8, <4>1, <4>2
    <3>3. S = {} => faults' = faults
      BY DEF XorStep
    <3> QED BY <3>1, <3>2, <3>3
  <2>7. Turns(r)'
    BY <2>1, <2>2, <2>4, <2>6 DEF Turns
  <2> QED BY <1>1, <1>2, <1>4, <1>8, <2>3, <2>4, <2>5, <2>7 DEF Moved
<1> QED BY <1>6, <1>7, <1>8

\* How calls of Allgather move the ranks of their partner group.
LEMMA TransferMoves ==
    ASSUME TypeOK, PaceInv, NEW p \in PIDs, NEW k \in Int, NEW S \in SUBSET pcomm(p), TransferStep(p, k, S),
           NEW r \in pcomm(p)
    PROVE  /\ k > 0 /\ TransferTurn(r) >= 0 /\ TransferTurn(r) + k <= Transfers
           /\ Moved(Transferred(r), TransferTurn(r), Transferred(r)', TransferTurn(r)', k, Transfers, r \in S)
           /\ XorDone(r)' = XorDone(r) /\ XorTurn(r)' = XorTurn(r)
           /\ Turns(r)' /\ pc'[r] \in CallPCs
<1> USE DEF At, Go
<1>1. /\ r \in Rank /\ version[r] \in Nat /\ cp[r] \in Cps /\ cp[r].chunks \in Nat /\ k > 0
      /\ Transfers \in Nat /\ Transfers > 0
  <2>1. r \in Rank
    BY GridFacts
  <2>2. version[r] \in Nat /\ cp[r] \in Cps
    BY <2>1 DEF TypeOK
  <2>3. cp[r].chunks \in Nat
    BY <2>2 DEF Cps
  <2>4. k > 0
    BY DEF TransferStep, Transfer
  <2>5. Transfers \in Nat /\ Transfers > 0
    BY CheckpointAssumption DEF Transfers
  <2> QED BY <2>1, <2>2, <2>3, <2>4, <2>5
<1>2. pc[r] = "transfer" /\ cp[r].chunks + k <= Transfers /\ version'[r] = version[r]
  BY <1>1 DEF TransferStep, Transfer
<1>3. /\ Transferred(r) = version[r] - 1 /\ TransferTurn(r) = cp[r].chunks
      /\ XorDone(r) = version[r] /\ XorTurn(r) = 0
  BY <1>2 DEF XorDone, XorTurn, Transferred, TransferTurn
<1>4. CASE r \in S \/ cp[r].chunks + k = Transfers
  <2>1. pc'[r] = "meta"
    BY <1>1, <1>4 DEF TransferStep, Transfer
  <2>2. cp'[r].chunks = 0
    <3>1. \/ cp'[r] = [cp[r] EXCEPT !.chunks = 0, !.failoffset = "parity"]
          \/ cp'[r] = [cp[r] EXCEPT !.chunks = 0, !.state = FULLDATA]
      BY <1>1, <1>4 DEF TransferStep, Transfer
    <3> QED BY <1>1, <3>1 DEF Cps
  <2>3. /\ Transferred(r)' = version[r] /\ TransferTurn(r)' = 0
        /\ XorDone(r)' = version[r] /\ XorTurn(r)' = 0
    BY <1>2, <2>1 DEF XorDone, XorTurn, Transferred, TransferTurn
  <2>4. Turns(r)' /\ pc'[r] \in CallPCs
    BY <2>1, <2>2 DEF Turns, CallPCs, CheckpointPCs
  <2>5. Transferred(r)' = Transferred(r) + 1
    BY <1>1, <1>3, <2>3
  <2> QED BY <1>1, <1>2, <1>3, <1>4, <2>3, <2>4, <2>5 DEF Moved
<1>5. CASE r \notin S /\ cp[r].chunks + k # Transfers
  <2>1. pc'[r] = "transfer" /\ cp'[r] = [cp[r] EXCEPT !.chunks = cp[r].chunks + k]
    BY <1>1, <1>2, <1>5 DEF TransferStep, Transfer, TypeOK
  <2>2. cp'[r].chunks = cp[r].chunks + k
    BY <1>1, <2>1 DEF Cps
  <2>3. /\ Transferred(r)' = Transferred(r) /\ TransferTurn(r)' = TransferTurn(r) + k
        /\ XorDone(r)' = version[r] /\ XorTurn(r)' = 0
    BY <1>2, <1>3, <2>1, <2>2 DEF XorDone, XorTurn, Transferred, TransferTurn
  <2>4. cp[r].chunks + k < Transfers
    BY <1>1, <1>2, <1>5
  <2>5. faults' # 0
    <3>1. S # {} => faults' = faults + 1 /\ faults \in Nat
      BY DEF TransferStep, TypeOK
    <3>2. ASSUME S = {}, faults = 0
          PROVE  FALSE
      <4>1. PICK z \in pcomm(p) : k = Transfers - cp[z].chunks
        BY <3>2 DEF TransferStep
      <4>2. cp[z].chunks = 0 /\ cp[r].chunks = 0
        BY <1>1, <3>2, <4>1, GridFacts DEF PaceInv, Turns
      <4> QED BY <1>1, <1>5, <4>1, <4>2
    <3>3. S = {} => faults' = faults
      BY DEF TransferStep
    <3> QED BY <3>1, <3>2, <3>3
  <2>6. Turns(r)' /\ pc'[r] \in CallPCs
    BY <2>1, <2>2, <2>4, <2>5 DEF Turns, CallPCs, CheckpointPCs
  <2> QED BY <1>1, <1>2, <1>3, <1>5, <2>3, <2>4, <2>6 DEF Moved
<1> QED BY <1>4, <1>5

\* A step that leaves a rank where it is.
LEMMA StaysPut ==
    ASSUME NEW r \in Rank, pc'[r] = pc[r], version'[r] = version[r], cp'[r] = cp[r]
    PROVE  /\ XorDone(r)' = XorDone(r) /\ XorTurn(r)' = XorTurn(r)
           /\ Transferred(r)' = Transferred(r) /\ TransferTurn(r)' = TransferTurn(r)
BY DEF XorDone, XorTurn, Transferred, TransferTurn

\* A step of a rank within a call: none of its loops goes on.
LEMMA PaceKeptUp ==
    ASSUME TypeOK, PaceInv, faults' \in Nat, faults' >= faults, version' = version,
           \A r \in Rank : /\ XorDone(r)' = XorDone(r) /\ XorTurn(r)' = XorTurn(r)
                           /\ Transferred(r)' = Transferred(r) /\ TransferTurn(r)' = TransferTurn(r)
                           /\ pc'[r] \in CallPCs /\ Turns(r)'
    PROVE  PaceInv'
<1>1. faults \in Nat
  BY DEF TypeOK
<1>2. faults' = 0 \/ XorChunks = 1 => \A r, s \in Rank : r[2] = s[2] => version'[r] = version'[s]
  BY <1>1 DEF PaceInv
<1>3. ASSUME NEW a \in Rank, NEW c \in Rank, NEW d \in Rank, a[2] = c[2], c[1] = d[1]
      PROVE  XorGap(a, c)' + TransferGap(c, d)' <= faults'
  <2>1. XorGap(a, c)' = XorGap(a, c) /\ TransferGap(c, d)' = TransferGap(c, d)
    BY DEF XorGap, TransferGap
  <2>2. XorGap(a, c) + TransferGap(c, d) <= faults
    BY <1>3 DEF PaceInv
  <2>3. XorGap(a, c) \in Int /\ TransferGap(c, d) \in Int
    BY GapType
  <2> QED BY <1>1, <2>1, <2>2, <2>3
<1> QED BY <1>2, <1>3 DEF PaceInv

LEMMA PaceXor ==
    ASSUME TypeOK, TypeOK', PaceInv, NEW x \in PRank, NEW k \in Int, NEW S \in SUBSET xcomm(x), XorStep(x, k, S)
    PROVE  PaceInv'
<1>f. /\ faults \in Nat /\ faults' = (IF S = {} THEN faults ELSE faults + 1)
      /\ faults' = 0 => faults = 0 /\ S = {}
  BY DEF TypeOK, XorStep
<1>m. \A r \in xcomm(x) :
        /\ k > 0 /\ XorTurn(r) >= 0 /\ XorTurn(r) + k <= XorChunks
        /\ Moved(XorDone(r), XorTurn(r), XorDone(r)', XorTurn(r)', k, XorChunks, r \in S)
        /\ Transferred(r)' = IF r \in S THEN Transferred(r) + 1 ELSE Transferred(r)
        /\ TransferTurn(r) = 0 /\ TransferTurn(r)' = 0
        /\ Turns(r)' /\ pc'[r] \in CallPCs
        /\ version'[r] = Enters(r)
  BY XorMoves
<1>u. \A r \in Rank : r \notin xcomm(x) => pc'[r] = pc[r] /\ version'[r] = version[r] /\ cp'[r] = cp[r]
  BY DEF XorStep, EnterXor
<1>s. \A r \in Rank : r \notin xcomm(x) =>
        /\ XorDone(r)' = XorDone(r) /\ XorTurn(r)' = XorTurn(r)
        /\ Transferred(r)' = Transferred(r) /\ TransferTurn(r)' = TransferTurn(r)
  BY <1>u, StaysPut
<1>n. XorChunks \in Int
  BY CheckpointAssumption
<1>1. ASSUME NEW r \in Rank
      PROVE  pc'[r] \in CallPCs /\ Turns(r)'
  <2>1. CASE r \in xcomm(x)
    BY <1>m, <2>1
  <2>2. CASE r \notin xcomm(x)
    BY <1>f, <1>u, <2>2 DEF PaceInv, Turns
  <2> QED BY <2>1, <2>2
<1>2. ASSUME faults' = 0 \/ XorChunks = 1, NEW r \in Rank, NEW s \in Rank, r[2] = s[2]
      PROVE  version'[r] = version'[s]
  <2>1. version[r] = version[s]
    BY <1>2, <1>f DEF PaceInv
  <2>2. CASE r \in xcomm(x)
    <3>1. s \in xcomm(x)
      BY <1>2, <2>2, GridFacts
    <3>2. pc[r] # "xor" /\ pc[s] # "xor"
      BY <1>2, <1>f, CheckpointAssumption DEF PaceInv, Turns, TypeOK, Cps
    <3>3. pc[r] \in {"app", "xor"} /\ pc[s] \in {"app", "xor"}
      BY <2>2, <3>1 DEF XorStep, EnterXor, InXor, At
    <3> QED BY <1>m, <2>1, <2>2, <3>1, <3>2, <3>3 DEF Enters, At
  <2>3. CASE r \notin xcomm(x)
    <3>1. s \notin xcomm(x)
      BY <1>2, <2>3, GridFacts
    <3> QED BY <1>u, <2>1, <2>3, <3>1
  <2> QED BY <2>2, <2>3
<1>3. ASSUME NEW a \in Rank, NEW c \in Rank, NEW d \in Rank, a[2] = c[2], c[1] = d[1]
      PROVE  XorGap(a, c)' + TransferGap(c, d)' <= faults'
  <2>1. XorGap(a, c) + TransferGap(c, d) <= faults
    BY <1>3 DEF PaceInv
  <2>2. /\ XorGap(a, c) \in Int /\ TransferGap(c, d) \in Int
        /\ XorGap(a, c)' \in Int /\ TransferGap(c, d)' \in Int
    BY GapType, GapPrimed
  <2>3. CASE c \in xcomm(x)
    <3>1. a \in xcomm(x)
      BY <1>3, <2>3, GridFacts
    <3>2. /\ XorGap(a, c)' <= XorGap(a, c) + 1
          /\ ~(a \in S) \/ c \in S => XorGap(a, c)' <= XorGap(a, c)
      <4>1. /\ XorDone(a) \in Int /\ XorTurn(a) \in Int /\ XorDone(a)' \in Int /\ XorTurn(a)' \in Int
            /\ XorDone(c) \in Int /\ XorTurn(c) \in Int /\ XorDone(c)' \in Int /\ XorTurn(c)' \in Int
        BY ProgressType, ProgressPrimed
      <4>2. /\ k > 0 /\ XorTurn(a) >= 0 /\ XorTurn(a) + k <= XorChunks
            /\ XorTurn(c) >= 0 /\ XorTurn(c) + k <= XorChunks
            /\ Moved(XorDone(a), XorTurn(a), XorDone(a)', XorTurn(a)', k, XorChunks, a \in S)
            /\ Moved(XorDone(c), XorTurn(c), XorDone(c)', XorTurn(c)', k, XorChunks, c \in S)
        BY <1>m, <2>3, <3>1
      <4> QED BY <1>n, <4>1, <4>2, GapStep DEF XorGap
    <3>3. TransferGap(c, d)' = IF c \in S /\ d # c THEN TransferGap(c, d) + 1 ELSE TransferGap(c, d)
      <4>1. CASE d = c
        BY <4>1, GapType, GapPrimed
      <4>2. CASE d # c
        <5>1. d \notin xcomm(x)
          BY <1>3, <2>3, <4>2, GridFacts
        <5>2. /\ Transferred(d)' = Transferred(d) /\ TransferTurn(d)' = TransferTurn(d)
              /\ Transferred(c)' = IF c \in S THEN Transferred(c) + 1 ELSE Transferred(c)
              /\ TransferTurn(c)' = TransferTurn(c)
          BY <1>m, <1>s, <2>3, <5>1
        <5>3. Transferred(c) \in Int /\ Transferred(d) \in Int
          BY ProgressType
        <5> QED BY <4>2, <5>2, <5>3 DEF TransferGap, Gap
      <4> QED BY <4>1, <4>2
    <3> QED BY <1>f, <2>1, <2>2, <3>2, <3>3
  <2>4. CASE c \notin xcomm(x)
    <3>1. a \notin xcomm(x)
      BY <1>3, <2>4, GridFacts
    <3>2. XorGap(a, c)' = XorGap(a, c)
      BY <1>s, <2>4, <3>1 DEF XorGap
    <3>3. TransferGap(c, d)' <= TransferGap(c, d)
      <4>1. TransferTurn(d)' = TransferTurn(d)
        BY <1>m, <1>s
      <4>2. Transferred(d)' = Transferred(d) \/ Transferred(d)' = Transferred(d) + 1
        BY <1>m, <1>s
      <4>3. Transferred(c)' = Transferred(c) /\ TransferTurn(c)' = TransferTurn(c)
        BY <1>s, <2>4
      <4>4. Transferred(c) \in Int /\ Transferred(d) \in Int
        BY ProgressType
      <4> QED BY <4>1, <4>2, <4>3, <4>4 DEF TransferGap, Gap
    <3> QED BY <1>f, <2>1, <2>2, <3>2, <3>3
  <2> QED BY <2>3, <2>4
<1> QED BY <1>1, <1>2, <1>3 DEF PaceInv

LEMMA PaceTransfer ==
    ASSUME TypeOK, TypeOK', PaceInv, NEW p \in PIDs, NEW k \in Int, NEW S \in SUBSET pcomm(p), TransferStep(p, k, S)
    PROVE  PaceInv'
<1>f. /\ faults \in Nat /\ faults' = (IF S = {} THEN faults ELSE faults + 1)
      /\ faults' = 0 => faults = 0 /\ S = {}
  BY DEF TypeOK, TransferStep
<1>m. \A r \in pcomm(p) :
        /\ k > 0 /\ TransferTurn(r) >= 0 /\ TransferTurn(r) + k <= Transfers
        /\ Moved(Transferred(r), TransferTurn(r), Transferred(r)', TransferTurn(r)', k, Transfers, r \in S)
        /\ XorDone(r)' = XorDone(r) /\ XorTurn(r)' = XorTurn(r)
        /\ Turns(r)' /\ pc'[r] \in CallPCs
  BY TransferMoves
<1>u. /\ version' = version
      /\ \A r \in Rank : r \notin pcomm(p) => pc'[r] = pc[r] /\ version'[r] = version[r] /\ cp'[r] = cp[r]
  BY DEF TransferStep, Transfer, Go
<1>s. \A r \in Rank : r \notin pcomm(p) =>
        /\ XorDone(r)' = XorDone(r) /\ XorTurn(r)' = XorTurn(r)
        /\ Transferred(r)' = Transferred(r) /\ TransferTurn(r)' = TransferTurn(r)
  BY <1>u, StaysPut
<1>n. Transfers \in Int
  BY CheckpointAssumption DEF Transfers
<1>1. ASSUME NEW r \in Rank
      PROVE  pc'[r] \in CallPCs /\ Turns(r)'
  <2>1. CASE r \in pcomm(p)
    BY <1>m, <2>1
  <2>2. CASE r \notin pcomm(p)
    BY <1>f, <1>u, <2>2 DEF PaceInv, Turns
  <2> QED BY <2>1, <2>2
<1>2. faults' = 0 \/ XorChunks = 1 => \A r, s \in Rank : r[2] = s[2] => version'[r] = version'[s]
  BY <1>f, <1>u DEF PaceInv
<1>3. ASSUME NEW a \in Rank, NEW c \in Rank, NEW d \in Rank, a[2] = c[2], c[1] = d[1]
      PROVE  XorGap(a, c)' + TransferGap(c, d)' <= faults'
  <2>1. XorGap(a, c) + TransferGap(c, d) <= faults
    BY <1>3 DEF PaceInv
  <2>2. /\ XorGap(a, c) \in Int /\ TransferGap(c, d) \in Int
        /\ XorGap(a, c)' \in Int /\ TransferGap(c, d)' \in Int
    BY GapType, GapPrimed
  <2>3. XorGap(a, c)' = XorGap(a, c)
    BY <1>m, <1>s DEF XorGap
  <2>4. CASE c \in pcomm(p)
    <3>1. d \in pcomm(p)
      BY <1>3, <2>4, GridFacts
    <3>2. /\ TransferGap(c, d)' <= TransferGap(c, d) + 1
          /\ ~(c \in S) \/ d \in S => TransferGap(c, d)' <= TransferGap(c, d)
      <4>1. /\ Transferred(c) \in Int /\ TransferTurn(c) \in Int /\ Transferred(c)' \in Int /\ TransferTurn(c)' \in Int
            /\ Transferred(d) \in Int /\ TransferTurn(d) \in Int /\ Transferred(d)' \in Int /\ TransferTurn(d)' \in Int
        BY ProgressType, ProgressPrimed
      <4>2. /\ k > 0 /\ TransferTurn(c) >= 0 /\ TransferTurn(c) + k <= Transfers
            /\ TransferTurn(d) >= 0 /\ TransferTurn(d) + k <= Transfers
            /\ Moved(Transferred(c), TransferTurn(c), Transferred(c)', TransferTurn(c)', k, Transfers, c \in S)
            /\ Moved(Transferred(d), TransferTurn(d), Transferred(d)', TransferTurn(d)', k, Transfers, d \in S)
        BY <1>m, <2>4, <3>1
      <4> QED BY <1>n, <4>1, <4>2, GapStep DEF TransferGap
    <3> QED BY <1>f, <2>1, <2>2, <2>3, <3>2
  <2>5. CASE c \notin pcomm(p)
    <3>1. d \notin pcomm(p)
      BY <1>3, <2>5, GridFacts
    <3>2. TransferGap(c, d)' = TransferGap(c, d)
      BY <1>s, <2>5, <3>1 DEF TransferGap
    <3> QED BY <1>f, <2>1, <2>2, <2>3, <3>2
  <2> QED BY <2>4, <2>5
<1> QED BY <1>1, <1>2, <1>3 DEF PaceInv

LEMMA PaceStep ==
    ASSUME TypeOK, TypeOK', PaceInv, [CheckpointNext]_vars
    PROVE  PaceInv'
<1> USE DEF At, Go
<1>2. ASSUME NEW x \in PRank, XorCheckpoint(x)
      PROVE  PaceInv'
  BY <1>2, XorSteps, PaceXor
<1>3. ASSUME NEW x \in PRank, NEW S \in SUBSET xcomm(x), XorFails(x, S)
      PROVE  PaceInv'
  BY <1>3, XorSteps, PaceXor
<1>5. ASSUME NEW p \in PIDs, PartnerTransfer(p)
      PROVE  PaceInv'
  BY <1>5, TransferSteps, PaceTransfer
<1>6. ASSUME NEW p \in PIDs, NEW S \in SUBSET pcomm(p), ParityFails(p, S)
      PROVE  PaceInv'
  BY <1>6, TransferSteps, PaceTransfer
<1>r. ASSUME NEW r \in Rank, version' = version, faults' >= faults,
             \A z \in Rank : z # r => pc'[z] = pc[z] /\ cp'[z] = cp[z],
             \/ pc[r] = "open" /\ pc'[r] = "transfer" /\ cp'[r] = cp[r]
             \/ pc[r] = "meta" /\ pc'[r] = "torn" /\ cp'[r] = cp[r]
             \/ pc[r] = "torn" /\ pc'[r] = "app" /\ cp'[r] = NoCp
      PROVE  PaceInv'
  <2>1. faults \in Nat /\ faults' \in Nat /\ (faults' = 0 => faults = 0)
    BY <1>r DEF TypeOK
  <2>2. \A z \in Rank : pc[z] \in CallPCs /\ Turns(z)
    BY DEF PaceInv
  <2>3. ASSUME NEW z \in Rank
        PROVE  /\ XorDone(z)' = XorDone(z) /\ XorTurn(z)' = XorTurn(z)
               /\ Transferred(z)' = Transferred(z) /\ TransferTurn(z)' = TransferTurn(z)
               /\ pc'[z] \in CallPCs /\ Turns(z)'
    <3>1. CASE z # r
      <4>1. pc'[z] = pc[z] /\ cp'[z] = cp[z] /\ version'[z] = version[z]
        BY <1>r, <3>1
      <4>2. pc'[z] \in CallPCs /\ Turns(z)'
        BY <2>1, <2>2, <4>1 DEF Turns
      <4> QED BY <4>1, <4>2, StaysPut
    <3>2. CASE z = r
      <4>1. cp[r].chunks = 0 /\ NoCp.chunks = 0 /\ Transfers > 0
        BY <1>r, <2>2, CheckpointAssumption DEF Turns, NoCp, Transfers
      <4>2. pc'[r] \in CallPCs /\ Turns(r)'
        BY <1>r, <4>1 DEF Turns, CallPCs, CheckpointPCs
      <4>3. XorDone(r)' = XorDone(r) /\ XorTurn(r)' = XorTurn(r) /\ Transferred(r)' = Transferred(r)
        BY <1>r DEF XorDone, XorTurn, Transferred
      <4>4. TransferTurn(r)' = TransferTurn(r)
        BY <1>r, <4>1 DEF TransferTurn
      <4> QED BY <3>2, <4>2, <4>3, <4>4
    <3> QED BY <3>1, <3>2
  <2> QED BY <1>r, <2>1, <2>3, PaceKeptUp
<1>4. ASSUME NEW r \in Rank, PartnerOpen(r)
      PROVE  PaceInv'
  BY <1>4, <1>r DEF PartnerOpen, TypeOK
<1>8. ASSUME NEW r \in Rank, MetaOpen(r)
      PROVE  PaceInv'
  <2>1. pc[r] = "meta"
    BY <1>8 DEF MetaOpen, MetaFrom, PaceInv, CallPCs, CheckpointPCs
  <2>2. pc'[r] = "torn" /\ \A z \in Rank : z # r => pc'[z] = pc[z]
    BY <1>8, <2>1 DEF MetaOpen, MetaFrom, TypeOK
  <2> QED BY <1>8, <1>r, <2>1, <2>2 DEF MetaOpen, TypeOK
<1>9. ASSUME NEW r \in Rank, MetaWrite(r)
      PROVE  PaceInv'
  <2>1. pc[r] = "torn"
    BY <1>9 DEF MetaWrite, MetaTo, PaceInv, CallPCs, CheckpointPCs
  <2>2. pc'[r] = "app" /\ \A z \in Rank : z # r => pc'[z] = pc[z]
    BY <1>9, <2>1 DEF MetaWrite, MetaTo, TypeOK
  <2>3. cp'[r] = NoCp /\ \A z \in Rank : z # r => cp'[z] = cp[z]
    BY <1>9, <2>1 DEF MetaWrite, TypeOK
  <2> QED BY <1>9, <1>r, <2>1, <2>2, <2>3 DEF MetaWrite, TypeOK
<1>10. ASSUME NEW r \in Rank, MetaFails(r)
       PROVE  PaceInv'
  <2>1. /\ pc[r] = "torn" /\ pc'[r] = "app" /\ cp'[r] = NoCp /\ version' = version /\ faults' >= faults
        /\ \A z \in Rank : z # r => pc'[z] = pc[z] /\ cp'[z] = cp[z]
    BY <1>10 DEF MetaFails, TypeOK
  <2> QED BY <1>r, <2>1
<1>11. CASE UNCHANGED vars
  <2>1. \A z \in Rank : pc'[z] = pc[z] /\ cp'[z] = cp[z] /\ version'[z] = version[z]
    BY <1>11 DEF vars
  <2>2. \A z \in Rank : pc'[z] \in CallPCs /\ Turns(z)'
    BY <1>11, <2>1 DEF vars, PaceInv, Turns
  <2>3. faults' \in Nat /\ faults' >= faults /\ version' = version
    BY <1>11 DEF vars, TypeOK
  <2> QED BY <2>1, <2>2, <2>3, StaysPut, PaceKeptUp
<1> QED BY <1>2, <1>3, <1>4, <1>5, <1>6, <1>8, <1>9, <1>10, <1>11
        DEF CheckpointNext, CheckpointStep, MetaStep, CheckpointsMade

LEMMA PaceInit ==
    ASSUME Init
    PROVE  PaceInv
<1>1. \A r \in Rank : pc[r] = "app" /\ version[r] = 0 /\ cp[r].chunks = 0 /\ faults = 0
  BY DEF Init, NoCp
<1>2. \A r \in Rank : Turns(r) /\ pc[r] \in CallPCs
  BY <1>1 DEF Turns, CallPCs, CheckpointPCs
<1>3. \A r \in Rank : XorDone(r) = 0 /\ XorTurn(r) = 0 /\ Transferred(r) = 0 /\ TransferTurn(r) = 0
  BY <1>1 DEF XorDone, XorTurn, Transferred, TransferTurn
<1>4. \A a, c, d \in Rank : XorGap(a, c) = 0 /\ TransferGap(c, d) = 0
  BY <1>3 DEF XorGap, TransferGap, Gap
<1> QED BY <1>1, <1>2, <1>4, GridFacts DEF PaceInv

LEMMA PaceInvariant == CheckpointSpec => []PaceInv
BY PaceInit, PaceStep, TypeCorrect, PTL DEF CheckpointSpec

\* No two ranks of a community are ever further apart than one checkpoint and
\* the calls that failed, though COMB_Checkpoint has no barrier and a failed call
\* may leave other ranks in the middle of a loop: a rank and the rank that shares
\* its XOR group with it and its partner group with the other carry the bound
\* across.
THEOREM DriftIsBounded == CheckpointSpec => []DriftBounded
<1>1. TypeOK /\ PaceInv => DriftBounded
  <2> SUFFICES ASSUME TypeOK, PaceInv, NEW r \in Rank, NEW s \in Rank
               PROVE  version[r] - version[s] <= 1 + faults
    BY DEF DriftBounded
  <2> DEFINE u == <<s[1], r[2]>>
  <2>1. u \in Rank /\ u[1] = s[1] /\ u[2] = r[2]
    BY GridFacts
  <2>2. XorGap(r, u) + TransferGap(u, s) <= faults
    BY <2>1 DEF PaceInv
  <2> HIDE DEF u
  <2>3. /\ version[r] \in Int /\ version[u] \in Int /\ version[s] \in Int /\ faults \in Int
        /\ XorTurn(r) \in Nat /\ XorTurn(u) \in Nat /\ TransferTurn(u) \in Nat /\ TransferTurn(s) \in Nat
        /\ XorDone(r) \in Int /\ XorDone(u) \in Int /\ Transferred(u) \in Int /\ Transferred(s) \in Int
    BY <2>1, ProgressType DEF TypeOK
  <2>4. XorGap(r, u) = XorDone(r) - XorDone(u) + (IF XorTurn(r) > XorTurn(u) THEN 1 ELSE 0)
    BY DEF XorGap, Gap
  <2>5. TransferGap(u, s) >= Transferred(u) - Transferred(s)
    BY <2>3 DEF TransferGap, Gap
  <2>6. Transferred(s) <= version[s]
    BY <2>3 DEF Transferred
  <2>7. \/ XorTurn(u) = 0 /\ XorDone(u) - 1 <= Transferred(u)
        \/ XorDone(u) = Transferred(u)
    BY <2>3 DEF XorDone, XorTurn, Transferred
  <2>8. \/ version[r] = XorDone(r)
        \/ version[r] = XorDone(r) + 1 /\ XorTurn(r) > 0
    BY <2>1, <2>3 DEF PaceInv, Turns, XorDone, XorTurn
  <2>9. XorGap(r, u) \in Int /\ TransferGap(u, s) \in Int
    BY <2>1, GapType
  <2> QED BY <2>2, <2>3, <2>4, <2>5, <2>6, <2>7, <2>8, <2>9
<1> QED BY <1>1, TypeCorrect, PaceInvariant, PTL

-----------------------------------------------------------------------------
(* The checkpoint files.                                                   *)

\* The rank's own parity, as Described puts it.
OwnParity(r) ==
    \/ cp[r].parity = <<run, version[r]>>
    \/ faults > 0 /\ XorChunks > 1 /\ cp[r].parity = Garbage

\* The files and metadata a rank works on: until its own metadata is written,
\* the slot is described by none, and what it is about to describe is there; in
\* the middle of the transfer, its own data.
Work(r) ==
    /\ mem[r] = <<run, version[r]>>
    /\ pc[r] \in {"open", "transfer", "meta", "torn"} =>
          OwnParity(r) /\ (faults = 0 => cp[r].failoffset = "none")
    /\ pc[r] \in {"open", "transfer"} => cp[r].state = XORDATA
    /\ pc[r] \in {"transfer", "meta", "torn"} => meta[r][Cur(r)].is # "valid"
    /\ pc[r] = "transfer" /\ cp[r].chunks > 0 => file[r][Cur(r)].data[r[2]] = <<run, version[r]>>
    /\ pc[r] \in {"meta", "torn"} => /\ Described(r, file[r][Cur(r)], version[r], cp[r].state)
                                     /\ faults = 0 => cp[r].state = FULLDATA

\* COMB_Finalize has removed the file of the slot.
Removed(r, s) == pc[r] \in {"clean", "done"} /\ file[r][s].kind = "empty"

\* What MetadataTruthful says of one rank and slot, until COMB_Finalize.
Truthful(r, s) ==
    meta[r][s].is = "valid" =>
        /\ slot(meta[r][s].version) = s
        /\ meta[r][s].version <= version[r]
        /\ Described(r, file[r][s], meta[r][s].version, meta[r][s].state) \/ Removed(r, s)

FilesInv == \A r \in Rank : Work(r) /\ \A s \in Slots : Truthful(r, s)

\* A step of other ranks.
LEMMA WorkUntouched ==
    ASSUME TypeOK, NEW r \in Rank, Work(r), \A s \in Slots : Truthful(r, s),
           pc'[r] = pc[r], version'[r] = version[r], mem'[r] = mem[r], cp'[r] = cp[r],
           meta'[r] = meta[r], file'[r] = file[r], run' = run, faults' \in Nat, faults' >= faults
    PROVE  Work(r)' /\ \A s \in Slots : Truthful(r, s)'
<1>1. faults' = 0 => faults = 0
  BY DEF TypeOK
<1>2. \A f, v, state : Described(r, f, v, state) => Described(r, f, v, state)'
  BY <1>1 DEF Described
<1>3. Cur(r)' = Cur(r)
  BY DEF Cur
<1>6. OwnParity(r) => OwnParity(r)'
  BY DEF OwnParity, TypeOK
<1>4. Work(r)'
  BY <1>1, <1>2, <1>3, <1>6 DEF Work
<1>5. \A s \in Slots : Truthful(r, s)'
  BY <1>1 DEF Truthful, Described, Removed
<1> QED BY <1>4, <1>5

LEMMA FilesStep ==
    ASSUME TypeOK, TypeOK', PaceInv, FilesInv, [CheckpointNext]_vars
    PROVE  FilesInv'
<1> SUFFICES ASSUME NEW q \in Rank
             PROVE  Work(q)' /\ \A s \in Slots : Truthful(q, s)'
  BY DEF FilesInv
<1> USE DEF At, Go, AllAt
<1>q. Work(q) /\ (\A s \in Slots : Truthful(q, s)) /\ Cur(q) \in Slots
  BY SlotType DEF FilesInv, Cur, TypeOK
<1>1. ASSUME NEW x \in PRank, NEW k \in Int, NEW S \in SUBSET xcomm(x), XorStep(x, k, S)
      PROVE  Work(q)' /\ \A s \in Slots : Truthful(q, s)'
  <2>0. run' = run /\ meta' = meta /\ file' = file /\ faults' \in Nat /\ faults' >= faults
    <3>1. run' = run /\ meta' = meta /\ file' = file
      BY <1>1 DEF XorStep, EnterXor
    <3>2. faults' = (IF S = {} THEN faults ELSE faults + 1)
      BY <1>1 DEF XorStep
    <3> QED BY <3>1, <3>2 DEF TypeOK
  <2>1. CASE q \notin xcomm(x)
    <3>1. pc'[q] = pc[q] /\ version'[q] = version[q] /\ mem'[q] = mem[q] /\ cp'[q] = cp[q]
      BY <1>1, <2>1 DEF XorStep, EnterXor
    <3> QED BY <1>q, <2>0, <3>1, WorkUntouched
  <2>2. CASE q \in xcomm(x)
    <3>1. /\ pc[q] \in {"app", "xor"} /\ pc'[q] \in {"app", "xor", "open"}
          /\ version'[q] = Enters(q) /\ mem'[q] = <<run, Enters(q)>>
          /\ pc'[q] = "open" => cp'[q] = NewCp(q)
      BY <1>1, <2>2 DEF XorStep, EnterXor, InXor, NoCp
    <3>2. pc'[q] = "open" => OwnParity(q)' /\ cp'[q].failoffset = "none" /\ cp'[q].state = XORDATA
      <4> SUFFICES ASSUME pc'[q] = "open"
                   PROVE  OwnParity(q)' /\ cp'[q].failoffset = "none" /\ cp'[q].state = XORDATA
        OBVIOUS
      <4>1. cp'[q] = NewCp(q) /\ q[2] = x
        BY <2>2, <3>1, GridFacts
      <4>2. CASE Aligned(x)
        <5>1. pc[q] = "app"
          BY <2>2, <4>2 DEF Aligned
        <5>2. Enters(q) = version[q] + 1
          BY <5>1 DEF Enters
        <5> QED BY <2>0, <3>1, <4>1, <4>2, <5>2 DEF NewCp, OwnParity
      <4>3. CASE ~Aligned(x)
        <5>1. ~(faults = 0 \/ XorChunks = 1)
          <6> SUFFICES ASSUME faults = 0 \/ XorChunks = 1
                       PROVE  Aligned(x)
            BY <4>3
          <6>1. ASSUME NEW r \in xcomm(x)
                PROVE  r \in Rank /\ r[2] = x /\ pc[r] = "app"
            <7>1. r \in Rank /\ r[2] = x
              BY GridFacts
            <7>2. pc[r] \in {"app", "xor"}
              BY <1>1 DEF XorStep, EnterXor, InXor
            <7>3. cp[r].chunks \in Nat
              BY <7>1 DEF TypeOK, Cps
            <7>4. pc[r] # "xor"
              BY <7>1, <7>3 DEF PaceInv, Turns
            <7> QED BY <7>1, <7>2, <7>4
          <6> QED BY <6>1 DEF Aligned, PaceInv
        <5>2. faults' > 0 /\ XorChunks > 1
          BY <2>0, <5>1, CheckpointAssumption DEF TypeOK
        <5> QED BY <4>1, <4>3, <5>2 DEF NewCp, OwnParity
      <4> QED BY <4>2, <4>3
    <3>3. Work(q)'
      BY <2>0, <3>1, <3>2 DEF Work
    <3>4. Enters(q) >= version[q] /\ Enters(q) \in Nat /\ version[q] \in Nat
      BY DEF Enters, TypeOK
    <3>5. \A s \in Slots : Truthful(q, s)'
      <4>1. \A s \in Slots : meta[q][s].version \in Nat
        BY DEF TypeOK, Metas
      <4>2. \A f, v, state : Described(q, f, v, state) => Described(q, f, v, state)'
        BY <2>0 DEF Described, TypeOK
      <4> QED BY <1>q, <2>0, <3>1, <3>4, <4>1, <4>2 DEF Truthful, Removed
    <3> QED BY <3>3, <3>5
  <2> QED BY <2>1, <2>2
<1>2. ASSUME NEW x \in PRank, XorCheckpoint(x)
      PROVE  Work(q)' /\ \A s \in Slots : Truthful(q, s)'
  BY <1>1, <1>2, XorSteps
<1>3. ASSUME NEW x \in PRank, NEW S \in SUBSET xcomm(x), XorFails(x, S)
      PROVE  Work(q)' /\ \A s \in Slots : Truthful(q, s)'
  BY <1>1, <1>3, XorSteps
<1>4. ASSUME NEW r \in Rank, PartnerOpen(r)
      PROVE  Work(q)' /\ \A s \in Slots : Truthful(q, s)'
  <2>0. run' = run /\ version' = version /\ mem' = mem /\ cp' = cp /\ faults' = faults
    BY <1>4 DEF PartnerOpen
  <2>1. CASE q # r
    <3>1. pc'[q] = pc[q] /\ meta'[q] = meta[q] /\ file'[q] = file[q]
      BY <1>4, <2>1 DEF PartnerOpen, OpenCpFile, TypeOK
    <3> QED BY <1>q, <2>0, <3>1, WorkUntouched DEF TypeOK
  <2>2. CASE q = r
    <3>1. /\ pc[q] = "open" /\ pc'[q] = "transfer"
          /\ meta'[q][Cur(q)].is = "absent"
          /\ \A s \in Slots : s # Cur(q) => meta'[q][s] = meta[q][s] /\ file'[q][s] = file[q][s]
      BY <1>4, <1>q, <2>2 DEF PartnerOpen, OpenCpFile, TypeOK, NoMeta
    <3>2. Work(q)'
      <4>1. cp'[q].chunks = 0
        BY <2>0, <3>1 DEF PaceInv, Turns
      <4> QED BY <1>q, <2>0, <3>1, <4>1 DEF Work, Cur, OwnParity
    <3>3. \A s \in Slots : Truthful(q, s)'
      BY <1>q, <2>0, <3>1 DEF Truthful, Described, Removed
    <3> QED BY <3>2, <3>3
  <2> QED BY <2>1, <2>2
<1>5. ASSUME NEW p \in PIDs, NEW k \in Int, NEW S \in SUBSET pcomm(p), TransferStep(p, k, S)
      PROVE  Work(q)' /\ \A s \in Slots : Truthful(q, s)'
  <2>0. /\ run' = run /\ version' = version /\ mem' = mem /\ meta' = meta /\ faults' \in Nat
        /\ faults' >= faults /\ k > 0
    <3>1. run' = run /\ version' = version /\ mem' = mem /\ meta' = meta /\ k > 0
      BY <1>5 DEF TransferStep, Transfer
    <3>2. faults' = (IF S = {} THEN faults ELSE faults + 1)
      BY <1>5 DEF TransferStep
    <3> QED BY <3>1, <3>2 DEF TypeOK
  <2>1. CASE q \notin pcomm(p)
    <3>1. pc'[q] = pc[q] /\ cp'[q] = cp[q] /\ file'[q] = file[q]
      BY <1>5, <2>1 DEF TransferStep, Transfer
    <3> QED BY <1>q, <2>0, <3>1, WorkUntouched
  <2>2. CASE q \in pcomm(p)
    <3> DEFINE level == {z \in PRank : cp[<<p, z>>].chunks = cp[q].chunks}
               g == GatheredPart(p, q, k)
               parts == [g EXCEPT !.kind = "local",
                           !.parity = [z \in PRank |-> IF z = q[2] THEN cp[q].parity ELSE Garbage]]
    <3>1. /\ pc[q] = "transfer" /\ Cur(q)' = Cur(q)
          /\ \A s \in Slots : s # Cur(q) => file'[q][s] = file[q][s]
          /\ file'[q][Cur(q)] = IF q \in S THEN parts ELSE g
      <4>1. pc[q] = "transfer" /\ Cur(q)' = Cur(q)
        BY <1>5, <2>0, <2>2 DEF TransferStep, Transfer, Cur
      <4>2. file'[q] = IF q \in S THEN [file[q] EXCEPT ![Cur(q)] = parts] ELSE [file[q] EXCEPT ![Cur(q)] = g]
        BY <1>5, <2>2 DEF TransferStep, Transfer
      <4>3. file[q] \in [Slots -> Files]
        BY DEF TypeOK
      <4> HIDE DEF parts, g
      <4> QED BY <1>q, <4>1, <4>2, <4>3
    <3>2. \A s \in Slots : Truthful(q, s)'
      <4>1. meta'[q][Cur(q)].is # "valid"
        BY <1>q, <2>0, <3>1 DEF Work
      <4>2. \A f, v, state : Described(q, f, v, state) => Described(q, f, v, state)'
        BY <2>0 DEF Described, TypeOK
      <4> QED BY <1>q, <2>0, <3>1, <4>1, <4>2 DEF Truthful, Removed
    <3>3. /\ OwnParity(q) /\ cp[q].state = XORDATA /\ mem[q] = <<run, version[q]>>
          /\ faults' = 0 => faults = 0 /\ cp[q].failoffset = "none"
      BY <1>q, <2>0, <3>1 DEF Work, TypeOK
    <3>4. meta'[q][Cur(q)].is # "valid"
      BY <1>q, <2>0, <3>1 DEF Work
    <3>5. p = q[1] /\ q = <<p, q[2]>> /\ q[2] \in PRank /\ q[2] \in level
      BY <2>2, GridFacts
    <3>6. cp[q] \in Cps /\ cp[q].chunks \in Nat /\ DataChunks \in Nat \ {0}
      <4>1. cp[q] \in Cps
        BY DEF TypeOK
      <4> QED BY <4>1, CheckpointAssumption DEF Cps
    <3>7. /\ g.kind = IF cp[q].chunks + k = Transfers THEN "whole" ELSE "empty"
          /\ g.data[q[2]] = <<run, version[q]>>
          /\ g.parity[q[2]] = cp[q].parity
          /\ parts.kind = "local" /\ parts.data = g.data /\ parts.parity[q[2]] = cp[q].parity
      <4>1. /\ g.kind = IF cp[q].chunks + k = Transfers THEN "whole" ELSE "empty"
            /\ g.data = [z \in PRank |-> IF cp[q].chunks >= DataChunks THEN file[q][Cur(q)].data[z]
                                         ELSE IF z \in level THEN mem[<<p, z>>] ELSE Garbage]
            /\ g.parity = [z \in PRank |-> IF z \in level THEN cp[<<p, z>>].parity ELSE Garbage]
        BY DEF GatheredPart
      <4>2. cp[q].chunks >= DataChunks => file[q][Cur(q)].data[q[2]] = <<run, version[q]>>
        BY <1>q, <3>1, <3>6 DEF Work
      <4>3. g.data[q[2]] = <<run, version[q]>> /\ g.parity[q[2]] = cp[q].parity
        <5> HIDE DEF g, level
        <5> QED BY <3>3, <3>5, <4>1, <4>2
      <4>4. g \in Files
        BY <2>2, GatheredType
      <4>5. parts.kind = "local" /\ parts.data = g.data /\ parts.parity[q[2]] = cp[q].parity
        <5> HIDE DEF g
        <5> QED BY <3>5, <4>4 DEF Files
      <4> QED BY <4>1, <4>3, <4>5
    <3>8. CASE q \in S
      <4>1. /\ cp'[q].parity = cp[q].parity /\ cp'[q].state = cp[q].state
            /\ faults' # 0 /\ pc'[q] = "meta"
        <5>1. cp'[q] = [cp[q] EXCEPT !.chunks = 0, !.failoffset = "parity"] /\ pc'[q] = "meta"
          BY <1>5, <2>2, <3>8 DEF TransferStep, Transfer
        <5>2. faults' # 0
          BY <1>5, <3>8 DEF TransferStep, TypeOK
        <5> QED BY <3>6, <5>1, <5>2 DEF Cps
      <4>2. OwnParity(q)'
        BY <2>0, <3>3, <4>1 DEF OwnParity, TypeOK
      <4>3. Described(q, file[q][Cur(q)], version[q], cp[q].state)'
        <5>1. /\ file'[q][Cur(q)].kind = "local" /\ file'[q][Cur(q)].data[q[2]] = <<run, version[q]>>
              /\ file'[q][Cur(q)].parity[q[2]] = cp[q].parity
          BY <3>1, <3>7, <3>8
        <5> QED BY <2>0, <3>1, <3>3, <4>1, <4>2, <5>1 DEF Described, OwnParity, XORDATA, FULLDATA
      <4> QED BY <2>0, <3>1, <3>2, <3>3, <3>4, <4>1, <4>2, <4>3 DEF Work
    <3>9. CASE q \notin S /\ cp[q].chunks + k = Transfers
      <4>1. /\ cp'[q].parity = cp[q].parity /\ cp'[q].state = FULLDATA
            /\ cp'[q].failoffset = cp[q].failoffset /\ pc'[q] = "meta"
        <5>1. cp'[q] = [cp[q] EXCEPT !.chunks = 0, !.state = FULLDATA] /\ pc'[q] = "meta"
          BY <1>5, <2>2, <3>9 DEF TransferStep, Transfer
        <5> QED BY <3>6, <5>1 DEF Cps
      <4>2. OwnParity(q)'
        BY <2>0, <3>3, <4>1 DEF OwnParity, TypeOK
      <4>3. faults' = 0 => \A z \in PRank : g.data[z] = <<run, version[q]>> /\ g.parity[z] = <<run, version[q]>>
        <5> SUFFICES ASSUME faults' = 0, NEW z \in PRank
                     PROVE  g.data[z] = <<run, version[q]>> /\ g.parity[z] = <<run, version[q]>>
          OBVIOUS
        <5> DEFINE w == <<p, z>>
        <5>1. w \in Rank /\ w \in pcomm(p) /\ w[1] = q[1]
          BY GridFacts, <3>5
        <5>2. faults = 0
          BY <3>3
        <5>3. pc[w] = "transfer"
          BY <1>5, <5>1 DEF TransferStep, Transfer
        <5>4. cp[w].chunks = 0 /\ cp[q].chunks = 0 /\ Transferred(w) = Transferred(q)
          BY <5>1, <5>2, PaceFacts
        <5>5. version[w] - 1 = version[q] - 1
          BY <3>1, <5>3, <5>4 DEF Transferred
        <5>6. version[w] \in Int /\ version[q] \in Int
          BY <5>1 DEF TypeOK
        <5>7. version[w] = version[q]
          <6> HIDE DEF w
          <6> QED BY <5>5, <5>6
        <5>8. mem[w] = <<run, version[q]>> /\ cp[w].parity = <<run, version[q]>>
          <6>1. Work(w)
            BY <5>1 DEF FilesInv
          <6> HIDE DEF w
          <6> QED BY <5>2, <5>3, <5>7, <6>1 DEF Work, OwnParity
        <5>9. ~(cp[q].chunks >= DataChunks)
          BY <3>6, <5>4
        <5> QED BY <5>4, <5>8, <5>9 DEF GatheredPart
      <4>4. Described(q, file[q][Cur(q)], version[q], cp[q].state)'
        <5>1. file'[q][Cur(q)] = g
          BY <3>1, <3>9
        <5>2. g.kind = "whole"
          BY <3>7, <3>9
        <5> HIDE DEF g, parts
        <5> QED BY <2>0, <3>1, <3>7, <4>1, <4>2, <4>3, <5>1, <5>2 DEF Described, OwnParity
      <4> QED BY <2>0, <3>1, <3>2, <3>3, <3>4, <4>1, <4>2, <4>4 DEF Work, FULLDATA
    <3>10. CASE q \notin S /\ cp[q].chunks + k # Transfers
      <4>1. /\ cp'[q].parity = cp[q].parity /\ cp'[q].state = cp[q].state
            /\ cp'[q].failoffset = cp[q].failoffset /\ pc'[q] = pc[q]
        <5>1. cp'[q] = [cp[q] EXCEPT !.chunks = cp[q].chunks + k] /\ pc'[q] = pc[q]
          BY <1>5, <2>2, <3>10 DEF TransferStep, Transfer
        <5> QED BY <3>6, <5>1 DEF Cps
      <4>2. OwnParity(q)'
        BY <2>0, <3>3, <4>1 DEF OwnParity, TypeOK
      <4>3. file'[q][Cur(q)].data[q[2]] = <<run, version[q]>>
        BY <3>1, <3>7, <3>10
      <4> QED BY <2>0, <3>1, <3>2, <3>3, <3>4, <4>1, <4>2, <4>3 DEF Work
    <3> QED BY <3>8, <3>9, <3>10
  <2> QED BY <2>1, <2>2
<1>6. ASSUME NEW p \in PIDs, PartnerTransfer(p)
      PROVE  Work(q)' /\ \A s \in Slots : Truthful(q, s)'
  BY <1>5, <1>6, TransferSteps
<1>7. ASSUME NEW p \in PIDs, NEW S \in SUBSET pcomm(p), ParityFails(p, S)
      PROVE  Work(q)' /\ \A s \in Slots : Truthful(q, s)'
  BY <1>5, <1>7, TransferSteps
<1>8. ASSUME NEW r \in Rank, MetaOpen(r)
      PROVE  Work(q)' /\ \A s \in Slots : Truthful(q, s)'
  <2>0. run' = run /\ version' = version /\ mem' = mem /\ cp' = cp /\ file' = file /\ faults' = faults
    BY <1>8 DEF MetaOpen
  <2>1. CASE q # r
    <3>1. pc'[q] = pc[q] /\ meta'[q] = meta[q]
      BY <1>8, <2>1 DEF MetaOpen, TypeOK
    <3> QED BY <1>q, <2>0, <3>1, WorkUntouched DEF TypeOK
  <2>2. CASE q = r
    <3>1. pc[q] = "meta" /\ pc'[q] = "torn"
      <4>1. pc[q] \in {"meta", "rmeta", "xmeta"}
        BY <1>8, <2>2 DEF MetaOpen, MetaFrom
      <4>2. pc[q] = "meta"
        BY <4>1 DEF PaceInv, CallPCs, CheckpointPCs
      <4>3. pc'[q] = MetaFrom["meta"]
        BY <1>8, <2>2, <4>2 DEF MetaOpen, TypeOK
      <4> QED BY <4>2, <4>3 DEF MetaFrom
    <3>2. /\ meta'[q][Cur(q)].is = "torn"
          /\ \A s \in Slots : s # Cur(q) => meta'[q][s] = meta[q][s]
      BY <1>8, <1>q, <2>2 DEF MetaOpen, TypeOK, NoMeta, TornMeta
    <3>3. Work(q)'
      BY <1>q, <2>0, <3>1, <3>2 DEF Work, Cur, Described, OwnParity
    <3>4. \A s \in Slots : Truthful(q, s)'
      BY <1>q, <2>0, <3>1, <3>2 DEF Truthful, Described, Removed
    <3> QED BY <3>3, <3>4
  <2> QED BY <2>1, <2>2
<1>9. ASSUME NEW r \in Rank, MetaWrite(r)
      PROVE  Work(q)' /\ \A s \in Slots : Truthful(q, s)'
  <2>0. run' = run /\ version' = version /\ mem' = mem /\ file' = file /\ faults' = faults
    BY <1>9 DEF MetaWrite
  <2>1. CASE q # r
    <3>1. pc'[q] = pc[q] /\ meta'[q] = meta[q] /\ cp'[q] = cp[q]
      BY <1>9, <2>1 DEF MetaWrite, TypeOK
    <3> QED BY <1>q, <2>0, <3>1, WorkUntouched DEF TypeOK
  <2>2. CASE q = r
    <3>1. pc[q] = "torn" /\ pc'[q] = "app"
      <4>1. pc[q] \in {"torn", "rtorn", "xtorn"}
        BY <1>9, <2>2 DEF MetaWrite, MetaTo
      <4>2. pc[q] = "torn"
        BY <4>1 DEF PaceInv, CallPCs, CheckpointPCs
      <4>3. pc'[q] = MetaTo["torn"]
        BY <1>9, <2>2, <4>2 DEF MetaWrite, TypeOK
      <4> QED BY <4>2, <4>3 DEF MetaTo
    <3>2. /\ meta'[q][Cur(q)].version = version[q]
          /\ meta'[q][Cur(q)].state = cp[q].state
          /\ \A s \in Slots : s # Cur(q) => meta'[q][s] = meta[q][s]
      BY <1>9, <1>q, <2>2 DEF MetaWrite, TypeOK
    <3>3. Work(q)'
      BY <1>q, <2>0, <3>1 DEF Work
    <3>4. \A s \in Slots : s = Cur(q) => Truthful(q, s)'
      <4>1. Described(q, file[q][Cur(q)], version[q], cp[q].state)
        BY <1>q, <3>1 DEF Work
      <4>2. slot(version[q]) = Cur(q) /\ version[q] <= version[q]
        BY DEF Cur, TypeOK
      <4> QED BY <2>0, <3>2, <4>1, <4>2 DEF Truthful, Described
    <3>5. \A s \in Slots : s # Cur(q) => Truthful(q, s)'
      BY <1>q, <2>0, <3>1, <3>2 DEF Truthful, Described, Removed
    <3> QED BY <3>3, <3>4, <3>5
  <2> QED BY <2>1, <2>2
<1>10. ASSUME NEW r \in Rank, MetaFails(r)
       PROVE  Work(q)' /\ \A s \in Slots : Truthful(q, s)'
  <2>0. /\ run' = run /\ version' = version /\ mem' = mem /\ file' = file /\ meta' = meta
        /\ faults' \in Nat /\ faults' >= faults
    BY <1>10 DEF MetaFails, TypeOK
  <2>1. CASE q # r
    <3>1. pc'[q] = pc[q] /\ cp'[q] = cp[q]
      BY <1>10, <2>1 DEF MetaFails, TypeOK
    <3> QED BY <1>q, <2>0, <3>1, WorkUntouched
  <2>2. CASE q = r
    <3>1. pc[q] = "torn" /\ pc'[q] = "app"
      BY <1>10, <2>2 DEF MetaFails
    <3>2. Work(q)'
      BY <1>q, <2>0, <3>1 DEF Work
    <3>3. \A s \in Slots : Truthful(q, s)'
      BY <1>q, <2>0, <3>1 DEF Truthful, Described, Removed, TypeOK
    <3> QED BY <3>2, <3>3
  <2> QED BY <2>1, <2>2
<1>11. CASE UNCHANGED vars
  <2>1. faults' \in Nat /\ faults' >= faults
    BY <1>11 DEF vars, TypeOK
  <2> QED BY <1>q, <1>11, <2>1, WorkUntouched DEF vars
<1> QED BY <1>2, <1>3, <1>4, <1>6, <1>7, <1>8, <1>9, <1>10, <1>11
        DEF CheckpointNext, CheckpointStep, MetaStep, CheckpointsMade

LEMMA FilesInvariant == CheckpointSpec => []FilesInv
<1>1. Init => FilesInv
  BY GridFacts DEF Init, FilesInv, Work, Truthful, NoMeta
<1> QED BY <1>1, FilesStep, TypeCorrect, PaceInvariant, PTL DEF CheckpointSpec

\* A job that only makes checkpoints removes no file.
NoneCleaned == \A r \in Rank : pc[r] \notin {"clean", "done"}

LEMMA NoneCleanedStep ==
    ASSUME TypeOK, NoneCleaned, [CheckpointNext]_vars
    PROVE  NoneCleaned'
<1> SUFFICES ASSUME NEW q \in Rank
             PROVE  pc'[q] \notin {"clean", "done"}
  BY DEF NoneCleaned
<1> USE DEF At, Go, AllAt
<1>q. pc[q] \notin {"clean", "done"} /\ pc \in [Rank -> CheckpointPCs \cup RecoverPCs \cup {"clean", "done"}]
  BY DEF NoneCleaned, TypeOK
<1>1. ASSUME NEW x \in PRank, NEW k, NEW S, EnterXor(x, k, S)
      PROVE  pc'[q] \notin {"clean", "done"}
  BY <1>q, <1>1 DEF EnterXor
<1>2. ASSUME NEW p \in PIDs, NEW k, NEW S, Transfer(p, k, S)
      PROVE  pc'[q] \notin {"clean", "done"}
  BY <1>q, <1>2 DEF Transfer
<1>3. ASSUME NEW r \in Rank, PartnerOpen(r) \/ MetaFails(r)
      PROVE  pc'[q] \notin {"clean", "done"}
  BY <1>q, <1>3 DEF PartnerOpen, MetaFails
<1>4. ASSUME NEW r \in Rank, MetaOpen(r) \/ MetaWrite(r)
      PROVE  pc'[q] \notin {"clean", "done"}
  BY <1>q, <1>4 DEF MetaOpen, MetaWrite, MetaFrom, MetaTo
<1>5. UNCHANGED vars => pc'[q] \notin {"clean", "done"}
  BY <1>q DEF vars
<1> QED BY <1>1, <1>2, <1>3, <1>4, <1>5
        DEF CheckpointNext, CheckpointStep, MetaStep, CheckpointsMade, XorCheckpoint, XorFails, PartnerTransfer, ParityFails

LEMMA NoneIsCleaned == CheckpointSpec => []NoneCleaned
<1>1. Init => NoneCleaned
  BY DEF Init, NoneCleaned
<1> QED BY <1>1, NoneCleanedStep, TypeCorrect, PaceInvariant, PTL DEF CheckpointSpec

\* Valid metadata describes the file beside it, in every state of every job
\* that makes checkpoints, whichever of its MPI calls fail and at whichever turn
\* of their loops: the rank's own data always, its own parity unless a loop of
\* several Reduce_scatters was broken.
THEOREM MetadataIsTruthful == CheckpointSpec => []MetadataTruthful
<1>1. FilesInv /\ NoneCleaned => MetadataTruthful
  BY DEF FilesInv, NoneCleaned, Truthful, Removed, MetadataTruthful
<1> QED BY <1>1, FilesInvariant, NoneIsCleaned, PTL

-----------------------------------------------------------------------------
(* A call none of whose loops was broken.                                  *)

\* No rank is in the middle of a loop.
NoneInLoop == \A r \in Rank : pc[r] # "xor" /\ cp[r].chunks = 0

LEMMA PlainXor ==
    ASSUME TypeOK, NoneInLoop, NEW x \in PRank, XorCheckpoint(x)
    PROVE  /\ \A r \in xcomm(x) : /\ pc[r] = "app" /\ version[r] < MaxVersion /\ pc'[r] = "open"
                                  /\ version'[r] = version[r] + 1 /\ mem'[r] = <<run, version[r] + 1>>
                                  /\ cp'[r] = NewCp(r)
           /\ \A r \in Rank : r \notin xcomm(x) => /\ pc'[r] = pc[r] /\ version'[r] = version[r]
                                                /\ mem'[r] = mem[r] /\ cp'[r] = cp[r]
           /\ meta' = meta /\ file' = file /\ run' = run /\ faults' = faults
           /\ partner' = partner /\ lostpgroup' = lostpgroup
<1> USE DEF At
<1>1. PICK z \in xcomm(x) : EnterXor(x, XorChunks - cp[z].chunks, {})
  BY DEF XorCheckpoint
<1>2. XorChunks \in Nat /\ cp[z].chunks = 0 /\ XorChunks - cp[z].chunks = XorChunks
  BY GridFacts, CheckpointAssumption DEF NoneInLoop
<1>3. EnterXor(x, XorChunks, {})
  BY <1>1, <1>2
<1>4. ASSUME NEW r \in xcomm(x)
      PROVE  /\ pc[r] = "app" /\ version[r] < MaxVersion /\ pc'[r] = "open"
             /\ version'[r] = version[r] + 1 /\ mem'[r] = <<run, version[r] + 1>>
             /\ cp'[r] = NewCp(r)
  <2>1. r \in Rank /\ cp[r].chunks + XorChunks = XorChunks
    BY <1>2, GridFacts DEF NoneInLoop
  <2>2. pc[r] = "app" /\ version[r] < MaxVersion
    BY <1>3, <2>1 DEF EnterXor, InXor, NoneInLoop
  <2>3. Enters(r) = version[r] + 1
    BY <2>2 DEF Enters
  <2> QED BY <1>3, <2>1, <2>2, <2>3 DEF EnterXor
<1> QED BY <1>3, <1>4 DEF EnterXor, XorCheckpoint

LEMMA PlainTransfer ==
    ASSUME TypeOK, NoneInLoop, NEW p \in PIDs, PartnerTransfer(p)
    PROVE  /\ \A r \in pcomm(p) : /\ pc[r] = "transfer" /\ pc'[r] = "meta"
                                  /\ cp'[r] = [cp[r] EXCEPT !.chunks = 0, !.state = FULLDATA]
                                  /\ file'[r] = [file[r] EXCEPT ![Cur(r)] = GatheredFile(p)]
           /\ \A r \in Rank : r \notin pcomm(p) => pc'[r] = pc[r] /\ cp'[r] = cp[r] /\ file'[r] = file[r]
           /\ version' = version /\ mem' = mem /\ meta' = meta /\ run' = run /\ faults' = faults
           /\ partner' = partner /\ lostpgroup' = lostpgroup
<1> USE DEF At, Go
<1>1. PICK z \in pcomm(p) : Transfer(p, Transfers - cp[z].chunks, {})
  BY DEF PartnerTransfer
<1>2. Transfers \in Nat /\ cp[z].chunks = 0 /\ Transfers - cp[z].chunks = Transfers
  BY GridFacts, CheckpointAssumption DEF NoneInLoop, Transfers
<1>3. Transfer(p, Transfers, {})
  BY <1>1, <1>2
<1>4. ASSUME NEW r \in pcomm(p)
      PROVE  /\ pc[r] = "transfer" /\ pc'[r] = "meta"
             /\ cp'[r] = [cp[r] EXCEPT !.chunks = 0, !.state = FULLDATA]
             /\ file'[r] = [file[r] EXCEPT ![Cur(r)] = GatheredFile(p)]
  <2>1. r \in Rank /\ cp[r].chunks = 0 /\ cp[r].chunks + Transfers = Transfers
    BY <1>2, GridFacts DEF NoneInLoop
  <2>2. GatheredPart(p, r, Transfers) = GatheredFile(p)
    <3>1. ~(cp[r].chunks >= DataChunks)
      BY <2>1, CheckpointAssumption
    <3>2. {q \in PRank : cp[<<p, q>>].chunks = cp[r].chunks} = PRank
      BY <2>1, GridFacts DEF NoneInLoop
    <3> QED BY <2>1, <3>1, <3>2 DEF GatheredPart, GatheredFile
  <2> QED BY <1>3, <2>1, <2>2 DEF Transfer
<1>5. \A r \in Rank : r \notin pcomm(p) => pc'[r] = pc[r] /\ cp'[r] = cp[r] /\ file'[r] = file[r]
  BY <1>3 DEF Transfer
<1> QED BY <1>3, <1>4, <1>5 DEF Transfer, PartnerTransfer

-----------------------------------------------------------------------------
(* The kept checkpoints.                                                   *)

\* The checkpoints a rank is bound to hold: between two calls the last CpCount,
\* in a call those but the one whose file the call takes.
Kept(r, v) ==
    v >= 1 /\ v > version[r] - CpCount /\ (v < version[r] \/ (pc[r] = "app" /\ v = version[r]))

KeptInv == faults = 0 => \A r \in Rank : \A v \in Nat : Kept(r, v) => Holds(r, v)

\* What is held stays held while its slot is left alone.
LEMMA HoldsUntouched ==
    ASSUME NEW r \in Rank, NEW v, Holds(r, v),
           meta'[r][slot(v)] = meta[r][slot(v)], file'[r][slot(v)].kind = file[r][slot(v)].kind
    PROVE  Holds(r, v)'
BY DEF Holds, slot

\* A step adds at most one fault, and only below the bound.
LEMMA FaultsGrow ==
    ASSUME [CheckpointNext]_vars
    PROVE  faults' = faults \/ (faults < MaxFaults /\ faults' = faults + 1)
<1>1. CASE UNCHANGED vars
  BY <1>1 DEF vars
<1>2. CASE CheckpointStep
  <2>1. ASSUME NEW x \in PRank, XorCheckpoint(x)
        PROVE  faults' = faults
    BY <2>1 DEF XorCheckpoint
  <2>2. ASSUME NEW x \in PRank, NEW S \in SUBSET xcomm(x), XorFails(x, S)
        PROVE  faults < MaxFaults /\ faults' = faults + 1
    BY <2>2 DEF XorFails
  <2>3. ASSUME NEW r \in Rank, PartnerOpen(r)
        PROVE  faults' = faults
    BY <2>3 DEF PartnerOpen
  <2>4. ASSUME NEW p \in PIDs, PartnerTransfer(p)
        PROVE  faults' = faults
    BY <2>4 DEF PartnerTransfer
  <2>5. ASSUME NEW p \in PIDs, NEW S \in SUBSET pcomm(p), ParityFails(p, S)
        PROVE  faults < MaxFaults /\ faults' = faults + 1
    BY <2>5 DEF ParityFails
  <2>6. ASSUME NEW r \in Rank, MetaFails(r)
        PROVE  faults < MaxFaults /\ faults' = faults + 1
    BY <2>6 DEF MetaFails
  <2> QED BY <1>2, <2>1, <2>2, <2>3, <2>4, <2>5, <2>6 DEF CheckpointStep
<1>3. CASE MetaStep
  BY <1>3 DEF MetaStep, MetaOpen, MetaWrite
<1> QED BY <1>1, <1>2, <1>3 DEF CheckpointNext, CheckpointsMade

LEMMA KeptStep ==
    ASSUME TypeOK, TypeOK', PaceInv, FilesInv, KeptInv, [CheckpointNext]_vars
    PROVE  KeptInv'
<1> SUFFICES ASSUME faults' = 0, NEW q \in Rank, NEW v \in Nat, Kept(q, v)'
             PROVE  Holds(q, v)'
  BY DEF KeptInv
<1> USE DEF At, Go, AllAt
<1>f. faults = 0
  BY FaultsGrow DEF TypeOK
<1>n. NoneInLoop
  BY <1>f, PaceFacts DEF NoneInLoop
<1>k. Kept(q, v) => Holds(q, v)
  BY <1>f DEF KeptInv
<1>s. slot(v) \in Slots
  BY SlotType
<1>i. version[q] \in Nat /\ CpCount \in Nat
  BY CommunityAssumption DEF TypeOK
<1>d. v < version[q] /\ v > version[q] - CpCount => slot(v) # Cur(q)
  BY <1>i, SlotDistinct DEF Cur
<1>1. ASSUME NEW x \in PRank, XorCheckpoint(x)
      PROVE  Holds(q, v)'
  <2>1. Kept(q, v)
    <3>1. CASE q \in xcomm(x)
      <4>1. pc[q] = "app" /\ pc'[q] = "open" /\ version'[q] = version[q] + 1
        BY <1>n, <1>1, <3>1, PlainXor
      <4> QED BY <1>i, <4>1 DEF Kept
    <3>2. CASE q \notin xcomm(x)
      <4>1. pc'[q] = pc[q] /\ version'[q] = version[q]
        BY <1>n, <1>1, <3>2, PlainXor
      <4> QED BY <4>1 DEF Kept
    <3> QED BY <3>1, <3>2
  <2>2. meta' = meta /\ file' = file
    BY <1>n, <1>1, PlainXor
  <2> QED BY <1>k, <2>1, <2>2, HoldsUntouched
<1>3. ASSUME NEW r \in Rank, PartnerOpen(r)
      PROVE  Holds(q, v)'
  <2>1. version' = version /\ pc'[r] = "transfer" /\ \A z \in Rank : z # r => pc'[z] = pc[z]
    BY <1>3 DEF PartnerOpen, TypeOK
  <2>2. \A s \in Slots : s # Cur(q) \/ q # r => meta'[q][s] = meta[q][s] /\ file'[q][s] = file[q][s]
    BY <1>3 DEF PartnerOpen, OpenCpFile, TypeOK
  <2>3. CASE q = r
    <3>1. v < version[q] /\ v > version[q] - CpCount
      BY <2>1, <2>3 DEF Kept
    <3> QED BY <1>k, <1>s, <1>d, <2>2, <3>1, HoldsUntouched DEF Kept
  <2>4. CASE q # r
    BY <1>k, <1>s, <2>1, <2>2, <2>4, HoldsUntouched DEF Kept
  <2> QED BY <2>3, <2>4
<1>4. ASSUME NEW p \in PIDs, PartnerTransfer(p)
      PROVE  Holds(q, v)'
  <2>1. version' = version /\ meta' = meta
    BY <1>n, <1>4, PlainTransfer
  <2>2. CASE q \in pcomm(p)
    <3>1. pc'[q] = "meta"
      BY <1>n, <1>4, <2>2, PlainTransfer
    <3>2. v < version[q] /\ v > version[q] - CpCount
      BY <2>1, <3>1 DEF Kept
    <3>3. \A s \in Slots : s # Cur(q) => file'[q][s] = file[q][s]
      <4>1. file'[q] = [file[q] EXCEPT ![Cur(q)] = GatheredFile(p)]
        BY <1>n, <1>4, <2>2, PlainTransfer
      <4>2. file[q] \in [Slots -> Files]
        BY DEF TypeOK
      <4> QED BY <4>1, <4>2
    <3> QED BY <1>k, <1>s, <1>d, <2>1, <3>2, <3>3, HoldsUntouched DEF Kept
  <2>3. CASE q \notin pcomm(p)
    <3>1. pc'[q] = pc[q] /\ file'[q] = file[q]
      BY <1>n, <1>4, <2>3, PlainTransfer
    <3> QED BY <1>k, <2>1, <3>1, HoldsUntouched DEF Kept
  <2> QED BY <2>2, <2>3
<1>5. ASSUME NEW r \in Rank, MetaOpen(r)
      PROVE  Holds(q, v)'
  <2>1. version' = version /\ file' = file
    BY <1>5 DEF MetaOpen
  <2>2. CASE q = r
    <3>1. pc'[q] \in {"torn", "rtorn", "xtorn"}
      BY <1>5, <2>2 DEF MetaOpen, MetaFrom, TypeOK
    <3>2. v < version[q] /\ v > version[q] - CpCount
      BY <2>1, <3>1 DEF Kept
    <3>3. \A s \in Slots : s # Cur(q) => meta'[q][s] = meta[q][s]
      BY <1>5, <2>2 DEF MetaOpen, TypeOK
    <3> QED BY <1>k, <1>s, <1>d, <2>1, <3>2, <3>3, HoldsUntouched DEF Kept
  <2>3. CASE q # r
    <3>1. pc'[q] = pc[q] /\ meta'[q] = meta[q]
      BY <1>5, <2>3 DEF MetaOpen, TypeOK
    <3> QED BY <1>k, <2>1, <3>1, HoldsUntouched DEF Kept
  <2> QED BY <2>2, <2>3
<1>6. ASSUME NEW r \in Rank, MetaWrite(r)
      PROVE  Holds(q, v)'
  <2>1. version' = version /\ file' = file
    BY <1>6 DEF MetaWrite
  <2>2. CASE q = r /\ v < version[q]
    <3>1. \A s \in Slots : s # Cur(q) => meta'[q][s] = meta[q][s]
      BY <1>6, <2>2 DEF MetaWrite, TypeOK
    <3>2. Holds(q, v) /\ v > version[q] - CpCount
      BY <1>k, <2>1, <2>2 DEF Kept
    <3> QED BY <1>s, <1>d, <2>1, <2>2, <3>1, <3>2, HoldsUntouched
  <2>3. CASE q = r /\ v = version[q]
    <3>1. pc[q] = "torn"
      <4>1. pc[q] \in {"torn", "rtorn", "xtorn"}
        BY <1>6, <2>3 DEF MetaWrite, MetaTo
      <4> QED BY <4>1 DEF PaceInv, CallPCs, CheckpointPCs
    <3>2. /\ Described(q, file[q][Cur(q)], version[q], cp[q].state)
          /\ cp[q].state = FULLDATA /\ cp[q].failoffset = "none"
      BY <1>f, <3>1 DEF FilesInv, Work
    <3>3. slot(v) = Cur(q)
      BY <2>3 DEF Cur
    <3>4. meta'[q][slot(v)] = [is |-> "valid", version |-> v, state |-> FULLDATA, failoffset |-> "none"]
      BY <1>6, <1>s, <2>3, <3>2, <3>3 DEF MetaWrite, TypeOK
    <3>5. file'[q][slot(v)].kind = "whole"
      BY <2>1, <3>2, <3>3 DEF Described
    <3> QED BY <3>4, <3>5 DEF Holds, slot
  <2>4. CASE q # r
    <3>1. pc'[q] = pc[q] /\ meta'[q] = meta[q]
      BY <1>6, <2>4 DEF MetaWrite, TypeOK
    <3> QED BY <1>k, <2>1, <3>1, HoldsUntouched DEF Kept
  <2> QED BY <2>1, <2>2, <2>3, <2>4 DEF Kept
<1>7. CASE UNCHANGED vars
  BY <1>k, <1>7, HoldsUntouched DEF vars, Kept
<1>8. ~ (\E x \in PRank : \E S \in SUBSET xcomm(x) : XorFails(x, S))
      /\ ~ (\E p \in PIDs : \E S \in SUBSET pcomm(p) : ParityFails(p, S))
      /\ ~ (\E r \in Rank : MetaFails(r))
  BY <1>f DEF XorFails, ParityFails, MetaFails
<1> QED BY <1>1, <1>3, <1>4, <1>5, <1>6, <1>7, <1>8
        DEF CheckpointNext, CheckpointStep, MetaStep, CheckpointsMade

LEMMA KeptInvariant == CheckpointSpec => []KeptInv
<1>1. Init => KeptInv
  BY CommunityAssumption DEF Init, KeptInv, Kept
<1>2. TypeOK /\ TypeOK' /\ PaceInv /\ FilesInv /\ KeptInv /\ [CheckpointNext]_vars => KeptInv'
  BY KeptStep
<1> QED BY <1>1, <1>2, TypeCorrect, PaceInvariant, FilesInvariant, PTL DEF CheckpointSpec

\* A rank that keeps two checkpoints or more never gives up a checkpoint for its
\* successor before the whole XOR group holds that checkpoint's predecessor, with
\* its file and its metadata.
THEOREM PreviousIsKept == CpCount >= 2 => (CheckpointSpec => []PreviousKept)
<1> SUFFICES ASSUME CpCount >= 2
             PROVE  CheckpointSpec => []PreviousKept
  OBVIOUS
<1>1. TypeOK /\ PaceInv /\ KeptInv => PreviousKept
  <2> SUFFICES ASSUME TypeOK, PaceInv, KeptInv, faults = 0,
                      NEW r \in Rank, version[r] > 1, NEW s \in xcomm(r[2])
               PROVE  Holds(s, version[r] - 1)
    BY DEF PreviousKept
  <2>1. s \in Rank /\ s[2] = r[2]
    BY GridFacts
  <2>2. version[s] = version[r]
    BY <2>1, PaceFacts
  <2>3. version[r] \in Nat /\ version[r] - 1 \in Nat /\ version[r] - 1 >= 1 /\ CpCount \in Nat
    BY CommunityAssumption DEF TypeOK
  <2>4. Kept(s, version[r] - 1)
    BY <2>2, <2>3 DEF Kept
  <2> QED BY <2>1, <2>3, <2>4 DEF KeptInv
<1> QED BY <1>1, KeptInvariant, TypeCorrect, PaceInvariant, PTL

-----------------------------------------------------------------------------
(* The keys of the hash set.                                               *)

\* The version that had the slot before has it too.
LEMMA SlotAgain ==
    ASSUME NEW v \in Nat, v >= CpCount
    PROVE  slot(v - CpCount) = slot(v)
<1> DEFINE K == CpCount
           a == v \div K
           b == (v - K) \div K
           c == 1 + b - a
           d == (v % K) - ((v - K) % K)
<1>1. K \in Nat /\ K > 0
  BY CommunityAssumption
<1>2. v - K = (K * b) + ((v - K) % K) /\ b \in Int /\ (v - K) % K \in 0 .. K - 1
  BY <1>1
<1>3. v = (K * a) + (v % K) /\ a \in Int /\ v % K \in 0 .. K - 1
  BY <1>1
<1>4. d \in Int /\ d < K /\ d > -K
  BY <1>1, <1>2, <1>3
<1>5. K * c = d /\ c \in Int
  <2>1. (K * 1) + (K * b) - (K * a) = d
    BY <1>1, <1>2, <1>3
  <2> HIDE DEF d, a, b
  <2> QED BY <2>1, <1>1, <1>2, <1>3
<1>6. d = 0
  <2> HIDE DEF c, d, K
  <2>1. CASE c >= 1
    <3>1. K * c >= K
      BY <1>1, <1>5, <2>1
    <3> QED BY <1>1, <1>4, <1>5, <3>1
  <2>2. CASE c <= -1
    <3>1. K * c <= -K
      BY <1>1, <1>5, <2>2
    <3> QED BY <1>1, <1>4, <1>5, <3>1
  <2>3. CASE c = 0
    BY <1>1, <1>5, <2>3
  <2> QED BY <1>5, <2>1, <2>2, <2>3
<1> QED BY <1>2, <1>3, <1>6 DEF slot

\* No metadata is older than the checkpoint whose file comes to be overwritten,
\* and that one goes before the transfer; none is of the checkpoint to be made.
Recent(r) ==
    \A s \in Slots : meta[r][s].is = "valid" =>
        /\ meta[r][s].version + CpCount >= version[r]
        /\ meta[r][s].version + CpCount = version[r] => pc[r] = "open"
        /\ pc[r] = "open" => meta[r][s].version < version[r]

RecentInv == faults = 0 => \A r \in Rank : Recent(r)

LEMMA RecentStep ==
    ASSUME TypeOK, TypeOK', PaceInv, FilesInv, RecentInv, [CheckpointNext]_vars
    PROVE  RecentInv'
<1> SUFFICES ASSUME faults' = 0, NEW q \in Rank
             PROVE  Recent(q)'
  BY DEF RecentInv
<1> USE DEF At, Go, AllAt
<1>f. faults = 0
  BY FaultsGrow DEF TypeOK
<1>n. NoneInLoop
  BY <1>f, PaceFacts DEF NoneInLoop
<1>r. Recent(q)
  BY <1>f DEF RecentInv
<1>c. CpCount \in Nat \ {0}
  BY CommunityAssumption
<1>t. version[q] \in Nat /\ \A s \in Slots : meta[q][s].version \in Nat
  BY DEF TypeOK, Metas
<1>1. ASSUME NEW x \in PRank, XorCheckpoint(x)
      PROVE  Recent(q)'
  <2>1. meta' = meta
    BY <1>n, <1>1, PlainXor
  <2>2. CASE q \in xcomm(x)
    <3>1. pc[q] = "app" /\ pc'[q] = "open" /\ version'[q] = version[q] + 1
      BY <1>n, <1>1, <2>2, PlainXor
    <3>2. \A s \in Slots : meta[q][s].is = "valid" => meta[q][s].version <= version[q]
      BY DEF FilesInv, Truthful
    <3> QED BY <1>r, <1>c, <1>t, <2>1, <3>1, <3>2 DEF Recent
  <2>3. CASE q \notin xcomm(x)
    <3>1. pc'[q] = pc[q] /\ version'[q] = version[q]
      BY <1>n, <1>1, <2>3, PlainXor
    <3> QED BY <1>r, <2>1, <3>1 DEF Recent
  <2> QED BY <2>2, <2>3
<1>3. ASSUME NEW r \in Rank, PartnerOpen(r)
      PROVE  Recent(q)'
  <2>1. version' = version /\ pc'[r] = "transfer" /\ \A z \in Rank : z # r => pc'[z] = pc[z] /\ meta'[z] = meta[z]
    BY <1>3 DEF PartnerOpen, OpenCpFile, TypeOK
  <2>2. CASE q = r
    <3>1. /\ meta'[q][Cur(q)] = NoMeta
          /\ \A s \in Slots : s # Cur(q) => meta'[q][s] = meta[q][s]
      BY <1>3, <1>t, <2>2, SlotType DEF PartnerOpen, OpenCpFile, TypeOK, Cur
    <3>2. ASSUME NEW s \in Slots, s # Cur(q), meta[q][s].is = "valid",
                 meta[q][s].version + CpCount = version[q]
          PROVE  FALSE
      <4>1. slot(meta[q][s].version) = s
        BY <3>2 DEF FilesInv, Truthful
      <4>2. slot(version[q] - CpCount) = slot(version[q])
        BY <1>c, <1>t, <3>2, SlotAgain
      <4>3. meta[q][s].version = version[q] - CpCount
        BY <1>c, <1>t, <3>2
      <4> QED BY <3>2, <4>1, <4>2, <4>3 DEF Cur
    <3> QED BY <1>r, <2>1, <3>1, <3>2 DEF Recent, NoMeta
  <2>3. CASE q # r
    BY <1>r, <2>1, <2>3 DEF Recent
  <2> QED BY <2>2, <2>3
<1>4. ASSUME NEW p \in PIDs, PartnerTransfer(p)
      PROVE  Recent(q)'
  <2>1. version' = version /\ meta' = meta /\ (pc[q] = "open" <=> pc'[q] = "open")
    <3>1. \A z \in Rank : (pc[z] = "open" <=> pc'[z] = "open")
      <4>1. \A z \in pcomm(p) : pc[z] = "transfer" /\ pc'[z] = "meta"
        BY <1>n, <1>4, PlainTransfer
      <4>2. \A z \in Rank : z \notin pcomm(p) => pc'[z] = pc[z]
        BY <1>n, <1>4, PlainTransfer
      <4> QED BY <4>1, <4>2
    <3> QED BY <1>n, <1>4, <3>1, PlainTransfer
  <2> QED BY <1>r, <2>1 DEF Recent
<1>5. ASSUME NEW r \in Rank, MetaOpen(r)
      PROVE  Recent(q)'
  <2>1. version' = version /\ (pc[q] = "open" <=> pc'[q] = "open")
    BY <1>5 DEF MetaOpen, MetaFrom, TypeOK
  <2>2. \A s \in Slots : meta'[q][s] = meta[q][s] \/ meta'[q][s] = TornMeta
    BY <1>5 DEF MetaOpen, TypeOK
  <2>3. TornMeta.is # "valid"
    BY DEF TornMeta, NoMeta
  <2> QED BY <1>r, <2>1, <2>2, <2>3 DEF Recent
<1>6. ASSUME NEW r \in Rank, MetaWrite(r)
      PROVE  Recent(q)'
  <2>1. version' = version /\ (pc[q] = "open" <=> pc'[q] = "open")
    BY <1>6 DEF MetaWrite, MetaTo, TypeOK
  <2>2. \A s \in Slots : \/ meta'[q][s] = meta[q][s]
                         \/ meta'[q][s].version = version[q] /\ pc'[q] # "open"
    BY <1>6 DEF MetaWrite, MetaTo, TypeOK
  <2> QED BY <1>r, <1>c, <1>t, <2>1, <2>2 DEF Recent
<1>7. CASE UNCHANGED vars
  BY <1>r, <1>7 DEF vars, Recent
<1>8. ~ (\E x \in PRank : \E S \in SUBSET xcomm(x) : XorFails(x, S))
      /\ ~ (\E p \in PIDs : \E S \in SUBSET pcomm(p) : ParityFails(p, S))
      /\ ~ (\E r \in Rank : MetaFails(r))
  BY <1>f DEF XorFails, ParityFails, MetaFails
<1> QED BY <1>1, <1>3, <1>4, <1>5, <1>6, <1>7, <1>8
        DEF CheckpointNext, CheckpointStep, MetaStep, CheckpointsMade

LEMMA RecentInvariant == CheckpointSpec => []RecentInv
<1>1. Init => RecentInv
  BY DEF Init, RecentInv, Recent, NoMeta
<1>2. TypeOK /\ TypeOK' /\ PaceInv /\ FilesInv /\ RecentInv /\ [CheckpointNext]_vars => RecentInv'
  BY RecentStep
<1> QED BY <1>1, <1>2, TypeCorrect, PaceInvariant, FilesInvariant, PTL DEF CheckpointSpec

\* Versions that differ by no more than cpcount have different keys.
LEMMA KeysDistinct ==
    ASSUME NEW m \in Nat, NEW n \in Nat, m < n, n <= m + CpCount
    PROVE  hashkey(m) # hashkey(n)
<1> DEFINE K == CpCount + 1
<1>1. K \in Nat \ {0} /\ n - m < K
  BY CommunityAssumption
<1> HIDE DEF K
<1>2. m % K # n % K
  BY <1>1, ModDistinct
<1> QED BY <1>2 DEF K, hashkey

\* The versions that valid metadata presents are close together: a rank whose
\* metadata still has the version its next transfer overwrites is one that no
\* other rank has got ahead of.
LEMMA VersionsNear ==
    ASSUME TypeOK, PaceInv, FilesInv, RecentInv, faults = 0, NEW r \in Rank, NEW s \in Rank, NEW t \in Slots, NEW u \in Slots,
           meta[r][t].is = "valid", meta[s][u].is = "valid"
    PROVE  meta[s][u].version <= meta[r][t].version + CpCount
<1> DEFINE m == meta[r][t].version
           n == meta[s][u].version
           q == <<r[1], s[2]>>
<1>c. CpCount \in Nat \ {0}
  BY CommunityAssumption
<1>t. /\ m \in Nat /\ n \in Nat /\ q \in Rank
      /\ version[r] \in Nat /\ version[s] \in Nat /\ version[q] \in Nat
  BY GridFacts DEF TypeOK, Metas
<1>1. m + CpCount >= version[r] /\ (m + CpCount = version[r] => pc[r] = "open")
  BY DEF RecentInv, Recent
<1>2. n <= version[s]
  BY DEF FilesInv, Truthful
<1>3. version[q] = version[s] /\ Transferred(q) <= Transferred(r)
  <2>1. q[1] = r[1] /\ q[2] = s[2]
    OBVIOUS
  <2>2. Transferred(q) = Transferred(r)
    BY <1>t, <2>1, PaceFacts
  <2>3. Transferred(r) \in Int
    BY <1>t DEF Transferred
  <2> QED BY <1>t, <2>1, <2>2, <2>3, PaceFacts
<1>4. version[q] - 1 <= Transferred(q) /\ Transferred(r) <= version[r]
      /\ (pc[r] = "open" => Transferred(r) = version[r] - 1)
  BY <1>t DEF Transferred
<1>5. Transferred(q) \in Int /\ Transferred(r) \in Int
  BY <1>t DEF Transferred
<1>6. n <= m + CpCount
  <2> HIDE DEF m, n, q
  <2> QED BY <1>c, <1>t, <1>1, <1>2, <1>3, <1>4, <1>5
<1> QED BY <1>6

\* So close that their keys differ.
LEMMA HashKeysHold ==
    ASSUME TypeOK, PaceInv, FilesInv, RecentInv
    PROVE  HashKeysDistinct
<1> SUFFICES ASSUME faults = 0
             PROVE  HashKeysDistinct
  BY DEF HashKeysDistinct
<1>1. ASSUME NEW r \in Rank, NEW s \in Rank, NEW t \in Slots, NEW u \in Slots,
             meta[r][t].is = "valid", meta[s][u].is = "valid",
             meta[r][t].version < meta[s][u].version
      PROVE  hashkey(meta[r][t].version) # hashkey(meta[s][u].version)
  <2>1. meta[s][u].version <= meta[r][t].version + CpCount
    BY <1>1, VersionsNear
  <2>2. meta[r][t].version \in Nat /\ meta[s][u].version \in Nat
    BY DEF TypeOK, Metas
  <2> QED BY <1>1, <2>1, <2>2, KeysDistinct
<1>2. \A r \in Rank : \A t \in Slots : meta[r][t].version \in Nat
  BY DEF TypeOK, Metas
<1> QED BY <1>1, <1>2 DEF HashKeysDistinct

\* The hash set of cpcount + 1 entries is exactly large enough, for any number
\* of kept checkpoints: no two versions that the ranks present share a key.
THEOREM HashHoldsAll == CheckpointSpec => []HashKeysDistinct
<1>1. TypeOK /\ PaceInv /\ FilesInv /\ RecentInv => HashKeysDistinct
  BY HashKeysHold
<1> QED BY <1>1, RecentInvariant, TypeCorrect, PaceInvariant, FilesInvariant, PTL

-----------------------------------------------------------------------------
(* Refinement of Pace.                                                     *)

\* Without failed calls, the XOR groups and the partner groups take turns: the
\* steps of all ranks together are steps of Pace, for any number of groups.
THEOREM PaceImplemented == MaxFaults = 0 => (CheckpointSpec => PaceOf!PaceSafety)
<1> SUFFICES ASSUME MaxFaults = 0
             PROVE  CheckpointSpec => PaceOf!PaceSafety
  OBVIOUS
<1>w. Witness \in PIDs
  <2>1. PIDs # {}
    BY GridAssumption, FS_EmptySet
  <2> QED BY <2>1 DEF Witness
<1>1. Init => PaceOf!PaceInit
  <2> SUFFICES ASSUME Init
               PROVE  PaceOf!PaceInit
    OBVIOUS
  <2>1. \A x \in PRank : version[<<Witness, x>>] = 0
    BY <1>w, GridFacts DEF Init
  <2>2. \A p \in PIDs : Transferred(<<p, 0>>) = 0
    BY GridFacts DEF Init, Transferred
  <2> QED BY <2>1, <2>2 DEF PaceOf!PaceInit, Computed, Exchanged
<1>2. TypeOK /\ PaceInv /\ faults <= MaxFaults /\ [CheckpointNext]_vars => [PaceOf!PaceNext]_PaceOf!paceVars
  <2> SUFFICES ASSUME TypeOK, PaceInv, faults <= MaxFaults, [CheckpointNext]_vars
               PROVE  [PaceOf!PaceNext]_PaceOf!paceVars
    OBVIOUS
  <2>f. faults = 0
    BY DEF TypeOK
  <2>n. NoneInLoop
    BY <2>f, PaceFacts DEF NoneInLoop
  <2>x. \A x \in PRank : Computed[x] = version[<<Witness, x>>]
    BY DEF Computed
  <2>p. \A p \in PIDs : Exchanged[p] = Transferred(<<p, 0>>)
    BY DEF Exchanged
  <2>v. \A r \in Rank : Computed[r[2]] = version[r]
    <3> SUFFICES ASSUME NEW r \in Rank
                 PROVE  Computed[r[2]] = version[r]
      OBVIOUS
    <3>1. r[2] \in PRank /\ <<Witness, r[2]>> \in Rank
      BY <1>w, GridFacts
    <3>2. version[<<Witness, r[2]>>] = version[r]
      BY <2>f, <3>1, PaceFacts
    <3> QED BY <2>x, <3>1, <3>2
  <2>t. \A r \in Rank : Exchanged[r[1]] = Transferred(r)
    <3> SUFFICES ASSUME NEW r \in Rank
                 PROVE  Exchanged[r[1]] = Transferred(r)
      OBVIOUS
    <3> DEFINE u == <<r[1], 0>>
    <3>1. u \in Rank /\ u[1] = r[1]
      BY GridFacts
    <3>2. Transferred(u) \in Int /\ Transferred(r) \in Int
      BY <3>1 DEF Transferred, TypeOK
    <3>3. Transferred(u) <= Transferred(r) /\ Transferred(r) <= Transferred(u)
      BY <2>f, <3>1, <3>2, PaceFacts
    <3>4. r[1] \in PIDs
      BY GridFacts
    <3>5. Exchanged[r[1]] = Transferred(u)
      BY <2>p, <3>4
    <3> HIDE DEF u
    <3> QED BY <3>2, <3>3, <3>5
  <2>1. ASSUME NEW x \in PRank, XorCheckpoint(x)
        PROVE  PaceOf!Compute(x)
    <3>1. \A r \in xcomm(x) : r \in Rank /\ r[2] = x /\ pc[r] = "app" /\ version[r] < MaxVersion
      BY <2>n, <2>1, GridFacts, PlainXor
    <3>2. \A p \in PIDs : <<p, x>> \in xcomm(x)
      BY GridFacts
    <3>3. Computed[x] < MaxVersion
      BY <1>w, <2>x, <3>1, <3>2
    <3>4. \A p \in PIDs : Exchanged[p] = Computed[x]
      <4> SUFFICES ASSUME NEW p \in PIDs
                   PROVE  Exchanged[p] = Computed[x]
        OBVIOUS
      <4> DEFINE r == <<p, x>>
      <4>1. r \in Rank /\ r[1] = p /\ r[2] = x /\ pc[r] = "app"
        BY <3>1, <3>2
      <4>2. Computed[r[2]] = version[r] /\ Exchanged[r[1]] = Transferred(r)
        BY <2>v, <2>t, <4>1
      <4>3. Transferred(r) = version[r]
        BY <4>1 DEF Transferred
      <4> HIDE DEF r
      <4> QED BY <4>1, <4>2, <4>3
    <3>5. Computed' = [Computed EXCEPT ![x] = @ + 1]
      <4>1. \A y \in PRank : version'[<<Witness, y>>]
               = IF y = x THEN version[<<Witness, y>>] + 1 ELSE version[<<Witness, y>>]
        BY <1>w, <2>n, <2>1, GridFacts, PlainXor
      <4> QED BY <4>1 DEF Computed
    <3>6. Exchanged' = Exchanged
      <4>1. \A r \in Rank : Transferred(r)' = Transferred(r)
        <5>1. ASSUME NEW r \in xcomm(x)
              PROVE  Transferred(r)' = Transferred(r)
          <6>1. /\ pc[r] = "app" /\ pc'[r] = "open" /\ version'[r] = version[r] + 1
                /\ version[r] \in Nat
            BY <2>n, <2>1, <3>1, PlainXor DEF TypeOK
          <6> QED BY <6>1 DEF Transferred
        <5>2. ASSUME NEW r \in Rank, r \notin xcomm(x)
              PROVE  Transferred(r)' = Transferred(r)
          BY <2>n, <2>1, <5>2, PlainXor DEF Transferred
        <5> QED BY <5>1, <5>2
      <4> QED BY <4>1, GridFacts DEF Exchanged
    <3> QED BY <3>3, <3>4, <3>5, <3>6 DEF PaceOf!Compute
  <2>2. ASSUME NEW p \in PIDs, PartnerTransfer(p)
        PROVE  PaceOf!Exchange(p)
    <3>1. \A r \in pcomm(p) : r \in Rank /\ r[1] = p /\ pc[r] = "transfer" /\ pc'[r] = "meta"
      BY <2>n, <2>2, GridFacts, PlainTransfer
    <3>2. version' = version /\ \A r \in Rank : r \notin pcomm(p) => pc'[r] = pc[r]
      BY <2>n, <2>2, PlainTransfer
    <3>3. \A x \in PRank : Computed[x] > Exchanged[p]
      <4> SUFFICES ASSUME NEW x \in PRank
                   PROVE  Computed[x] > Exchanged[p]
        OBVIOUS
      <4> DEFINE r == <<p, x>>
      <4>1. r \in Rank /\ r \in pcomm(p) /\ r[1] = p /\ r[2] = x
        BY GridFacts
      <4>2. Computed[r[2]] = version[r] /\ Exchanged[r[1]] = Transferred(r)
        BY <2>v, <2>t, <4>1
      <4>3. Transferred(r) = version[r] - 1 /\ version[r] \in Int
        BY <3>1, <4>1 DEF Transferred, TypeOK
      <4> HIDE DEF r
      <4> QED BY <4>1, <4>2, <4>3
    <3>4. Exchanged' = [Exchanged EXCEPT ![p] = @ + 1]
      <4>1. ASSUME NEW z \in PIDs
            PROVE  Transferred(<<z, 0>>)' = IF z = p THEN Transferred(<<z, 0>>) + 1 ELSE Transferred(<<z, 0>>)
        <5> DEFINE r == <<z, 0>>
        <5>1. r \in Rank /\ r[1] = z /\ (r \in pcomm(p) <=> z = p)
          BY GridFacts
        <5>2. version[r] \in Int
          BY <5>1 DEF TypeOK
        <5> HIDE DEF r
        <5>3. Transferred(r)' = IF z = p THEN Transferred(r) + 1 ELSE Transferred(r)
          BY <3>1, <3>2, <5>1, <5>2 DEF Transferred
        <5> QED BY <5>3 DEF r
      <4> QED BY <4>1 DEF Exchanged
    <3>5. Computed' = Computed
      BY <3>2 DEF Computed
    <3> QED BY <3>3, <3>4, <3>5 DEF PaceOf!Exchange
  <2>3. ASSUME version' = version, \A r \in Rank : Transferred(r)' = Transferred(r)
        PROVE  UNCHANGED PaceOf!paceVars
    BY <1>w, <2>3, GridFacts DEF PaceOf!paceVars, Computed, Exchanged
  <2>4. ASSUME NEW r \in Rank, PartnerOpen(r) \/ MetaOpen(r) \/ MetaWrite(r)
        PROVE  version' = version /\ \A q \in Rank : Transferred(q)' = Transferred(q)
    <3>1. version' = version /\ \A q \in Rank \ {r} : pc'[q] = pc[q]
      BY <2>4 DEF PartnerOpen, MetaOpen, MetaWrite, Go, TypeOK
    <3>2. pc[r] \in {"xor", "open", "transfer"} <=> pc'[r] \in {"xor", "open", "transfer"}
      BY <2>4 DEF PartnerOpen, MetaOpen, MetaWrite, MetaFrom, MetaTo, At, Go, TypeOK
    <3> QED BY <3>1, <3>2 DEF Transferred
  <2>5. ASSUME UNCHANGED vars
        PROVE  version' = version /\ \A q \in Rank : Transferred(q)' = Transferred(q)
    BY <2>5 DEF vars, Transferred
  <2>6. ~ (faults < MaxFaults)
    BY <2>f
  <2> QED BY <2>1, <2>2, <2>3, <2>4, <2>5, <2>6
          DEF PaceOf!PaceNext, CheckpointNext, CheckpointStep, MetaStep, CheckpointsMade, XorFails, ParityFails, MetaFails
<1>3. Init => faults <= MaxFaults
  BY DEF Init
<1>4. TypeOK /\ faults <= MaxFaults /\ [CheckpointNext]_vars => (faults <= MaxFaults)'
  BY FaultsGrow DEF TypeOK
<1> QED BY <1>1, <1>2, <1>3, <1>4, TypeCorrect, PaceInvariant, PTL DEF CheckpointSpec, PaceOf!PaceSafety
=============================================================================
