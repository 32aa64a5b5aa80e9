--------------------------- MODULE DeliveryProofs ---------------------------
(***************************************************************************)
(* Theorems about a job that is restarted once: that its recovery delivers *)
(* one and the same checkpoint to every rank and may be killed at any      *)
(* point of it, and that the checkpoints it goes on to make are progress.  *)
(* For every grid, every number of kept checkpoints and of lost disks, and *)
(* wherever the first run was killed.                                      *)
(***************************************************************************)
EXTENDS RecoveryProofs

-----------------------------------------------------------------------------
(* What the first run leaves on the disks.                                 *)

\* The data of checkpoint v of the first run, of all members of a group.
IsWhole(f, v) == f.kind = "whole" /\ \A q \in PRank : f.data[q] = <<1, v>> /\ f.parity[q] = <<1, v>>

HasMeta(r, v) == meta[r][slot(v)].is = "valid" /\ meta[r][slot(v)].version = v

\* The metadata of rank r while no call fails: torn only while it is written,
\* and the checkpoint before the one in work is there when a call begins.
Shown(r) ==
    /\ pc[r] \notin {"app", "clean", "done"} => version[r] >= 1
    /\ \A s \in Slots :
        /\ meta[r][s].is = "valid" => /\ meta[r][s].state = FULLDATA /\ meta[r][s].failoffset = "none"
                                      /\ meta[r][s].version >= 1
        /\ meta[r][s].is = "torn" => pc[r] = "torn" /\ s = Cur(r)
    /\ pc[r] = "app" /\ version[r] >= 1 => HasMeta(r, version[r])
    /\ pc[r] = "open" /\ version[r] >= 2 => HasMeta(r, version[r] - 1)

FirstRun == PaceInv /\ FilesInv /\ RecentInv /\ \A r \in Rank : Shown(r)

\* One slot of a disk after the first run, which may have been killed while it
\* removed its files.
Left(r, s) ==
    meta[r][s].is = "valid" =>
        /\ slot(meta[r][s].version) = s /\ meta[r][s].version >= 1
        /\ meta[r][s].state = FULLDATA /\ meta[r][s].failoffset = "none"
        /\ IsWhole(file[r][s], meta[r][s].version) \/ file[r][s].kind = "empty"

\* A rank a was killed while it wrote metadata into the slot of version v of r:
\* either a has nothing newer than v, or r has the successors of v as well.
TornBehind(a, r, s) ==
    meta[a][s].is = "torn" /\ meta[r][s].is = "valid" =>
        \/ \A t \in Slots : meta[a][t].is = "valid" => meta[a][t].version < meta[r][s].version
        \/ HasMeta(r, meta[r][s].version + CpCount - 1)

LeftBehind ==
    /\ \A r \in Rank : \A s \in Slots : Left(r, s)
    /\ HashKeysDistinct
    /\ CpCount >= 2 => \A a, r \in Rank : \A s \in Slots : TornBehind(a, r, s)

-----------------------------------------------------------------------------
(* The recovery of version V.                                              *)

MidPCs == RecoverPCs \ {"load"}
LatePCs == {"local", "xred", "land", "xopen", "xtransfer", "xmeta", "xtorn", "barrier"}
LoadedPCs == LatePCs \ {"local"}
RebuiltPCs == LatePCs \ {"local", "xred"}
ExchangePCs == {"xopen", "xtransfer", "xmeta", "xtorn"}

\* The slot of the version in work has been emptied.
OpenedPCs == {"recv", "rmeta", "rtorn", "xtransfer", "xmeta", "xtorn"}

Full(r) == cp[r].state = FULLDATA

\* Metadata of V whose file is missing.
Orphan(r, V) == meta[r][slot(V)].is = "valid" /\ file[r][slot(V)].kind = "empty"

\* What rank r has of version V on its way through COMB_Recover.
Carries(r, V) ==
    /\ pc[r] \in MidPCs /\ version[r] = V
    /\ pc[r] = "failed" => Orphan(r, V)
    /\ pc[r] = "send" => Full(r)
    /\ pc[r] \in {"recvopen", "recv"} => ~Full(r)
    /\ pc[r] \in {"rmeta", "rtorn"} => Full(r) /\ cp[r].loaded
    /\ pc[r] \in LoadedPCs => cp[r].loaded
    /\ pc[r] \in RebuiltPCs => cp[r].state # NODATA
    /\ pc[r] \in ExchangePCs => cp[r].state = XORDATA
    /\ Full(r) => /\ IsWhole(file[r][slot(V)], V) \/ (Orphan(r, V) /\ ~cp[r].loaded)
                  /\ cp[r].loaded \/ cp[r].failoffset = "none"
    /\ Full(r) /\ cp[r].loaded => mem[r] = <<1, V>> /\ (lostpgroup => cp[r].parity = <<1, V>>)
    /\ cp[r].state = XORDATA => mem[r] = <<1, V>> /\ cp[r].parity = <<1, V>> /\ lostpgroup /\ pc[r] \in RebuiltPCs
    /\ ~Full(r) /\ cp[r].loaded => pc[r] \in LoadedPCs

\* Partners leave the partner phase together, and all of them full or none.
InStep ==
    \A r, q \in Rank : r[1] = q[1] /\ pc[r] \in LatePCs =>
        pc[q] \in LatePCs \cup {"failed"} /\ (Full(r) <=> Full(q))

\* What the negotiation has found out about V: whatever partners cannot provide
\* is one rank of each XOR group at most.
OneLost ==
    \A a, b \in Rank :
        /\ a[2] = b[2] /\ cp[a].state = NODATA /\ cp[b].state = NODATA
        /\ \A q \in pcomm(a[1]) \cup pcomm(b[1]) : ~Full(q)
        => a = b

Carried(V) == (\A r \in Rank : Carries(r, V)) /\ InStep /\ OneLost

-----------------------------------------------------------------------------
(* The disks while version V is recovered.                                 *)

\* Rank r presents version W, or will once the slot of V is opened.
Could(r, W, V) == HasMeta(r, W) /\ \A s \in Slots : s # slot(V) => meta[r][s].is # "torn"

\* V is not presented by those who wait for it, and not from an opened slot.
Waiting(r, V) ==
    /\ ~Full(r) /\ pc[r] # "barrier" => V \notin local_versions(r)
    /\ pc[r] \in OpenedPCs => meta[r][slot(V)].is # "valid"

\* The disks alone are enough for V ...
Enough(V) ==
    \A a, b \in Rank :
        /\ a[2] = b[2] /\ V \notin local_versions(a) /\ V \notin local_versions(b)
        /\ \A q \in pcomm(a[1]) \cup pcomm(b[1]) : V \notin local_fullversions(q)
        => a = b

\* ... never for a newer version, whatever slots are opened for V ...
NoneNewer(V) ==
    \A W \in Nat : W > V /\ (\E r \in Rank : Could(r, W, V)) =>
        \E a, b \in Rank : /\ a # b /\ a[2] = b[2]
                           /\ \A q \in pcomm(a[1]) \cup pcomm(b[1]) : ~Could(q, W, V)

\* ... and the hash set does not let V vanish.
KeyOfOne(V) ==
    \A r \in Rank : \A s \in Slots :
        meta[r][s].is = "valid" /\ hashkey(meta[r][s].version) = hashkey(V) => meta[r][s].version = V

OnDisk(V) == (\A r \in Rank : Waiting(r, V)) /\ Enough(V) /\ NoneNewer(V) /\ KeyOfOne(V)

-----------------------------------------------------------------------------
(* The inductive invariant.                                                *)

SecondRun ==
    \/ AllAt(Rank, "load") /\ LeftBehind
    \/ \E V \in Nat \ {0} : Carried(V) /\ OnDisk(V)
    \/ \A r \in Rank : pc[r] \in CallPCs

JobInv ==
    /\ ParityInv
    /\ faults = 0 /\ run >= 1
    /\ run = 1 => FirstRun
    /\ run = 2 => SecondRun

-----------------------------------------------------------------------------
(* The first run.                                                          *)

LEMMA SlotOfRank ==
    ASSUME TypeOK, NEW r \in Rank
    PROVE  /\ version[r] \in Nat /\ Cur(r) \in Slots
           /\ meta[r] \in [Slots -> Metas] /\ file[r] \in [Slots -> Files] /\ cp[r] \in Cps
BY SlotType DEF TypeOK, Cur

\* The checkpoints of the first run keep what Shown says.
LEMMA ShownStep ==
    ASSUME JobTyped, faults = 0, faults' = 0, FirstRun, CheckpointStep \/ MetaStep, NEW q \in Rank
    PROVE  Shown(q)'
<1> USE DEF At, Go, AllAt
<1>t. TypeOK /\ version[q] \in Nat /\ Cur(q) \in Slots
  BY SlotOfRank DEF JobTyped
<1>s. Shown(q) /\ Work(q) /\ pc[q] \in CallPCs
  BY DEF FirstRun, FilesInv, PaceInv
<1>n. NoneInLoop
  BY PaceFacts DEF FirstRun, JobTyped, NoneInLoop
<1>0. ASSUME pc'[q] = pc[q], version'[q] = version[q], meta'[q] = meta[q]
      PROVE  Shown(q)'
  BY <1>s, <1>0 DEF Shown, HasMeta, Cur
<1>1. ASSUME NEW x \in PRank, XorCheckpoint(x)
      PROVE  Shown(q)'
  <2>1. CASE q \in xcomm(x)
    <3>1. pc[q] = "app" /\ pc'[q] = "open" /\ version'[q] = version[q] + 1 /\ meta' = meta
      BY <1>t, <1>n, <1>1, <2>1, PlainXor
    <3>2. version'[q] - 1 = version[q] /\ (version'[q] >= 2 => version[q] >= 1) /\ version'[q] >= 1
      BY <1>t, <3>1
    <3>3. version'[q] >= 2 => HasMeta(q, version[q] - 1)'
      BY <1>s, <3>1, <3>2 DEF Shown, HasMeta
    <3> QED BY <1>s, <3>1, <3>2, <3>3 DEF Shown
  <2>2. CASE q \notin xcomm(x)
    BY <1>0, <1>t, <1>n, <1>1, <2>2, PlainXor
  <2> QED BY <2>1, <2>2
<1>2. ASSUME NEW r \in Rank, PartnerOpen(r)
      PROVE  Shown(q)'
  <2>1. CASE q = r
    <3>1. /\ pc[q] = "open" /\ pc'[q] = "transfer" /\ version' = version
          /\ \A s \in Slots : meta'[q][s] \in {meta[q][s], NoMeta}
      BY <1>2, <1>t, <2>1 DEF PartnerOpen, OpenCpFile, TypeOK
    <3>2. NoMeta.is \notin {"valid", "torn"}
      BY DEF NoMeta
    <3> QED BY <1>s, <3>1, <3>2 DEF Shown
  <2>2. CASE q # r
    BY <1>0, <1>2, <2>2 DEF PartnerOpen, OpenCpFile
  <2> QED BY <2>1, <2>2
<1>3. ASSUME NEW p \in PIDs, PartnerTransfer(p)
      PROVE  Shown(q)'
  <2>1. version' = version /\ meta' = meta
        /\ (pc'[q] = pc[q] \/ (pc[q] = "transfer" /\ pc'[q] = "meta"))
    BY <1>t, <1>n, <1>3, PlainTransfer
  <2> QED BY <1>0, <1>s, <2>1 DEF Shown
<1>4. ASSUME NEW r \in Rank, MetaOpen(r)
      PROVE  Shown(q)'
  <2>1. CASE q = r
    <3>1. /\ pc[q] = "meta" /\ pc'[q] = "torn" /\ version' = version
          /\ \A s \in Slots : IF s = Cur(q) THEN meta'[q][s] = TornMeta ELSE meta'[q][s] = meta[q][s]
      BY <1>4, <1>s, <1>t, <2>1 DEF MetaOpen, MetaFrom, CallPCs, CheckpointPCs, TypeOK
    <3>2. TornMeta.is = "torn"
      BY DEF TornMeta, NoMeta
    <3> QED BY <1>s, <3>1, <3>2 DEF Shown, Cur
  <2>2. CASE q # r
    BY <1>0, <1>4, <2>2, <1>t DEF MetaOpen, TypeOK
  <2> QED BY <2>1, <2>2
<1>5. ASSUME NEW r \in Rank, MetaWrite(r)
      PROVE  Shown(q)'
  <2>1. CASE q = r
    <3>1. /\ pc[q] = "torn" /\ pc'[q] = "app" /\ version' = version
      BY <1>5, <1>s, <1>t, <2>1 DEF MetaWrite, MetaTo, CallPCs, CheckpointPCs, TypeOK
    <3>2. cp[q].failoffset = "none" /\ cp[q].state = FULLDATA
      BY <1>s, <3>1 DEF Work
    <3>3. meta' = [meta EXCEPT ![q][Cur(q)] =
             [is |-> "valid", version |-> version[q], state |-> FULLDATA, failoffset |-> "none"]]
      BY <1>5, <2>1, <3>2 DEF MetaWrite
    <3>4. \A s \in Slots : IF s = Cur(q)
             THEN meta'[q][s] = [is |-> "valid", version |-> version[q], state |-> FULLDATA, failoffset |-> "none"]
             ELSE meta'[q][s] = meta[q][s]
      BY <1>t, <3>3 DEF TypeOK
    <3>5. version[q] >= 1
      BY <1>s, <3>1 DEF Shown
    <3>6. HasMeta(q, version[q])'
      BY <1>t, <3>1, <3>4 DEF HasMeta, Cur
    <3>7. \A s \in Slots :
             /\ meta'[q][s].is = "valid" => /\ meta'[q][s].state = FULLDATA /\ meta'[q][s].failoffset = "none"
                                            /\ meta'[q][s].version >= 1
             /\ meta'[q][s].is # "torn"
      BY <1>s, <3>1, <3>4, <3>5 DEF Shown
    <3> QED BY <3>1, <3>6, <3>7 DEF Shown
  <2>2. CASE q # r
    BY <1>0, <1>5, <2>2, <1>t DEF MetaWrite, TypeOK
  <2> QED BY <2>1, <2>2
<1>6. ~ (\E x \in PRank : \E S \in SUBSET xcomm(x) : XorFails(x, S))
      /\ ~ (\E p \in PIDs : \E S \in SUBSET pcomm(p) : ParityFails(p, S))
      /\ ~ (\E r \in Rank : MetaFails(r))
  BY DEF XorFails, ParityFails, MetaFails
<1> QED BY <1>1, <1>2, <1>3, <1>4, <1>5, <1>6 DEF CheckpointStep, MetaStep

\* A checkpoint call.
LEMMA FirstRunCall ==
    ASSUME JobTyped, JobTyped', faults = 0, faults' = 0, FirstRun, CheckpointStep \/ MetaStep
    PROVE  FirstRun'
<1>1. [CheckpointNext]_vars
  BY DEF CheckpointNext
<1>2. TypeOK /\ TypeOK' /\ PaceInv /\ FilesInv /\ RecentInv
  BY DEF JobTyped, FirstRun
<1>3. PaceInv' /\ FilesInv' /\ RecentInv'
  BY <1>1, <1>2, PaceStep, FilesStep, RecentStep
<1>4. \A r \in Rank : Shown(r)'
  BY ShownStep
<1> QED BY <1>3, <1>4 DEF FirstRun

\* COMB_Finalize.
Finalizes(r) == Finalize(r) \/ RemoveMeta(r) \/ RemoveFile(r) \/ Cleaned(r)

LEMMA FinalizeFacts ==
    ASSUME TypeOK, NEW r \in Rank, Finalizes(r)
    PROVE  /\ UNCHANGED <<version, mem, cp, lostpgroup, run, faults>>
           /\ <<pc[r], pc'[r]>> \in {<<"app", "clean">>, <<"app", "done">>, <<"clean", "clean">>, <<"clean", "done">>}
           /\ \A q \in Rank : q # r => pc'[q] = pc[q] /\ meta'[q] = meta[q] /\ file'[q] = file[q]
           /\ \A s \in Slots : \/ meta'[r][s] = meta[r][s] /\ file'[r][s] \in {file[r][s], NoFile}
                               \/ meta'[r][s] = NoMeta
           /\ pc[r] = "app" => meta' = meta /\ file' = file
<1> USE DEF At, Go
<1>t. /\ pc \in [Rank -> CheckpointPCs \cup RecoverPCs \cup {"clean", "done"}]
      /\ meta \in [Rank -> [Slots -> Metas]] /\ file \in [Rank -> [Slots -> Files]]
  BY DEF TypeOK
<1>1. CASE Finalize(r) \/ Cleaned(r)
  BY <1>t, <1>1 DEF Finalize, Cleaned
<1>2. CASE RemoveMeta(r)
  <2>1. PICK s \in Slots : meta' = [meta EXCEPT ![r][s] = NoMeta]
    BY <1>2 DEF RemoveMeta
  <2>2. /\ UNCHANGED <<pc, version, mem, cp, lostpgroup, file, run, faults>> /\ pc[r] = "clean"
    BY <1>2 DEF RemoveMeta
  <2> QED BY <1>t, <2>1, <2>2
<1>3. CASE RemoveFile(r)
  <2>1. PICK s \in Slots : file' = [file EXCEPT ![r][s] = NoFile]
    BY <1>3 DEF RemoveFile
  <2>2. /\ UNCHANGED <<pc, version, mem, cp, lostpgroup, meta, run, faults>> /\ pc[r] = "clean"
    BY <1>3 DEF RemoveFile
  <2> QED BY <1>t, <2>1, <2>2
<1> QED BY <1>1, <1>2, <1>3 DEF Finalizes

\* Only its own program counter and disk.
LEMMA PaceEnds ==
    ASSUME TypeOK, TypeOK', PaceInv, NEW r \in Rank, Finalizes(r)
    PROVE  PaceInv'
<1>1. /\ UNCHANGED <<version, cp, faults>>
      /\ pc[r] \in {"app", "clean"} /\ pc'[r] \in {"clean", "done"}
      /\ \A q \in Rank : q # r => pc'[q] = pc[q]
  BY FinalizeFacts
<1>2. \A q \in Rank : /\ Transferred(q)' = Transferred(q) /\ TransferTurn(q)' = TransferTurn(q)
                      /\ XorDone(q)' = XorDone(q) /\ XorTurn(q)' = XorTurn(q)
  BY <1>1 DEF Transferred, TransferTurn, XorDone, XorTurn
<1>3. \A q \in Rank : Turns(q)'
  BY <1>1 DEF PaceInv, Turns
<1>4. \A q \in Rank : pc'[q] \in CallPCs
  BY <1>1 DEF PaceInv, CallPCs
<1>5. \A a, c, d \in Rank : a[2] = c[2] /\ c[1] = d[1] => (XorGap(a, c) + TransferGap(c, d))' <= faults'
  BY <1>1, <1>2 DEF PaceInv, XorGap, TransferGap, Gap
<1> QED BY <1>1, <1>3, <1>4, <1>5 DEF PaceInv

LEMMA FirstRunEnds ==
    ASSUME JobTyped, JobTyped', faults = 0, FirstRun, NEW r \in Rank, Finalizes(r)
    PROVE  FirstRun'
<1>t. TypeOK /\ TypeOK'
  BY DEF JobTyped
<1>1. /\ UNCHANGED <<version, mem, cp, run, faults>>
      /\ pc[r] \in {"app", "clean"} /\ pc'[r] \in {"clean", "done"}
      /\ \A q \in Rank : q # r => pc'[q] = pc[q] /\ meta'[q] = meta[q] /\ file'[q] = file[q]
      /\ \A s \in Slots : \/ meta'[r][s] = meta[r][s] /\ file'[r][s] \in {file[r][s], NoFile}
                          \/ meta'[r][s] = NoMeta
  BY <1>t, FinalizeFacts
<1>n. NoMeta.is \notin {"valid", "torn"} /\ NoFile.kind = "empty"
  BY DEF NoMeta, NoFile
<1>3. PaceInv'
  BY <1>t, PaceEnds DEF FirstRun
<1>4. ASSUME NEW q \in Rank
      PROVE  (Work(q) /\ \A s \in Slots : Truthful(q, s))'
  <2>1. Work(q) /\ \A s \in Slots : Truthful(q, s)
    BY DEF FirstRun, FilesInv
  <2>2. CASE q # r
    <3>1. meta'[q] = meta[q] /\ file'[q] = file[q]
      BY <1>1, <2>2
    <3>2. faults' \in Nat /\ faults' >= faults
      BY <1>1
    <3> QED BY <1>t, <1>1, <2>1, <2>2, <3>1, <3>2, WorkUntouched
  <2>3. CASE q = r
    <3>1. Work(q)'
      BY <1>1, <2>1, <2>3 DEF Work
    <3>2. ASSUME NEW s \in Slots, meta'[q][s].is = "valid"
          PROVE  /\ meta'[q][s] = meta[q][s]
                 /\ file'[q][s] = file[q][s] \/ file'[q][s].kind = "empty"
      BY <1>1, <1>n, <2>3, <3>2
    <3>3. \A f, v, state : Described(q, f, v, state) => Described(q, f, v, state)'
      BY <1>1 DEF Described
    <3>4. ASSUME NEW s \in Slots
          PROVE  Truthful(q, s)'
      BY <1>1, <2>1, <2>3, <3>2, <3>3 DEF Truthful, Removed
    <3> QED BY <3>1, <3>4
  <2> QED BY <2>2, <2>3
<1>5. FilesInv'
  BY <1>4 DEF FilesInv
<1>6. ASSUME NEW q \in Rank
      PROVE  Recent(q)' /\ Shown(q)'
  <2>1. Recent(q) /\ Shown(q)
    BY DEF FirstRun, RecentInv
  <2>2. CASE q # r
    <3>1. pc'[q] = pc[q] /\ version'[q] = version[q] /\ meta'[q] = meta[q]
      BY <1>1, <2>2
    <3> QED BY <2>1, <3>1 DEF Recent, Shown, HasMeta, Cur
  <2>3. CASE q = r
    <3>1. \A s \in Slots : meta'[q][s] = meta[q][s] \/ meta'[q][s].is \notin {"valid", "torn"}
      BY <1>1, <1>n, <2>3
    <3>2. pc'[q] \in {"clean", "done"} /\ pc[q] \in {"app", "clean"} /\ version'[q] = version[q]
      BY <1>1, <2>3
    <3>3. Recent(q)'
      BY <2>1, <3>1, <3>2 DEF Recent
    <3>4. Shown(q)'
      BY <2>1, <3>1, <3>2 DEF Shown
    <3> QED BY <3>3, <3>4
  <2> QED BY <2>2, <2>3
<1>7. RecentInv' /\ \A q \in Rank : Shown(q)'
  BY <1>6 DEF RecentInv
<1> QED BY <1>3, <1>5, <1>7 DEF FirstRun

\* All ranks are between two calls.
LEMMA PaceLevel ==
    ASSUME NEW v \in Nat, \A r \in Rank : pc[r] = "app" /\ version[r] = v /\ cp[r].chunks = 0, faults = 0
    PROVE  PaceInv
<1>1. \A r \in Rank : Turns(r) /\ pc[r] \in CallPCs
  BY DEF Turns, CallPCs, CheckpointPCs
<1>2. \A r \in Rank : XorDone(r) = v /\ Transferred(r) = v /\ XorTurn(r) = 0 /\ TransferTurn(r) = 0
  BY DEF XorDone, Transferred, XorTurn, TransferTurn
<1>3. \A r, s \in Rank : XorGap(r, s) = 0 /\ TransferGap(r, s) = 0
  BY <1>2 DEF XorGap, TransferGap, Gap
<1> QED BY <1>1, <1>3 DEF PaceInv

\* The same after a step.
LEMMA PaceLevelPrimed ==
    ASSUME NEW v \in Nat, \A r \in Rank : pc'[r] = "app" /\ version'[r] = v /\ cp'[r].chunks = 0, faults' = 0
    PROVE  PaceInv'
<1>1. \A r \in Rank : Turns(r)' /\ pc'[r] \in CallPCs
  BY DEF Turns, CallPCs, CheckpointPCs
<1>2. \A r \in Rank : XorDone(r)' = v /\ Transferred(r)' = v /\ XorTurn(r)' = 0 /\ TransferTurn(r)' = 0
  BY DEF XorDone, Transferred, XorTurn, TransferTurn
<1>3. \A r, s \in Rank : XorGap(r, s)' = 0 /\ TransferGap(r, s)' = 0
  BY <1>2 DEF XorGap, TransferGap, Gap
<1> QED BY <1>1, <1>3 DEF PaceInv

\* Where the exploration starts: nothing done yet, or one checkpoint complete.
LEMMA FirstRunStart ==
    ASSUME CombinedInit, MaxFaults = 0
    PROVE  FirstRun /\ faults = 0 /\ run = 1
<1>c. CpCount \in Nat \ {0} /\ StartVersion \in Nat
  BY CommunityAssumption, CombinedAssumption
<1>1. CASE StartVersion = 0
  <2>1. Init
    BY <1>1 DEF CombinedInit
  <2>2. PaceInv
    BY <2>1, PaceInit
  <2>3. FilesInv
    BY <2>1, GridFacts DEF Init, FilesInv, Work, Truthful, NoMeta
  <2>4. RecentInv
    BY <2>1 DEF Init, RecentInv, Recent, NoMeta
  <2>5. \A r \in Rank : Shown(r)
    BY <2>1 DEF Init, Shown, NoMeta
  <2> QED BY <2>1, <2>2, <2>3, <2>4, <2>5 DEF FirstRun, Init
<1>2. CASE StartVersion # 0
  <2> DEFINE V == StartVersion
  <2>1. /\ pc = [r \in Rank |-> "app"]
        /\ version = [r \in Rank |-> V]
        /\ mem = [r \in Rank |-> <<1, V>>]
        /\ run = 1 /\ faults = 0 /\ cp = [r \in Rank |-> NoCp]
        /\ meta = [r \in Rank |-> [s \in Slots |-> IF s = slot(V) THEN AfterCheckpoint(r, V, {}).meta ELSE NoMeta]]
        /\ file = [r \in Rank |-> [s \in Slots |-> IF s = slot(V) THEN AfterCheckpoint(r, V, {}).file ELSE NoFile]]
    BY <1>2 DEF CombinedInit
  <2>2. \A r \in Rank :
          /\ AfterCheckpoint(r, V, {}).meta = [is |-> "valid", version |-> V, state |-> FULLDATA, failoffset |-> "none"]
          /\ AfterCheckpoint(r, V, {}).file = [kind |-> "whole", data |-> [q \in PRank |-> <<1, V>>],
                                               parity |-> [q \in PRank |-> <<1, V>>]]
    BY DEF AfterCheckpoint
  <2>v. V \in Nat /\ V >= 1
    BY <1>c, <1>2
  <2> HIDE DEF V
  <2>3. \A r \in Rank : \A s \in Slots :
          \/ /\ s = slot(V)
             /\ meta[r][s] = [is |-> "valid", version |-> V, state |-> FULLDATA, failoffset |-> "none"]
             /\ file[r][s] = [kind |-> "whole", data |-> [q \in PRank |-> <<1, V>>], parity |-> [q \in PRank |-> <<1, V>>]]
          \/ s # slot(V) /\ meta[r][s] = NoMeta
    BY <2>1, <2>2
  <2>4. PaceInv
    <3>1. \A r \in Rank : pc[r] = "app" /\ version[r] = V /\ cp[r].chunks = 0
      BY <2>1 DEF NoCp
    <3> QED BY <2>v, <2>1, <3>1, PaceLevel
  <2>5. FilesInv
    <3>1. \A r \in Rank : Work(r)
      BY <2>1 DEF Work
    <3>2. ASSUME NEW r \in Rank, NEW s \in Slots, meta[r][s].is = "valid"
          PROVE  /\ slot(meta[r][s].version) = s
                 /\ meta[r][s].version <= version[r]
                 /\ Described(r, file[r][s], meta[r][s].version, meta[r][s].state)
      <4>1. /\ s = slot(V)
            /\ meta[r][s] = [is |-> "valid", version |-> V, state |-> FULLDATA, failoffset |-> "none"]
            /\ file[r][s] = [kind |-> "whole", data |-> [q \in PRank |-> <<1, V>>], parity |-> [q \in PRank |-> <<1, V>>]]
        <5>1. meta[r][s] # NoMeta
          BY <3>2 DEF NoMeta
        <5> QED BY <2>3, <5>1
      <4>2. meta[r][s].version = V /\ meta[r][s].state = FULLDATA /\ version[r] = V
        BY <2>1, <4>1
      <4>3. Described(r, file[r][s], V, FULLDATA)
        BY <2>v, <2>1, <4>1, GridFacts DEF Described
      <4> QED BY <2>v, <4>1, <4>2, <4>3
    <3> QED BY <3>1, <3>2 DEF FilesInv, Truthful
  <2>6. RecentInv
    BY <1>c, <2>v, <2>1, <2>3 DEF RecentInv, Recent, NoMeta
  <2>7. \A r \in Rank : Shown(r)
    <3>1. slot(V) \in Slots
      BY <2>v, SlotType
    <3> QED BY <2>v, <2>1, <2>3, <3>1 DEF Shown, HasMeta, NoMeta
  <2> QED BY <2>1, <2>4, <2>5, <2>6, <2>7 DEF FirstRun
<1> QED BY <1>1, <1>2

-----------------------------------------------------------------------------
(* The first run is killed.                                                *)

\* A rank that is torn in a slot of r: what TornBehind says of them.
LEMMA TornIsBehind ==
    ASSUME JobTyped, faults = 0, FirstRun, CpCount >= 2, NEW a \in Rank, NEW r \in Rank, NEW s \in Slots
    PROVE  TornBehind(a, r, s)
<1> SUFFICES ASSUME meta[a][s].is = "torn", meta[r][s].is = "valid",
                    ~ (\A t \in Slots : meta[a][t].is = "valid" => meta[a][t].version < meta[r][s].version)
             PROVE  HasMeta(r, meta[r][s].version + CpCount - 1)
  BY DEF TornBehind
<1> DEFINE v == meta[r][s].version
           X == version[a]
           q == <<a[1], r[2]>>
<1>t. /\ v \in Nat /\ X \in Nat /\ version[r] \in Nat /\ CpCount \in Nat
      /\ q \in Rank /\ q[1] = a[1] /\ q[2] = r[2] /\ version[q] \in Nat
  BY CommunityAssumption, GridFacts DEF JobTyped, TypeOK, Metas
<1>1. pc[a] = "torn" /\ s = slot(X)
  BY DEF FirstRun, Shown, Cur
<1>2. /\ slot(v) = s /\ v >= 1
      /\ v + CpCount >= version[r] /\ (v + CpCount = version[r] => pc[r] = "open")
      /\ Shown(r)
  BY DEF FirstRun, Shown, FilesInv, Truthful, RecentInv, Recent
<1>3. \A t \in Slots : meta[a][t].is = "valid" => meta[a][t].version \in Nat /\ meta[a][t].version < X
  <2> SUFFICES ASSUME NEW t \in Slots, meta[a][t].is = "valid"
               PROVE  meta[a][t].version \in Nat /\ meta[a][t].version < X
    OBVIOUS
  <2>1. meta[a][t].version \in Nat /\ meta[a][t].version <= X /\ slot(meta[a][t].version) = t
    BY DEF FirstRun, FilesInv, Truthful, JobTyped, TypeOK, Metas
  <2>2. meta[a][t].version # X
    BY <1>1, <2>1
  <2> QED BY <1>t, <2>1, <2>2
<1>4. v < X
  <2> HIDE DEF X, q
  <2>1. ~(X <= v)
    BY <1>t, <1>3
  <2> QED BY <1>t, <2>1
<1>5. X - v >= CpCount
  <2>1. slot(v) = slot(X)
    BY <1>1, <1>2
  <2> HIDE DEF v, X
  <2> QED BY <1>t, <1>4, <2>1, SlotDistinct
<1>6. X <= version[r]
  <2>1. version[q] = version[r] /\ Transferred(a) = Transferred(q)
    BY <1>t, PaceFacts DEF FirstRun, JobTyped
  <2>2. Transferred(a) = X /\ Transferred(q) \in Int /\ Transferred(q) <= version[q]
    BY <1>t, <1>1 DEF Transferred
  <2> QED BY <1>t, <2>1, <2>2
<1>7. v + CpCount = version[r]
  <2> HIDE DEF v, X, q
  <2> QED BY <1>t, <1>2, <1>5, <1>6
<1>8. pc[r] = "open" /\ version[r] >= 2
  BY <1>t, <1>2, <1>7
<1>9. HasMeta(r, version[r] - 1)
  BY <1>2, <1>8 DEF Shown
<1>10. v + CpCount - 1 = version[r] - 1
  BY <1>t, <1>7
<1> QED BY <1>9, <1>10

\* What the first run leaves, and what is left of that on the disks not lost.
LEMMA FirstRunKilled ==
    ASSUME JobTyped, faults = 0, run = 1, FirstRun, NEW L, Crash(L)
    PROVE  AllAt(Rank, "load")' /\ LeftBehind'
<1>t. TypeOK /\ PaceInv /\ FilesInv /\ RecentInv
  BY DEF JobTyped, FirstRun
<1>1. /\ \A r \in Rank : pc'[r] = "load"
      /\ faults' = faults
      /\ \A r \in Rank : \/ meta'[r] = meta[r] /\ file'[r] = file[r]
                         \/ \A s \in Slots : meta'[r][s] = NoMeta
  BY DEF Crash, Go, EmptyDisks
<1>n. NoMeta.is = "absent"
  BY DEF NoMeta
<1>2. \A r \in Rank : \A s \in Slots : meta'[r][s].is # "absent" => meta'[r] = meta[r] /\ file'[r] = file[r]
  BY <1>1, <1>n
<1>3. ASSUME NEW r \in Rank, NEW s \in Slots
      PROVE  Left(r, s)'
  <2>1. SUFFICES ASSUME meta'[r][s].is = "valid"
                 PROVE  /\ slot(meta'[r][s].version) = s /\ meta'[r][s].version >= 1
                        /\ meta'[r][s].state = FULLDATA /\ meta'[r][s].failoffset = "none"
                        /\ IsWhole(file'[r][s], meta'[r][s].version) \/ file'[r][s].kind = "empty"
    BY DEF Left, IsWhole
  <2>2. meta'[r] = meta[r] /\ file'[r] = file[r]
    BY <1>2, <2>1
  <2>3. Shown(r) /\ Truthful(r, s)
    BY <1>t DEF FirstRun, FilesInv
  <2> QED BY <2>1, <2>2, <2>3 DEF Shown, Truthful, Described, Removed, IsWhole
<1>4. HashKeysDistinct'
  <2>1. HashKeysDistinct
    BY <1>t, HashKeysHold
  <2> QED BY <1>1, <1>2, <2>1 DEF HashKeysDistinct, hashkey
<1>5. ASSUME CpCount >= 2, NEW a \in Rank, NEW r \in Rank, NEW s \in Slots
      PROVE  TornBehind(a, r, s)'
  <2>1. TornBehind(a, r, s)
    BY <1>5, TornIsBehind
  <2> QED BY <1>2, <2>1 DEF TornBehind, HasMeta
<1> QED BY <1>1, <1>3, <1>4, <1>5 DEF LeftBehind, AllAt

-----------------------------------------------------------------------------
(* The negotiation.                                                        *)

\* What theoretical_repair says of a version, in terms of what is presented.
LEMMA RepairIsEnough ==
    ASSUME NEW v
    PROVE  repairphase(v, {}) > 0 <=> Enough(v)
<1> DEFINE st == ccommstates(v, {})
<1>1. st \in [Rank -> States]
  BY DEF ccommstates, version_state_in_presented_versions, States
<1>2. \A r \in Rank : local_fullversions(r) \subseteq local_versions(r)
  BY DEF local_fullversions, local_versions, Presented
<1>3. \A r \in Rank : /\ st[r] = NODATA <=> v \notin local_versions(r)
                      /\ st[r] = FULLDATA <=> v \in local_fullversions(r)
  BY <1>2 DEF ccommstates, version_state_in_presented_versions, NODATA, XORDATA, FULLDATA
<1> HIDE DEF st
<1>4. \A r \in Rank : AfterPartner(st)[r] = NODATA
          <=> v \notin local_versions(r) /\ \A q \in pcomm(r[1]) : v \notin local_fullversions(q)
  <2> TAKE r \in Rank
  <2>1. \A q \in pcomm(r[1]) : q \in Rank
    BY GridFacts
  <2> QED BY <1>1, <1>3, <2>1, AfterPartnerNoData
<1>5. repairphase(v, {}) = theoretical_repair(st)
  BY DEF repairphase, st
<1> QED BY <1>1, <1>4, <1>5, RepairUnfolded DEF Enough

\* Between the runs all metadata is that of complete checkpoints.
LEMMA LeftIsFull ==
    ASSUME JobTyped, LeftBehind, NEW r \in Rank, NEW v \in Nat
    PROVE  /\ local_versions(r) = local_fullversions(r)
           /\ v \in local_versions(r) <=> HasMeta(r, v) /\ ~Forgets(r)
<1>1. slot(v) \in Slots
  BY SlotType
<1>2. \A s \in Slots : meta[r][s].is = "valid" => meta[r][s].state = FULLDATA /\ slot(meta[r][s].version) = s
  BY DEF LeftBehind, Left
<1>3. local_versions(r) = local_fullversions(r)
  BY <1>2 DEF local_versions, local_fullversions, Presented
<1>4. v \in local_versions(r) <=> HasMeta(r, v) /\ ~Forgets(r)
  BY <1>1, <1>2 DEF local_versions, Presented, HasMeta
<1> QED BY <1>3, <1>4

\* A rank that is torn in the slot of the chosen version has nothing newer.
LEMMA TornIsOlder ==
    ASSUME JobTyped, faults = 0, LeftBehind, NEW H \in HashSets(ccomm_versions({})), NEW V \in H, V \in Nat,
           repairphase(V, {}) > 0, \A w \in H : repairphase(w, {}) > 0 => w <= V,
           NEW a \in Rank, meta[a][slot(V)].is = "torn", NEW t \in Slots, meta[a][t].is = "valid"
    PROVE  meta[a][t].version < V
<1>c. CpCount \in Nat \ {0} /\ slot(V) \in Slots
  BY CommunityAssumption, SlotType
<1>1. CASE CpCount = 1
  <2>1. Slots = {0}
    BY <1>1 DEF Slots
  <2> QED BY <1>c, <2>1
<1>2. CASE CpCount >= 2
  <2> SUFFICES ASSUME ~(meta[a][t].version < V)
               PROVE  FALSE
    OBVIOUS
  <2> DEFINE U == V + CpCount - 1
  <2>u. U \in Nat /\ U > V
    BY <1>c, <1>2
  <2>1. ASSUME NEW r \in Rank, V \in local_versions(r)
        PROVE  U \in local_fullversions(r) /\ U \in local_versions(r)
    <3>1. HasMeta(r, V) /\ ~Forgets(r)
      BY <2>1, LeftIsFull
    <3>2. TornBehind(a, r, slot(V))
      BY <1>c, <1>2 DEF LeftBehind
    <3>3. HasMeta(r, U)
      BY <3>1, <3>2 DEF TornBehind, HasMeta
    <3> QED BY <2>u, <3>1, <3>3, LeftIsFull
  <2> HIDE DEF U
  <2>2. PICK h \in Rank : V \in local_versions(h)
    BY DEF HashSets, ccomm_versions
  <2>3. U \in H
    <3>1. U \in ccomm_versions({})
      BY <2>1, <2>2 DEF ccomm_versions
    <3> QED BY <3>1, HashSetHolds DEF LeftBehind
  <2>4. Enough(U)
    <3>1. Enough(V)
      BY RepairIsEnough
    <3>2. \A r \in Rank : local_fullversions(r) = local_versions(r)
      BY <2>u, LeftIsFull
    <3>3. \A p \in PIDs : \A q \in pcomm(p) : q \in Rank
      BY GridFacts
    <3>4. \A r \in Rank : r[1] \in PIDs
      BY GridFacts
    <3> QED BY <2>1, <3>1, <3>2, <3>3, <3>4 DEF Enough
  <2>5. U <= V
    BY <2>3, <2>4, RepairIsEnough
  <2> QED BY <2>u, <2>5
<1> QED BY <1>c, <1>1, <1>2

\* COMB_Recover starts: the state it is in after the negotiation.
LEMMA NegotiateCarries ==
    ASSUME ParityInv, faults = 0, LeftBehind, Negotiate
    PROVE  \/ \A r \in Rank : pc'[r] = "app"
           \/ \E V \in Nat \ {0} : Carried(V)' /\ OnDisk(V)'
<1> USE DEF ParityInv, JobTyped
<1>1. PICK H \in HashSets(ccomm_versions({})) :
        LET V == NewestRecoverable(H, {})
        IN  /\ version' = [r \in Rank |-> V]
            /\ IF V = 0 THEN Go(Rank, "app") /\ cp' = [r \in Rank |-> NoCp]
               ELSE Go(Rank, "gather") /\ cp' = [r \in Rank |-> FetchedCp(r, V)]
  BY DEF Negotiate
<1>v. PICK V : V = NewestRecoverable(H, {})
  OBVIOUS
<1>m. meta' = meta /\ file' = file
  BY DEF Negotiate
<1>2. CASE V = 0
  BY <1>1, <1>v, <1>2 DEF Go
<1>3. CASE V # 0
  <2>1. /\ version' = [r \in Rank |-> V]
        /\ pc' = [r \in Rank |-> "gather"]
        /\ cp' = [r \in Rank |-> FetchedCp(r, V)]
    BY <1>1, <1>v, <1>3 DEF Go
  <2>2. /\ V \in Nat \ {0} /\ V \in H /\ repairphase(V, {}) > 0
        /\ \A w \in H : repairphase(w, {}) > 0 => w <= V
    BY <1>v, <1>3, NewestIsGreatest, CommunityAssumption
  <2>s. slot(V) \in Slots
    BY <2>2, SlotType
  <2>3. Enough(V)
    BY <2>2, RepairIsEnough
  <2>4. \A r \in Rank : /\ local_versions(r)' = local_versions(r)
                        /\ local_fullversions(r)' = local_fullversions(r)
    BY <1>m DEF local_versions, local_fullversions, Presented, Forgets
  <2>5. \A r \in Rank : /\ cp'[r].state = IF V \in local_versions(r) THEN FULLDATA ELSE NODATA
                        /\ cp'[r].loaded = FALSE
                        /\ V \in local_versions(r) => cp'[r].failoffset = meta[r][slot(V)].failoffset
    <3> TAKE r \in Rank
    <3>1. cp'[r] = FetchedCp(r, V)
      BY <2>1
    <3>2. FetchedCp(r, V).loaded = FALSE
          /\ (V \in local_versions(r) => FetchedCp(r, V).failoffset = meta[r][slot(V)].failoffset)
      BY DEF FetchedCp, NoCp
    <3>3. FetchedCp(r, V).state = ccommstates(V, {})[r]
      BY <2>2, FetchedAsPresented
    <3>4. local_versions(r) = local_fullversions(r)
      BY <2>2, LeftIsFull
    <3> QED BY <3>1, <3>2, <3>3, <3>4 DEF ccommstates, version_state_in_presented_versions
  <2>6. \A r \in Rank : Full(r)' <=> V \in local_versions(r)
    BY <2>5 DEF Full, NODATA, FULLDATA
  <2>7. ASSUME NEW r \in Rank
        PROVE  Carries(r, V)'
    <3>1. Full(r)' => (IsWhole(file[r][slot(V)], V) \/ Orphan(r, V)) /\ cp'[r].failoffset = "none"
      <4> SUFFICES ASSUME V \in local_versions(r)
                   PROVE  (IsWhole(file[r][slot(V)], V) \/ Orphan(r, V)) /\ cp'[r].failoffset = "none"
        BY <2>6
      <4>1. HasMeta(r, V)
        BY <2>2, LeftIsFull
      <4>2. Left(r, slot(V))
        BY <2>s DEF LeftBehind
      <4> QED BY <2>5, <4>1, <4>2 DEF Left, HasMeta, Orphan
    <3>2. pc'[r] = "gather" /\ version'[r] = V /\ cp'[r].loaded = FALSE /\ cp'[r].state # XORDATA
      BY <2>1, <2>5 DEF NODATA, XORDATA, FULLDATA
    <3> QED BY <1>m, <3>1, <3>2
            DEF Carries, IsWhole, Orphan, MidPCs, RecoverPCs, LatePCs, LoadedPCs, RebuiltPCs, ExchangePCs
  <2>8. InStep'
    BY <2>1 DEF InStep, LatePCs
  <2>9. OneLost'
    <3>1. \A r \in Rank : cp'[r].state = NODATA => V \notin local_versions(r)
      BY <2>5 DEF NODATA, FULLDATA
    <3>2. \A r \in Rank : ~Full(r)' => V \notin local_fullversions(r)
      BY <2>2, <2>6, LeftIsFull
    <3>3. \A r \in Rank : \A q \in pcomm(r[1]) : q \in Rank
      BY GridFacts
    <3> QED BY <2>3, <3>1, <3>2, <3>3 DEF OneLost, Enough
  <2>10. \A r \in Rank : Waiting(r, V)'
    BY <2>1, <2>4, <2>6 DEF Waiting, OpenedPCs
  <2>11. Enough(V)'
    <3>1. \A r \in Rank : \A q \in pcomm(r[1]) : q \in Rank
      BY GridFacts
    <3> QED BY <2>3, <2>4, <3>1 DEF Enough
  <2>12. KeyOfOne(V)'
    <3>1. PICK r \in Rank : V \in local_versions(r)
      BY <2>2 DEF HashSets, ccomm_versions
    <3>2. PICK s \in Slots : meta[r][s].is = "valid" /\ meta[r][s].version = V
      BY <3>1 DEF local_versions, Presented
    <3> QED BY <1>m, <3>2 DEF KeyOfOne, LeftBehind, HashKeysDistinct, hashkey
  <2>13. NoneNewer(V)'
    <3> SUFFICES ASSUME NEW W \in Nat, W > V, NEW r \in Rank, Could(r, W, V)
                 PROVE  \E a, b \in Rank : /\ a # b /\ a[2] = b[2]
                                           /\ \A q \in pcomm(a[1]) \cup pcomm(b[1]) : ~Could(q, W, V)
      BY <1>m DEF NoneNewer, Could, HasMeta
    <3>1. ASSUME NEW q \in Rank, Could(q, W, V)
          PROVE  W \in local_versions(q) /\ W \in local_fullversions(q)
      <4>1. HasMeta(q, W) /\ slot(W) \in Slots
        BY <3>1, SlotType DEF Could
      <4>2. meta[q][slot(V)].is # "torn"
        <5> SUFFICES ASSUME meta[q][slot(V)].is = "torn"
                     PROVE  FALSE
          OBVIOUS
        <5>1. meta[q][slot(W)].is = "valid" /\ meta[q][slot(W)].version = W
          BY <4>1 DEF HasMeta
        <5>2. W < V
          BY <2>2, <4>1, <5>1, TornIsOlder
        <5> QED BY <2>2, <5>2
      <4>3. ~Forgets(q)
        BY <3>1, <4>2 DEF Could, Forgets
      <4> QED BY <4>1, <4>3, LeftIsFull
    <3>2. W \in ccomm_versions({})
      BY <3>1 DEF ccomm_versions
    <3>3. W \in H
      BY <3>2, HashSetHolds DEF LeftBehind
    <3>4. ~(W <= V)
      BY <2>2
    <3>5. ~Enough(W)
      BY <2>2, <3>3, <3>4, RepairIsEnough
    <3>6. \A p \in Rank : \A q \in pcomm(p[1]) : q \in Rank
      BY GridFacts
    <3> QED BY <3>1, <3>5, <3>6 DEF Enough
  <2>14. Carried(V)' /\ OnDisk(V)'
    BY <2>7, <2>8, <2>9, <2>10, <2>11, <2>12, <2>13 DEF Carried, OnDisk
  <2> QED BY <2>2, <2>14
<1> QED BY <1>2, <1>3

-----------------------------------------------------------------------------
(* The steps of COMB_Recover carry the version.                            *)

LEMMA CarriesUntouched ==
    ASSUME NEW V, NEW q \in Rank, Carries(q, V), pc'[q] = pc[q], version'[q] = version[q], mem'[q] = mem[q],
           cp'[q] = cp[q], meta'[q] = meta[q], file'[q] = file[q], lostpgroup' = lostpgroup
    PROVE  Carries(q, V)'
BY DEF Carries, Full, IsWhole, Orphan

\* A step that takes no rank behind the partner phase or back, and changes no
\* rank there from full to not full or back.
Stays(q) ==
    /\ pc'[q] \in LatePCs => pc[q] \in LatePCs
    /\ pc[q] \in LatePCs => pc'[q] \in LatePCs \cup {"failed"}
    /\ pc[q] = "failed" => pc'[q] = "failed"
    /\ pc[q] \in LatePCs \cup {"failed"} => (Full(q)' <=> Full(q))
    /\ Full(q) => Full(q)'
    /\ cp'[q].state = NODATA => cp[q].state = NODATA

LEMMA StillTogether ==
    ASSUME InStep, OneLost, \A q \in Rank : Stays(q)
    PROVE  InStep' /\ OneLost'
<1>1. InStep'
  BY DEF InStep, Stays
<1>2. \A r \in Rank : \A q \in pcomm(r[1]) : q \in Rank
  BY GridFacts
<1>3. OneLost'
  BY <1>2 DEF OneLost, Stays
<1> QED BY <1>1, <1>3

LEMMA CarriedGather ==
    ASSUME NEW V, Carried(V), NEW p \in PIDs, PartnerGather(p)
    PROVE  Carried(V)' /\ \A q \in Rank : Full(q) => Full(q)'
<1> USE DEF Carried, At, AllAt, Go
<1> DEFINE pstates == [q \in PRank |-> cp[<<p, q>>].state = FULLDATA]
           peer == [r \in Rank |-> IF r \in pcomm(p) THEN assign_partner(pstates, r[2]) ELSE partner[r]]
<1>1. /\ UNCHANGED <<version, mem, cp, lostpgroup, meta, file>>
      /\ \A r \in pcomm(p) : r \in Rank /\ pc[r] = "gather"
  BY GridFacts DEF PartnerGather
<1>2. \A r \in pcomm(p) : pstates[r[2]] = Full(r)
  <2> TAKE r \in pcomm(p)
  <2>1. r[2] \in PRank /\ r = <<p, r[2]>>
    BY GridFacts
  <2> QED BY <2>1 DEF Full
<1>f. \A q \in Rank : Full(q) => Full(q)'
  BY <1>1 DEF Full
<1>3. CASE imbalance_partners(pstates)
  <2>1. pc' = [r \in Rank |-> IF r \notin pcomm(p) \/ peer[r] = r[2] THEN pc[r]
                              ELSE IF pstates[r[2]] THEN "send" ELSE "recvopen"]
    BY <1>3 DEF PartnerGather
  <2>2. \A r \in Rank : \/ pc'[r] = pc[r]
                        \/ pc[r] = "gather" /\ pc'[r] = "send" /\ Full(r)
                        \/ pc[r] = "gather" /\ pc'[r] = "recvopen" /\ ~Full(r)
    <3> HIDE DEF peer, pstates
    <3> QED BY <1>1, <1>2, <2>1
  <2>3. \A r \in Rank : Carries(r, V)'
    <3> TAKE r \in Rank
    <3>1. Carries(r, V)
      OBVIOUS
    <3> QED BY <1>1, <2>2, <3>1 DEF Carries, Full, IsWhole, Orphan, MidPCs, RecoverPCs, LatePCs, LoadedPCs, RebuiltPCs, ExchangePCs
  <2>4. InStep' /\ OneLost'
    <3>1. \A q \in Rank : Stays(q)
      BY <1>1, <2>2 DEF Stays, LatePCs, Full
    <3> QED BY <3>1, StillTogether
  <2> QED BY <1>f, <2>3, <2>4
<1>4. CASE ~imbalance_partners(pstates)
  <2>1. pc' = [r \in Rank |-> IF r \in pcomm(p) THEN "local" ELSE pc[r]]
    BY <1>4 DEF PartnerGather
  <2>2. ASSUME NEW r \in pcomm(p), NEW q \in pcomm(p)
        PROVE  Full(r) <=> Full(q)
    <3>1. r[2] \in PRank /\ q[2] \in PRank
      BY GridFacts
    <3>2. pstates[r[2]] = pstates[q[2]]
      <4> HIDE DEF pstates
      <4> QED BY <1>4, <3>1 DEF imbalance_partners
    <3>3. pstates[r[2]] = Full(r) /\ pstates[q[2]] = Full(q)
      BY <1>2
    <3> HIDE DEF pstates
    <3> QED BY <3>2, <3>3
  <2>3. \A r \in Rank : Carries(r, V)'
    <3> TAKE r \in Rank
    <3>1. Carries(r, V)
      OBVIOUS
    <3>2. pc'[r] = pc[r] \/ (pc[r] = "gather" /\ pc'[r] = "local")
      BY <1>1, <2>1
    <3> QED BY <1>1, <3>1, <3>2 DEF Carries, Full, IsWhole, Orphan, MidPCs, RecoverPCs, LatePCs, LoadedPCs, RebuiltPCs, ExchangePCs
  <2>4. InStep'
    <3>1. \A r, q \in Rank : r[1] = q[1] => (r \in pcomm(p) <=> q \in pcomm(p))
      BY GridFacts
    <3> QED BY <1>1, <2>1, <2>2, <3>1 DEF InStep, LatePCs, Full
  <2>5. OneLost'
    BY <1>1 DEF OneLost, Full
  <2> QED BY <1>f, <2>3, <2>4, <2>5
<1> QED BY <1>3, <1>4

\* The receiving side and the exchanging ranks open their files.
LEMMA CarriedOpen ==
    ASSUME JobTyped, NEW V, Carried(V), NEW r \in Rank, ReceiverOpen(r) \/ ExchangeOpen(r)
    PROVE  Carried(V)'
<1> USE DEF Carried, At, Go
<1>1. /\ UNCHANGED <<version, mem, cp, lostpgroup>>
      /\ \/ pc[r] = "recvopen" /\ pc'[r] = "recv"
         \/ pc[r] = "xopen" /\ pc'[r] = "xtransfer"
      /\ \A q \in Rank : q # r => pc'[q] = pc[q] /\ meta'[q] = meta[q] /\ file'[q] = file[q]
  BY DEF ReceiverOpen, ExchangeOpen, OpenCpFile, JobTyped, TypeOK
<1>2. ~Full(r)
  <2>1. Carries(r, V)
    OBVIOUS
  <2> QED BY <1>1, <2>1 DEF Carries, ExchangePCs, Full, XORDATA, FULLDATA
<1>3. \A q \in Rank : Carries(q, V)'
  <2> TAKE q \in Rank
  <2>1. Carries(q, V)
    OBVIOUS
  <2>2. CASE q # r
    BY <1>1, <2>1, <2>2, CarriesUntouched
  <2>3. CASE q = r
    BY <1>1, <1>2, <2>1, <2>3 DEF Carries, Full, MidPCs, RecoverPCs, LatePCs, LoadedPCs, RebuiltPCs, ExchangePCs
  <2> QED BY <2>2, <2>3
<1>4. \A q \in Rank : Stays(q)
  BY <1>1 DEF Stays, LatePCs, Full
<1> QED BY <1>3, <1>4, StillTogether

\* The data goes from a full partner to one that waits for it.
LEMMA CarriedTransfer ==
    ASSUME JobTyped, NEW V \in Nat, Carried(V), NEW p \in PIDs, NEW s \in pcomm(p), NEW r \in pcomm(p), PairTransfer(s, r)
    PROVE  Carried(V)' /\ \A q \in Rank : Full(q) => Full(q)'
<1> USE DEF Carried, At
<1>0. s \in Rank /\ r \in Rank
  BY GridFacts
<1>1. /\ UNCHANGED <<version, lostpgroup, meta>>
      /\ pc[s] = "send" /\ pc[r] = "recv" /\ pc' = [pc EXCEPT ![s] = "gather", ![r] = "rmeta"]
  BY DEF PairTransfer
<1>2. Carries(s, V) /\ Carries(r, V)
  BY <1>0
<1>3. Full(s) /\ ~Full(r) /\ s # r
  BY <1>1, <1>2 DEF Carries
<1>4. Cur(s) = slot(V) /\ Cur(r) = slot(V) /\ slot(V) \in Slots
  BY <1>2, SlotType DEF Carries, Cur
<1> DEFINE sent == file[s][slot(V)]
<1>5. IsWhole(sent, V)
  <2>1. sent.kind # "empty"
    BY <1>4 DEF PairTransfer, Missing
  <2> QED BY <1>2, <1>3, <2>1 DEF Carries, Orphan
<1>6. ~cp[r].loaded
  BY <1>1, <1>2, <1>3 DEF Carries, LoadedPCs, LatePCs
<1>7. \A q \in Rank : q[2] \in PRank
  BY GridFacts
<1>8. /\ \A q \in Rank : mem'[q] = IF q \in {s, r} /\ ~cp[q].loaded THEN <<1, V>> ELSE mem[q]
      /\ \A q \in Rank : IF q \in {s, r}
            THEN /\ cp'[q].loaded = TRUE /\ cp'[q].state = FULLDATA /\ cp'[q].failoffset = cp[q].failoffset
                 /\ cp'[q].parity = IF ~cp[q].loaded /\ lostpgroup THEN <<1, V>> ELSE cp[q].parity
            ELSE cp'[q] = cp[q]
      /\ \A q \in Rank : q # r => file'[q] = file[q]
      /\ file'[r][slot(V)] = sent
  <2> DEFINE loads == {q \in {s, r} : ~cp[q].loaded}
  <2>1. /\ mem' = [q \in Rank |-> IF q \in loads THEN sent.data[q[2]] ELSE mem[q]]
        /\ cp' = [q \in Rank |->
              IF q \notin {s, r} THEN cp[q]
              ELSE [cp[q] EXCEPT !.loaded = TRUE, !.state = FULLDATA,
                      !.parity = IF q \in loads /\ lostpgroup THEN sent.parity[q[2]] ELSE @]]
        /\ file' = [file EXCEPT ![r][slot(V)] = sent]
    BY <1>4 DEF PairTransfer
  <2>2. \A q \in Rank : sent.data[q[2]] = <<1, V>> /\ sent.parity[q[2]] = <<1, V>>
    BY <1>5, <1>7 DEF IsWhole
  <2>3. \A q \in Rank : cp[q] \in Cps
    BY DEF JobTyped, TypeOK
  <2>4. ASSUME NEW q \in {s, r}
        PROVE  /\ cp'[q].loaded = TRUE /\ cp'[q].state = FULLDATA /\ cp'[q].failoffset = cp[q].failoffset
               /\ cp'[q].parity = IF ~cp[q].loaded /\ lostpgroup THEN <<1, V>> ELSE cp[q].parity
    <3> DEFINE par == IF q \in loads /\ lostpgroup THEN sent.parity[q[2]] ELSE cp[q].parity
    <3>1. q \in Rank
      BY <1>0
    <3>2. cp'[q] = [cp[q] EXCEPT !.loaded = TRUE, !.state = FULLDATA, !.parity = par]
      BY <2>1, <3>1
    <3>3. par = IF ~cp[q].loaded /\ lostpgroup THEN <<1, V>> ELSE cp[q].parity
      BY <2>2, <3>1
    <3> HIDE DEF par
    <3> QED BY <2>3, <3>1, <3>2, <3>3 DEF Cps
  <2>5. \A q \in Rank \ {s, r} : cp'[q] = cp[q]
    BY <2>1
  <2>6. \A q \in Rank : mem'[q] = IF q \in {s, r} /\ ~cp[q].loaded THEN <<1, V>> ELSE mem[q]
    BY <2>1, <2>2
  <2>7. (\A q \in Rank : q # r => file'[q] = file[q]) /\ file'[r][slot(V)] = sent
    BY <1>0, <1>4, <2>1 DEF JobTyped, TypeOK
  <2> QED BY <2>4, <2>5, <2>6, <2>7
<1> HIDE DEF sent
<1>9. \A q \in Rank : Carries(q, V)'
  <2> TAKE q \in Rank
  <2>1. Carries(q, V)
    OBVIOUS
  <2>2. CASE q \notin {s, r}
    <3>1. pc'[q] = pc[q] /\ cp'[q] = cp[q] /\ mem'[q] = mem[q] /\ file'[q] = file[q]
      BY <1>1, <1>8, <2>2 DEF JobTyped, TypeOK
    <3> QED BY <1>1, <2>1, <3>1, CarriesUntouched
  <2>3. CASE q = s
    <3>1. pc'[q] = "gather" /\ file'[q] = file[q]
      BY <1>0, <1>1, <1>3, <1>8, <2>3 DEF JobTyped, TypeOK
    <3>2. Full(q)' /\ cp'[q].loaded /\ IsWhole(file[q][slot(V)], V)
      BY <1>5, <1>8, <2>3 DEF Full, sent
    <3>3. mem'[q] = <<1, V>> /\ (lostpgroup => cp'[q].parity = <<1, V>>)
      BY <1>3, <1>8, <2>1, <2>3 DEF Carries
    <3>4. "gather" \in MidPCs /\ "gather" \notin LatePCs /\ "gather" \notin ExchangePCs
      BY DEF MidPCs, RecoverPCs, LatePCs, LoadedPCs, RebuiltPCs, ExchangePCs
    <3>5. IsWhole(file[q][slot(V)], V)'
      BY <1>1, <3>1, <3>2 DEF IsWhole
    <3> QED BY <1>1, <2>1, <3>1, <3>2, <3>3, <3>4, <3>5
            DEF Carries, Full, IsWhole, MidPCs, RecoverPCs, LatePCs, LoadedPCs, RebuiltPCs, ExchangePCs, XORDATA, FULLDATA
  <2>4. CASE q = r
    <3>1. pc'[q] = "rmeta"
      BY <1>0, <1>1, <1>3, <2>4 DEF JobTyped, TypeOK
    <3>2. Full(q)' /\ cp'[q].loaded /\ IsWhole(file'[q][slot(V)], V)
      BY <1>5, <1>8, <2>4 DEF Full
    <3>3. mem'[q] = <<1, V>> /\ (lostpgroup => cp'[q].parity = <<1, V>>)
      BY <1>6, <1>8, <2>4
    <3> QED BY <1>1, <2>1, <3>1, <3>2, <3>3
            DEF Carries, Full, IsWhole, MidPCs, RecoverPCs, LatePCs, LoadedPCs, RebuiltPCs, ExchangePCs, XORDATA, FULLDATA
  <2> QED BY <2>2, <2>3, <2>4
<1>10. \A q \in Rank : Stays(q)
  <2> TAKE q \in Rank
  <2>1. CASE q \in {s, r}
    <3>1. pc[q] \notin LatePCs /\ pc'[q] \notin LatePCs
      BY <1>0, <1>1, <2>1 DEF LatePCs, JobTyped, TypeOK
    <3>2. pc[q] # "failed"
      BY <1>1, <2>1
    <3> QED BY <1>8, <2>1, <3>1, <3>2 DEF Stays, Full, NODATA, FULLDATA
  <2>2. CASE q \notin {s, r}
    <3>1. pc'[q] = pc[q]
      BY <1>1, <2>2 DEF JobTyped, TypeOK
    <3> QED BY <1>8, <2>2, <3>1 DEF Stays, Full
  <2> QED BY <2>1, <2>2
<1> QED BY <1>9, <1>10, StillTogether DEF Stays

\* The file of the sender is missing: its metadata is not.
LEMMA CarriedFails ==
    ASSUME JobTyped, NEW V \in Nat, Carried(V), NEW s \in Rank, SenderFails(s)
    PROVE  Carried(V)' /\ \A q \in Rank : Full(q) => Full(q)'
<1> USE DEF Carried, At, Go
<1>1. /\ UNCHANGED <<version, mem, cp, lostpgroup, meta, file>>
      /\ pc[s] = "send" /\ pc'[s] = "failed" /\ \A q \in Rank : q # s => pc'[q] = pc[q]
  BY DEF SenderFails
<1>2. Carries(s, V) /\ Full(s) /\ Orphan(s, V)
  <2>1. Carries(s, V) /\ Full(s)
    BY <1>1 DEF Carries
  <2>2. file[s][slot(V)].kind = "empty"
    BY <2>1 DEF SenderFails, Missing, Carries, Cur
  <2> QED BY <2>1, <2>2 DEF Carries, IsWhole
<1>3. Carries(s, V)'
  BY <1>1, <1>2
     DEF Carries, Full, IsWhole, Orphan, MidPCs, RecoverPCs, LatePCs, LoadedPCs, RebuiltPCs, ExchangePCs, XORDATA, FULLDATA
<1>4. \A q \in Rank : Carries(q, V)'
  BY <1>1, <1>3, CarriesUntouched
<1>5. \A q \in Rank : Stays(q) /\ (Full(q) => Full(q)')
  BY <1>1 DEF Stays, LatePCs, Full
<1> QED BY <1>4, <1>5, StillTogether

\* A rank reads its own file, or finds that it has none.
LEMMA CarriedLoad ==
    ASSUME JobTyped, NEW V \in Nat \ {0}, Carried(V), NEW r \in Rank, LoadLocal(r)
    PROVE  Carried(V)' /\ \A q \in Rank : Full(q) => Full(q)'
<1> USE DEF Carried, At, Go
<1>1. /\ UNCHANGED <<version, lostpgroup, meta, file>>
      /\ pc[r] = "local" /\ \A q \in Rank : q # r => pc'[q] = pc[q]
  BY DEF LoadLocal
<1>2. Carries(r, V)
  OBVIOUS
<1>3. Cur(r) = slot(V) /\ r[2] \in PRank /\ cp[r] \in Cps /\ cp \in [Rank -> Cps] /\ mem \in [Rank -> Stamp]
  BY <1>2, GridFacts DEF Carries, Cur, JobTyped, TypeOK
<1>4. cp[r].state # XORDATA
  BY <1>1, <1>2 DEF Carries, RebuiltPCs, LatePCs
<1>5. CASE cp[r].loaded \/ cp[r].state = NODATA
  <2>1. pc'[r] = "xred" /\ mem' = mem /\ cp' = [cp EXCEPT ![r] = [cp[r] EXCEPT !.loaded = TRUE]]
    BY <1>5 DEF LoadLocal
  <2>2. /\ cp'[r].loaded = TRUE /\ cp'[r].state = cp[r].state /\ cp'[r].failoffset = cp[r].failoffset
        /\ cp'[r].parity = cp[r].parity
        /\ \A q \in Rank : q # r => cp'[q] = cp[q]
    BY <1>3, <2>1 DEF Cps
  <2>3. Carries(r, V)'
    BY <1>1, <1>2, <1>4, <1>5, <2>1, <2>2
       DEF Carries, Full, IsWhole, Orphan, MidPCs, RecoverPCs, LatePCs, LoadedPCs, RebuiltPCs, ExchangePCs, NODATA, FULLDATA
  <2>4. \A q \in Rank : Carries(q, V)'
    BY <1>1, <2>1, <2>2, <2>3, CarriesUntouched
  <2>5. \A q \in Rank : Stays(q)
    BY <1>1, <2>1, <2>2 DEF Stays, Full, LatePCs
  <2> QED BY <2>4, <2>5, StillTogether DEF Stays
<1>6. CASE ~(cp[r].loaded \/ cp[r].state = NODATA)
  <2>1. /\ Full(r) /\ cp[r].failoffset = "none" /\ ~cp[r].loaded
        /\ IsWhole(file[r][slot(V)], V) \/ Orphan(r, V)
    <3>1. Full(r)
      BY <1>3, <1>4, <1>6 DEF Full, Cps, States
    <3> QED BY <1>2, <1>6, <3>1 DEF Carries
  <2>2. PICK d \in DataLoads(r, cp[r], file[r][slot(V)]) :
        \E x \in IF lostpgroup THEN ParityLoads(r, cp[r], file[r][slot(V)]) ELSE {Garbage} :
            /\ mem' = [mem EXCEPT ![r] = d]
            /\ IF x = LoadFails \/ Missing(r)
               THEN Go({r}, "failed") /\ UNCHANGED cp
               ELSE Go({r}, "xred") /\ cp' = [cp EXCEPT ![r].loaded = TRUE, ![r].parity = x]
    BY <1>3, <1>6 DEF LoadLocal
  <2>3. PICK x \in IF lostpgroup THEN ParityLoads(r, cp[r], file[r][slot(V)]) ELSE {Garbage} :
            IF x = LoadFails \/ Missing(r) THEN Go({r}, "failed") /\ UNCHANGED cp
            ELSE Go({r}, "xred") /\ cp' = [cp EXCEPT ![r].loaded = TRUE, ![r].parity = x]
    BY <2>2
  <2>m. \A q \in Rank : q # r => mem'[q] = mem[q]
    BY <1>3, <2>2
  <2>4. CASE Missing(r)
    <3>1. Orphan(r, V)
      BY <1>3, <2>1, <2>4 DEF Missing, IsWhole, Orphan
    <3>2. pc'[r] = "failed" /\ cp' = cp
      BY <2>3, <2>4
    <3>3. Carries(r, V)'
      BY <1>1, <1>2, <1>4, <2>1, <3>1, <3>2
         DEF Carries, Full, IsWhole, Orphan, MidPCs, RecoverPCs, LatePCs, LoadedPCs, RebuiltPCs, ExchangePCs, XORDATA, FULLDATA
    <3>4. \A q \in Rank : Carries(q, V)'
      BY <1>1, <2>m, <3>2, <3>3, CarriesUntouched
    <3>5. \A q \in Rank : Stays(q)
      BY <1>1, <3>2 DEF Stays, Full, LatePCs
    <3> QED BY <3>4, <3>5, StillTogether DEF Stays
  <2>5. CASE ~Missing(r)
    <3>1. IsWhole(file[r][slot(V)], V)
      BY <1>3, <2>1, <2>5 DEF Missing, Orphan
    <3>2. DataLoads(r, cp[r], file[r][slot(V)]) = {<<1, V>>}
      BY <1>3, <2>1, <3>1 DEF DataLoads, IsWhole
    <3>3. ParityLoads(r, cp[r], file[r][slot(V)]) = {<<1, V>>}
      BY <1>3, <2>1, <3>1 DEF ParityLoads, IsWhole
    <3>6. x # LoadFails /\ (lostpgroup => x = <<1, V>>)
      BY <2>3, <3>3 DEF LoadFails, Garbage
    <3>7. mem' = [mem EXCEPT ![r] = <<1, V>>]
      BY <2>2, <3>2
    <3>8. pc'[r] = "xred" /\ cp' = [cp EXCEPT ![r] = [cp[r] EXCEPT !.loaded = TRUE, !.parity = x]]
      BY <1>3, <2>3, <2>5, <3>6
    <3>9. /\ cp'[r].loaded = TRUE /\ cp'[r].state = cp[r].state /\ cp'[r].failoffset = cp[r].failoffset
          /\ cp'[r].parity = x
          /\ \A q \in Rank : q # r => cp'[q] = cp[q]
          /\ mem'[r] = <<1, V>>
      BY <1>3, <3>7, <3>8 DEF Cps
    <3>10. Carries(r, V)'
      BY <1>1, <1>2, <1>4, <2>1, <3>1, <3>6, <3>8, <3>9
         DEF Carries, Full, IsWhole, Orphan, MidPCs, RecoverPCs, LatePCs, LoadedPCs, RebuiltPCs, ExchangePCs, NODATA, FULLDATA
    <3>11. \A q \in Rank : Carries(q, V)'
      BY <1>1, <2>m, <3>9, <3>10, CarriesUntouched
    <3>12. \A q \in Rank : Stays(q)
      BY <1>1, <3>8, <3>9 DEF Stays, Full, LatePCs
    <3> QED BY <3>11, <3>12, StillTogether DEF Stays
  <2> QED BY <2>4, <2>5
<1> QED BY <1>5, <1>6

\* The one rank of an XOR group without data gets it from the others.
LEMMA CarriedXor ==
    ASSUME ParityInv, NEW V \in Nat \ {0}, Carried(V), NEW x \in PRank, XorPhase(x)
    PROVE  Carried(V)' /\ \A q \in Rank : Full(q) => Full(q)'
<1> USE DEF Carried, At, AllAt, Go
<1> DEFINE lost == {r \in xcomm(x) : cp[r].state = NODATA}
           value == Rebuilt(xcomm(x) \ lost)
<1>1. /\ UNCHANGED <<version, lostpgroup, meta, file>>
      /\ \A r \in Rank : IF r \in xcomm(x) THEN pc[r] = "xred" /\ pc'[r] = "land" ELSE pc'[r] = pc[r]
  BY GridFacts DEF XorPhase
<1>2. \A r \in xcomm(x) : r \in Rank /\ r[2] = x /\ Carries(r, V) /\ cp[r].loaded /\ cp[r].state # XORDATA
  <2> TAKE r \in xcomm(x)
  <2>1. r \in Rank /\ r[2] = x
    BY GridFacts
  <2>2. Carries(r, V)
    BY <2>1
  <2> QED BY <1>1, <2>1, <2>2 DEF Carries, LoadedPCs, RebuiltPCs, LatePCs
<1>3. ASSUME NEW a \in lost, NEW b \in lost
      PROVE  a = b
  <2>1. a \in Rank /\ b \in Rank /\ a[2] = b[2] /\ cp[a].state = NODATA /\ cp[b].state = NODATA
    BY <1>2
  <2>2. ASSUME NEW c \in {a, b}, NEW q \in pcomm(c[1])
        PROVE  ~Full(q)
    <3>1. q \in Rank /\ q[1] = c[1] /\ c \in Rank /\ pc[c] = "xred"
      BY <1>1, <1>2, GridFacts
    <3>2. ~Full(c)
      BY <2>1 DEF Full, NODATA, FULLDATA
    <3> QED BY <3>1, <3>2 DEF InStep, LatePCs
  <2> QED BY <2>1, <2>2 DEF OneLost
<1>4. lost # {} => lostpgroup
  <2> SUFFICES ASSUME NEW r \in lost, ~lostpgroup
               PROVE  FALSE
    OBVIOUS
  <2>1. r \in Rank /\ pc[r] = "xred" /\ cp[r].state = NODATA
    BY <1>1, <1>2
  <2> QED BY <2>1 DEF ParityInv, NoneIsLost, AfterPhasePCs
<1>5. ASSUME lost # {}
      PROVE  value = <<1, V>>
  <2> DEFINE S == xcomm(x) \ lost
  <2>1. \A q \in S : mem[q] = <<1, V>> /\ cp[q].parity = <<1, V>>
    <3> TAKE q \in S
    <3>1. q \in Rank /\ Carries(q, V) /\ cp[q].loaded /\ cp[q].state # XORDATA /\ cp[q].state # NODATA
      BY <1>2
    <3>2. cp[q].state \in States
      BY <3>1 DEF ParityInv, JobTyped, TypeOK, Cps
    <3>3. Full(q)
      BY <3>1, <3>2 DEF Full, States
    <3> QED BY <1>4, <1>5, <3>1, <3>3 DEF Carries
  <2>2. S # {}
    <3>1. PICK a \in lost : TRUE
      BY <1>5
    <3>2. a \in xcomm(x)
      OBVIOUS
    <3>3. PICK p \in PIDs : p # a[1] /\ p # a[1]
      BY ThirdRow
    <3>4. <<p, x>> \in xcomm(x) /\ <<p, x>> # a
      BY <3>2, <3>3, GridFacts
    <3>5. <<p, x>> \notin lost
      BY <1>3, <3>1, <3>4
    <3> QED BY <3>4, <3>5
  <2> HIDE DEF lost, S
  <2>3. {mem[q] : q \in S} = {<<1, V>>}
    BY <2>1, <2>2
  <2>4. \A t \in {mem[q] : q \in S} : t = <<1, V>>
    BY <2>3
  <2>5. \E t \in {mem[q] : q \in S} : \A q \in S : mem[q] = t /\ cp[q].parity = t
    BY <2>1, <2>3
  <2>6. (CHOOSE t \in {mem[q] : q \in S} : TRUE) = <<1, V>>
    BY <2>3, <2>4
  <2> QED BY <2>5, <2>6 DEF Rebuilt, S
<1>6. \A r \in Rank : \/ r \notin lost /\ mem'[r] = mem[r] /\ cp'[r] = cp[r]
                      \/ /\ r \in lost /\ mem'[r] = <<1, V>>
                         /\ cp'[r] = [cp[r] EXCEPT !.state = XORDATA, !.parity = <<1, V>>]
  <2>1. CASE lost = {}
    <3>1. UNCHANGED <<mem, cp>>
      BY <2>1 DEF XorPhase
    <3> QED BY <2>1, <3>1
  <2>2. CASE lost # {}
    <3>1. ~MoreThanOne(lost)
      BY <1>3 DEF MoreThanOne
    <3>2. /\ mem' = [r \in Rank |-> IF r \in lost THEN value ELSE mem[r]]
          /\ cp' = [r \in Rank |-> IF r \in lost THEN [cp[r] EXCEPT !.state = XORDATA, !.parity = value] ELSE cp[r]]
      BY <2>2, <3>1 DEF XorPhase
    <3>3. value = <<1, V>>
      BY <1>5, <2>2
    <3> HIDE DEF lost, value
    <3> QED BY <3>2, <3>3
  <2> QED BY <2>1, <2>2
<1>7. \A r \in lost : r \in xcomm(x) /\ r \in Rank /\ cp[r].state = NODATA /\ cp[r] \in Cps
  BY <1>2 DEF ParityInv, JobTyped, TypeOK
<1>l. \A r \in xcomm(x) : cp[r].state = NODATA => r \in lost
  OBVIOUS
<1> HIDE DEF lost, value
<1>8. \A r \in lost : cp'[r].state = XORDATA /\ cp'[r].parity = <<1, V>> /\ cp'[r].loaded = cp[r].loaded
  <2> TAKE r \in lost
  <2>1. cp'[r] = [cp[r] EXCEPT !.state = XORDATA, !.parity = <<1, V>>] /\ cp[r] \in Cps
    BY <1>6, <1>7
  <2> QED BY <2>1 DEF Cps
<1>9. \A r \in Rank : Carries(r, V)'
  <2> TAKE r \in Rank
  <2>0. Carries(r, V)
    OBVIOUS
  <2>1. CASE r \notin xcomm(x)
    <3>1. pc'[r] = pc[r] /\ cp'[r] = cp[r] /\ mem'[r] = mem[r]
      BY <1>1, <1>6, <1>7, <2>1
    <3> QED BY <1>1, <2>0, <3>1, CarriesUntouched
  <2>2. CASE r \in xcomm(x) /\ r \notin lost
    <3>1. pc[r] = "xred" /\ pc'[r] = "land" /\ cp'[r] = cp[r] /\ mem'[r] = mem[r] /\ cp[r].state # NODATA
      BY <1>1, <1>6, <1>l, <2>2
    <3> QED BY <1>1, <2>0, <3>1
            DEF Carries, Full, IsWhole, Orphan, MidPCs, RecoverPCs, LatePCs, LoadedPCs, RebuiltPCs, ExchangePCs
  <2>3. CASE r \in lost
    <3>1. pc[r] = "xred" /\ pc'[r] = "land" /\ mem'[r] = <<1, V>> /\ cp'[r].state = XORDATA
          /\ cp'[r].parity = <<1, V>> /\ cp'[r].loaded = cp[r].loaded /\ lostpgroup
      BY <1>1, <1>4, <1>6, <1>7, <1>8, <2>3
    <3> QED BY <1>1, <2>0, <3>1
            DEF Carries, Full, IsWhole, Orphan, MidPCs, RecoverPCs, LatePCs, LoadedPCs, RebuiltPCs, ExchangePCs,
                NODATA, XORDATA, FULLDATA
  <2> QED BY <2>1, <2>2, <2>3
<1>10. \A q \in Rank : Stays(q)
  <2> TAKE q \in Rank
  <2>1. (pc'[q] \in LatePCs <=> pc[q] \in LatePCs) /\ (pc[q] = "failed" => pc'[q] = "failed")
    BY <1>1 DEF LatePCs
  <2>2. CASE q \in lost
    BY <1>7, <1>8, <2>1, <2>2 DEF Stays, Full, NODATA, XORDATA, FULLDATA
  <2>3. CASE q \notin lost
    BY <1>6, <2>1, <2>3 DEF Stays, Full
  <2> QED BY <2>2, <2>3
<1> QED BY <1>9, <1>10, StillTogether DEF Stays

\* The end of COMB_Recover: the groups that were lost altogether write anew.
LEMMA CarriedExchange ==
    ASSUME JobTyped, NEW V \in Nat \ {0}, Carried(V), NEW p \in PIDs, Land(p) \/ ExchangeTransfer(p)
    PROVE  Carried(V)' /\ \A q \in Rank : Full(q) => Full(q)'
<1> USE DEF Carried, At, AllAt, Go
<1>0. \A r \in pcomm(p) : r \in Rank /\ r[1] = p /\ Carries(r, V)
  BY GridFacts
<1>1. /\ UNCHANGED <<version, mem, cp, lostpgroup, meta>>
      /\ \A r \in Rank : \/ pc'[r] = pc[r] /\ file'[r] = file[r]
                         \/ r \in pcomm(p) /\ pc[r] = "land" /\ pc'[r] = "xopen" /\ cp[r].state = XORDATA
                         \/ pc[r] = "land" /\ pc'[r] = "barrier" /\ file'[r] = file[r]
                         \/ pc[r] = "xtransfer" /\ pc'[r] = "xmeta"
  <2>1. CASE Land(p)
    BY <2>1, <1>0 DEF Land
  <2>2. CASE ExchangeTransfer(p)
    <3>1. \A r \in pcomm(p) : pc[r] = "xtransfer"
      BY <2>2 DEF ExchangeTransfer
    <3>2. <<p, 0>> \in pcomm(p)
      <4>1. <<p, 0>> \in Rank /\ <<p, 0>>[1] = p
        BY GridFacts
      <4> QED BY <4>1, GridFacts
    <3>3. lostpgroup
      BY <1>0, <3>1, <3>2 DEF Carries, ExchangePCs
    <3>4. \A q \in Rank : IF q \in pcomm(p) THEN pc'[q] = "xmeta" ELSE pc'[q] = pc[q] /\ file'[q] = file[q]
      BY <2>2, <3>3 DEF ExchangeTransfer
    <3>5. UNCHANGED <<version, mem, cp, lostpgroup, meta>>
      BY <2>2 DEF ExchangeTransfer
    <3> QED BY <3>1, <3>4, <3>5
  <2> QED BY <2>1, <2>2
<1>2. \A r \in Rank : Carries(r, V)'
  <2> TAKE r \in Rank
  <2>1. Carries(r, V)
    OBVIOUS
  <2>2. CASE pc'[r] = pc[r] /\ file'[r] = file[r]
    BY <1>1, <2>1, <2>2, CarriesUntouched
  <2>3. CASE pc'[r] # pc[r] /\ cp[r].state = XORDATA
    BY <1>1, <2>1, <2>3
       DEF Carries, Full, Orphan, MidPCs, RecoverPCs, LatePCs, LoadedPCs, RebuiltPCs, ExchangePCs, XORDATA, FULLDATA
  <2>4. CASE pc[r] = "land" /\ pc'[r] = "barrier" /\ file'[r] = file[r]
    BY <1>1, <2>1, <2>4 DEF Carries, Full, IsWhole, Orphan, MidPCs, RecoverPCs, LatePCs, LoadedPCs, RebuiltPCs, ExchangePCs
  <2>5. pc[r] = "xtransfer" => cp[r].state = XORDATA
    BY <2>1 DEF Carries, ExchangePCs
  <2> QED BY <1>1, <2>2, <2>3, <2>4, <2>5
<1>3. \A q \in Rank : Stays(q)
  BY <1>1 DEF Stays, LatePCs, Full
<1> QED BY <1>2, <1>3, StillTogether DEF Stays

\* The metadata of the repaired checkpoint.
LEMMA CarriedMeta ==
    ASSUME JobTyped, NEW V \in Nat \ {0}, Carried(V), NEW r \in Rank, MetaOpen(r) \/ MetaWrite(r)
    PROVE  Carried(V)'
<1> USE DEF Carried, At
<1>0. Carries(r, V)
  OBVIOUS
<1>1. pc[r] \notin {"meta", "torn"}
  BY <1>0 DEF Carries, MidPCs, RecoverPCs
<1>2. /\ UNCHANGED <<version, mem, cp, lostpgroup, file>>
      /\ <<pc[r], pc'[r]>> \in {<<"rmeta", "rtorn">>, <<"xmeta", "xtorn">>, <<"rtorn", "gather">>, <<"xtorn", "barrier">>}
      /\ \A q \in Rank : q # r => pc'[q] = pc[q] /\ meta'[q] = meta[q]
  <2>1. CASE MetaOpen(r)
    BY <1>1, <2>1 DEF MetaOpen, MetaFrom, JobTyped, TypeOK
  <2>2. CASE MetaWrite(r)
    BY <1>1, <2>2 DEF MetaWrite, MetaTo, JobTyped, TypeOK
  <2> QED BY <2>1, <2>2
<1>3. Carries(r, V)'
  BY <1>0, <1>2 DEF Carries, Full, IsWhole, MidPCs, RecoverPCs, LatePCs, LoadedPCs, RebuiltPCs, ExchangePCs
<1>4. \A q \in Rank : Carries(q, V)'
  BY <1>2, <1>3, CarriesUntouched
<1>5. \A q \in Rank : Stays(q)
  BY <1>2 DEF Stays, LatePCs, Full
<1> QED BY <1>4, <1>5, StillTogether

-----------------------------------------------------------------------------
(* ... and leave it on the disks.                                          *)

\* The slot of V is emptied, torn or described as V; who presents V goes on.
LEMMA DiskKept ==
    ASSUME NEW V \in Nat \ {0}, OnDisk(V),
           \A q \in Rank : \A s \in Slots :
               \/ meta'[q][s] = meta[q][s]
               \/ s = slot(V) /\ (meta'[q][s].is = "valid" => meta'[q][s].version = V),
           \A q \in Rank : /\ V \in local_versions(q) => V \in local_versions(q)'
                           /\ V \in local_fullversions(q) => V \in local_fullversions(q)'
    PROVE  Enough(V)' /\ NoneNewer(V)' /\ KeyOfOne(V)'
<1>0. \A r \in Rank : \A q \in pcomm(r[1]) : q \in Rank
  BY GridFacts
<1>1. Enough(V)'
  BY <1>0 DEF OnDisk, Enough
<1>2. ASSUME NEW W \in Nat, W > V, NEW q \in Rank, Could(q, W, V)'
      PROVE  Could(q, W, V)
  <2>1. slot(W) \in Slots /\ slot(V) \in Slots
    BY SlotType
  <2>2. meta'[q][slot(W)].is = "valid" /\ meta'[q][slot(W)].version = W
    BY <1>2 DEF Could, HasMeta
  <2>3. W # V
    BY <1>2
  <2>4. meta'[q][slot(W)] = meta[q][slot(W)]
    BY <2>1, <2>2, <2>3
  <2>5. \A s \in Slots : s # slot(V) => meta[q][s].is # "torn"
    BY <1>2 DEF Could
  <2> QED BY <2>2, <2>4, <2>5 DEF Could, HasMeta
<1>3. NoneNewer(V)'
  <2> SUFFICES ASSUME NEW W \in Nat, W > V, NEW r \in Rank, Could(r, W, V)'
               PROVE  \E a, b \in Rank : /\ a # b /\ a[2] = b[2]
                                         /\ \A q \in pcomm(a[1]) \cup pcomm(b[1]) : ~Could(q, W, V)'
    BY DEF NoneNewer
  <2>1. Could(r, W, V)
    BY <1>2
  <2>2. PICK a \in Rank, b \in Rank : /\ a # b /\ a[2] = b[2]
                                      /\ \A q \in pcomm(a[1]) \cup pcomm(b[1]) : ~Could(q, W, V)
    BY <2>1 DEF OnDisk, NoneNewer
  <2>3. \A q \in pcomm(a[1]) \cup pcomm(b[1]) : ~Could(q, W, V)'
    BY <1>0, <1>2, <2>2
  <2> QED BY <2>2, <2>3
<1>4. KeyOfOne(V)'
  BY DEF OnDisk, KeyOfOne, hashkey
<1> QED BY <1>1, <1>3, <1>4

\* Who presents V presents it from its slot.
LEMMA PresentedFromSlot ==
    ASSUME SlotTruth, NEW r \in Rank, NEW V, V \in local_versions(r) \/ V \in local_fullversions(r)
    PROVE  V \in local_versions(r) /\ ~Forgets(r) /\ meta[r][slot(V)].is = "valid"
BY DEF SlotTruth, local_versions, local_fullversions, Presented

LEMMA DiskUntouched ==
    ASSUME NEW V \in Nat \ {0}, OnDisk(V), meta' = meta,
           \A q \in Rank : /\ Full(q) => Full(q)'
                           /\ pc[q] = "barrier" => pc'[q] = "barrier"
                           /\ pc'[q] \in OpenedPCs => pc[q] \in OpenedPCs
    PROVE  OnDisk(V)'
<1>1. \A q \in Rank : /\ local_versions(q)' = local_versions(q)
                      /\ local_fullversions(q)' = local_fullversions(q)
  BY DEF local_versions, local_fullversions, Presented, Forgets
<1>2. Enough(V)' /\ NoneNewer(V)' /\ KeyOfOne(V)'
  BY <1>1, DiskKept
<1>3. \A q \in Rank : Waiting(q, V)'
  BY <1>1 DEF OnDisk, Waiting
<1> QED BY <1>2, <1>3 DEF OnDisk

LEMMA OnDiskOpen ==
    ASSUME JobTyped, SlotTruth, SlotTruth', NEW V \in Nat \ {0}, Carried(V), OnDisk(V),
           NEW r \in Rank, ReceiverOpen(r) \/ ExchangeOpen(r)
    PROVE  OnDisk(V)'
<1>0. Carries(r, V) /\ Waiting(r, V) /\ slot(V) \in Slots
  BY SlotType DEF Carried, OnDisk
<1>1. /\ cp' = cp
      /\ pc[r] \in {"recvopen", "xopen"} /\ \A q \in Rank : q # r => pc'[q] = pc[q] /\ meta'[q] = meta[q]
      /\ meta' = [meta EXCEPT ![r][slot(V)] = NoMeta]
  BY <1>0 DEF ReceiverOpen, ExchangeOpen, OpenCpFile, Go, At, Cur, Carries, JobTyped, TypeOK
<1>2. ~Full(r) /\ V \notin local_versions(r) /\ V \notin local_fullversions(r)
  <2>1. ~Full(r) /\ V \notin local_versions(r)
    BY <1>0, <1>1 DEF Carries, Waiting, ExchangePCs, Full, XORDATA, FULLDATA
  <2> QED BY <2>1, PresentedFromSlot
<1>3. /\ \A q \in Rank : \A s \in Slots : \/ meta'[q][s] = meta[q][s]
                                          \/ s = slot(V) /\ meta'[q][s].is # "valid"
      /\ meta'[r][slot(V)].is # "valid"
  BY <1>0, <1>1 DEF NoMeta, JobTyped, TypeOK
<1>4. \A q \in Rank : q # r => /\ local_versions(q)' = local_versions(q)
                               /\ local_fullversions(q)' = local_fullversions(q)
  BY <1>1 DEF local_versions, local_fullversions, Presented, Forgets
<1>5. Enough(V)' /\ NoneNewer(V)' /\ KeyOfOne(V)'
  BY <1>2, <1>3, <1>4, DiskKept
<1>6. V \notin local_versions(r)'
  BY <1>3 DEF SlotTruth, local_versions, Presented
<1>7. \A q \in Rank : Waiting(q, V)'
  <2> TAKE q \in Rank
  <2>1. CASE q = r
    BY <1>3, <1>6, <2>1 DEF Waiting
  <2>2. CASE q # r
    <3>1. Waiting(q, V)
      BY DEF OnDisk
    <3> QED BY <1>1, <1>4, <2>2, <3>1 DEF Waiting, Full
  <2> QED BY <2>1, <2>2
<1> QED BY <1>5, <1>7 DEF OnDisk

LEMMA OnDiskMeta ==
    ASSUME JobTyped, SlotTruth, SlotTruth', NEW V \in Nat \ {0}, Carried(V), OnDisk(V),
           NEW r \in Rank, MetaOpen(r) \/ MetaWrite(r)
    PROVE  OnDisk(V)'
<1>0. Carries(r, V) /\ Waiting(r, V) /\ slot(V) \in Slots /\ version[r] = V /\ Cur(r) = slot(V)
  BY SlotType DEF Carried, OnDisk, Carries, Cur
<1>1. pc[r] \notin {"meta", "torn"}
  BY <1>0 DEF Carries, MidPCs, RecoverPCs
<1>2. /\ cp' = cp
      /\ pc[r] \in OpenedPCs
      /\ \A q \in Rank : q # r => pc'[q] = pc[q] /\ meta'[q] = meta[q]
      /\ \A q \in Rank : \A s \in Slots : ~(q = r /\ s = slot(V)) => meta'[q][s] = meta[q][s]
      /\ \/ pc'[r] \in {"rtorn", "xtorn"} /\ meta'[r][slot(V)] = TornMeta
         \/ pc'[r] = "barrier" /\ meta'[r][slot(V)].version = V
         \/ pc[r] = "rtorn" /\ pc'[r] = "gather" /\ meta'[r][slot(V)].version = V
  <2>1. CASE MetaOpen(r)
    BY <1>0, <1>1, <2>1 DEF MetaOpen, MetaFrom, OpenedPCs, JobTyped, TypeOK
  <2>2. CASE MetaWrite(r)
    <3>1. /\ cp' = cp /\ <<pc[r], pc'[r]>> \in {<<"rtorn", "gather">>, <<"xtorn", "barrier">>}
          /\ \A q \in Rank : q # r => pc'[q] = pc[q]
      BY <1>1, <2>2 DEF MetaWrite, MetaTo, At, JobTyped, TypeOK
    <3>2. PICK fo : meta' = [meta EXCEPT ![r][slot(V)] =
             [is |-> "valid", version |-> V, state |-> cp[r].state, failoffset |-> fo]]
      BY <1>0, <2>2 DEF MetaWrite
    <3>3. /\ \A q \in Rank : q # r => meta'[q] = meta[q]
          /\ \A q \in Rank : \A s \in Slots : ~(q = r /\ s = slot(V)) => meta'[q][s] = meta[q][s]
          /\ meta'[r][slot(V)].version = V
      BY <1>0, <3>2 DEF JobTyped, TypeOK
    <3> QED BY <3>1, <3>3 DEF OpenedPCs
  <2> QED BY <2>1, <2>2
<1>3. V \notin local_versions(r) /\ V \notin local_fullversions(r)
  BY <1>0, <1>2, PresentedFromSlot DEF Waiting
<1>m. \A q \in Rank : q # r => meta'[q] = meta[q]
  BY <1>2
<1>4. \A q \in Rank : q # r => /\ local_versions(q)' = local_versions(q)
                               /\ local_fullversions(q)' = local_fullversions(q)
  BY <1>m DEF local_versions, local_fullversions, Presented, Forgets
<1>t. TornMeta.is = "torn"
  BY DEF TornMeta, NoMeta
<1>5. Enough(V)' /\ NoneNewer(V)' /\ KeyOfOne(V)'
  <2>1. \A q \in Rank : \A s \in Slots :
           \/ meta'[q][s] = meta[q][s]
           \/ s = slot(V) /\ (meta'[q][s].is = "valid" => meta'[q][s].version = V)
    BY <1>2, <1>t
  <2> QED BY <1>3, <1>4, <2>1, DiskKept
<1>6. Waiting(r, V)'
  <2>1. CASE pc'[r] \in {"rtorn", "xtorn"} /\ meta'[r][slot(V)] = TornMeta
    <3>1. Forgets(r)'
      BY <1>0, <1>t, <2>1 DEF Forgets
    <3> QED BY <1>t, <2>1, <3>1 DEF Waiting, local_versions, Presented
  <2>2. CASE pc'[r] = "barrier"
    BY <2>2 DEF Waiting, OpenedPCs
  <2>3. CASE pc[r] = "rtorn" /\ pc'[r] = "gather"
    <3>1. Full(r)'
      BY <1>0, <1>2, <2>3 DEF Carries, Full
    <3> QED BY <2>3, <3>1 DEF Waiting, OpenedPCs
  <2> QED BY <1>2, <2>1, <2>2, <2>3
<1>7. \A q \in Rank : Waiting(q, V)'
  <2> TAKE q \in Rank
  <2>1. CASE q = r
    BY <1>6, <2>1
  <2>2. CASE q # r
    <3>1. Waiting(q, V)
      BY DEF OnDisk
    <3> QED BY <1>2, <1>4, <2>2, <3>1 DEF Waiting, Full
  <2> QED BY <2>1, <2>2
<1> QED BY <1>5, <1>7 DEF OnDisk

-----------------------------------------------------------------------------
(* All steps.                                                              *)

\* Which steps there are where.
LEMMA StepsWhere ==
    /\ CheckpointStep => \E r \in Rank : pc[r] \in CheckpointPCs
    /\ MetaStep => \E r \in Rank : pc[r] \in {"meta", "torn", "rmeta", "rtorn", "xmeta", "xtorn"}
    /\ RecoverStep => \E r \in Rank : pc[r] \in RecoverPCs
    /\ RecoverStep => Negotiate \/ \E r \in Rank : pc[r] \in RecoverPCs \ {"load"}
<1> USE DEF At, AllAt
<1>g. /\ \A p \in PIDs : <<p, 0>> \in Rank /\ <<p, 0>> \in pcomm(p)
      /\ \A x \in PRank : \E r \in Rank : r \in xcomm(x)
  <2>1. \A p \in PIDs : <<p, 0>> \in Rank /\ <<p, 0>> \in pcomm(p)
    <3> TAKE p \in PIDs
    <3>1. <<p, 0>> \in Rank /\ <<p, 0>>[1] = p
      BY GridFacts
    <3> QED BY <3>1, GridFacts
  <2>2. ASSUME NEW x \in PRank
        PROVE  \E r \in Rank : r \in xcomm(x)
    <3>1. PICK q \in Rank : TRUE
      BY SomeRank
    <3>2. q[1] \in PIDs
      BY GridFacts
    <3>3. <<q[1], x>> \in Rank /\ <<q[1], x>>[2] = x
      BY <3>2, GridFacts
    <3> QED BY <3>3, GridFacts
  <2> QED BY <2>1, <2>2
<1>1. CheckpointStep => \E r \in Rank : pc[r] \in CheckpointPCs
  <2>1. ASSUME NEW x \in PRank, NEW k, NEW S \in SUBSET xcomm(x), EnterXor(x, k, S)
        PROVE  \E r \in Rank : pc[r] \in CheckpointPCs
    <3>1. \A r \in xcomm(x) : pc[r] \in {"xor", "app"}
      BY <2>1 DEF EnterXor, InXor
    <3> QED BY <1>g, <3>1 DEF CheckpointPCs
  <2>2. ASSUME NEW p \in PIDs, NEW k, NEW S \in SUBSET pcomm(p), Transfer(p, k, S)
        PROVE  \E r \in Rank : pc[r] \in CheckpointPCs
    BY <1>g, <2>2 DEF Transfer, CheckpointPCs
  <2>3. ASSUME NEW r \in Rank, PartnerOpen(r) \/ MetaFails(r)
        PROVE  pc[r] \in CheckpointPCs
    BY <2>3 DEF PartnerOpen, MetaFails, CheckpointPCs
  <2> QED BY <2>1, <2>2, <2>3 DEF CheckpointStep, XorCheckpoint, XorFails, PartnerTransfer, ParityFails
<1>2. MetaStep => \E r \in Rank : pc[r] \in {"meta", "torn", "rmeta", "rtorn", "xmeta", "xtorn"}
  BY DEF MetaStep, MetaOpen, MetaFrom, MetaWrite, MetaTo
<1>3. Negotiate => \E r \in Rank : pc[r] = "load"
  BY SomeRank DEF Negotiate
<1>4. RecoverStep => Negotiate \/ \E r \in Rank : pc[r] \in RecoverPCs \ {"load"}
  <2>1. ASSUME NEW p \in PIDs, PartnerGather(p) \/ Land(p) \/ ExchangeTransfer(p)
        PROVE  \E r \in Rank : pc[r] \in {"gather", "land", "xtransfer"}
    BY <1>g, <2>1 DEF PartnerGather, Land, ExchangeTransfer
  <2>2. ASSUME NEW r \in Rank, ReceiverOpen(r) \/ SenderFails(r) \/ LoadLocal(r) \/ ExchangeOpen(r)
        PROVE  pc[r] \in {"recvopen", "send", "local", "xopen"}
    BY <2>2 DEF ReceiverOpen, SenderFails, LoadLocal, ExchangeOpen
  <2>3. ASSUME NEW p \in PIDs, NEW s \in pcomm(p), NEW r \in pcomm(p), PairTransfer(s, r)
        PROVE  r \in Rank /\ pc[r] = "recv"
    BY <2>3, GridFacts DEF PairTransfer
  <2>4. ASSUME NEW x \in PRank, XorPhase(x)
        PROVE  \E r \in Rank : pc[r] = "xred"
    <3>1. \A r \in xcomm(x) : pc[r] = "xred"
      BY <2>4 DEF XorPhase
    <3> QED BY <1>g, <3>1
  <2>5. Barrier => \E r \in Rank : pc[r] = "barrier"
    BY SomeRank DEF Barrier
  <2> QED BY <2>1, <2>2, <2>3, <2>4, <2>5 DEF RecoverStep, RecoverPCs
<1> QED BY <1>1, <1>2, <1>3, <1>4 DEF RecoverPCs

\* A step of the recovery of V, up to its end.
LEMMA RecoveryCarries ==
    ASSUME ParityInv, ParityInv', NEW V \in Nat \ {0}, Carried(V), OnDisk(V), RecoverStep \/ MetaStep
    PROVE  \/ \A r \in Rank : pc'[r] = "app"
           \/ Carried(V)' /\ OnDisk(V)'
<1> USE DEF At, AllAt, Go
<1>t. JobTyped /\ SlotTruth /\ SlotTruth' /\ TypeOK
  BY DEF ParityInv, JobTyped
<1>p. \A r \in Rank : pc[r] \in MidPCs
  BY DEF Carried, Carries
<1>0. ~Negotiate
  BY <1>p, SomeRank DEF Negotiate, MidPCs
<1>1. ASSUME NEW p \in PIDs, PartnerGather(p)
      PROVE  Carried(V)' /\ OnDisk(V)'
  <2>1. Carried(V)' /\ \A q \in Rank : Full(q) => Full(q)'
    BY <1>1, CarriedGather
  <2>2. meta' = meta /\ \A q \in Rank : pc'[q] = pc[q] \/ (pc[q] = "gather" /\ pc'[q] \in {"send", "recvopen", "local"})
    <3> DEFINE pstates == [q \in PRank |-> cp[<<p, q>>].state = FULLDATA]
               peer == [r \in Rank |-> IF r \in pcomm(p) THEN assign_partner(pstates, r[2]) ELSE partner[r]]
    <3>1. meta' = meta /\ \A r \in pcomm(p) : pc[r] = "gather"
      BY <1>1 DEF PartnerGather
    <3>2. \/ pc' = [r \in Rank |-> IF r \notin pcomm(p) \/ peer[r] = r[2] THEN pc[r]
                                   ELSE IF pstates[r[2]] THEN "send" ELSE "recvopen"]
          \/ pc' = [r \in Rank |-> IF r \in pcomm(p) THEN "local" ELSE pc[r]]
      BY <1>1 DEF PartnerGather
    <3> HIDE DEF peer, pstates
    <3> QED BY <3>1, <3>2
  <2>3. OnDisk(V)'
    BY <2>1, <2>2, DiskUntouched DEF OpenedPCs
  <2> QED BY <2>1, <2>3
<1>2. ASSUME NEW r \in Rank, ReceiverOpen(r) \/ ExchangeOpen(r)
      PROVE  Carried(V)' /\ OnDisk(V)'
  BY <1>t, <1>2, CarriedOpen, OnDiskOpen
<1>3. ASSUME NEW p \in PIDs, NEW s \in pcomm(p), NEW r \in pcomm(p), PairTransfer(s, r)
      PROVE  Carried(V)' /\ OnDisk(V)'
  <2>1. Carried(V)' /\ \A q \in Rank : Full(q) => Full(q)'
    BY <1>t, <1>3, CarriedTransfer
  <2>2. s \in Rank /\ r \in Rank
    BY GridFacts
  <2>3. meta' = meta /\ pc[s] = "send" /\ pc[r] = "recv" /\ pc' = [pc EXCEPT ![s] = "gather", ![r] = "rmeta"]
    BY <1>3 DEF PairTransfer
  <2>4. \A q \in Rank : \/ pc'[q] = pc[q]
                        \/ pc[q] = "send" /\ pc'[q] = "gather"
                        \/ pc[q] = "recv" /\ pc'[q] = "rmeta"
    BY <1>t, <2>2, <2>3 DEF TypeOK
  <2>5. OnDisk(V)'
    BY <2>1, <2>3, <2>4, DiskUntouched DEF OpenedPCs
  <2> QED BY <2>1, <2>5
<1>4. ASSUME NEW r \in Rank, LoadLocal(r)
      PROVE  Carried(V)' /\ OnDisk(V)'
  <2>1. Carried(V)' /\ \A q \in Rank : Full(q) => Full(q)'
    BY <1>t, <1>4, CarriedLoad
  <2>2. meta' = meta /\ \A q \in Rank : pc'[q] = pc[q] \/ (pc[q] = "local" /\ pc'[q] \in {"xred", "failed"})
    BY <1>4 DEF LoadLocal
  <2>3. OnDisk(V)'
    BY <2>1, <2>2, DiskUntouched DEF OpenedPCs
  <2> QED BY <2>1, <2>3
<1>9. ASSUME NEW r \in Rank, SenderFails(r)
      PROVE  Carried(V)' /\ OnDisk(V)'
  <2>1. Carried(V)' /\ \A q \in Rank : Full(q) => Full(q)'
    BY <1>t, <1>9, CarriedFails
  <2>2. meta' = meta /\ \A q \in Rank : pc'[q] = pc[q] \/ (pc[q] = "send" /\ pc'[q] = "failed")
    BY <1>9 DEF SenderFails
  <2>3. OnDisk(V)'
    BY <2>1, <2>2, DiskUntouched DEF OpenedPCs
  <2> QED BY <2>1, <2>3
<1>5. ASSUME NEW x \in PRank, XorPhase(x)
      PROVE  Carried(V)' /\ OnDisk(V)'
  <2>1. Carried(V)' /\ \A q \in Rank : Full(q) => Full(q)'
    BY <1>5, CarriedXor
  <2>2. meta' = meta /\ \A q \in Rank : pc'[q] = pc[q] \/ (pc[q] = "xred" /\ pc'[q] = "land")
    BY <1>5, GridFacts DEF XorPhase
  <2>3. OnDisk(V)'
    BY <2>1, <2>2, DiskUntouched DEF OpenedPCs
  <2> QED BY <2>1, <2>3
<1>6. ASSUME NEW p \in PIDs, Land(p) \/ ExchangeTransfer(p)
      PROVE  Carried(V)' /\ OnDisk(V)'
  <2>1. Carried(V)' /\ \A q \in Rank : Full(q) => Full(q)'
    BY <1>t, <1>6, CarriedExchange
  <2>2. meta' = meta /\ \A q \in Rank : \/ pc'[q] = pc[q]
                                        \/ pc[q] = "land" /\ pc'[q] \in {"xopen", "barrier"}
                                        \/ pc[q] = "xtransfer" /\ pc'[q] \in {"xmeta", "failed"}
    BY <1>6, GridFacts DEF Land, ExchangeTransfer
  <2>3. OnDisk(V)'
    BY <2>1, <2>2, DiskUntouched DEF OpenedPCs
  <2> QED BY <2>1, <2>3
<1>7. ASSUME NEW r \in Rank, MetaOpen(r) \/ MetaWrite(r)
      PROVE  Carried(V)' /\ OnDisk(V)'
  BY <1>t, <1>7, CarriedMeta, OnDiskMeta
<1>8. Barrier => \A r \in Rank : pc'[r] = "app"
  BY DEF Barrier
<1> QED BY <1>0, <1>1, <1>2, <1>3, <1>4, <1>5, <1>6, <1>7, <1>8, <1>9 DEF RecoverStep, MetaStep

\* Calls of COMB_Checkpoint and COMB_Finalize lead to such calls.
LEMMA CallsStay ==
    ASSUME TypeOK, \A r \in Rank : pc[r] \in CallPCs, CheckpointStep \/ MetaStep \/ FinalizeStep
    PROVE  \A r \in Rank : pc'[r] \in CallPCs
<1> USE DEF CallPCs, CheckpointPCs, At, AllAt, Go
<1>1. ASSUME NEW x \in PRank, NEW k, NEW S \in SUBSET xcomm(x), EnterXor(x, k, S)
      PROVE  \A r \in Rank : pc'[r] \in CallPCs
  BY <1>1 DEF EnterXor
<1>2. ASSUME NEW r \in Rank, PartnerOpen(r) \/ MetaFails(r)
      PROVE  \A q \in Rank : pc'[q] \in CallPCs
  BY <1>2 DEF PartnerOpen, MetaFails
<1>5. ASSUME NEW r \in Rank, Finalizes(r)
      PROVE  \A q \in Rank : pc'[q] \in CallPCs
  BY <1>5, FinalizeFacts
<1>3. ASSUME NEW p \in PIDs, NEW k, NEW S \in SUBSET pcomm(p), Transfer(p, k, S)
      PROVE  \A r \in Rank : pc'[r] \in CallPCs
  BY <1>3 DEF Transfer
<1>4. ASSUME NEW r \in Rank, MetaOpen(r) \/ MetaWrite(r)
      PROVE  \A q \in Rank : pc'[q] \in CallPCs
  <2>0. pc[r] \notin {"rmeta", "xmeta", "rtorn", "xtorn"} /\ pc \in [Rank -> CheckpointPCs \cup RecoverPCs \cup {"clean", "done"}]
    BY DEF TypeOK
  <2>1. CASE MetaOpen(r)
    <3>1. pc[r] = "meta" /\ pc' = [pc EXCEPT ![r] = MetaFrom[pc[r]]]
      BY <2>0, <2>1 DEF MetaOpen, MetaFrom
    <3>2. pc' = [pc EXCEPT ![r] = "torn"]
      BY <3>1 DEF MetaFrom
    <3> QED BY <2>0, <3>2
  <2>2. CASE MetaWrite(r)
    <3>1. pc[r] = "torn" /\ pc' = [pc EXCEPT ![r] = MetaTo[pc[r]]]
      BY <2>0, <2>2 DEF MetaWrite, MetaTo
    <3>2. pc' = [pc EXCEPT ![r] = "app"]
      BY <3>1 DEF MetaTo
    <3> QED BY <2>0, <3>2
  <2> QED BY <1>4, <2>1, <2>2
<1> QED BY <1>1, <1>2, <1>3, <1>4, <1>5
        DEF CheckpointStep, MetaStep, XorCheckpoint, XorFails, PartnerTransfer, ParityFails, FinalizeStep, Finalizes

\* The second run goes from the restart to a recovery and from there to calls.
LEMMA SecondRunStep ==
    ASSUME ParityInv, ParityInv', faults = 0, SecondRun, [CombinedNext]_vars, ~Crashes
    PROVE  SecondRun'
<1>t. TypeOK
  BY DEF ParityInv, JobTyped
<1>u. CASE UNCHANGED vars
  <2>0. UNCHANGED <<pc, version, mem, cp, lostpgroup, meta, file, run, faults>>
    BY <1>u DEF vars
  <2>1. CASE AllAt(Rank, "load") /\ LeftBehind
    <3>1. AllAt(Rank, "load")'
      BY <2>0, <2>1 DEF AllAt
    <3>2. \A r \in Rank : \A s \in Slots : Left(r, s)'
      BY <2>0, <2>1 DEF LeftBehind, Left, IsWhole
    <3>3. HashKeysDistinct'
      BY <2>0, <2>1 DEF LeftBehind, HashKeysDistinct
    <3>4. CpCount >= 2 => \A a, r \in Rank : \A s \in Slots : TornBehind(a, r, s)'
      BY <2>0, <2>1 DEF LeftBehind, TornBehind, HasMeta
    <3> QED BY <3>1, <3>2, <3>3, <3>4 DEF SecondRun, LeftBehind
  <2>2. CASE \E V \in Nat \ {0} : Carried(V) /\ OnDisk(V)
    <3>1. PICK V \in Nat \ {0} : Carried(V) /\ OnDisk(V)
      BY <2>2
    <3>2. \A q \in Rank : Carries(q, V)'
      BY <2>0, <3>1, CarriesUntouched DEF Carried
    <3>3. InStep' /\ OneLost'
      BY <2>0, <3>1, StillTogether DEF Carried, Stays, Full
    <3>4. OnDisk(V)'
      BY <2>0, <3>1, DiskUntouched DEF Full
    <3> QED BY <3>2, <3>3, <3>4 DEF SecondRun, Carried
  <2>3. CASE \A r \in Rank : pc[r] \in CallPCs
    BY <2>0, <2>3 DEF SecondRun
  <2> QED BY <2>1, <2>2, <2>3 DEF SecondRun
<1>1. CASE AllAt(Rank, "load") /\ LeftBehind /\ ~ UNCHANGED vars
  <2>0. \A r \in Rank : pc[r] = "load"
    BY <1>1 DEF AllAt
  <2>1. ~CheckpointStep /\ ~MetaStep
    BY <2>0, StepsWhere DEF CheckpointPCs
  <2>2. ~FinalizeStep
    BY <2>0 DEF FinalizeStep, Finalize, RemoveMeta, RemoveFile, Cleaned, At
  <2>3. Negotiate
    BY <1>1, <2>0, <2>1, <2>2, StepsWhere DEF CombinedNext, JobEnded, JobHangs
  <2>4. \/ \A r \in Rank : pc'[r] = "app"
        \/ \E V \in Nat \ {0} : Carried(V)' /\ OnDisk(V)'
    BY <1>1, <2>3, NegotiateCarries
  <2> QED BY <2>4 DEF SecondRun, CallPCs, CheckpointPCs
<1>2. CASE (\E V \in Nat \ {0} : Carried(V) /\ OnDisk(V)) /\ ~ UNCHANGED vars
  <2>1. PICK V \in Nat \ {0} : Carried(V) /\ OnDisk(V)
    BY <1>2
  <2>2. \A r \in Rank : pc[r] \in RecoverPCs \ {"load"}
    BY <2>1 DEF Carried, Carries, MidPCs
  <2>3. ~CheckpointStep /\ ~FinalizeStep
    <3>1. \A r \in Rank : pc[r] \notin CheckpointPCs
      BY <2>2 DEF CheckpointPCs, RecoverPCs
    <3>2. \A r \in Rank : pc[r] \notin {"app", "clean"}
      BY <2>2 DEF RecoverPCs
    <3> QED BY <3>1, <3>2, StepsWhere DEF FinalizeStep, Finalize, RemoveMeta, RemoveFile, Cleaned, At
  <2>4. RecoverStep \/ MetaStep
    BY <1>2, <2>3 DEF CombinedNext, JobEnded, JobHangs
  <2>5. (\A r \in Rank : pc'[r] = "app") \/ (Carried(V)' /\ OnDisk(V)')
    BY <2>1, <2>4, RecoveryCarries
  <2> QED BY <2>5 DEF SecondRun, CallPCs, CheckpointPCs
<1>3. CASE (\A r \in Rank : pc[r] \in CallPCs) /\ ~ UNCHANGED vars
  <2>1. ~RecoverStep
    BY <1>3, StepsWhere DEF CallPCs, CheckpointPCs, RecoverPCs
  <2>2. \A r \in Rank : pc'[r] \in CallPCs
    BY <1>t, <1>3, <2>1, CallsStay DEF CombinedNext, JobEnded, JobHangs
  <2> QED BY <2>2 DEF SecondRun
<1> QED BY <1>u, <1>1, <1>2, <1>3 DEF SecondRun

\* Only a crash starts a run, and without the bound on faults no call fails.
LEMMA RunsAndFaults ==
    ASSUME MaxFaults = 0, faults = 0, [CombinedNext]_vars
    PROVE  faults' = 0 /\ (~Crashes => run' = run) /\ (Crashes => run' = run + 1)
<1>1. CheckpointStep => faults' = 0 /\ run' = run
  <2>0. ~ faults < MaxFaults
    OBVIOUS
  <2>1. \A x \in PRank : XorCheckpoint(x) => faults' = 0 /\ run' = run
    BY DEF XorCheckpoint, EnterXor
  <2>2. \A r \in Rank : PartnerOpen(r) => faults' = 0 /\ run' = run
    BY DEF PartnerOpen
  <2>3. \A p \in PIDs : PartnerTransfer(p) => faults' = 0 /\ run' = run
    BY DEF PartnerTransfer, Transfer
  <2>4. /\ \A x \in PRank : \A S \in SUBSET xcomm(x) : ~XorFails(x, S)
        /\ \A p \in PIDs : \A S \in SUBSET pcomm(p) : ~ParityFails(p, S)
        /\ \A r \in Rank : ~MetaFails(r)
    BY <2>0 DEF XorFails, ParityFails, MetaFails
  <2> QED BY <2>1, <2>2, <2>3, <2>4 DEF CheckpointStep
<1>2. MetaStep => faults' = 0 /\ run' = run
  BY DEF MetaStep, MetaOpen, MetaWrite
<1>3. RecoverStep => faults' = 0 /\ run' = run
  BY DEF RecoverStep, Negotiate, PartnerGather, ReceiverOpen, PairTransfer, SenderFails, LoadLocal, XorPhase, Land,
         ExchangeOpen, ExchangeTransfer, Barrier
<1>4. FinalizeStep => faults' = 0 /\ run' = run
  BY DEF FinalizeStep, Finalize, RemoveMeta, RemoveFile, Cleaned
<1>5. Crashes => faults' = 0 /\ run' = run + 1
  BY DEF Crashes, Crash
<1>6. UNCHANGED vars => faults' = 0 /\ run' = run
  BY DEF vars
<1> QED BY <1>1, <1>2, <1>3, <1>4, <1>5, <1>6 DEF CombinedNext, JobEnded, JobHangs

\* A step of the first run that does not end it.
LEMMA FirstRunStep ==
    ASSUME JobTyped, JobTyped', faults = 0, faults' = 0, FirstRun, [CombinedNext]_vars, ~Crashes
    PROVE  FirstRun'
<1>1. ~RecoverStep
  BY StepsWhere DEF FirstRun, PaceInv, CallPCs, CheckpointPCs, RecoverPCs
<1>2. CASE UNCHANGED vars
  <2>1. PaceInv' /\ FilesInv' /\ RecentInv'
    <3>1. [CheckpointNext]_vars /\ TypeOK /\ TypeOK' /\ PaceInv /\ FilesInv /\ RecentInv
      BY <1>2 DEF FirstRun, JobTyped
    <3> QED BY <3>1, PaceStep, FilesStep, RecentStep
  <2>2. \A r \in Rank : Shown(r)'
    BY <1>2 DEF vars, FirstRun, Shown, HasMeta, Cur
  <2> QED BY <2>1, <2>2 DEF FirstRun
<1>3. CASE FinalizeStep
  BY <1>3, FirstRunEnds DEF FinalizeStep, Finalizes
<1> QED BY <1>1, <1>2, <1>3, FirstRunCall DEF CombinedNext, JobEnded, JobHangs

LEMMA JobInvariant == MaxFaults = 0 => (CombinedSpec => []JobInv)
<1> SUFFICES ASSUME MaxFaults = 0
             PROVE  CombinedSpec => []JobInv
  OBVIOUS
<1>1. CombinedInit => JobInv
  BY ParityStart, FirstRunStart DEF JobInv
<1>2. JobInv /\ [CombinedNext]_vars => JobInv'
  <2> SUFFICES ASSUME JobInv, [CombinedNext]_vars
               PROVE  JobInv'
    OBVIOUS
  <2>1. ParityInv'
    <3>1. JobTyped' /\ SlotTruth'
      BY JobTypedStep, SlotTruthStep DEF JobInv, ParityInv
    <3>2. NoneIsLost'
      BY HelpInRecovery, HelpElsewhere DEF JobInv
    <3> QED BY <3>1, <3>2 DEF ParityInv
  <2>2. faults = 0 /\ faults' = 0 /\ (~Crashes => run' = run) /\ (Crashes => run' = run + 1)
    BY RunsAndFaults DEF JobInv
  <2>3. run \in Nat /\ run >= 1 /\ JobTyped /\ JobTyped'
    BY <2>1 DEF JobInv, ParityInv, JobTyped, TypeOK
  <2>4. CASE Crashes
    <3>1. ASSUME run = 1
          PROVE  SecondRun'
      <4>1. PICK L : Crash(L)
        BY <2>4 DEF Crashes
      <4> QED BY <2>2, <2>3, <3>1, <4>1, FirstRunKilled DEF JobInv, SecondRun
    <3>2. run' >= 1 /\ run' # 1 /\ (run' = 2 => run = 1)
      BY <2>2, <2>3, <2>4
    <3> QED BY <2>1, <2>2, <3>1, <3>2 DEF JobInv
  <2>5. CASE ~Crashes
    <3>1. run = 1 => FirstRun'
      BY <2>2, <2>3, <2>5, FirstRunStep DEF JobInv
    <3>2. run = 2 => SecondRun'
      BY <2>1, <2>2, <2>5, SecondRunStep DEF JobInv
    <3> QED BY <2>1, <2>2, <2>3, <2>5, <3>1, <3>2 DEF JobInv
  <2> QED BY <2>4, <2>5
<1> QED BY <1>1, <1>2, PTL DEF CombinedSpec

-----------------------------------------------------------------------------
(* The theorems.                                                           *)

\* A version that is carried is what any restart would choose.
LEMMA CarriedIsChosen ==
    ASSUME JobTyped, SlotTruth, NEW V \in Nat \ {0}, OnDisk(V), NEW H \in HashSets(ccomm_versions({}))
    PROVE  NewestRecoverable(H, {}) = V
<1> DEFINE N == NewestRecoverable(H, {})
<1>1. repairphase(V, {}) > 0
  BY RepairIsEnough DEF OnDisk
<1>2. V \in ccomm_versions({})
  <2>1. PICK P \in PIDs : \A p \in PIDs \ {P} : \E r \in pcomm(p) : V \in local_versions(r)
    BY <1>1, RowsPresent
  <2>2. PICK p \in PIDs : p # P /\ p # P
    BY ThirdRow
  <2> QED BY <2>1, <2>2, GridFacts DEF ccomm_versions
<1>3. V \in H
  <2>1. PICK w \in H : hashkey(w) = hashkey(V)
    BY <1>2 DEF HashSets
  <2>2. w \in ccomm_versions({})
    BY DEF HashSets
  <2>3. PICK r \in Rank : w \in local_versions(r)
    BY <2>2 DEF ccomm_versions
  <2>4. PICK s \in Slots : meta[r][s].is = "valid" /\ meta[r][s].version = w
    BY <2>3 DEF local_versions, Presented
  <2>5. w = V
    BY <2>1, <2>4 DEF OnDisk, KeyOfOne
  <2> QED BY <2>5
<1>4. /\ N \in Nat /\ V <= N
      /\ N # 0 => N \in H /\ repairphase(N, {}) > 0
  BY <1>1, <1>3, NewestIsGreatest, CommunityAssumption DEF JobTyped
<1> HIDE DEF N
<1>5. ASSUME N > V
      PROVE  FALSE
  <2>1. N \in Nat /\ N > V /\ N \in H /\ Enough(N)
    BY <1>4, <1>5, RepairIsEnough
  <2>2. ASSUME NEW q \in Rank, N \in local_versions(q) \/ N \in local_fullversions(q)
        PROVE  Could(q, N, V)
    <3>1. N \in local_versions(q) /\ ~Forgets(q)
      BY <2>2, PresentedFromSlot
    <3>2. PICK s \in Slots : meta[q][s].is = "valid" /\ meta[q][s].version = N
      BY <3>1 DEF local_versions, Presented
    <3>3. HasMeta(q, N)
      BY <3>2 DEF HasMeta, SlotTruth
    <3> QED BY <3>1, <3>3 DEF Could, Forgets
  <2>3. \E r \in Rank : Could(r, N, V)
    <3>1. N \in ccomm_versions({})
      BY <2>1 DEF HashSets
    <3>2. PICK r \in Rank : N \in local_versions(r)
      BY <3>1 DEF ccomm_versions
    <3> QED BY <2>2, <3>2
  <2>4. PICK a, b \in Rank : /\ a # b /\ a[2] = b[2]
                            /\ \A q \in pcomm(a[1]) \cup pcomm(b[1]) : ~Could(q, N, V)
    BY <2>1, <2>3 DEF OnDisk, NoneNewer
  <2>5. a \in pcomm(a[1]) /\ b \in pcomm(b[1]) /\ pcomm(a[1]) \subseteq Rank /\ pcomm(b[1]) \subseteq Rank
    BY GridFacts
  <2> QED BY <2>1, <2>2, <2>4, <2>5 DEF Enough
<1> QED BY <1>4, <1>5 DEF N

LEMMA CarriedDelivers ==
    ASSUME TypeOK, NEW V \in Nat \ {0}, Carried(V)
    PROVE  RecoveryDelivers
<1>1. Intact => \A r \in Rank : ~At(r, "failed")
  <2> SUFFICES ASSUME NEW r \in Rank, pc[r] = "failed"
               PROVE  ~Intact
    BY DEF At
  <2>1. Orphan(r, V) /\ slot(V) \in Slots
    BY SlotType DEF Carried, Carries
  <2> QED BY <2>1 DEF Orphan, Intact
<1>2. ASSUME AllAt(Rank, "barrier")
      PROVE  \A r \in Rank : mem[r] = <<1, V>> /\ version[r] = V
  <2> TAKE r \in Rank
  <2>1. pc[r] = "barrier"
    BY <1>2 DEF AllAt
  <2>2. Carries(r, V)
    BY DEF Carried
  <2>3. cp[r].loaded /\ cp[r].state # NODATA
    BY <2>1, <2>2 DEF Carries, LoadedPCs, RebuiltPCs, LatePCs
  <2>4. cp[r].state \in {NODATA, XORDATA, FULLDATA}
    BY SlotOfRank DEF Cps, States
  <2> QED BY <2>2, <2>3, <2>4 DEF Carries, Full
<1>3. <<1, V>> # Garbage /\ <<1, V>>[2] = V
  BY DEF Garbage
<1>4. \E r \in Rank : TRUE
  BY SomeRank
<1>5. AllAt(Rank, "barrier") => <<1, V>> \in {mem[r] : r \in Rank}
  BY <1>2, <1>4
<1> QED BY <1>1, <1>2, <1>3, <1>5 DEF RecoveryDelivers

LEMMA RunsBounded == MaxFaults = 0 => (CombinedSpec => [](run \in 1 .. MaxRuns))
<1> SUFFICES ASSUME MaxFaults = 0
             PROVE  CombinedSpec => [](run \in 1 .. MaxRuns)
  OBVIOUS
<1>m. MaxRuns \in Nat /\ MaxRuns >= 1
  BY CombinedAssumption
<1>1. CombinedInit => run \in 1 .. MaxRuns
  BY <1>m, FirstRunStart
<1>2. JobInv /\ run \in 1 .. MaxRuns /\ [CombinedNext]_vars => (run \in 1 .. MaxRuns)'
  <2> SUFFICES ASSUME JobInv, run \in 1 .. MaxRuns, [CombinedNext]_vars
               PROVE  run' \in 1 .. MaxRuns
    OBVIOUS
  <2>1. (~Crashes => run' = run) /\ (Crashes => run' = run + 1)
    BY RunsAndFaults DEF JobInv
  <2>2. Crashes => run < MaxRuns
    BY DEF Crashes
  <2> QED BY <1>m, <2>1, <2>2
<1> QED BY <1>1, <1>2, JobInvariant, PTL DEF CombinedSpec

\* The first recovery of a job delivers data, however many follow: whichever step
\* of the first run a crash hit, whichever disks it took, and in whatever order
\* the groups go through COMB_Recover, no rank fails in it, and all leave with the
\* data of one and the same checkpoint, of the version it reports.  The one thing
\* assumed is that no rank has metadata without its checkpoint file, as a
\* COMB_Finalize that is killed while it removes files may leave it (Intact).
THEOREM FirstRecoveryDelivers == MaxFaults = 0 => (CombinedSpec => [](run <= 2 => RecoveryDelivers))
<1> SUFFICES ASSUME MaxFaults = 0
             PROVE  CombinedSpec => [](run <= 2 => RecoveryDelivers)
  OBVIOUS
<1>1. JobInv /\ run \in 1 .. MaxRuns => (run <= 2 => RecoveryDelivers)
  <2> SUFFICES ASSUME JobInv, run \in 1 .. MaxRuns, run <= 2
               PROVE  RecoveryDelivers
    OBVIOUS
  <2>0. \E r \in Rank : TRUE
    BY SomeRank
  <2>1. TypeOK
    BY DEF JobInv, ParityInv, JobTyped
  <2>2. run = 1 \/ run = 2
    BY CombinedAssumption
  <2>3. CASE \A r \in Rank : pc[r] \in CallPCs
    BY <2>0, <2>3 DEF RecoveryDelivers, CallPCs, CheckpointPCs, At, AllAt
  <2>4. CASE AllAt(Rank, "load")
    BY <2>0, <2>4 DEF RecoveryDelivers, At, AllAt
  <2>5. CASE \E V \in Nat \ {0} : Carried(V)
    BY <2>1, <2>5, CarriedDelivers
  <2>6. run = 1 => \A r \in Rank : pc[r] \in CallPCs
    BY DEF JobInv, FirstRun, PaceInv
  <2> QED BY <2>2, <2>3, <2>4, <2>5, <2>6 DEF JobInv, SecondRun
<1> QED BY <1>1, JobInvariant, RunsBounded, PTL

\* So in a job that is restarted once at most, every recovery delivers.
COROLLARY OneRecoveryDelivers == MaxFaults = 0 /\ MaxRuns <= 2 => (CombinedSpec => []RecoveryDelivers)
<1> SUFFICES ASSUME MaxFaults = 0, MaxRuns <= 2
             PROVE  CombinedSpec => []RecoveryDelivers
  OBVIOUS
<1>1. run \in 1 .. MaxRuns => run <= 2
  BY CombinedAssumption
<1> QED BY <1>1, FirstRecoveryDelivers, RunsBounded, PTL

\* The first recovery of a job may be killed at any point of it, also while it
\* rewrites checkpoint files and metadata: whatever make_hashset leaves, the next
\* restart chooses the version that is being recovered.
THEOREM FirstRecoveryIsKillable == MaxFaults = 0 => (CombinedSpec => []RecoveryKillable)
<1> SUFFICES ASSUME MaxFaults = 0
             PROVE  CombinedSpec => []RecoveryKillable
  OBVIOUS
<1>1. JobInv => RecoveryKillable
  <2> SUFFICES ASSUME JobInv, run = 2, NEW q \in Rank, pc[q] \in RecoverPCs \ {"load"}
               PROVE  \A V \in Outcomes({}) : \A r \in Rank : V = version[r]
    BY DEF RecoveryKillable
  <2>1. JobTyped /\ SlotTruth
    BY DEF JobInv, ParityInv
  <2>2. PICK V \in Nat \ {0} : Carried(V) /\ OnDisk(V)
    BY DEF JobInv, SecondRun, AllAt, CallPCs, CheckpointPCs, RecoverPCs
  <2>3. \A H \in HashSets(ccomm_versions({})) : NewestRecoverable(H, {}) = V
    BY <2>1, <2>2, CarriedIsChosen
  <2>4. \A r \in Rank : version[r] = V
    BY <2>2 DEF Carried, Carries
  <2> QED BY <2>3, <2>4 DEF Outcomes
<1> QED BY <1>1, JobInvariant, PTL

-----------------------------------------------------------------------------
(* Losses after a complete checkpoint.                                     *)

\* The disks hold checkpoint StartVersion complete or nothing.
OnlyStart ==
    \A r \in Rank : \A s \in Slots :
        /\ meta[r][s].is # "torn"
        /\ meta[r][s].is = "valid" => /\ s = slot(StartVersion) /\ meta[r][s].version = StartVersion
                                      /\ meta[r][s].state = FULLDATA

LossInv ==
    /\ run >= 1
    /\ run = 1 => OnlyStart /\ \A r \in Rank : pc[r] \in {"app", "clean", "done"} /\ version[r] = MaxVersion
    /\ run = 2 /\ AllAt(Rank, "load") => OnlyStart

\* From such disks the negotiation decides by the partner groups that are gone.
LEMMA GoneDecides ==
    ASSUME JobTyped, OnlyStart, StartVersion # 0, NEW H \in HashSets(ccomm_versions({}))
    PROVE  NewestRecoverable(H, {}) = StartVersion <=> ~MoreThanOne(Gone)
<1>v. StartVersion \in Nat
  BY CombinedAssumption, CommunityAssumption
<1>1. \A r \in Rank : local_versions(r) \subseteq {StartVersion} /\ local_fullversions(r) = local_versions(r)
  BY DEF OnlyStart, local_versions, local_fullversions, Presented
<1>2. \A p \in PIDs : p \notin Gone <=> \E r \in pcomm(p) : StartVersion \in local_versions(r)
  BY <1>1, GridFacts DEF Gone
<1>3. repairphase(StartVersion, {}) > 0 <=> ~MoreThanOne(Gone)
  <2>1. ASSUME repairphase(StartVersion, {}) > 0
        PROVE  ~MoreThanOne(Gone)
    <3>1. PICK P \in PIDs : \A p \in PIDs \ {P} : \E r \in pcomm(p) : StartVersion \in local_versions(r)
      BY <2>1, RowsPresent
    <3>2. Gone \subseteq {P}
      BY <1>2, <3>1 DEF Gone
    <3> QED BY <3>2 DEF MoreThanOne
  <2>2. ASSUME ~MoreThanOne(Gone)
        PROVE  repairphase(StartVersion, {}) > 0
    <3>1. \E P : \A p \in PIDs \ {P} : p \notin Gone
      BY <2>2 DEF MoreThanOne
    <3>2. PICK P : \A p \in PIDs \ {P} : p \notin Gone
      BY <3>1
    <3>3. \A p \in PIDs \ {P} : \E r \in pcomm(p) : r \notin {} /\ StartVersion \in local_fullversions(r)
      BY <1>1, <1>2, <3>2, GridFacts
    <3> QED BY <3>3, RowsRecover
  <2> QED BY <2>1, <2>2
<1>4. ASSUME repairphase(StartVersion, {}) > 0
      PROVE  StartVersion \in H /\ H \subseteq {StartVersion}
  <2>1. H \subseteq ccomm_versions({}) /\ ccomm_versions({}) \subseteq {StartVersion}
    BY <1>1 DEF HashSets, ccomm_versions
  <2>2. PICK P \in PIDs : \A p \in PIDs \ {P} : \E r \in pcomm(p) : StartVersion \in local_versions(r)
    BY <1>4, RowsPresent
  <2>3. PICK p \in PIDs : p # P /\ p # P
    BY ThirdRow
  <2>4. StartVersion \in ccomm_versions({})
    BY <2>2, <2>3, GridFacts DEF ccomm_versions
  <2>5. \E w \in H : TRUE
    BY <2>4 DEF HashSets
  <2> QED BY <2>1, <2>5
<1>5. /\ NewestRecoverable(H, {}) \in Nat
      /\ NewestRecoverable(H, {}) # 0 => NewestRecoverable(H, {}) \in H /\ repairphase(NewestRecoverable(H, {}), {}) > 0
      /\ \A w \in H : repairphase(w, {}) > 0 => w <= NewestRecoverable(H, {})
  BY NewestIsGreatest, CommunityAssumption DEF JobTyped
<1>6. ASSUME repairphase(StartVersion, {}) > 0
      PROVE  NewestRecoverable(H, {}) = StartVersion
  <2>1. StartVersion <= NewestRecoverable(H, {})
    BY <1>4, <1>5, <1>6
  <2>2. NewestRecoverable(H, {}) # 0
    BY <1>v, <1>5, <2>1
  <2> QED BY <1>4, <1>5, <1>6, <2>2
<1> QED BY <1>3, <1>5, <1>6

\* No step but a crash leads to the start of a recovery.
LEMMA NeverBackToLoad ==
    ASSUME TypeOK, [CombinedNext]_vars, ~Crashes, NEW q \in Rank, pc'[q] = "load"
    PROVE  pc[q] = "load"
<1> USE DEF Go, At
<1>1. CheckpointStep => pc[q] = "load"
  <2>1. ASSUME NEW x \in PRank, NEW k, NEW S \in SUBSET xcomm(x), EnterXor(x, k, S)
        PROVE  pc[q] = "load"
    BY <2>1 DEF EnterXor
  <2>2. ASSUME NEW p \in PIDs, NEW k, NEW S \in SUBSET pcomm(p), Transfer(p, k, S)
        PROVE  pc[q] = "load"
    BY <2>2 DEF Transfer
  <2>3. ASSUME NEW r \in Rank, PartnerOpen(r) \/ MetaFails(r)
        PROVE  pc[q] = "load"
    BY <2>3 DEF PartnerOpen, MetaFails
  <2> QED BY <2>1, <2>2, <2>3 DEF CheckpointStep, XorCheckpoint, XorFails, PartnerTransfer, ParityFails
<1>2. MetaStep => pc[q] = "load"
  <2>p. pc \in [Rank -> CheckpointPCs \cup RecoverPCs \cup {"clean", "done"}]
    BY DEF TypeOK
  <2>1. ASSUME NEW r \in Rank, MetaOpen(r)
        PROVE  pc[q] = "load"
    <3>1. pc' = [pc EXCEPT ![r] = MetaFrom[pc[r]]] /\ MetaFrom[pc[r]] # "load"
      BY <2>1 DEF MetaOpen, MetaFrom
    <3> QED BY <2>p, <3>1
  <2>2. ASSUME NEW r \in Rank, MetaWrite(r)
        PROVE  pc[q] = "load"
    <3>1. pc' = [pc EXCEPT ![r] = MetaTo[pc[r]]] /\ MetaTo[pc[r]] # "load"
      BY <2>2 DEF MetaWrite, MetaTo
    <3> QED BY <2>p, <3>1
  <2> QED BY <2>1, <2>2 DEF MetaStep
<1>3. RecoverStep => pc[q] = "load"
  <2>1. Negotiate \/ Barrier => pc[q] = "load"
    BY DEF Negotiate, Barrier
  <2>2. ASSUME NEW p \in PIDs, PartnerGather(p) \/ Land(p) \/ ExchangeTransfer(p)
        PROVE  pc[q] = "load"
    BY <2>2 DEF PartnerGather, Land, ExchangeTransfer
  <2>3. ASSUME NEW r \in Rank, ReceiverOpen(r) \/ SenderFails(r) \/ LoadLocal(r) \/ ExchangeOpen(r)
        PROVE  pc[q] = "load"
    BY <2>3 DEF ReceiverOpen, SenderFails, LoadLocal, ExchangeOpen
  <2>4. ASSUME NEW s, NEW r, PairTransfer(s, r)
        PROVE  pc[q] = "load"
    BY <2>4 DEF PairTransfer, TypeOK
  <2>5. ASSUME NEW x \in PRank, XorPhase(x)
        PROVE  pc[q] = "load"
    BY <2>5 DEF XorPhase
  <2> QED BY <2>1, <2>2, <2>3, <2>4, <2>5 DEF RecoverStep
<1>4. FinalizeStep => pc[q] = "load"
  <2> SUFFICES ASSUME NEW r \in Rank, Finalizes(r)
               PROVE  pc[q] = "load"
    BY DEF FinalizeStep, Finalizes
  <2>1. pc'[r] # "load" /\ (q # r => pc'[q] = pc[q])
    BY FinalizeFacts
  <2> QED BY <2>1
<1>5. UNCHANGED vars => pc[q] = "load"
  BY DEF vars
<1> QED BY <1>1, <1>2, <1>3, <1>4, <1>5 DEF CombinedNext, JobEnded, JobHangs

LEMMA LossStep ==
    ASSUME JobTyped, MaxFaults = 0, faults = 0, LossInv, [CombinedNext]_vars
    PROVE  LossInv'
<1>r. /\ run \in Nat /\ (~Crashes => run' = run) /\ (Crashes => run' = run + 1)
      /\ TypeOK
  BY RunsAndFaults DEF JobTyped, TypeOK
<1>n. NoMeta.is = "absent"
  BY DEF NoMeta
<1>1. CASE UNCHANGED vars
  <2>1. UNCHANGED <<pc, version, meta, run>>
    BY <1>1 DEF vars
  <2> QED BY <2>1 DEF LossInv, OnlyStart, AllAt
<1>2. CASE Crashes
  <2>1. \A r \in Rank : meta'[r] = meta[r] \/ \A s \in Slots : meta'[r][s] = NoMeta
    BY <1>2 DEF Crashes, Crash, EmptyDisks
  <2>2. OnlyStart => OnlyStart'
    BY <1>n, <2>1 DEF OnlyStart
  <2>3. run' = 2 => run = 1
    BY <1>r, <1>2
  <2>4. run' # 1 /\ run' >= 1
    BY <1>r, <1>2 DEF LossInv
  <2> QED BY <2>2, <2>3, <2>4 DEF LossInv
<1>3. CASE ~Crashes /\ ~ UNCHANGED vars /\ run = 1
  <2>1. \A r \in Rank : pc[r] \in {"app", "clean", "done"} /\ version[r] = MaxVersion
    BY <1>3 DEF LossInv
  <2>2. ~MetaStep /\ ~RecoverStep
    BY <2>1, StepsWhere DEF RecoverPCs
  <2>3. ~CheckpointStep
    <3>1. ASSUME NEW x \in PRank, NEW k, NEW S \in SUBSET xcomm(x), EnterXor(x, k, S)
          PROVE  FALSE
      <4>1. PICK q \in Rank : TRUE
        BY SomeRank
      <4>2. <<q[1], x>> \in Rank /\ <<q[1], x>>[2] = x
        BY GridFacts
      <4>3. <<q[1], x>> \in xcomm(x)
        BY <4>2, GridFacts
      <4>4. version[<<q[1], x>>] < MaxVersion /\ version[<<q[1], x>>] = MaxVersion
        BY <2>1, <3>1, <4>2, <4>3 DEF EnterXor, InXor, At
      <4> QED BY <4>4, CommunityAssumption
    <3>2. ASSUME NEW p \in PIDs, NEW k, NEW S \in SUBSET pcomm(p), Transfer(p, k, S)
          PROVE  FALSE
      <4>1. <<p, 0>> \in Rank /\ <<p, 0>>[1] = p
        BY GridFacts
      <4>2. <<p, 0>> \in pcomm(p)
        BY <4>1, GridFacts
      <4> QED BY <2>1, <3>2, <4>1, <4>2 DEF Transfer, AllAt, At
    <3>3. ASSUME NEW r \in Rank, PartnerOpen(r) \/ MetaFails(r)
          PROVE  FALSE
      BY <2>1, <3>3 DEF PartnerOpen, MetaFails, At
    <3> QED BY <3>1, <3>2, <3>3 DEF CheckpointStep, XorCheckpoint, XorFails, PartnerTransfer, ParityFails
  <2>4. PICK r \in Rank : Finalizes(r)
    BY <1>3, <2>2, <2>3 DEF CombinedNext, JobEnded, JobHangs, FinalizeStep, Finalizes
  <2>5. /\ version' = version /\ \A q \in Rank : pc'[q] \in {pc[q], "clean", "done"}
        /\ \A q \in Rank : \A s \in Slots : meta'[q][s] \in {meta[q][s], NoMeta}
    BY <1>r, <2>4, FinalizeFacts
  <2>6. OnlyStart'
    BY <1>3, <1>n, <2>5 DEF OnlyStart, LossInv
  <2> QED BY <1>r, <1>3, <2>1, <2>5, <2>6 DEF LossInv
<1>4. CASE ~Crashes /\ ~ UNCHANGED vars /\ run # 1
  <2>1. ASSUME AllAt(Rank, "load")'
        PROVE  FALSE
    <3>1. \A r \in Rank : pc'[r] = "load"
      BY <2>1 DEF AllAt
    <3>2. \A r \in Rank : pc[r] = "load"
      BY <1>r, <1>4, <3>1, NeverBackToLoad
    <3>3. ~CheckpointStep /\ ~MetaStep /\ ~ \E r \in Rank : pc[r] \in RecoverPCs \ {"load"}
      BY <3>2, StepsWhere DEF CheckpointPCs
    <3>4. ~FinalizeStep
      BY <3>2 DEF FinalizeStep, Finalize, RemoveMeta, RemoveFile, Cleaned, At
    <3>5. Negotiate
      BY <1>4, <3>3, <3>4, StepsWhere DEF CombinedNext, JobEnded, JobHangs
    <3>6. \A r \in Rank : pc'[r] \in {"app", "gather"}
      BY <3>5 DEF Negotiate, Go
    <3> QED BY <3>1, <3>6, SomeRank
  <2> QED BY <1>r, <1>4, <2>1 DEF LossInv
<1> QED BY <1>1, <1>2, <1>3, <1>4

\* The first restart after a complete checkpoint finds it just if at most one
\* partner group has lost all its disks: what theoretical_repair, make_hashset
\* and the search for the newest version make of it, for every set of lost disks.
THEOREM LossesAreDecided ==
    MaxFaults = 0 /\ StartVersion = MaxVersion /\ MaxVersion # 0 => (CombinedSpec => []LossesThatRecover)
<1> SUFFICES ASSUME MaxFaults = 0, StartVersion = MaxVersion, MaxVersion # 0
             PROVE  CombinedSpec => []LossesThatRecover
  OBVIOUS
<1>1. CombinedInit => LossInv
  <2> SUFFICES ASSUME CombinedInit
               PROVE  LossInv
    OBVIOUS
  <2>1. /\ run = 1
        /\ pc = [r \in Rank |-> "app"] /\ version = [r \in Rank |-> StartVersion]
        /\ meta = [r \in Rank |-> [s \in Slots |-> IF s = slot(StartVersion)
                                       THEN AfterCheckpoint(r, StartVersion, {}).meta ELSE NoMeta]]
    BY DEF CombinedInit
  <2>2. \A r \in Rank : AfterCheckpoint(r, StartVersion, {}).meta =
             [is |-> "valid", version |-> StartVersion, state |-> FULLDATA, failoffset |-> "none"]
    BY DEF AfterCheckpoint
  <2>3. OnlyStart
    BY <2>1, <2>2 DEF OnlyStart, NoMeta
  <2> QED BY <2>1, <2>3 DEF LossInv
<1>2. JobInv /\ LossInv /\ [CombinedNext]_vars => LossInv'
  BY LossStep DEF JobInv, ParityInv
<1>3. JobInv /\ LossInv => LossesThatRecover
  BY GoneDecides DEF JobInv, ParityInv, LossInv, LossesThatRecover, Outcomes
<1> QED BY <1>1, <1>2, <1>3, JobInvariant, PTL DEF CombinedSpec

-----------------------------------------------------------------------------
(* Progress of a restarted job.                                            *)

\* Rank r presents version v, unless torn metadata makes it forget.
Shows(r, v) == HasMeta(r, v) /\ meta[r][slot(v)].state # NODATA

\* All versions on the disks are so close to V that none has the key of V.
Close(V) ==
    \A r \in Rank : \A s \in Slots : meta[r][s].is = "valid" =>
        meta[r][s].version <= V + CpCount /\ V <= meta[r][s].version + CpCount

Spread == \A r \in Rank : \A s \in Slots : meta[r][s].is = "valid" => Close(meta[r][s].version)

\* Version V is recovered: whoever has it presents it, the receiver of a
\* partner's file aside as long as it has not written its metadata.
Returning(V) ==
    /\ Close(V)
    /\ \A r \in Rank : /\ pc[r] \in MidPCs /\ version[r] = V
                       /\ Full(r) /\ pc[r] \notin {"rmeta", "rtorn"} => Shows(r, V)
                       /\ pc[r] = "barrier" => Shows(r, V)

\* Checkpoints are made from version b on, the one of the restart or 0.  What a
\* rank is bound to hold it presents; all but b with its partners' parts.
Presents(r, v, b) == Shows(r, v) /\ (v > b => meta[r][slot(v)].state = FULLDATA)
Keeps(r, b) ==
    /\ version[r] >= b
    /\ version[r] = b => pc[r] \in {"app", "clean", "done"}
    /\ pc[r] \in {"meta", "torn"} => Full(r)
    /\ pc[r] \notin {"clean", "done"} => \A v \in Nat : v >= b /\ Kept(r, v) => Presents(r, v, b)

\* What else is on its disk is neither so old nor so new that it could hide it.
Near(r, b) ==
    \A s \in Slots : meta[r][s].is = "valid" =>
        /\ meta[r][s].version + CpCount >= version[r]
        /\ meta[r][s].version + CpCount = version[r] => pc[r] = "open"
        /\ \/ meta[r][s].version <= version[r]
           \/ meta[r][s].version <= b + CpCount
           \/ meta[r][s].version <= CpCount + 1

Making(b) == PaceInv /\ \A r \in Rank : Keeps(r, b) /\ Near(r, b)

\* The one case left out: a restart that finds no checkpoint counts from 1 again
\* and may meet, more than cpcount versions ahead, what it could not recover.
NothingHidden ==
    run = 2 /\ AllAt(Rank, "load") =>
        \/ 0 \notin Outcomes({})
        \/ \A r \in Rank : \A s \in Slots : meta[r][s].is = "valid" => meta[r][s].version <= CpCount + 1

ProgressInv ==
    /\ run = 1 => Making(StartVersion)
    /\ run = 2 => \/ AllAt(Rank, "load") /\ Spread
                  \/ \E V \in Nat \ {0} : Returning(V)
                  \/ \E b \in Nat : Making(b)

\* What a step of a call does to one rank, if no call fails.
CallStep(q) ==
    \/ /\ pc'[q] = pc[q] /\ version'[q] = version[q] /\ meta'[q] = meta[q] /\ cp'[q] = cp[q]
    \/ /\ pc[q] = "app" /\ pc'[q] = "open" /\ version'[q] = version[q] + 1 /\ meta'[q] = meta[q]
    \/ /\ pc[q] = "open" /\ pc'[q] = "transfer" /\ version'[q] = version[q]
       /\ meta'[q] = [meta[q] EXCEPT ![Cur(q)] = NoMeta]
    \/ /\ pc[q] = "transfer" /\ pc'[q] = "meta" /\ version'[q] = version[q] /\ meta'[q] = meta[q] /\ Full(q)'
    \/ /\ pc[q] = "meta" /\ pc'[q] = "torn" /\ version'[q] = version[q]
       /\ meta'[q] = [meta[q] EXCEPT ![Cur(q)] = TornMeta] /\ cp'[q] = cp[q]
    \/ /\ pc[q] = "torn" /\ pc'[q] = "app" /\ version'[q] = version[q]
       /\ \E fo : meta'[q] = [meta[q] EXCEPT ![Cur(q)] =
                     [is |-> "valid", version |-> version[q], state |-> cp[q].state, failoffset |-> fo]]

LEMMA CallSteps ==
    ASSUME JobTyped, faults = 0, faults' = 0, PaceInv, CheckpointStep \/ MetaStep, NEW q \in Rank
    PROVE  CallStep(q)
<1> USE DEF At, Go, AllAt
<1>n. TypeOK /\ NoneInLoop
  BY PaceFacts DEF JobTyped, NoneInLoop
<1>t. /\ pc \in [Rank -> CheckpointPCs \cup RecoverPCs \cup {"clean", "done"}]
      /\ meta \in [Rank -> [Slots -> Metas]] /\ cp \in [Rank -> Cps]
      /\ pc[q] \notin {"rmeta", "xmeta", "rtorn", "xtorn"}
  BY DEF JobTyped, TypeOK, PaceInv, CallPCs, CheckpointPCs
<1>0. ASSUME pc'[q] = pc[q], version'[q] = version[q], meta'[q] = meta[q], cp'[q] = cp[q]
      PROVE  CallStep(q)
  BY <1>0 DEF CallStep
<1>1. ASSUME NEW x \in PRank, XorCheckpoint(x)
      PROVE  CallStep(q)
  <2>1. CASE q \in xcomm(x)
    <3>1. pc[q] = "app" /\ pc'[q] = "open" /\ version'[q] = version[q] + 1 /\ meta' = meta
      BY <1>n, <1>1, <2>1, PlainXor
    <3> QED BY <3>1 DEF CallStep
  <2>2. CASE q \notin xcomm(x)
    <3>1. pc'[q] = pc[q] /\ version'[q] = version[q] /\ meta'[q] = meta[q] /\ cp'[q] = cp[q]
      BY <1>n, <1>1, <2>2, PlainXor
    <3> QED BY <1>0, <3>1
  <2> QED BY <2>1, <2>2
<1>2. ASSUME NEW r \in Rank, PartnerOpen(r)
      PROVE  CallStep(q)
  <2>1. version' = version /\ cp' = cp /\ meta' = [meta EXCEPT ![r][Cur(r)] = NoMeta] /\ pc[r] = "open"
        /\ pc' = [z \in Rank |-> IF z \in {r} THEN "transfer" ELSE pc[z]]
    BY <1>2 DEF PartnerOpen, OpenCpFile
  <2>2. CASE q = r
    BY <1>t, <2>1, <2>2 DEF CallStep
  <2>3. CASE q # r
    BY <1>t, <1>0, <2>1, <2>3
  <2> QED BY <2>2, <2>3
<1>3. ASSUME NEW p \in PIDs, PartnerTransfer(p)
      PROVE  CallStep(q)
  <2>1. CASE q \in pcomm(p)
    <3>1. pc[q] = "transfer" /\ pc'[q] = "meta" /\ version'[q] = version[q] /\ meta'[q] = meta[q]
      BY <1>n, <1>3, <2>1, PlainTransfer
    <3>2. cp'[q] = [cp[q] EXCEPT !.chunks = 0, !.state = FULLDATA]
      BY <1>n, <1>3, <2>1, PlainTransfer
    <3>3. Full(q)'
      BY <1>t, <3>2 DEF Full, Cps
    <3> QED BY <3>1, <3>3 DEF CallStep
  <2>2. CASE q \notin pcomm(p)
    <3>1. pc'[q] = pc[q] /\ version'[q] = version[q] /\ meta'[q] = meta[q] /\ cp'[q] = cp[q]
      BY <1>n, <1>3, <2>2, PlainTransfer
    <3> QED BY <1>0, <3>1
  <2> QED BY <2>1, <2>2
<1>4. ASSUME NEW r \in Rank, MetaOpen(r)
      PROVE  CallStep(q)
  <2>1. version' = version /\ cp' = cp /\ meta' = [meta EXCEPT ![r][Cur(r)] = TornMeta]
        /\ pc[r] \in {"meta", "rmeta", "xmeta"} /\ pc' = [pc EXCEPT ![r] = MetaFrom[pc[r]]]
    BY <1>4 DEF MetaOpen, MetaFrom
  <2>2. CASE q = r
    <3>1. pc[q] = "meta" /\ pc'[q] = "torn"
      BY <1>t, <2>1, <2>2 DEF MetaFrom
    <3> QED BY <1>t, <2>1, <2>2, <3>1 DEF CallStep
  <2>3. CASE q # r
    BY <1>t, <1>0, <2>1, <2>3
  <2> QED BY <2>2, <2>3
<1>5. ASSUME NEW r \in Rank, MetaWrite(r)
      PROVE  CallStep(q)
  <2>1. PICK fo : meta' = [meta EXCEPT ![r][Cur(r)] =
             [is |-> "valid", version |-> version[r], state |-> cp[r].state, failoffset |-> fo]]
    BY <1>5 DEF MetaWrite
  <2>2. version' = version /\ cp' = (IF pc[r] = "torn" THEN [cp EXCEPT ![r] = NoCp] ELSE cp)
        /\ pc[r] \in {"torn", "rtorn", "xtorn"} /\ pc' = [pc EXCEPT ![r] = MetaTo[pc[r]]]
    BY <1>5 DEF MetaWrite, MetaTo
  <2>3. CASE q = r
    <3>1. pc[q] = "torn" /\ pc'[q] = "app"
      BY <1>t, <2>2, <2>3 DEF MetaTo
    <3>2. meta'[q] = [meta[q] EXCEPT ![Cur(q)] =
             [is |-> "valid", version |-> version[q], state |-> cp[q].state, failoffset |-> fo]]
      BY <1>t, <2>1, <2>3
    <3> QED BY <2>2, <3>1, <3>2 DEF CallStep
  <2>4. CASE q # r
    <3>1. cp'[q] = cp[q] /\ pc'[q] = pc[q] /\ meta'[q] = meta[q]
      BY <1>t, <2>1, <2>2, <2>4
    <3> QED BY <1>0, <2>2, <3>1
  <2> QED BY <2>3, <2>4
<1>6. ~ (\E x \in PRank : \E S \in SUBSET xcomm(x) : XorFails(x, S))
      /\ ~ (\E p \in PIDs : \E S \in SUBSET pcomm(p) : ParityFails(p, S))
      /\ ~ (\E r \in Rank : MetaFails(r))
  BY DEF XorFails, ParityFails, MetaFails
<1> QED BY <1>1, <1>2, <1>3, <1>4, <1>5, <1>6 DEF CheckpointStep, MetaStep

\* What a slot left alone presents.
LEMMA PresentsUntouched ==
    ASSUME NEW r \in Rank, NEW v, NEW b, Presents(r, v, b), meta'[r][slot(v)] = meta[r][slot(v)]
    PROVE  Presents(r, v, b)'
BY DEF Presents, Shows, HasMeta, slot

\* A call keeps what it is bound to hold ...
LEMMA KeepsStep ==
    ASSUME JobTyped, NEW b \in Nat, NEW q \in Rank, Keeps(q, b), CallStep(q)
    PROVE  Keeps(q, b)'
<1>t. /\ version[q] \in Nat /\ CpCount \in Nat \ {0} /\ Cur(q) \in Slots /\ meta[q] \in [Slots -> Metas]
  BY SlotOfRank, CommunityAssumption DEF JobTyped
<1>k. /\ version[q] >= b
      /\ version[q] = b => pc[q] \in {"app", "clean", "done"}
      /\ pc[q] \in {"meta", "torn"} => Full(q)
      /\ pc[q] \notin {"clean", "done"} => \A v \in Nat : v >= b /\ Kept(q, v) => Presents(q, v, b)
  BY DEF Keeps
<1>d. \A v \in Nat : v < version[q] /\ v > version[q] - CpCount => slot(v) # Cur(q)
  BY <1>t, SlotDistinct DEF Cur
<1>s. \A v \in Nat : slot(v) \in Slots
  BY SlotType
<1>1. CASE pc'[q] = pc[q] /\ version'[q] = version[q] /\ meta'[q] = meta[q] /\ cp'[q] = cp[q]
  <2>1. ASSUME pc'[q] \notin {"clean", "done"}, NEW v \in Nat, v >= b, Kept(q, v)'
        PROVE  Presents(q, v, b)'
    <3>1. Kept(q, v)
      BY <1>1, <2>1 DEF Kept
    <3> QED BY <1>k, <1>1, <2>1, <3>1, PresentsUntouched
  <2>2. pc'[q] \in {"meta", "torn"} => Full(q)'
    BY <1>k, <1>1 DEF Full
  <2> QED BY <1>k, <1>1, <2>1, <2>2 DEF Keeps
<1>2. CASE pc[q] = "app" /\ pc'[q] = "open" /\ version'[q] = version[q] + 1 /\ meta'[q] = meta[q]
  <2>1. ASSUME NEW v \in Nat, v >= b, Kept(q, v)'
        PROVE  Presents(q, v, b)'
    <3>1. Kept(q, v)
      BY <1>t, <1>2, <2>1 DEF Kept
    <3> QED BY <1>k, <1>2, <2>1, <3>1, PresentsUntouched
  <2>2. version'[q] >= b /\ version'[q] # b
    BY <1>t, <1>k, <1>2
  <2> QED BY <1>2, <2>1, <2>2 DEF Keeps
<1>3. ASSUME pc'[q] \in {"transfer", "meta", "torn"}, pc[q] \in {"open", "transfer", "meta"}, version'[q] = version[q],
             \A s \in Slots : s # Cur(q) => meta'[q][s] = meta[q][s],
             pc'[q] \in {"meta", "torn"} => Full(q)'
      PROVE  Keeps(q, b)'
  <2>1. ASSUME NEW v \in Nat, v >= b, Kept(q, v)'
        PROVE  Presents(q, v, b)'
    <3>1. v < version[q] /\ v > version[q] - CpCount
      BY <1>3, <2>1 DEF Kept
    <3>2. Kept(q, v)
      BY <2>1, <1>3, <3>1 DEF Kept
    <3>3. meta'[q][slot(v)] = meta[q][slot(v)]
      BY <1>d, <1>s, <1>3, <3>1
    <3> QED BY <1>k, <1>3, <2>1, <3>2, <3>3, PresentsUntouched
  <2>2. version[q] # b
    BY <1>k, <1>3
  <2> QED BY <1>k, <1>3, <2>1, <2>2 DEF Keeps
<1>4. CASE /\ pc[q] = "open" /\ pc'[q] = "transfer" /\ version'[q] = version[q]
           /\ meta'[q] = [meta[q] EXCEPT ![Cur(q)] = NoMeta]
  BY <1>t, <1>3, <1>4
<1>5. CASE pc[q] = "transfer" /\ pc'[q] = "meta" /\ version'[q] = version[q] /\ meta'[q] = meta[q] /\ Full(q)'
  BY <1>3, <1>5
<1>6. CASE /\ pc[q] = "meta" /\ pc'[q] = "torn" /\ version'[q] = version[q]
           /\ meta'[q] = [meta[q] EXCEPT ![Cur(q)] = TornMeta] /\ cp'[q] = cp[q]
  <2>1. Full(q)'
    BY <1>k, <1>6 DEF Full
  <2> QED BY <1>t, <1>3, <1>6, <2>1
<1>7. ASSUME pc[q] = "torn", pc'[q] = "app", version'[q] = version[q], NEW fo,
             meta'[q] = [meta[q] EXCEPT ![Cur(q)] =
                 [is |-> "valid", version |-> version[q], state |-> cp[q].state, failoffset |-> fo]]
      PROVE  Keeps(q, b)'
  <2>1. ASSUME NEW v \in Nat, v >= b, v < version[q], Kept(q, v)'
        PROVE  Presents(q, v, b)'
    <3>1. v > version[q] - CpCount
      BY <1>7, <2>1 DEF Kept
    <3>2. Kept(q, v)
      BY <1>7, <2>1 DEF Kept
    <3>3. meta'[q][slot(v)] = meta[q][slot(v)]
      BY <1>d, <1>s, <1>t, <1>7, <2>1, <3>1
    <3> QED BY <1>k, <1>7, <2>1, <3>2, <3>3, PresentsUntouched
  <2>2. Presents(q, version[q], b)'
    <3>1. meta'[q][Cur(q)] = [is |-> "valid", version |-> version[q], state |-> cp[q].state, failoffset |-> fo]
      BY <1>t, <1>7
    <3>2. cp[q].state = FULLDATA
      BY <1>k, <1>7 DEF Full
    <3>3. /\ meta'[q][Cur(q)].is = "valid" /\ meta'[q][Cur(q)].version = version[q]
          /\ meta'[q][Cur(q)].state = FULLDATA
      BY <3>1, <3>2
    <3> QED BY <1>7, <3>3 DEF Presents, Shows, HasMeta, Cur, FULLDATA, NODATA
  <2>3. ASSUME NEW v \in Nat, v >= b, Kept(q, v)'
        PROVE  Presents(q, v, b)'
    <3>1. CASE v < version[q]
      BY <2>1, <2>3, <3>1
    <3>2. CASE v = version[q]
      BY <1>7, <2>2, <3>2
    <3> QED BY <1>7, <2>3, <3>1, <3>2 DEF Kept
  <2> QED BY <1>k, <1>7, <2>3 DEF Keeps
<1> QED BY <1>1, <1>2, <1>4, <1>5, <1>6, <1>7 DEF CallStep

\* ... and leaves nothing that hides it.
LEMMA NearStep ==
    ASSUME JobTyped, SlotTruth, NEW b \in Nat, NEW q \in Rank, Near(q, b), CallStep(q)
    PROVE  Near(q, b)'
<1> DEFINE Fits(u, w, p) == /\ u + CpCount >= w
                            /\ u + CpCount = w => p = "open"
                            /\ u <= w \/ u <= b + CpCount \/ u <= CpCount + 1
<1>t. /\ version[q] \in Nat /\ CpCount \in Nat \ {0} /\ Cur(q) \in Slots /\ meta[q] \in [Slots -> Metas]
      /\ \A s \in Slots : meta[q][s].version \in Nat
  BY SlotOfRank, CommunityAssumption DEF JobTyped, TypeOK, Metas
<1>n. \A s \in Slots : meta[q][s].is = "valid" => Fits(meta[q][s].version, version[q], pc[q])
  BY DEF Near
<1>g. Near(q, b)' <=> \A s \in Slots : meta'[q][s].is = "valid" => Fits(meta'[q][s].version, version'[q], pc'[q])
  BY DEF Near
<1>v. NoMeta.is = "absent" /\ TornMeta.is = "torn"
  BY DEF NoMeta, TornMeta
<1> HIDE DEF Fits
<1>1. CASE version'[q] = version[q] /\ meta'[q] = meta[q] /\ (pc[q] = "open" => pc'[q] = "open")
  <2>1. \A u : Fits(u, version[q], pc[q]) => Fits(u, version[q], pc'[q])
    BY <1>1 DEF Fits
  <2> QED BY <1>g, <1>n, <1>1, <2>1
<1>2. CASE pc[q] = "app" /\ pc'[q] = "open" /\ version'[q] = version[q] + 1 /\ meta'[q] = meta[q]
  <2>1. \A u \in Nat : Fits(u, version[q], "app") => Fits(u, version[q] + 1, "open")
    BY <1>t DEF Fits
  <2> QED BY <1>g, <1>n, <1>t, <1>2, <2>1
<1>3. CASE /\ pc[q] = "open" /\ pc'[q] = "transfer" /\ version'[q] = version[q]
           /\ meta'[q] = [meta[q] EXCEPT ![Cur(q)] = NoMeta]
  <2>1. ASSUME NEW s \in Slots, meta'[q][s].is = "valid"
        PROVE  Fits(meta'[q][s].version, version[q], "transfer")
    <3>1. s # Cur(q) /\ meta'[q][s] = meta[q][s]
      BY <1>t, <1>v, <1>3, <2>1
    <3>2. slot(meta[q][s].version) = s
      BY <2>1, <3>1 DEF SlotTruth
    <3>3. meta[q][s].version + CpCount # version[q]
      <4> SUFFICES ASSUME meta[q][s].version + CpCount = version[q]
                   PROVE  FALSE
        OBVIOUS
      <4>1. version[q] >= CpCount /\ version[q] - CpCount = meta[q][s].version
        BY <1>t
      <4>2. slot(version[q] - CpCount) = slot(version[q])
        BY <1>t, <4>1, SlotAgain
      <4> QED BY <3>1, <3>2, <4>1, <4>2 DEF Cur
    <3>4. Fits(meta[q][s].version, version[q], pc[q])
      BY <1>n, <2>1, <3>1
    <3> QED BY <3>1, <3>3, <3>4 DEF Fits
  <2> QED BY <1>g, <1>3, <2>1
<1>4. CASE pc[q] = "transfer" /\ pc'[q] = "meta" /\ version'[q] = version[q] /\ meta'[q] = meta[q] /\ Full(q)'
  BY <1>1, <1>4
<1>5. CASE /\ pc[q] = "meta" /\ pc'[q] = "torn" /\ version'[q] = version[q]
           /\ meta'[q] = [meta[q] EXCEPT ![Cur(q)] = TornMeta] /\ cp'[q] = cp[q]
  <2>1. ASSUME NEW s \in Slots, meta'[q][s].is = "valid"
        PROVE  meta'[q][s] = meta[q][s]
    BY <1>t, <1>v, <1>5, <2>1
  <2>2. \A u : Fits(u, version[q], "meta") => Fits(u, version[q], "torn")
    BY DEF Fits
  <2> QED BY <1>g, <1>n, <1>5, <2>1, <2>2
<1>6. ASSUME pc[q] = "torn", pc'[q] = "app", version'[q] = version[q], NEW fo,
             meta'[q] = [meta[q] EXCEPT ![Cur(q)] =
                 [is |-> "valid", version |-> version[q], state |-> cp[q].state, failoffset |-> fo]]
      PROVE  Near(q, b)'
  <2>1. ASSUME NEW s \in Slots, meta'[q][s].is = "valid"
        PROVE  meta'[q][s] = meta[q][s] \/ meta'[q][s].version = version[q]
    BY <1>t, <1>6, <2>1
  <2>2. \A u : Fits(u, version[q], "torn") => Fits(u, version[q], "app")
    BY DEF Fits
  <2>3. Fits(version[q], version[q], "app")
    BY <1>t DEF Fits
  <2> QED BY <1>g, <1>n, <1>6, <2>1, <2>2, <2>3
<1> QED BY <1>1, <1>2, <1>3, <1>4, <1>5, <1>6 DEF CallStep

LEMMA MakingCall ==
    ASSUME JobTyped, JobTyped', SlotTruth, faults = 0, faults' = 0, NEW b \in Nat, Making(b), CheckpointStep \/ MetaStep
    PROVE  Making(b)'
<1>1. PaceInv'
  <2>1. TypeOK /\ TypeOK' /\ PaceInv /\ [CheckpointNext]_vars
    BY DEF JobTyped, Making, CheckpointNext
  <2> QED BY <2>1, PaceStep
<1>2. \A q \in Rank : CallStep(q)
  BY CallSteps DEF Making
<1>3. \A q \in Rank : Keeps(q, b)' /\ Near(q, b)'
  BY <1>2, KeepsStep, NearStep DEF Making
<1> QED BY <1>1, <1>3 DEF Making

\* COMB_Finalize: nothing has to be kept any more.
LEMMA MakingEnds ==
    ASSUME TypeOK, TypeOK', NEW b \in Nat, Making(b), NEW r \in Rank, Finalizes(r)
    PROVE  Making(b)'
<1>1. /\ version' = version /\ cp' = cp
      /\ pc[r] \in {"app", "clean"} /\ pc'[r] \in {"clean", "done"}
      /\ \A q \in Rank : q # r => pc'[q] = pc[q] /\ meta'[q] = meta[q]
      /\ \A q \in Rank : \A s \in Slots : meta'[q][s] \in {meta[q][s], NoMeta}
  BY FinalizeFacts
<1>2. PaceInv'
  BY PaceEnds DEF Making
<1>n. NoMeta.is # "valid"
  BY DEF NoMeta
<1>3. ASSUME NEW q \in Rank
      PROVE  Keeps(q, b)' /\ Near(q, b)'
  <2>1. Keeps(q, b) /\ Near(q, b)
    BY DEF Making
  <2>2. Near(q, b)'
    <3>1. pc[q] = "open" => pc'[q] = "open"
      BY <1>1
    <3>2. \A s \in Slots : meta'[q][s].is = "valid" => meta'[q][s] = meta[q][s]
      BY <1>1, <1>n
    <3> QED BY <1>1, <2>1, <3>1, <3>2 DEF Near
  <2>3. CASE q = r
    <3>1. Keeps(q, b)'
      BY <1>1, <2>1, <2>3 DEF Keeps
    <3> QED BY <2>2, <3>1
  <2>4. CASE q # r
    <3>1. pc'[q] = pc[q] /\ version'[q] = version[q] /\ meta'[q] = meta[q] /\ cp'[q] = cp[q]
      BY <1>1, <2>4
    <3>2. \A v : Presents(q, v, b) => Presents(q, v, b)'
      BY <3>1 DEF Presents, Shows, HasMeta, slot
    <3>3. \A v : Kept(q, v)' => Kept(q, v)
      BY <3>1 DEF Kept
    <3>4. Keeps(q, b)'
      BY <2>1, <3>1, <3>2, <3>3 DEF Keeps, Full
    <3> QED BY <2>2, <3>4
  <2> QED BY <2>3, <2>4
<1> QED BY <1>2, <1>3 DEF Making

-----------------------------------------------------------------------------
(* What is kept is found.                                                  *)

\* Presented with its state, if nothing is torn.
LEMMA ShownIsPresented ==
    ASSUME TypeOK, NEW r \in Rank, NEW v \in Nat, Shows(r, v), ~Forgets(r)
    PROVE  /\ v \in local_versions(r)
           /\ meta[r][slot(v)].state = FULLDATA => v \in local_fullversions(r)
<1>1. slot(v) \in Slots
  BY SlotType
<1>2. /\ meta[r][slot(v)].is = "valid" /\ meta[r][slot(v)].version = v
      /\ meta[r][slot(v)].state \in {XORDATA, FULLDATA}
  <2>1. meta[r][slot(v)].state \in States
    BY <1>1 DEF TypeOK, Metas
  <2> QED BY <2>1 DEF Shows, HasMeta, States
<1> QED BY <1>1, <1>2 DEF local_versions, local_fullversions, Presented

\* A version that no other can hide stays in every hash set.
LEMMA CloseIsInHash ==
    ASSUME JobTyped, NEW v \in Nat, Close(v), NEW H \in HashSets(ccomm_versions({})), v \in ccomm_versions({})
    PROVE  v \in H
<1>1. PICK w \in H : hashkey(w) = hashkey(v)
  BY DEF HashSets
<1>2. PICK r \in Rank : w \in local_versions(r)
  BY DEF HashSets, ccomm_versions
<1>3. PICK s \in Slots : meta[r][s].is = "valid" /\ meta[r][s].version = w
  BY <1>2 DEF local_versions, Presented
<1>4. w \in Nat /\ w <= v + CpCount /\ v <= w + CpCount
  BY <1>3 DEF Close, JobTyped, TypeOK, Metas
<1>5. w = v
  <2>1. ~(w < v) /\ ~(v < w)
    BY <1>1, <1>4, KeysDistinct
  <2> QED BY <1>4, <2>1
<1> QED BY <1>5

\* While no metadata is torn the last complete checkpoint or its successor is
\* presented by all ranks, or with its partners' parts by one rank of each group.
LEMMA MakingShows ==
    ASSUME CpCount >= 2, JobTyped, faults = 0, NEW b \in Nat, Making(b), \A r \in Rank : pc[r] \in CheckpointPCs,
           Complete >= 1
    PROVE  \E v \in Nat :
              /\ v >= Complete /\ Close(v)
              /\ \/ \A r \in Rank : Shows(r, v)
                 \/ \E x \in PRank : \A r \in xcomm(x) : Shows(r, v) /\ meta[r][slot(v)].state = FULLDATA
<1> DEFINE C == Complete
<1>t. /\ TypeOK /\ CpCount \in Nat /\ C \in Nat
      /\ \A r \in Rank : version[r] \in Nat /\ \A s \in Slots : meta[r][s].version \in Nat
  BY CommunityAssumption, CompleteIsLeast DEF JobTyped, TypeOK, Metas
<1>1. \A r \in Rank : /\ version[r] >= C
                      /\ version[r] = C => pc[r] = "app"
  BY <1>t, CompleteIsLeast, ReturnedType DEF At
<1>2. PICK z \in Rank : C = Returned(z)
  BY <1>t, CompleteIsLeast
<1>3. \A r \in Rank : version[r] <= C + 2
  <2> TAKE r \in Rank
  <2> DEFINE u == <<z[1], r[2]>>
  <2>1. u \in Rank /\ u[1] = z[1] /\ u[2] = r[2]
    BY GridFacts
  <2>2. version[u] = version[r] /\ Transferred(u) = Transferred(z)
    BY <1>t, <2>1, PaceFacts DEF Making
  <2>3. version[u] - 1 <= Transferred(u) /\ Transferred(z) <= version[z] /\ Transferred(u) \in Int /\ Transferred(z) \in Int
    BY <1>t, <2>1 DEF Transferred
  <2>4. version[z] <= C + 1
    BY <1>t, <1>2, ReturnedType
  <2> HIDE DEF u, C
  <2> QED BY <1>t, <2>1, <2>2, <2>3, <2>4
<1>b. b <= C
  <2>1. version[z] >= b /\ (version[z] = b => pc[z] = "app")
    BY DEF Making, Keeps, CheckpointPCs
  <2>2. pc[z] = "app" => C = version[z]
    BY <1>2 DEF Returned, At
  <2>3. C = version[z] \/ C = version[z] - 1
    BY <1>2 DEF Returned
  <2> HIDE DEF C
  <2> QED BY <1>t, <2>1, <2>2, <2>3
<1>p. \A r \in Rank : \A v \in Nat : v >= b /\ Kept(r, v) => Presents(r, v, b)
  <2> TAKE r \in Rank
  <2>1. pc[r] \notin {"clean", "done"}
    BY DEF CheckpointPCs
  <2> QED BY <2>1 DEF Making, Keeps
<1>4. ASSUME NEW v \in Nat, v = C \/ (v = C + 1 /\ \A r \in Rank : version[r] >= C + 1)
      PROVE  Close(v)
  <2> SUFFICES ASSUME NEW r \in Rank, NEW s \in Slots, meta[r][s].is = "valid"
               PROVE  meta[r][s].version <= v + CpCount /\ v <= meta[r][s].version + CpCount
    BY DEF Close
  <2> DEFINE u == meta[r][s].version
  <2>1. /\ u + CpCount >= version[r]
        /\ u <= version[r] \/ u <= b + CpCount \/ u <= CpCount + 1
    BY DEF Making, Near
  <2>2. u \in Nat /\ version[r] \in Nat /\ version[r] >= v /\ version[r] <= C + 2
    BY <1>t, <1>1, <1>3, <1>4
  <2> HIDE DEF u, C
  <2>3. C >= 1
    BY DEF C
  <2>4. u <= v + CpCount /\ v <= u + CpCount
    BY <1>t, <1>b, <1>4, <2>1, <2>2, <2>3
  <2> QED BY <2>4 DEF u
<1>5. CASE \E a \in Rank : version[a] = C + 2
  <2>1. PICK a \in Rank : version[a] = C + 2
    BY <1>5
  <2>2. \A r \in Rank : version[r] >= C + 1
    <3> TAKE r \in Rank
    <3> DEFINE u == <<r[1], a[2]>>
    <3>1. u \in Rank /\ u[1] = r[1] /\ u[2] = a[2]
      BY GridFacts
    <3>2. version[u] = version[a] /\ Transferred(u) = Transferred(r)
      BY <1>t, <3>1, PaceFacts DEF Making
    <3>3. version[u] - 1 <= Transferred(u) /\ Transferred(r) <= version[r] /\ Transferred(u) \in Int /\ Transferred(r) \in Int
      BY <1>t, <3>1 DEF Transferred
    <3> HIDE DEF u, C
    <3> QED BY <1>t, <2>1, <3>1, <3>2, <3>3
  <2>3. C + 1 \in Nat /\ C + 1 >= C /\ Close(C + 1)
    BY <1>t, <1>4, <2>2
  <2>4. \A r \in xcomm(a[2]) : Shows(r, C + 1) /\ meta[r][slot(C + 1)].state = FULLDATA
    <3> TAKE r \in xcomm(a[2])
    <3>1. r \in Rank /\ r[2] = a[2]
      BY GridFacts
    <3>2. version[r] = C + 2
      BY <1>t, <2>1, <3>1, PaceFacts DEF Making
    <3>3. Kept(r, C + 1) /\ C + 1 >= b /\ C + 1 > b
      BY <1>t, <1>b, <3>2 DEF Kept
    <3> HIDE DEF C
    <3> QED BY <1>p, <2>3, <3>1, <3>3 DEF Presents
  <2>5. a[2] \in PRank
    BY GridFacts
  <2> HIDE DEF C
  <2> QED BY <2>3, <2>4, <2>5 DEF C
<1>6. CASE \A a \in Rank : version[a] # C + 2
  <2>1. Close(C)
    BY <1>t, <1>4
  <2>2. \A r \in Rank : Shows(r, C)
    <3> TAKE r \in Rank
    <3>1. version[r] \in Nat /\ version[r] >= C /\ version[r] <= C + 1 /\ (version[r] = C => pc[r] = "app")
      BY <1>t, <1>1, <1>3, <1>6
    <3>2. Kept(r, C)
      BY <1>t, <3>1 DEF Kept
    <3> HIDE DEF C
    <3> QED BY <1>t, <1>b, <1>p, <3>2 DEF Presents
  <2> QED BY <1>t, <2>1, <2>2
<1> QED BY <1>5, <1>6

\* So a restart would choose it, or a newer one.
LEMMA MakingProgress ==
    ASSUME CpCount >= 2, JobTyped, faults = 0, NEW b \in Nat, Making(b)
    PROVE  ProgressKept
<1> SUFFICES ASSUME \A r \in Rank : pc[r] \in CheckpointPCs, TornRanks = {}, NEW V \in Outcomes({})
             PROVE  V >= Complete
  BY DEF ProgressKept
<1>1. PICK H \in HashSets(ccomm_versions({})) : V = NewestRecoverable(H, {})
  BY DEF Outcomes
<1>2. V \in Nat /\ \A w \in H : repairphase(w, {}) > 0 => w <= V
  BY <1>1, NewestIsGreatest, CommunityAssumption DEF JobTyped
<1>t. TypeOK /\ Complete \in Int /\ \A r \in Rank : ~Forgets(r)
  BY CompleteIsLeast DEF JobTyped, TornRanks
<1>3. CASE Complete >= 1
  <2>1. PICK v \in Nat :
              /\ v >= Complete /\ Close(v)
              /\ \/ \A r \in Rank : Shows(r, v)
                 \/ \E x \in PRank : \A r \in xcomm(x) : Shows(r, v) /\ meta[r][slot(v)].state = FULLDATA
    BY <1>3, MakingShows
  <2>2. v \in ccomm_versions({}) /\ repairphase(v, {}) > 0
    <3>1. CASE \A r \in Rank : Shows(r, v)
      <4>1. \A r \in Rank : v \in local_versions(r)
        BY <1>t, <3>1, ShownIsPresented
      <4>2. Enough(v)
        BY <4>1 DEF Enough
      <4> QED BY <4>1, <4>2, RepairIsEnough, SomeRank DEF ccomm_versions
    <3>2. CASE \E x \in PRank : \A r \in xcomm(x) : Shows(r, v) /\ meta[r][slot(v)].state = FULLDATA
      <4>1. PICK x \in PRank : \A r \in xcomm(x) : Shows(r, v) /\ meta[r][slot(v)].state = FULLDATA
        BY <3>2
      <4>2. \A r \in xcomm(x) : r \in Rank /\ v \in local_versions(r) /\ v \in local_fullversions(r)
        <5> TAKE r \in xcomm(x)
        <5>1. r \in Rank
          BY GridFacts
        <5> QED BY <1>t, <4>1, <5>1, ShownIsPresented
      <4>3. \A p \in PIDs : <<p, x>> \in pcomm(p) /\ <<p, x>> \in xcomm(x)
        <5> TAKE p \in PIDs
        <5>1. <<p, x>> \in Rank /\ <<p, x>>[1] = p /\ <<p, x>>[2] = x
          BY GridFacts
        <5> QED BY <5>1, GridFacts
      <4>4. \A p \in PIDs : \E r \in pcomm(p) : r \notin {} /\ v \in local_fullversions(r)
        BY <4>2, <4>3
      <4>5. repairphase(v, {}) > 0
        <5>1. PICK P \in PIDs : TRUE
          BY SomeRank, GridFacts
        <5> QED BY <4>4, <5>1, RowsRecover
      <4>6. v \in ccomm_versions({})
        <5>1. PICK P \in PIDs : TRUE
          BY SomeRank, GridFacts
        <5> QED BY <4>2, <4>3, <5>1 DEF ccomm_versions
      <4> QED BY <4>5, <4>6
    <3> QED BY <2>1, <3>1, <3>2
  <2>3. v <= V
    BY <1>2, <2>1, <2>2, CloseIsInHash
  <2> QED BY <1>2, <1>t, <2>1, <2>3
<1>4. CASE ~(Complete >= 1)
  BY <1>2, <1>t, <1>4
<1> QED BY <1>3, <1>4

-----------------------------------------------------------------------------
(* From the first run to the second.                                       *)

LEMMA MakingStart ==
    ASSUME CombinedInit, MaxFaults = 0
    PROVE  Making(StartVersion)
<1>c. CpCount \in Nat \ {0} /\ StartVersion \in Nat
  BY CommunityAssumption, CombinedAssumption
<1>1. PaceInv
  BY FirstRunStart DEF FirstRun
<1>n. NoMeta.is = "absent"
  BY DEF NoMeta
<1> DEFINE V == StartVersion
<1>2. /\ \A r \in Rank : pc[r] = "app" /\ version[r] = V
      /\ \A r \in Rank : \A s \in Slots :
            \/ meta[r][s].is # "valid"
            \/ meta[r][s].is = "valid" /\ meta[r][s].version = V
      /\ V # 0 => \A r \in Rank : Shows(r, V)
  <2>1. CASE V = 0
    BY <1>n, <2>1 DEF CombinedInit, Init
  <2>2. CASE V # 0
    <3>1. \A r \in Rank : AfterCheckpoint(r, V, {}).meta =
             [is |-> "valid", version |-> V, state |-> FULLDATA, failoffset |-> "none"]
      BY DEF AfterCheckpoint
    <3>2. /\ \A r \in Rank : pc[r] = "app" /\ version[r] = V
          /\ \A r \in Rank : \A s \in Slots :
                meta[r][s] = IF s = slot(V) THEN AfterCheckpoint(r, V, {}).meta ELSE NoMeta
      BY <2>2 DEF CombinedInit
    <3>3. slot(V) \in Slots
      BY <1>c, SlotType
    <3>4. \A r \in Rank : Shows(r, V)
      BY <3>1, <3>2, <3>3 DEF Shows, HasMeta, FULLDATA, NODATA
    <3>5. \A r \in Rank : \A s \in Slots :
            \/ meta[r][s].is # "valid"
            \/ meta[r][s].is = "valid" /\ meta[r][s].version = V
      BY <1>n, <3>1, <3>2
    <3> QED BY <3>2, <3>4, <3>5
  <2> QED BY <2>1, <2>2
<1>3. ASSUME NEW r \in Rank
      PROVE  Keeps(r, V) /\ Near(r, V)
  <2>1. \A v \in Nat : v >= V /\ Kept(r, v) => v = V /\ V # 0
    BY <1>c, <1>2 DEF Kept
  <2>2. \A v \in Nat : v >= V /\ Kept(r, v) => Presents(r, v, V)
    BY <1>c, <1>2, <2>1 DEF Presents
  <2>3. Near(r, V)
    BY <1>c, <1>2 DEF Near
  <2> QED BY <1>c, <1>2, <2>2, <2>3 DEF Keeps
<1> QED BY <1>1, <1>3 DEF Making

\* What a killed first run leaves are versions that are close together.
LEMMA SpreadLeft ==
    ASSUME JobTyped, faults = 0, FirstRun, NEW L, Crash(L)
    PROVE  AllAt(Rank, "load")' /\ Spread'
<1>1. Spread
  BY VersionsNear DEF FirstRun, JobTyped, Spread, Close
<1>2. /\ \A r \in Rank : pc'[r] = "load"
      /\ \A r \in Rank : meta'[r] = meta[r] \/ \A s \in Slots : meta'[r][s] = NoMeta
  BY DEF Crash, Go, EmptyDisks
<1>3. NoMeta.is # "valid"
  BY DEF NoMeta
<1>4. \A r \in Rank : \A s \in Slots : meta'[r][s].is = "valid" => meta'[r] = meta[r]
  BY <1>2, <1>3
<1>5. Spread'
  BY <1>1, <1>4 DEF Spread, Close
<1> QED BY <1>2, <1>5 DEF AllAt

\* The negotiation: a version close to all others, or a new start.
LEMMA NegotiateReturns ==
    ASSUME ParityInv, faults = 0, LeftBehind, Spread, Negotiate, run = 2, AllAt(Rank, "load"), NothingHidden
    PROVE  Making(0)' \/ \E V \in Nat \ {0} : Returning(V)'
<1> USE DEF ParityInv, JobTyped
<1>1. PICK H \in HashSets(ccomm_versions({})) :
        LET V == NewestRecoverable(H, {})
        IN  /\ version' = [r \in Rank |-> V]
            /\ IF V = 0 THEN Go(Rank, "app") /\ cp' = [r \in Rank |-> NoCp]
               ELSE Go(Rank, "gather") /\ cp' = [r \in Rank |-> FetchedCp(r, V)]
  BY DEF Negotiate
<1>v. PICK V : V = NewestRecoverable(H, {})
  OBVIOUS
<1>m. meta' = meta /\ faults' = 0
  BY DEF Negotiate
<1>c. CpCount \in Nat \ {0}
  BY CommunityAssumption
<1>2. CASE V = 0
  <2>1. \A r \in Rank : pc'[r] = "app" /\ version'[r] = 0 /\ cp'[r] = NoCp
    BY <1>1, <1>v, <1>2 DEF Go
  <2>2. 0 \in Outcomes({})
    BY <1>v, <1>2 DEF Outcomes
  <2>3. \A r \in Rank : \A s \in Slots : meta[r][s].is = "valid" => meta[r][s].version <= CpCount + 1
    BY <2>2 DEF NothingHidden
  <2>4. PaceInv'
    <3>1. \A r \in Rank : pc'[r] = "app" /\ version'[r] = 0 /\ cp'[r].chunks = 0
      BY <2>1 DEF NoCp
    <3> QED BY <1>m, <3>1, PaceLevelPrimed
  <2>5. \A r \in Rank : Keeps(r, 0)'
    <3> TAKE r \in Rank
    <3>1. \A v \in Nat : ~Kept(r, v)'
      BY <2>1 DEF Kept
    <3> QED BY <2>1, <3>1 DEF Keeps
  <2>6. \A r \in Rank : \A s \in Slots : meta[r][s].version \in Nat
    BY DEF TypeOK, Metas
  <2>7. \A r \in Rank : Near(r, 0)'
    BY <1>c, <1>m, <2>1, <2>3, <2>6 DEF Near
  <2> QED BY <2>4, <2>5, <2>7 DEF Making
<1>3. CASE V # 0
  <2>1. \A r \in Rank : version'[r] = V /\ pc'[r] = "gather" /\ cp'[r] = FetchedCp(r, V)
    BY <1>1, <1>v, <1>3 DEF Go
  <2>2. V \in Nat \ {0} /\ V \in H
    BY <1>v, <1>3, NewestIsGreatest, CommunityAssumption
  <2>3. Close(V)'
    <3>1. PICK a \in Rank : V \in local_versions(a)
      BY <2>2 DEF HashSets, ccomm_versions
    <3>2. PICK s \in Slots : meta[a][s].is = "valid" /\ meta[a][s].version = V
      BY <3>1 DEF local_versions, Presented
    <3> QED BY <1>m, <3>2 DEF Spread, Close
  <2>4. ASSUME NEW r \in Rank
        PROVE  /\ pc'[r] \in MidPCs /\ version'[r] = V
               /\ Full(r)' => Shows(r, V)'
               /\ pc'[r] # "barrier"
    <3>1. Full(r)' => V \in local_versions(r)
      <4>1. NoCp.state # FULLDATA
        BY DEF NoCp, FULLDATA, NODATA
      <4>2. V \notin local_versions(r) => cp'[r] = NoCp
        BY <2>1 DEF FetchedCp
      <4> QED BY <4>1, <4>2 DEF Full
    <3>2. V \in local_versions(r) => HasMeta(r, V) /\ meta[r][slot(V)].state # NODATA
      <4> SUFFICES ASSUME V \in local_versions(r)
                   PROVE  HasMeta(r, V) /\ meta[r][slot(V)].state # NODATA
        OBVIOUS
      <4>1. HasMeta(r, V) /\ slot(V) \in Slots
        BY <2>2, LeftIsFull, SlotType
      <4>2. meta[r][slot(V)].state = FULLDATA
        BY <4>1 DEF LeftBehind, Left, HasMeta
      <4> QED BY <4>1, <4>2 DEF FULLDATA, NODATA
    <3> QED BY <1>m, <2>1, <3>1, <3>2 DEF Shows, HasMeta, MidPCs, RecoverPCs
  <2>5. Returning(V)'
    BY <2>3, <2>4 DEF Returning
  <2> QED BY <2>2, <2>5
<1> QED BY <1>2, <1>3

\* The recovery ends with every rank presenting V, and nothing cpcount older.
LEMMA ReturnedMakes ==
    ASSUME ParityInv, faults = 0, NEW V \in Nat \ {0}, Returning(V), Barrier
    PROVE  Making(V)'
<1> USE DEF ParityInv, JobTyped
<1>c. CpCount \in Nat \ {0} /\ slot(V) \in Slots
  BY CommunityAssumption, SlotType
<1>1. /\ meta' = meta /\ faults' = 0
      /\ \A r \in Rank : pc'[r] = "app" /\ version'[r] = V /\ cp'[r] = NoCp /\ Shows(r, V)
  BY DEF Barrier, Returning, AllAt, Go
<1>2. PaceInv'
  <2>1. \A r \in Rank : pc'[r] = "app" /\ version'[r] = V /\ cp'[r].chunks = 0
    BY <1>1 DEF NoCp
  <2> QED BY <1>1, <2>1, PaceLevelPrimed
<1>3. ASSUME NEW r \in Rank
      PROVE  Keeps(r, V)'
  <2>1. ASSUME NEW v \in Nat, v >= V, Kept(r, v)'
        PROVE  Presents(r, v, V)'
    <3>1. v = V
      BY <1>1, <2>1 DEF Kept
    <3> QED BY <1>1, <3>1 DEF Presents, Shows, HasMeta
  <2> QED BY <1>1, <2>1 DEF Keeps
<1>4. ASSUME NEW r \in Rank
      PROVE  Near(r, V)'
  <2>1. ASSUME NEW s \in Slots, meta[r][s].is = "valid"
        PROVE  /\ meta[r][s].version + CpCount >= V
               /\ meta[r][s].version + CpCount # V
               /\ meta[r][s].version <= V + CpCount
    <3>1. /\ meta[r][s].version <= V + CpCount /\ V <= meta[r][s].version + CpCount
          /\ meta[r][s].version \in Nat
      BY <2>1 DEF Returning, Close, TypeOK, Metas
    <3>2. ASSUME meta[r][s].version + CpCount = V
          PROVE  FALSE
      <4>1. V >= CpCount /\ V - CpCount = meta[r][s].version
        BY <1>c, <3>1, <3>2
      <4>2. slot(meta[r][s].version) = slot(V)
        BY <4>1, SlotAgain
      <4>3. slot(meta[r][s].version) = s
        BY <2>1 DEF SlotTruth
      <4>4. meta[r][s].version = V
        BY <1>1, <4>2, <4>3 DEF Shows, HasMeta
      <4> QED BY <1>c, <3>2, <4>4
    <3> QED BY <1>c, <3>1, <3>2
  <2> QED BY <1>1, <2>1 DEF Near
<1> QED BY <1>2, <1>3, <1>4 DEF Making

-----------------------------------------------------------------------------
(* The recovery of the second run.                                         *)

\* A step that writes nothing but V to the disks.
LEMMA StillReturning ==
    ASSUME NEW V \in Nat \ {0}, Returning(V), Carried(V)',
           \A q \in Rank : \A s \in Slots : \/ meta'[q][s] = meta[q][s]
                                            \/ meta'[q][s].is # "valid"
                                            \/ meta'[q][s].version = V,
           \A q \in Rank : /\ Full(q)' /\ pc'[q] \notin {"rmeta", "rtorn"} => Shows(q, V)'
                           /\ pc'[q] = "barrier" => Shows(q, V)'
    PROVE  Returning(V)'
<1>1. CpCount \in Nat
  BY CommunityAssumption
<1>2. Close(V)'
  BY <1>1 DEF Returning, Close
<1>3. \A r \in Rank : pc'[r] \in MidPCs /\ version'[r] = V
  BY DEF Carried, Carries
<1> QED BY <1>2, <1>3 DEF Returning

\* A step that leaves the disks alone.
LEMMA ReturningInMemory ==
    ASSUME NEW V \in Nat \ {0}, Returning(V), Carried(V)', meta' = meta,
           \A q \in Rank : /\ Full(q)' /\ pc'[q] \notin {"rmeta", "rtorn"} => Full(q) /\ pc[q] \notin {"rmeta", "rtorn"}
                           /\ pc'[q] = "barrier" => (Full(q) /\ pc[q] \notin {"rmeta", "rtorn"}) \/ pc[q] = "barrier"
    PROVE  Returning(V)'
<1>1. \A q \in Rank : Shows(q, V)' <=> Shows(q, V)
  BY DEF Shows, HasMeta
<1> QED BY <1>1, StillReturning DEF Returning

LEMMA ReturningOpen ==
    ASSUME JobTyped, NEW V \in Nat \ {0}, Carried(V), Returning(V), NEW r \in Rank, ReceiverOpen(r) \/ ExchangeOpen(r)
    PROVE  Returning(V)'
<1>0. Carries(r, V) /\ Carried(V)'
  BY CarriedOpen DEF Carried
<1>1. /\ cp' = cp
      /\ \A q \in Rank : q # r => pc'[q] = pc[q] /\ meta'[q] = meta[q]
      /\ pc[r] \in {"recvopen", "xopen"} /\ pc'[r] # "barrier"
      /\ meta' = [meta EXCEPT ![r][Cur(r)] = NoMeta]
  BY DEF ReceiverOpen, ExchangeOpen, OpenCpFile, Go, At, JobTyped, TypeOK
<1>2. ~Full(r)
  BY <1>0, <1>1 DEF Carries, ExchangePCs, Full, XORDATA, FULLDATA
<1>3. NoMeta.is # "valid"
  BY DEF NoMeta
<1>4. \A q \in Rank : \A s \in Slots : meta'[q][s] = meta[q][s] \/ meta'[q][s].is # "valid"
  BY <1>1, <1>3 DEF JobTyped, TypeOK
<1>5. \A q \in Rank : /\ Full(q)' /\ pc'[q] \notin {"rmeta", "rtorn"} => Shows(q, V)'
                      /\ pc'[q] = "barrier" => Shows(q, V)'
  <2> TAKE q \in Rank
  <2>1. CASE q = r
    BY <1>1, <1>2, <2>1 DEF Full
  <2>2. CASE q # r
    <3>1. Shows(q, V) => Shows(q, V)'
      BY <1>1, <2>2 DEF Shows, HasMeta
    <3> QED BY <1>1, <2>2, <3>1 DEF Returning, Full
  <2> QED BY <2>1, <2>2
<1> QED BY <1>0, <1>4, <1>5, StillReturning

LEMMA ReturningMeta ==
    ASSUME JobTyped, NEW V \in Nat \ {0}, Carried(V), Returning(V), NEW r \in Rank, MetaOpen(r) \/ MetaWrite(r)
    PROVE  Returning(V)'
<1>0. Carries(r, V) /\ Carried(V)' /\ slot(V) \in Slots /\ Cur(r) = slot(V)
  BY CarriedMeta, SlotType DEF Carried, Carries, Cur
<1>1. pc[r] \notin {"meta", "torn"}
  BY <1>0 DEF Carries, MidPCs, RecoverPCs
<1>t. /\ pc \in [Rank -> CheckpointPCs \cup RecoverPCs \cup {"clean", "done"}]
      /\ meta \in [Rank -> [Slots -> Metas]]
  BY DEF JobTyped, TypeOK
<1>o. ASSUME \A q \in Rank : q # r => pc'[q] = pc[q] /\ meta'[q] = meta[q], cp' = cp, NEW q \in Rank, q # r
      PROVE  /\ Full(q)' /\ pc'[q] \notin {"rmeta", "rtorn"} => Shows(q, V)'
             /\ pc'[q] = "barrier" => Shows(q, V)'
  <2>1. Shows(q, V) => Shows(q, V)'
    BY <1>o DEF Shows, HasMeta
  <2> QED BY <1>o, <2>1 DEF Returning, Full
<1>2. CASE MetaOpen(r)
  <2>1. /\ cp' = cp /\ meta' = [meta EXCEPT ![r][slot(V)] = TornMeta]
        /\ pc[r] \in {"rmeta", "xmeta"} /\ pc' = [pc EXCEPT ![r] = MetaFrom[pc[r]]]
    BY <1>0, <1>1, <1>2 DEF MetaOpen, MetaFrom
  <2>2. /\ \A q \in Rank : q # r => pc'[q] = pc[q] /\ meta'[q] = meta[q]
        /\ pc[r] = "rmeta" => pc'[r] = "rtorn"
        /\ pc[r] = "xmeta" => pc'[r] = "xtorn"
    BY <1>t, <2>1 DEF MetaFrom
  <2>3. TornMeta.is # "valid"
    BY DEF TornMeta, NoMeta
  <2>4. \A q \in Rank : \A s \in Slots : meta'[q][s] = meta[q][s] \/ meta'[q][s].is # "valid"
    BY <1>t, <2>1, <2>3
  <2>5. Full(r)' => pc'[r] = "rtorn"
    BY <1>0, <2>1, <2>2 DEF Carries, ExchangePCs, Full, XORDATA, FULLDATA
  <2>6. pc'[r] # "barrier"
    BY <2>1, <2>2
  <2> QED BY <1>0, <1>o, <2>1, <2>2, <2>4, <2>5, <2>6, StillReturning
<1>3. CASE MetaWrite(r)
  <2>1. PICK fo : meta' = [meta EXCEPT ![r][slot(V)] =
             [is |-> "valid", version |-> V, state |-> cp[r].state, failoffset |-> fo]]
    BY <1>0, <1>3 DEF MetaWrite, Carries
  <2>2. cp' = cp /\ pc[r] \in {"rtorn", "xtorn"} /\ pc' = [pc EXCEPT ![r] = MetaTo[pc[r]]]
    BY <1>1, <1>3 DEF MetaWrite, MetaTo, At
  <2>3. \A q \in Rank : q # r => pc'[q] = pc[q] /\ meta'[q] = meta[q]
    BY <1>t, <2>1, <2>2
  <2>4. \A q \in Rank : \A s \in Slots : meta'[q][s] = meta[q][s] \/ meta'[q][s].version = V
    BY <1>t, <2>1
  <2>5. cp[r].state # NODATA
    BY <1>0, <2>2 DEF Carries, ExchangePCs, Full, NODATA, XORDATA, FULLDATA
  <2>6. meta'[r][slot(V)] = [is |-> "valid", version |-> V, state |-> cp[r].state, failoffset |-> fo]
    BY <1>0, <1>t, <2>1
  <2>7. Shows(r, V)'
    BY <2>5, <2>6 DEF Shows, HasMeta, slot
  <2> QED BY <1>0, <1>o, <2>2, <2>3, <2>4, <2>7, StillReturning
<1> QED BY <1>2, <1>3

\* A step of the recovery of V, up to its end.
LEMMA ReturningStep ==
    ASSUME ParityInv, faults = 0, NEW V \in Nat \ {0}, Carried(V), Returning(V), RecoverStep \/ MetaStep
    PROVE  Making(V)' \/ Returning(V)'
<1> USE DEF At, AllAt, Go
<1>t. JobTyped /\ SlotTruth /\ TypeOK
  BY DEF ParityInv, JobTyped
<1>p. \A r \in Rank : pc[r] \in MidPCs /\ Carries(r, V)
  BY DEF Carried, Carries
<1>0. ~Negotiate
  BY <1>p, SomeRank DEF Negotiate, MidPCs
<1>1. ASSUME NEW p \in PIDs, PartnerGather(p)
      PROVE  Returning(V)'
  <2>1. Carried(V)'
    BY <1>1, CarriedGather
  <2>2. meta' = meta /\ cp' = cp
        /\ \A q \in Rank : pc'[q] = pc[q] \/ (pc[q] = "gather" /\ pc'[q] \in {"send", "recvopen", "local"})
    <3> DEFINE pstates == [q \in PRank |-> cp[<<p, q>>].state = FULLDATA]
               peer == [r \in Rank |-> IF r \in pcomm(p) THEN assign_partner(pstates, r[2]) ELSE partner[r]]
    <3>1. meta' = meta /\ cp' = cp /\ \A r \in pcomm(p) : pc[r] = "gather"
      BY <1>1 DEF PartnerGather
    <3>2. \/ pc' = [r \in Rank |-> IF r \notin pcomm(p) \/ peer[r] = r[2] THEN pc[r]
                                   ELSE IF pstates[r[2]] THEN "send" ELSE "recvopen"]
          \/ pc' = [r \in Rank |-> IF r \in pcomm(p) THEN "local" ELSE pc[r]]
      BY <1>1 DEF PartnerGather
    <3> HIDE DEF peer, pstates
    <3> QED BY <3>1, <3>2
  <2>3. \A q \in Rank : /\ Full(q)' => Full(q)
                        /\ pc'[q] \notin {"rmeta", "rtorn"} => pc[q] \notin {"rmeta", "rtorn"}
                        /\ pc'[q] = "barrier" => pc[q] = "barrier"
    BY <2>2 DEF Full
  <2> QED BY <2>1, <2>2, <2>3, ReturningInMemory
<1>2. ASSUME NEW p \in PIDs, NEW s \in pcomm(p), NEW r \in pcomm(p), PairTransfer(s, r)
      PROVE  Returning(V)'
  <2>0. s \in Rank /\ r \in Rank
    BY GridFacts
  <2>1. Carried(V)'
    BY <1>t, <1>2, CarriedTransfer
  <2>2. /\ meta' = meta /\ pc[s] = "send" /\ pc[r] = "recv" /\ pc' = [pc EXCEPT ![s] = "gather", ![r] = "rmeta"]
        /\ \A q \in Rank : q \notin {s, r} => cp'[q] = cp[q]
    BY <1>2 DEF PairTransfer
  <2>3. Full(s)
    BY <1>p, <2>0, <2>2 DEF Carries
  <2>4. pc'[s] = "gather" /\ pc'[r] = "rmeta" /\ \A q \in Rank : q \notin {s, r} => pc'[q] = pc[q]
    BY <1>t, <2>0, <2>2 DEF TypeOK
  <2>5. \A q \in Rank : /\ Full(q)' /\ pc'[q] \notin {"rmeta", "rtorn"} => Full(q) /\ pc[q] \notin {"rmeta", "rtorn"}
                        /\ pc'[q] = "barrier" => pc[q] = "barrier"
    <3> TAKE q \in Rank
    <3>1. CASE q = s
      BY <2>2, <2>3, <2>4, <3>1
    <3>2. CASE q = r
      BY <2>4, <3>2
    <3>3. CASE q \notin {s, r}
      BY <2>2, <2>4, <3>3 DEF Full
    <3> QED BY <3>1, <3>2, <3>3
  <2> QED BY <2>1, <2>2, <2>5, ReturningInMemory
<1>3. ASSUME NEW r \in Rank, LoadLocal(r)
      PROVE  Returning(V)'
  <2>1. Carried(V)'
    BY <1>t, <1>3, CarriedLoad
  <2>2. meta' = meta /\ \A q \in Rank : pc'[q] = pc[q] \/ (pc[q] = "local" /\ pc'[q] \in {"xred", "failed"})
    BY <1>3 DEF LoadLocal
  <2>3. \A q \in Rank : cp'[q].state = cp[q].state
    <3> TAKE q \in Rank
    <3>1. cp[q] \in Cps /\ cp \in [Rank -> Cps]
      BY <1>t DEF TypeOK
    <3>2. \/ cp'[q] = cp[q]
          \/ cp'[q] = [cp[q] EXCEPT !.loaded = TRUE]
          \/ \E w : cp'[q] = [cp[q] EXCEPT !.loaded = TRUE, !.parity = w]
      <4>1. \/ cp' = cp
            \/ cp' = [cp EXCEPT ![r].loaded = TRUE]
            \/ \E w : cp' = [cp EXCEPT ![r].loaded = TRUE, ![r].parity = w]
        BY <1>3 DEF LoadLocal
      <4>2. ASSUME NEW w, cp' = [cp EXCEPT ![r].loaded = TRUE, ![r].parity = w]
            PROVE  cp'[q] = cp[q] \/ cp'[q] = [cp[q] EXCEPT !.loaded = TRUE, !.parity = w]
        BY <3>1, <4>2
      <4>3. CASE cp' = [cp EXCEPT ![r].loaded = TRUE]
        BY <3>1, <4>3
      <4> QED BY <4>1, <4>2, <4>3
    <3>3. CASE cp'[q] = [cp[q] EXCEPT !.loaded = TRUE]
      BY <3>1, <3>3 DEF Cps
    <3>4. ASSUME NEW w, cp'[q] = [cp[q] EXCEPT !.loaded = TRUE, !.parity = w]
          PROVE  cp'[q].state = cp[q].state
      BY <3>1, <3>4 DEF Cps
    <3> QED BY <3>2, <3>3, <3>4
  <2>4. \A q \in Rank : /\ Full(q)' => Full(q)
                        /\ pc'[q] \notin {"rmeta", "rtorn"} => pc[q] \notin {"rmeta", "rtorn"}
                        /\ pc'[q] = "barrier" => pc[q] = "barrier"
    BY <2>2, <2>3 DEF Full
  <2> QED BY <2>1, <2>2, <2>4, ReturningInMemory
<1>10. ASSUME NEW r \in Rank, SenderFails(r)
      PROVE  Returning(V)'
  <2>1. Carried(V)'
    BY <1>t, <1>10, CarriedFails
  <2>2. meta' = meta /\ cp' = cp /\ \A q \in Rank : pc'[q] = pc[q] \/ (pc[q] = "send" /\ pc'[q] = "failed")
    BY <1>10 DEF SenderFails
  <2>3. \A q \in Rank : /\ Full(q)' => Full(q)
                        /\ pc'[q] \notin {"rmeta", "rtorn"} => pc[q] \notin {"rmeta", "rtorn"}
                        /\ pc'[q] = "barrier" => pc[q] = "barrier"
    BY <2>2 DEF Full
  <2> QED BY <2>1, <2>2, <2>3, ReturningInMemory
<1>4. ASSUME NEW x \in PRank, XorPhase(x)
      PROVE  Returning(V)'
  <2>1. Carried(V)'
    BY <1>4, CarriedXor
  <2>2. meta' = meta /\ \A q \in Rank : pc'[q] = pc[q] \/ (pc[q] = "xred" /\ pc'[q] = "land")
    BY <1>4, GridFacts DEF XorPhase
  <2>3. \A q \in Rank : Full(q)' => Full(q)
    <3> TAKE q \in Rank
    <3>1. cp'[q] = cp[q] \/ \E w : cp'[q] = [cp[q] EXCEPT !.state = XORDATA, !.parity = w]
      BY <1>4 DEF XorPhase
    <3>2. ASSUME NEW w, cp'[q] = [cp[q] EXCEPT !.state = XORDATA, !.parity = w]
          PROVE  cp'[q].state = XORDATA
      BY <1>t, <3>2 DEF TypeOK, Cps
    <3>3. XORDATA # FULLDATA
      BY DEF XORDATA, FULLDATA
    <3>4. cp'[q].state = cp[q].state \/ cp'[q].state = XORDATA
      BY <3>1, <3>2
    <3> QED BY <3>3, <3>4 DEF Full
  <2>4. \A q \in Rank : /\ pc'[q] \notin {"rmeta", "rtorn"} => pc[q] \notin {"rmeta", "rtorn"}
                        /\ pc'[q] = "barrier" => pc[q] = "barrier"
    BY <2>2
  <2> QED BY <2>1, <2>2, <2>3, <2>4, ReturningInMemory
<1>5. ASSUME NEW p \in PIDs, Land(p)
      PROVE  Returning(V)'
  <2>1. Carried(V)'
    BY <1>t, <1>5, CarriedExchange
  <2>2. /\ meta' = meta /\ cp' = cp
        /\ \A r \in pcomm(p) : r \in Rank /\ pc[r] = "land"
        /\ \/ \A q \in Rank : pc'[q] \in {pc[q], "xopen"}
           \/ /\ \E r \in pcomm(p) : cp[r].state # XORDATA
              /\ \A q \in Rank : pc'[q] = IF q \in pcomm(p) THEN "barrier" ELSE pc[q]
    BY <1>5, GridFacts DEF Land
  <2>3. ASSUME NEW r \in pcomm(p), cp[r].state # XORDATA, NEW q \in pcomm(p)
        PROVE  Full(q)
    <3>1. r \in Rank /\ q \in Rank /\ r[1] = q[1] /\ pc[r] = "land"
      BY <2>2, GridFacts
    <3>2. cp[r].state # NODATA
      BY <1>p, <3>1 DEF Carries, RebuiltPCs, LatePCs
    <3>3. cp[r].state \in States
      BY <1>t, <3>1 DEF TypeOK, Cps
    <3>4. Full(r)
      BY <2>3, <3>2, <3>3 DEF Full, States
    <3> QED BY <3>1, <3>4 DEF Carried, InStep, LatePCs
  <2>4. \A q \in Rank : /\ Full(q)' => Full(q)
                        /\ pc'[q] \notin {"rmeta", "rtorn"} => pc[q] \notin {"rmeta", "rtorn"}
                        /\ pc'[q] = "barrier" => (Full(q) /\ pc[q] \notin {"rmeta", "rtorn"}) \/ pc[q] = "barrier"
    <3> TAKE q \in Rank
    <3>1. Full(q)' => Full(q)
      BY <2>2 DEF Full
    <3>2. CASE pc'[q] \in {pc[q], "xopen"} /\ q \notin pcomm(p)
      BY <1>5, <3>1, <3>2 DEF Land
    <3>3. CASE q \in pcomm(p)
      BY <2>2, <2>3, <3>1, <3>3
    <3> QED BY <2>2, <3>2, <3>3
  <2> QED BY <2>1, <2>2, <2>4, ReturningInMemory
<1>6. ASSUME NEW p \in PIDs, ExchangeTransfer(p)
      PROVE  Returning(V)'
  <2>1. Carried(V)'
    BY <1>t, <1>6, CarriedExchange
  <2>2. meta' = meta /\ cp' = cp
        /\ \A q \in Rank : pc'[q] = pc[q] \/ (pc[q] = "xtransfer" /\ pc'[q] \in {"xmeta", "failed"})
    BY <1>6, GridFacts DEF ExchangeTransfer
  <2>3. \A q \in Rank : /\ Full(q)' => Full(q)
                        /\ pc'[q] \notin {"rmeta", "rtorn"} => pc[q] \notin {"rmeta", "rtorn"}
                        /\ pc'[q] = "barrier" => pc[q] = "barrier"
    BY <2>2 DEF Full
  <2> QED BY <2>1, <2>2, <2>3, ReturningInMemory
<1>7. ASSUME NEW r \in Rank, ReceiverOpen(r) \/ ExchangeOpen(r)
      PROVE  Returning(V)'
  BY <1>t, <1>7, ReturningOpen
<1>8. ASSUME NEW r \in Rank, MetaOpen(r) \/ MetaWrite(r)
      PROVE  Returning(V)'
  BY <1>t, <1>8, ReturningMeta
<1>9. Barrier => Making(V)'
  BY ReturnedMakes
<1> QED BY <1>0, <1>1, <1>2, <1>3, <1>4, <1>5, <1>6, <1>7, <1>8, <1>9, <1>10 DEF RecoverStep, MetaStep

\* A step that changes nothing.
LEMMA MakingUntouched ==
    ASSUME TypeOK, TypeOK', NEW b, Making(b), UNCHANGED vars
    PROVE  Making(b)'
<1>1. UNCHANGED <<pc, version, mem, cp, meta, file, run, faults>>
  BY DEF vars
<1>2. PaceInv'
  <2>1. PaceInv /\ [CheckpointNext]_vars
    BY DEF Making
  <2> QED BY <2>1, PaceStep
<1>3. ASSUME NEW r \in Rank
      PROVE  Keeps(r, b)' /\ Near(r, b)'
  <2>1. Keeps(r, b) /\ Near(r, b)
    BY DEF Making
  <2>2. \A v : Presents(r, v, b) => Presents(r, v, b)'
    BY <1>1 DEF Presents, Shows, HasMeta, slot
  <2>3. \A v : Kept(r, v)' => Kept(r, v)
    BY <1>1 DEF Kept
  <2>4. Keeps(r, b)'
    BY <1>1, <2>1, <2>2, <2>3 DEF Keeps, Full
  <2>5. Near(r, b)'
    BY <1>1, <2>1 DEF Near
  <2> QED BY <2>4, <2>5
<1> QED BY <1>2, <1>3 DEF Making

LEMMA ReturningUntouched ==
    ASSUME NEW V, Returning(V), UNCHANGED vars
    PROVE  Returning(V)'
<1>1. UNCHANGED <<pc, version, cp, meta>>
  BY DEF vars
<1>2. \A r \in Rank : Shows(r, V)' <=> Shows(r, V)
  BY <1>1 DEF Shows, HasMeta, slot
<1>3. Close(V)'
  BY <1>1 DEF Returning, Close
<1> QED BY <1>1, <1>2, <1>3 DEF Returning, Full

\* While calls are made, steps are steps of calls.
LEMMA MakingStep ==
    ASSUME JobTyped, JobTyped', SlotTruth, faults = 0, faults' = 0, NEW b \in Nat, Making(b),
           [CombinedNext]_vars, ~Crashes
    PROVE  Making(b)'
<1>1. ~RecoverStep
  BY StepsWhere DEF Making, PaceInv, CallPCs, CheckpointPCs, RecoverPCs
<1>2. CASE CheckpointStep \/ MetaStep
  BY <1>2, MakingCall
<1>3. CASE FinalizeStep
  BY <1>3, MakingEnds DEF FinalizeStep, Finalizes, JobTyped
<1>4. CASE UNCHANGED vars
  BY <1>4, MakingUntouched DEF JobTyped
<1> QED BY <1>1, <1>2, <1>3, <1>4 DEF CombinedNext, JobEnded, JobHangs

\* The second run.
LEMMA SecondRunProgress ==
    ASSUME JobInv, JobTyped', faults' = 0, run = 2, ProgressInv, NothingHidden, [CombinedNext]_vars, ~Crashes
    PROVE  \/ AllAt(Rank, "load")' /\ Spread'
           \/ \E V \in Nat \ {0} : Returning(V)'
           \/ \E b \in Nat : Making(b)'
<1>t. ParityInv /\ JobTyped /\ SlotTruth /\ faults = 0 /\ SecondRun
  BY DEF JobInv, ParityInv
<1>1. CASE AllAt(Rank, "load") /\ Spread /\ ~UNCHANGED vars
  <2>0. \A r \in Rank : pc[r] = "load"
    BY <1>1 DEF AllAt, At
  <2>1. ~CheckpointStep /\ ~MetaStep
    BY <2>0, StepsWhere DEF CheckpointPCs
  <2>2. ~FinalizeStep
    BY <2>0 DEF FinalizeStep, Finalize, RemoveMeta, RemoveFile, Cleaned, At
  <2>3. Negotiate
    BY <1>1, <2>0, <2>1, <2>2, StepsWhere DEF CombinedNext, JobEnded, JobHangs
  <2>4. LeftBehind
    BY <1>t, <2>0, SomeRank DEF SecondRun, Carried, Carries, MidPCs, CallPCs, CheckpointPCs
  <2>5. Making(0)' \/ \E V \in Nat \ {0} : Returning(V)'
    BY <1>t, <1>1, <2>3, <2>4, NegotiateReturns
  <2> QED BY <2>5
<1>2. CASE AllAt(Rank, "load") /\ Spread /\ UNCHANGED vars
  <2>1. UNCHANGED <<pc, meta>>
    BY <1>2 DEF vars
  <2>2. Spread'
    BY <1>2, <2>1 DEF Spread, Close
  <2> QED BY <1>2, <2>1, <2>2 DEF AllAt, At
<1>3. ASSUME NEW V \in Nat \ {0}, Returning(V)
      PROVE  Making(V)' \/ Returning(V)'
  <2>0. \A r \in Rank : pc[r] \in MidPCs /\ version[r] = V
    BY <1>3 DEF Returning
  <2>1. Carried(V)
    <3>1. PICK r \in Rank : TRUE
      BY SomeRank
    <3>2. pc[r] # "load" /\ pc[r] \notin CallPCs
      BY <2>0 DEF MidPCs, RecoverPCs, CallPCs, CheckpointPCs
    <3>3. ~AllAt(Rank, "load") /\ ~ \A q \in Rank : pc[q] \in CallPCs
      BY <3>2 DEF AllAt, At
    <3>4. PICK W \in Nat \ {0} : Carried(W)
      BY <1>t, <3>3 DEF SecondRun
    <3>5. W = version[r]
      BY <3>4 DEF Carried, Carries
    <3> QED BY <2>0, <3>4, <3>5
  <2>2. ~CheckpointStep /\ ~FinalizeStep
    <3>1. \A r \in Rank : pc[r] \notin CheckpointPCs
      BY <2>0 DEF MidPCs, CheckpointPCs, RecoverPCs
    <3>2. \A r \in Rank : pc[r] \notin {"app", "clean"}
      BY <2>0 DEF MidPCs, RecoverPCs
    <3> QED BY <3>1, <3>2, StepsWhere DEF FinalizeStep, Finalize, RemoveMeta, RemoveFile, Cleaned, At
  <2>3. CASE RecoverStep \/ MetaStep
    BY <1>t, <1>3, <2>1, <2>3, ReturningStep
  <2>4. CASE UNCHANGED vars
    BY <1>3, <2>4, ReturningUntouched
  <2> QED BY <2>2, <2>3, <2>4 DEF CombinedNext, JobEnded, JobHangs
<1>4. ASSUME NEW b \in Nat, Making(b)
      PROVE  Making(b)'
  BY <1>t, <1>4, MakingStep
<1> QED BY <1>1, <1>2, <1>3, <1>4 DEF ProgressInv

LEMMA ProgressStep ==
    ASSUME MaxFaults = 0, JobInv, ProgressInv, NothingHidden, [CombinedNext]_vars
    PROVE  ProgressInv'
<1>1. faults = 0 /\ faults' = 0 /\ (~Crashes => run' = run) /\ (Crashes => run' = run + 1)
  BY RunsAndFaults DEF JobInv
<1>2. run \in Nat /\ run >= 1 /\ JobTyped /\ SlotTruth
  BY DEF JobInv, ParityInv, JobTyped, TypeOK
<1>3. JobTyped'
  BY JobTypedStep DEF JobInv, ParityInv
<1>4. CASE Crashes
  <2>1. run' # 1 /\ (run' = 2 => run = 1)
    BY <1>1, <1>2, <1>4
  <2>2. ASSUME run = 1
        PROVE  AllAt(Rank, "load")' /\ Spread'
    <3>1. PICK L : Crash(L)
      BY <1>4 DEF Crashes
    <3> QED BY <1>1, <1>2, <2>2, <3>1, SpreadLeft DEF JobInv
  <2> QED BY <2>1, <2>2 DEF ProgressInv
<1>5. CASE ~Crashes
  <2>1. run' = run
    BY <1>1, <1>5
  <2>2. run = 1 => Making(StartVersion)'
    <3>1. StartVersion \in Nat
      BY CombinedAssumption, CommunityAssumption
    <3> QED BY <1>1, <1>2, <1>3, <1>5, <3>1, MakingStep DEF ProgressInv
  <2>3. run = 2 => \/ AllAt(Rank, "load")' /\ Spread'
                   \/ \E V \in Nat \ {0} : Returning(V)'
                   \/ \E b \in Nat : Making(b)'
    BY <1>1, <1>3, <1>5, SecondRunProgress
  <2> QED BY <2>1, <2>2, <2>3 DEF ProgressInv
<1> QED BY <1>4, <1>5

-----------------------------------------------------------------------------
(* The theorems about progress.                                            *)

LEMMA ProgressHolds ==
    ASSUME CpCount >= 2, JobInv, ProgressInv, run \in 1 .. MaxRuns, run <= 2
    PROVE  ProgressKept
<1>1. run = 1 \/ run = 2
  BY CombinedAssumption
<1>2. JobTyped /\ faults = 0 /\ StartVersion \in Nat
  BY CombinedAssumption, CommunityAssumption DEF JobInv, ParityInv
<1>3. ASSUME NEW b \in Nat, Making(b)
      PROVE  ProgressKept
  BY <1>2, <1>3, MakingProgress
<1>4. ASSUME \E r \in Rank : pc[r] \notin CheckpointPCs
      PROVE  ProgressKept
  BY <1>4 DEF ProgressKept
<1>5. AllAt(Rank, "load") => ProgressKept
  BY <1>4, SomeRank DEF AllAt, At, CheckpointPCs
<1>6. ASSUME NEW V \in Nat \ {0}, Returning(V)
      PROVE  ProgressKept
  BY <1>4, <1>6, SomeRank DEF Returning, MidPCs, RecoverPCs, CheckpointPCs
<1> QED BY <1>1, <1>2, <1>3, <1>5, <1>6 DEF ProgressInv

\* A job makes progress after its first restart, whatever the grid and the losses:
\* from the recovery of version V on, through any number of checkpoints that
\* overwrite the files of the first run, a restart after a kill that tears no
\* metadata chooses the last complete checkpoint or a newer one.  With two kept
\* checkpoints at least, and unless the restart found nothing to recover while
\* versions more than cpcount ahead of its new count are left on the disks.
THEOREM ProgressIsKept ==
    MaxFaults = 0 /\ CpCount >= 2 => (CombinedSpec /\ []NothingHidden => [](run <= 2 => ProgressKept))
<1> SUFFICES ASSUME MaxFaults = 0, CpCount >= 2
             PROVE  CombinedSpec /\ []NothingHidden => [](run <= 2 => ProgressKept)
  OBVIOUS
<1>1. CombinedInit => ProgressInv
  <2> SUFFICES ASSUME CombinedInit
               PROVE  ProgressInv
    OBVIOUS
  <2>1. run = 1
    BY FirstRunStart
  <2> QED BY <2>1, MakingStart DEF ProgressInv
<1>2. JobInv /\ ProgressInv /\ NothingHidden /\ [CombinedNext]_vars => ProgressInv'
  BY ProgressStep
<1>3. JobInv /\ ProgressInv /\ run \in 1 .. MaxRuns => (run <= 2 => ProgressKept)
  BY ProgressHolds
<1> QED BY <1>1, <1>2, <1>3, JobInvariant, RunsBounded, PTL DEF CombinedSpec

\* So in a job that is restarted once at most and makes no more than cpcount + 1
\* checkpoints nothing is hidden, and the last complete checkpoint is not lost.
COROLLARY ProgressOfOneRestart ==
    MaxFaults = 0 /\ CpCount >= 2 /\ MaxRuns <= 2 /\ MaxVersion <= CpCount + 1
        => (CombinedSpec => []ProgressKept)
<1> SUFFICES ASSUME MaxFaults = 0, CpCount >= 2, MaxRuns <= 2, MaxVersion <= CpCount + 1
             PROVE  CombinedSpec => []ProgressKept
  OBVIOUS
<1>1. JobInv => NothingHidden
  <2> SUFFICES ASSUME JobInv, NEW r \in Rank, NEW s \in Slots, meta[r][s].is = "valid"
               PROVE  meta[r][s].version <= CpCount + 1
    BY DEF NothingHidden
  <2>1. meta[r][s].version \in Nat /\ meta[r][s].version <= MaxVersion
    BY DEF JobInv, ParityInv, JobTyped, TypeOK, VersionsBounded, Metas
  <2> QED BY <2>1, CommunityAssumption
<1>2. run \in 1 .. MaxRuns => run <= 2
  BY CombinedAssumption
<1> QED BY <1>1, <1>2, ProgressIsKept, JobInvariant, RunsBounded, PTL
=============================================================================
