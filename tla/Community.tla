------------------------------ MODULE Community ------------------------------
(***************************************************************************)
(* The state of one community of ranks and of their local disks, and the   *)
(* pieces of code that COMB_Checkpoint and COMB_Recover share.             *)
(*                                                                         *)
(* The bytes of the protected variables, and of the XOR parity computed    *)
(* from them, are a stamp <<run, version>>: the data the application held  *)
(* when it made checkpoint "version" in the job's run number "run".        *)
(***************************************************************************)
EXTENDS Repair

CONSTANTS
    CpCount,     \* cp_history: checkpoints kept per rank
    MaxVersion,  \* bound: the application makes this many checkpoints
    MaxFaults    \* bound: MPI calls of COMB_Checkpoint that report an error

ASSUME CommunityAssumption ==
    /\ CpCount \in Nat /\ CpCount >= 1
    /\ MaxVersion \in Nat
    /\ MaxFaults \in Nat

VARIABLES
    pc,          \* rank -> where it is inside the library ("app": outside)
    version,     \* rank -> the global "version"
    mem,         \* rank -> stamp of the protected variables
    cp,          \* rank -> the checkpoint in work (head of "cps")
    partner,     \* rank -> "partner" of COMB_Recover
    lostpgroup,  \* broadcast by the negotiation: some version needs parity
    meta,        \* rank -> slot -> meta-<slot>-<rank>.dat
    file,        \* rank -> slot -> cp-<slot>-<rank>.dat
    run,         \* ghost: how often the job was started
    faults       \* ghost: MPI errors so far

vars == <<pc, version, mem, cp, partner, lostpgroup, meta, file, run, faults>>

Stamp == Nat \X Nat
Garbage == <<0, 0>>       \* bytes that belong to no checkpoint

Slots == 0 .. CpCount - 1

\* Mutant: quotient and remainder confused.
slotDiv(v) == (v \div CpCount) % CpCount

\* File names end in version % cpcount (naming_utils.c).
slot(v) == v % CpCount

(***************************************************************************)
(* A metadata file is absent, torn (created or truncated by open, not yet  *)
(* written: its read is short) or valid.                                   *)
(* failoffset: "none" (-1), "parity" (where the parity Allgather failed)   *)
(* or "wild" (whatever malloc returned).                                   *)
(***************************************************************************)
FailOffsets == {"none", "parity", "wild"}
Metas == [is : {"absent", "torn", "valid"}, version : Nat, state : States, failoffset : FailOffsets]
NoMeta   == [is |-> "absent", version |-> 0, state |-> NODATA, failoffset |-> "none"]
TornMeta == [NoMeta EXCEPT !.is = "torn"]

(***************************************************************************)
(* A checkpoint file holds a copy of the data and parity of every member   *)
(* of the partner group, interleaved by chunk ("whole"), or ends in the    *)
(* rank's own parity only ("local": the parity Allgather failed).  It is   *)
(* "empty" while it is absent or not yet written to its end.               *)
(***************************************************************************)
Files == [kind : {"empty", "whole", "local"}, data : [PRank -> Stamp], parity : [PRank -> Stamp]]
NoFile == [kind |-> "empty", data |-> [q \in PRank |-> Garbage], parity |-> [q \in PRank |-> Garbage]]

\* chunks: how many chunks of the loop the rank is in are behind it (computedb
\* of xor_checkpoint, sentb of all_transfer_and_write).
Cps == [state : States, loaded : BOOLEAN, failoffset : FailOffsets \cup {"unset"}, parity : Stamp,
        chunks : Nat]
NoCp == [state |-> NODATA, loaded |-> FALSE, failoffset |-> "unset", parity |-> Garbage, chunks |-> 0]

\* xor .. torn: COMB_Checkpoint; load .. barrier: COMB_Recover; clean: COMB_Finalize.
CheckpointPCs == {"app", "xor", "open", "transfer", "meta", "torn"}
RecoverPCs == {"load", "gather", "send", "recvopen", "recv", "rmeta", "rtorn", "local", "xred",
               "land", "xopen", "xtransfer", "xmeta", "xtorn", "barrier", "failed"}

TypeOK ==
    /\ pc \in [Rank -> CheckpointPCs \cup RecoverPCs \cup {"clean", "done"}]
    /\ version \in [Rank -> Nat]
    /\ mem \in [Rank -> Stamp]
    /\ cp \in [Rank -> Cps]
    /\ partner \in [Rank -> PRank]
    /\ lostpgroup \in BOOLEAN
    /\ meta \in [Rank -> [Slots -> Metas]]
    /\ file \in [Rank -> [Slots -> Files]]
    /\ run \in Nat
    /\ faults \in Nat

\* A fresh start: empty directory, nothing recovered.
Init ==
    /\ pc = [r \in Rank |-> "app"]
    /\ version = [r \in Rank |-> 0]
    /\ mem = [r \in Rank |-> <<1, 0>>]
    /\ cp = [r \in Rank |-> NoCp]
    /\ partner = [r \in Rank |-> r[2]]
    /\ lostpgroup = FALSE
    /\ meta = [r \in Rank |-> [s \in Slots |-> NoMeta]]
    /\ file = [r \in Rank |-> [s \in Slots |-> NoFile]]
    /\ run = 1
    /\ faults = 0

-----------------------------------------------------------------------------
At(r, s) == pc[r] = s
AllAt(S, s) == \A r \in S : pc[r] = s

\* The ranks of S move on to s.
Go(S, s) == pc' = [r \in Rank |-> IF r \in S THEN s ELSE pc[r]]

\* The slot of the checkpoint rank r works on.
Cur(r) == slot(version[r])

\* Mutant: the old metadata stays until it is overwritten.
KeepOldMeta(r) == meta' = meta /\ file' = [file EXCEPT ![r][Cur(r)] = NoFile]

\* partner_checkpoint and the receiving side of partner_recover: remove the
\* metadata of the old checkpoint, open the checkpoint file with O_TRUNC.
OpenCpFile(r) ==
    /\ meta' = [meta EXCEPT ![r][Cur(r)] = NoMeta]
    /\ file' = [file EXCEPT ![r][Cur(r)] = NoFile]

\* What all ranks of p hold after both Allgathers: everybody's data and parity.
GatheredFile(p) ==
    [kind |-> "whole",
     data |-> [q \in PRank |-> mem[<<p, q>>]],
     parity |-> [q \in PRank |-> cp[<<p, q>>].parity]]

\* Mutant: COMB_Checkpoint opens its metadata again and again.
MetaReopen == [meta |-> "meta", rmeta |-> "rtorn", xmeta |-> "xtorn"]

\* write_metadata_file, first half: open with O_TRUNC.
MetaFrom == [meta |-> "torn", rmeta |-> "rtorn", xmeta |-> "xtorn"]
MetaOpen(r) ==
    /\ pc[r] \in DOMAIN MetaFrom
    /\ pc' = [pc EXCEPT ![r] = MetaFrom[pc[r]]]
    /\ meta' = [meta EXCEPT ![r][Cur(r)] = TornMeta]
    /\ UNCHANGED <<version, mem, cp, partner, lostpgroup, file, run, faults>>

\* write_metadata_file, second half: one write.  failoffset of a checkpoint
\* that COMB_Recover allocated was never assigned.
MetaTo == [torn |-> "app", rtorn |-> "gather", xtorn |-> "barrier"]
MetaWrite(r) ==
    /\ pc[r] \in DOMAIN MetaTo
    /\ pc' = [pc EXCEPT ![r] = MetaTo[pc[r]]]
    /\ \E fo \in IF cp[r].failoffset = "unset" THEN {"none", "wild"} ELSE {cp[r].failoffset} :
          meta' = [meta EXCEPT ![r][Cur(r)] =
             [is |-> "valid", version |-> version[r], state |-> cp[r].state, failoffset |-> fo]]
    \* COMB_Checkpoint ends in free_cps_mem
    /\ cp' = IF At(r, "torn") THEN [cp EXCEPT ![r] = NoCp] ELSE cp
    /\ UNCHANGED <<version, mem, partner, lostpgroup, file, run, faults>>

MetaStep == \E r \in Rank : MetaOpen(r) \/ MetaWrite(r)
=============================================================================
