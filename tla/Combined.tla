------------------------------ MODULE Combined ------------------------------
(***************************************************************************)
(* The life of a job that uses the library: runs that recover, checkpoint  *)
(* and finalize, ended by failures of the job, each of which may take the  *)
(* disks of some ranks with it.                                            *)
(***************************************************************************)
EXTENDS Checkpoint, Recovery

CONSTANTS
    MaxRuns,   \* bound: starts of the job
    MaxLost,   \* bound: disks lost in one failure
    StartVersion, \* where the exploration of the first run starts
    Cleanup    \* the argument of COMB_Finalize

ASSUME CombinedAssumption ==
    /\ MaxRuns \in Nat \ {0}
    /\ MaxLost \in Nat
    /\ StartVersion \in 0 .. MaxVersion
    /\ Cleanup \in BOOLEAN

\* The disk of r after checkpoint v: complete, or left XORDATA by a parity
\* Allgather that failed at r (r in S).
AfterCheckpoint(r, v, S) ==
    [meta |-> [is |-> "valid", version |-> v, state |-> IF r \in S THEN XORDATA ELSE FULLDATA,
               failoffset |-> IF r \in S THEN "parity" ELSE "none"],
     file |-> [kind |-> IF r \in S THEN "local" ELSE "whole",
               data |-> [q \in PRank |-> <<1, v>>],
               parity |-> [q \in PRank |-> IF r \in S /\ q # r[2] THEN Garbage ELSE <<1, v>>]]]

\* The exploration starts where every rank has returned from checkpoint
\* StartVersion of the first run; all MPI calls succeeded, or the last parity
\* Allgather of one partner group failed at the ranks of S.
CombinedInit ==
    IF StartVersion = 0 THEN Init
    ELSE /\ pc = [r \in Rank |-> "app"]
         /\ version = [r \in Rank |-> StartVersion]
         /\ mem = [r \in Rank |-> <<1, StartVersion>>]
         /\ cp = [r \in Rank |-> NoCp]
         /\ partner = [r \in Rank |-> r[2]]
         /\ lostpgroup = FALSE
         /\ run = 1
         /\ \E S \in {{}} \cup (IF MaxFaults = 0 THEN {} ELSE UNION {SUBSET pcomm(p) : p \in PIDs}) :
             /\ faults = IF S = {} THEN 0 ELSE 1
             /\ meta = [r \in Rank |-> [s \in Slots |-> IF s = slot(StartVersion)
                                            THEN AfterCheckpoint(r, StartVersion, S).meta ELSE NoMeta]]
             /\ file = [r \in Rank |-> [s \in Slots |-> IF s = slot(StartVersion)
                                            THEN AfterCheckpoint(r, StartVersion, S).file ELSE NoFile]]

\* Files of a rank whose disk is new.
EmptyDisks(S) ==
    /\ meta' = [r \in Rank |-> IF r \in S THEN [s \in Slots |-> NoMeta] ELSE meta[r]]
    /\ file' = [r \in Rank |-> IF r \in S THEN [s \in Slots |-> NoFile] ELSE file[r]]

\* All processes are killed wherever they are; the job is started again on
\* replacements for the nodes of L and calls COMB_Init and COMB_Protect.
Crash(L) ==
    /\ ~AllAt(Rank, "load") /\ ~AllAt(Rank, "done")
    /\ run' = run + 1
    /\ Go(Rank, "load")
    /\ version' = [r \in Rank |-> 0]
    /\ mem' = [r \in Rank |-> <<run + 1, 0>>]
    /\ cp' = [r \in Rank |-> NoCp]
    /\ partner' = [r \in Rank |-> r[2]]
    /\ lostpgroup' = FALSE
    /\ EmptyDisks(L)
    /\ UNCHANGED faults

Crashes == run < MaxRuns /\ \E L \in {K \in SUBSET Rank : Cardinality(K) <= MaxLost} : Crash(L)

\* COMB_Finalize after the last checkpoint.
Finalize(r) ==
    /\ At(r, "app") /\ version[r] = MaxVersion
    /\ Go({r}, IF Cleanup THEN "clean" ELSE "done")
    /\ UNCHANGED <<version, mem, cp, partner, lostpgroup, meta, file, run, faults>>

\* free_cps_files removes the rank's files one by one, in directory order: the
\* metadata of a slot before its checkpoint file or after it.
RemoveMeta(r) ==
    /\ At(r, "clean")
    /\ \E s \in Slots : meta[r][s] # NoMeta /\ meta' = [meta EXCEPT ![r][s] = NoMeta]
    /\ UNCHANGED <<pc, version, mem, cp, partner, lostpgroup, file, run, faults>>

RemoveFile(r) ==
    /\ At(r, "clean")
    /\ \E s \in Slots : file[r][s] # NoFile /\ file' = [file EXCEPT ![r][s] = NoFile]
    /\ UNCHANGED <<pc, version, mem, cp, partner, lostpgroup, meta, run, faults>>

Cleaned(r) ==
    /\ At(r, "clean")
    /\ \A s \in Slots : meta[r][s] = NoMeta /\ file[r][s] = NoFile
    /\ Go({r}, "done")
    /\ UNCHANGED <<version, mem, cp, partner, lostpgroup, meta, file, run, faults>>

FinalizeStep == \E r \in Rank : Finalize(r) \/ RemoveMeta(r) \/ RemoveFile(r) \/ Cleaned(r)

JobEnded == AllAt(Rank, "done") /\ UNCHANGED vars

\* A rank whose COMB_Recover failed leaves the others waiting in a collective;
\* only a failure of the job ends this.
JobHangs == (\E r \in Rank : At(r, "failed")) /\ UNCHANGED vars

CombinedNext ==
    \/ CheckpointStep
    \/ MetaStep
    \/ RecoverStep
    \/ Crashes
    \/ FinalizeStep
    \/ JobEnded
    \/ JobHangs

CombinedSpec == CombinedInit /\ [][CombinedNext]_vars

\* Every process runs on until it waits in a collective or for its partner, and
\* every call all partners of which have arrived ends.
RecoverFairness ==
    /\ WF_vars(Negotiate) /\ WF_vars(Barrier)
    /\ \A r \in Rank : /\ WF_vars(ReceiverOpen(r)) /\ WF_vars(LoadLocal(r)) /\ WF_vars(ExchangeOpen(r))
                       /\ WF_vars(SenderFails(r)) /\ WF_vars(MetaOpen(r)) /\ WF_vars(MetaWrite(r))
    /\ \A p \in PIDs : /\ WF_vars(PartnerGather(p)) /\ WF_vars(Land(p)) /\ WF_vars(ExchangeTransfer(p))
                       /\ WF_vars(\E s, r \in pcomm(p) : PairTransfer(s, r))
    /\ \A x \in PRank : WF_vars(XorPhase(x))

CombinedFairSpec == CombinedSpec /\ RecoverFairness

-----------------------------------------------------------------------------
(* Properties.                                                             *)

\* The partner groups of which no rank has valid metadata left.
Gone == {p \in PIDs : \A r \in pcomm(p) : local_versions(r) = {}}

\* The first restart after a complete checkpoint finds it if, and only if, at
\* most one partner group has lost all its disks, whichever and however many
\* ranks those and the other losses hit.
LossesThatRecover ==
    AllAt(Rank, "load") /\ run = 2 =>
        \A V \in Outcomes({}) : V = StartVersion <=> ~MoreThanOne(Gone)

\* The first recovery may itself be killed at any point, also while it
\* rewrites checkpoint files: the next restart finds the version again.
RecoveryKillable ==
    run = 2 /\ (\E r \in Rank : pc[r] \in RecoverPCs \ {"load"})
        => \A V \in Outcomes({}) : \A r \in Rank : V = version[r]

\* While checkpoints are made in a restarted job, over files of the first run,
\* the last complete checkpoint is not lost: killed with no metadata torn, the
\* job would restart from it or from a newer one.
ProgressKept ==
    (\A r \in Rank : pc[r] \in CheckpointPCs) /\ TornRanks = {}
        => \A V \in Outcomes({}) : V >= Complete

\* The decision of theoretical_repair is the right one: one partner phase and
\* one XOR phase rebuild whatever any order and number of phases could.
RepairDecides ==
    AllAt(Rank, "load") =>
        \A v \in ccomm_versions({}) : (repairphase(v, {}) > 0) = Rebuildable(ccommstates(v, {}))

\* A recovery ends, however many disks were lost, if no checkpoint file is
\* missing where there is metadata.
RecoveryEnds == AllAt(Rank, "load") /\ Intact ~> AllAt(Rank, "app")

\* What a restart would put together as version V is one checkpoint: the ranks
\* that present V hold data of the same run of the job.
OneCheckpointChosen ==
    AllAt(Rank, "load") =>
        \A V \in Outcomes({}) \ {0} :
            LET held == {r \in Rank : V \in local_versions(r)}
            IN  \A r, s \in held : file[r][slot(V)].data[r[2]] = file[s][slot(V)].data[s[2]]
=============================================================================
