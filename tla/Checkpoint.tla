----------------------------- MODULE Checkpoint -----------------------------
(***************************************************************************)
(* COMB_Checkpoint of all ranks of a community (src/src/combined.c and     *)
(* src/src/checkpoint_utils.c).  A collective MPI call is one step of the  *)
(* ranks of its communicator, taken when the last of them has arrived;     *)
(* what a rank does between two calls that touches its own disk is a step  *)
(* of the rank.  A chunk loop is a loop of collectives.  As long as all of *)
(* them succeed its turns are one step, since nothing reads the file before *)
(* its metadata is written; a turn that fails at some of the ranks leaves  *)
(* the others in the loop, where they meet the next call of the former.    *)
(***************************************************************************)
EXTENDS Negotiation

CONSTANTS
    XorChunks,   \* turns of the loop of xor_checkpoint
    DataChunks,  \* turns of the loop of all_transfer_and_write for the data ...
    ParityChunks \* ... and for the parity

ASSUME CheckpointAssumption ==
    /\ XorChunks \in Nat \ {0}
    /\ DataChunks \in Nat \ {0}
    /\ ParityChunks \in Nat \ {0}

\* Rank r is, or calls COMB_Checkpoint and then is, in the loop of xor_checkpoint.
InXor(r) == At(r, "xor") \/ (At(r, "app") /\ version[r] < MaxVersion)

\* The checkpoint it makes there.
Enters(r) == IF At(r, "app") THEN version[r] + 1 ELSE version[r]

\* All ranks of column x are at the start of the same checkpoint.  Once one has
\* left a loop the others are still in, the rest of that loop mixes two of them.
Aligned(x) == \A r, s \in xcomm(x) : At(r, "app") /\ version[r] = version[s]

\* Mutant: the state of the new checkpoint is not set.
NewCpUnset(r) == [state |-> 0, loaded |-> FALSE, failoffset |-> "none", chunks |-> 0,
                  parity |-> IF Aligned(r[2]) THEN <<run, version[r] + 1>> ELSE Garbage]

NewCp(r) == [state |-> XORDATA, loaded |-> FALSE, failoffset |-> "none", chunks |-> 0,
             parity |-> IF Aligned(r[2]) THEN <<run, version[r] + 1>> ELSE Garbage]

\* COMB_Checkpoint up to the end of xor_checkpoint: the application's data has
\* moved on since its last checkpoint, the version is incremented, the ranks
\* of the XOR group get their share of the parity, in k calls of Reduce_scatter.
\* The ranks of S see the last of these fail: they return FAILED and keep the
\* new version number.  The others write on, or stay in the loop.
EnterXor(x, k, S) ==
    LET made(r) == cp[r].chunks + k
    IN  /\ k > 0 /\ \A r \in xcomm(x) : InXor(r) /\ made(r) <= XorChunks
        /\ pc' = [r \in Rank |-> IF r \notin xcomm(x) THEN pc[r]
                                 ELSE IF r \in S THEN "app"
                                 ELSE IF made(r) = XorChunks THEN "open" ELSE "xor"]
        /\ version' = [r \in Rank |-> IF r \in xcomm(x) THEN Enters(r) ELSE version[r]]
        /\ mem' = [r \in Rank |-> IF r \in xcomm(x) THEN <<run, Enters(r)>> ELSE mem[r]]
        /\ cp' = [r \in Rank |-> IF r \notin xcomm(x) THEN cp[r]
                                 ELSE IF r \in S THEN NoCp
                                 ELSE IF made(r) = XorChunks THEN NewCp(r)
                                 ELSE [NewCp(r) EXCEPT !.state = NODATA, !.chunks = made(r)]]
        /\ UNCHANGED <<partner, lostpgroup, meta, file, run>>

\* The loop goes on until its first rank is at its end.
XorCheckpoint(x) ==
    /\ \E r \in xcomm(x) : EnterXor(x, XorChunks - cp[r].chunks, {})
    /\ UNCHANGED faults

XorFails(x, S) ==
    /\ faults < MaxFaults
    /\ S # {}
    /\ \E k \in 1 .. XorChunks : EnterXor(x, k, S)
    /\ faults' = faults + 1

\* partner_checkpoint up to its first Allgather.
PartnerOpen(r) ==
    /\ At(r, "open")
    /\ OpenCpFile(r)
    /\ Go({r}, "transfer")
    /\ UNCHANGED <<version, mem, cp, partner, lostpgroup, run, faults>>

Transfers == DataChunks + ParityChunks

\* What r has of its partners after k more calls of Allgather: of those that
\* are at the same chunk as r the data and parity, of others a mixture.
GatheredPart(p, r, k) ==
    LET level == {q \in PRank : cp[<<p, q>>].chunks = cp[r].chunks}
    IN  [kind |-> IF cp[r].chunks + k = Transfers THEN "whole" ELSE "empty",
         data |-> [q \in PRank |-> IF cp[r].chunks >= DataChunks THEN file[r][Cur(r)].data[q]
                                  ELSE IF q \in level THEN mem[<<p, q>>] ELSE Garbage],
         parity |-> [q \in PRank |-> IF q \in level THEN cp[<<p, q>>].parity ELSE Garbage]]

\* all_transfer_and_write twice: data, then parity, k Allgathers in all.  The
\* ranks of S see the last of them fail, one of the parity: they append the rest
\* of their own parity, note the offset, and the checkpoint stays XORDATA.
Transfer(p, k, S) ==
    LET made(r) == cp[r].chunks + k
    IN  /\ k > 0 /\ \A r \in pcomm(p) : At(r, "transfer") /\ made(r) <= Transfers
        /\ Go({r \in pcomm(p) : r \in S \/ made(r) = Transfers}, "meta")
        /\ cp' = [r \in Rank |->
                    IF r \notin pcomm(p) THEN cp[r]
                    ELSE IF r \in S THEN [cp[r] EXCEPT !.chunks = 0, !.failoffset = "parity"]
                    ELSE IF made(r) = Transfers THEN [cp[r] EXCEPT !.chunks = 0, !.state = FULLDATA]
                    ELSE [cp[r] EXCEPT !.chunks = made(r)]]
        /\ file' = [r \in Rank |->
                    IF r \notin pcomm(p) THEN file[r]
                    ELSE IF r \in S
                    THEN [file[r] EXCEPT ![Cur(r)] =
                            [GatheredPart(p, r, k) EXCEPT !.kind = "local",
                                !.parity = [q \in PRank |-> IF q = r[2] THEN cp[r].parity ELSE Garbage]]]
                    ELSE [file[r] EXCEPT ![Cur(r)] = GatheredPart(p, r, k)]]
        /\ UNCHANGED <<version, mem, partner, lostpgroup, meta, run>>

\* Mutant: a rank does not wait for its partners.
PartnerAlone(p) ==
    \E r \in pcomm(p) :
        /\ At(r, "transfer")
        /\ Go({r}, "meta")
        /\ cp' = [cp EXCEPT ![r].state = FULLDATA]
        /\ file' = [file EXCEPT ![r][Cur(r)] = GatheredFile(p)]
        /\ UNCHANGED <<version, mem, partner, lostpgroup, meta, run, faults>>

PartnerTransfer(p) ==
    /\ \E r \in pcomm(p) : Transfer(p, Transfers - cp[r].chunks, {})
    /\ UNCHANGED faults

ParityFails(p, S) ==
    /\ faults < MaxFaults
    /\ S # {}
    /\ \E k \in 1 .. Transfers :
        /\ \A r \in S : cp[r].chunks + k > DataChunks
        /\ Transfer(p, k, S)
    /\ faults' = faults + 1

\* The write of the metadata fails: what the open truncated stays.
MetaFails(r) ==
    /\ faults < MaxFaults
    /\ At(r, "torn")
    /\ Go({r}, "app")
    /\ cp' = [cp EXCEPT ![r] = NoCp]
    /\ faults' = faults + 1
    /\ UNCHANGED <<version, mem, partner, lostpgroup, meta, file, run>>

CheckpointStep ==
    \/ \E x \in PRank : XorCheckpoint(x)
    \/ \E x \in PRank : \E S \in SUBSET xcomm(x) : XorFails(x, S)
    \/ \E r \in Rank : PartnerOpen(r)
    \/ \E p \in PIDs : PartnerTransfer(p)
    \/ \E p \in PIDs : \E S \in SUBSET pcomm(p) : ParityFails(p, S)
    \/ \E r \in Rank : MetaFails(r)

\* Bound reached: the application makes no more checkpoints.
CheckpointsMade == (\A r \in Rank : At(r, "app") /\ version[r] = MaxVersion) /\ UNCHANGED vars

CheckpointNext == CheckpointStep \/ MetaStep \/ CheckpointsMade

\* Every process runs on until it waits in a collective, every collective all
\* members of which have arrived ends, and the application of every rank calls
\* COMB_Checkpoint again.
CheckpointFairness ==
    /\ \A x \in PRank : WF_vars(XorCheckpoint(x))
    /\ \A r \in Rank : WF_vars(PartnerOpen(r)) /\ WF_vars(MetaOpen(r)) /\ WF_vars(MetaWrite(r))
    /\ \A p \in PIDs : WF_vars(PartnerTransfer(p))

CheckpointSpec == Init /\ [][CheckpointNext]_vars
CheckpointFairSpec == CheckpointSpec /\ CheckpointFairness

-----------------------------------------------------------------------------
(* Progress of a rank, and the properties.                                 *)

\* Checkpoints whose transfer is behind rank r.
Transferred(r) == IF pc[r] \in {"xor", "open", "transfer"} THEN version[r] - 1 ELSE version[r]

\* Checkpoints that rank r has returned from.
Returned(r) == IF At(r, "app") THEN version[r] ELSE version[r] - 1

\* The newest checkpoint all ranks have returned from.
Complete == CHOOSE v \in {Returned(r) : r \in Rank} : \A r \in Rank : v <= Returned(r)

\* The disk of r holds a complete checkpoint v under valid metadata.
Holds(r, v) ==
    /\ meta[r][slot(v)] = [is |-> "valid", version |-> v, state |-> FULLDATA, failoffset |-> "none"]
    /\ file[r][slot(v)].kind = "whole"

\* The ranks are never more than one checkpoint apart, though no call
\* synchronizes the community: XOR groups and partner groups only interlock.
\* Each MPI error lets the ranks that saw it get one call further ahead.
DriftBounded == \A r, s \in Rank : version[r] - version[s] <= 1 + faults

\* A file f of rank r that metadata of version v in that state may describe.
Described(r, f, v, state) ==
    /\ f.data[r[2]] = <<run, v>>
    /\ \/ f.parity[r[2]] = <<run, v>>
       \/ faults > 0 /\ XorChunks > 1 /\ f.parity[r[2]] = Garbage
    /\ f.kind = "whole" <=> state = FULLDATA
    /\ state = FULLDATA /\ faults = 0 => \A q \in PRank : f.data[q] = <<run, v>> /\ f.parity[q] = <<run, v>>

\* Valid metadata never describes a file of another checkpoint, also while slots
\* are overwritten and after calls that failed: the file of that slot has the
\* rank's own data of that version, and it has the partners' parts just if the
\* state says so.  The partners' parts are of that version too unless a failed
\* call let the partners drift apart; and the rank's own parity is, unless a
\* Reduce_scatter failed before the last chunk: then it may be a mixture of two
\* versions, but never that of another one.
MetadataTruthful ==
    \A r \in Rank : \A s \in Slots : meta[r][s].is = "valid" =>
        LET m == meta[r][s]
        IN  slot(m.version) = s /\ m.version <= version[r] /\ Described(r, file[r][s], m.version, m.state)

\* A call that reports success has exchanged one checkpoint among the partners:
\* whatever calls failed before, a FULLDATA file holds one version throughout.
PartnersShareVersion ==
    \A r \in Rank : \A s \in Slots : meta[r][s].is = "valid" /\ meta[r][s].state = FULLDATA =>
        \A q \in PRank : file[r][s].data[q] = <<run, meta[r][s].version>>

\* Once a rank works on version v or has made it, every rank of its XOR group
\* holds version v - 1 complete: in whichever step of partner_checkpoint or
\* write_metadata_file it is, the predecessor of the checkpoint it may just be
\* overwriting is on the disks of its group, file and metadata.  (Whether a
\* restart can use it is the question of LossTolerated.)
PreviousKept ==
    faults = 0 => \A r \in Rank : version[r] > 1 => \A s \in xcomm(r[2]) : Holds(s, version[r] - 1)

\* A rank whose metadata is torn is as good as one whose disk is lost.  Whenever
\* the job is killed in a checkpoint, if the ranks that are lost or torn are
\* some members of one partner group and of one XOR group, the negotiation of
\* the restart chooses the last complete checkpoint or a newer one.
TornRanks == {r \in Rank : Forgets(r)}
Tolerable(S) == \E p \in PIDs, x \in PRank : S \subseteq pcomm(p) \cup xcomm(x)
LossTolerated ==
    faults = 0 =>
        \A L \in SUBSET Rank :
            Tolerable(L \cup TornRanks) => \A V \in Outcomes(L) : V >= Complete

\* What Communities relies on: killed anywhere, with no disk lost and the torn
\* ranks as above, the community can recover every version that all ranks have
\* returned from and no rank's call overwrites, and none outside the slots.
WorkedOn == CHOOSE v \in {version[r] : r \in Rank} : \A r \in Rank : version[r] <= v
WindowRecoverable ==
    faults = 0 /\ Tolerable(TornRanks) =>
        \A H \in HashSets(ccomm_versions({})) :
            LET recoverables == {v \in H : repairphase(v, {}) > 0}
            IN  /\ \A v \in 1 .. Complete : v > WorkedOn - CpCount => v \in recoverables
                /\ \A v \in recoverables : v <= WorkedOn /\ v > Complete - CpCount /\ v >= WorkedOn - CpCount

\* Two kept checkpoints protect against a failure during checkpointing: once a
\* checkpoint is complete, a restart after the job was killed, no disk lost,
\* finds some checkpoint.
KeepsOneCheckpoint ==
    faults = 0 /\ Complete > 0 => \A V \in Outcomes({}) : V > 0

\* A call of COMB_Checkpoint returns, if all ranks keep calling.
CallsReturn == \A r \in Rank : ~At(r, "app") ~> At(r, "app")

\* The calls of all ranks together implement the pace of the two kinds of
\* groups: no XOR group computes checkpoint v + 1 before every partner group
\* has transferred v, and no partner group transfers v before every XOR group
\* has computed it.
Witness == CHOOSE p \in PIDs : TRUE
Computed == [x \in PRank |-> version[<<Witness, x>>]]
Exchanged == [p \in PIDs |-> Transferred(<<p, 0>>)]
PaceOf == INSTANCE Pace WITH Xs <- PRank, Ps <- PIDs, MaxCount <- MaxVersion, X <- Computed, P <- Exchanged
PaceKept == PaceOf!PaceSpec
=============================================================================
