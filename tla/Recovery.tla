------------------------------ MODULE Recovery ------------------------------
(***************************************************************************)
(* COMB_Recover of all ranks of a community that is a whole job            *)
(* (src/src/combined.c and src/src/recovery_utils.c): negotiation, partner *)
(* phase, local load, XOR phase, exchange phase, barrier.  As in           *)
(* Checkpoint, a collective is one step of its communicator and a pairwise *)
(* transfer one step of the pair.                                          *)
(***************************************************************************)
EXTENDS Negotiation

-----------------------------------------------------------------------------
(* Negotiation.                                                            *)

\* Mutant: the state of the fresh checkpoint is not set either.
FetchedCpUnset(r, v) ==
    IF v \in local_versions(r)
    THEN [NoCp EXCEPT !.state = meta[r][slot(v)].state, !.failoffset = meta[r][slot(v)].failoffset]
    ELSE [NoCp EXCEPT !.state = 0]

\* The checkpoint COMB_Recover works on: the entry read from the metadata, or
\* a fresh one without data, whose failoffset nobody sets.
FetchedCp(r, v) ==
    IF v \in local_versions(r)
    THEN [NoCp EXCEPT !.state = meta[r][slot(v)].state, !.failoffset = meta[r][slot(v)].failoffset]
    ELSE NoCp

\* COMB_Recover up to its first Allgather; with version 0 it returns at once.
Negotiate ==
    /\ AllAt(Rank, "load")
    /\ \E H \in HashSets(ccomm_versions({})) :
        LET V == NewestRecoverable(H, {})
        IN  /\ lostpgroup' = NeedsParity(H, {})
            /\ version' = [r \in Rank |-> V]
            /\ IF V = 0 THEN Go(Rank, "app") /\ cp' = [r \in Rank |-> NoCp]
               ELSE /\ Go(Rank, "gather")
                    /\ cp' = [r \in Rank |-> FetchedCp(r, V)]
    /\ UNCHANGED <<mem, partner, meta, file, run, faults>>

-----------------------------------------------------------------------------
(* Partner phase: rounds of Allgather(state = FULLDATA) in pcomm; in each   *)
(* round the full members are paired with not full ones.                   *)

PartnerGather(p) ==
    /\ AllAt(pcomm(p), "gather")
    /\ LET pstates == [q \in PRank |-> cp[<<p, q>>].state = FULLDATA]
           peer == [r \in Rank |-> IF r \in pcomm(p) THEN assign_partner(pstates, r[2]) ELSE partner[r]]
       IN  IF imbalance_partners(pstates)
           THEN /\ partner' = peer
                /\ pc' = [r \in Rank |-> IF r \notin pcomm(p) \/ peer[r] = r[2] THEN pc[r]
                                         ELSE IF pstates[r[2]] THEN "send" ELSE "recvopen"]
           ELSE Go(pcomm(p), "local") /\ UNCHANGED partner
    /\ UNCHANGED <<version, mem, cp, lostpgroup, meta, file, run, faults>>

ReceiverOpen(r) ==
    /\ At(r, "recvopen")
    /\ OpenCpFile(r)
    /\ Go({r}, "recv")
    /\ UNCHANGED <<version, mem, cp, partner, lostpgroup, run, faults>>

\* The checkpoint file of r cannot be read: a COMB_Finalize that was killed had
\* removed it, but not its metadata.
Missing(r) == file[r][Cur(r)].kind = "empty"

\* The sender's first read fails; its receiver waits.
SenderFails(s) ==
    /\ At(s, "send") /\ Missing(s)
    /\ Go({s}, "failed")
    /\ UNCHANGED <<version, mem, cp, partner, lostpgroup, meta, file, run, faults>>

\* pair_transfer_and_write for data and parity: the sender's file is read from
\* its start and written by the receiver; each rank that has nothing in memory
\* yet takes its own part of it, the parity only if some group is lost.
PairTransfer(s, r) ==
    /\ s[1] = r[1] /\ partner[s] = r[2] /\ partner[r] = s[2]
    /\ At(s, "send") /\ At(r, "recv") /\ ~Missing(s)
    /\ LET sent == file[s][Cur(s)]
           loads == {q \in {s, r} : ~cp[q].loaded}
       IN  /\ mem' = [q \in Rank |-> IF q \in loads THEN sent.data[q[2]] ELSE mem[q]]
           /\ cp' = [q \in Rank |->
                IF q \notin {s, r} THEN cp[q]
                ELSE [cp[q] EXCEPT !.loaded = TRUE, !.state = FULLDATA,
                        !.parity = IF q \in loads /\ lostpgroup THEN sent.parity[q[2]] ELSE @]]
           /\ file' = [file EXCEPT ![r][Cur(r)] = sent]
    /\ pc' = [pc EXCEPT ![s] = "gather", ![r] = "rmeta"]
    /\ UNCHANGED <<version, partner, lostpgroup, meta, run, faults>>

-----------------------------------------------------------------------------
(* load_local_checkpoint, for data and, if some group is lost, for parity. *)

\* A wild failoffset below the end of the data makes every member but the
\* first read chunks of the first member.
DataLoads(r, m, f) ==
    IF m.failoffset = "wild" /\ r[2] # 0 THEN {f.data[r[2]], Garbage} ELSE {f.data[r[2]]}

\* With a failoffset the parity is looked for after the rank's own part of the
\* last data chunk, which is the end of the data only for the last member.  The
\* parity that a rank appended on its own is elsewhere, but for sizes that let a
\* member in the middle of a larger group hit it (FileLayout!ParityRestored).
LoadFails == <<0, 1>>
ParityLoads(r, m, f) ==
    IF f.kind = "local"
    THEN {Garbage, LoadFails} \cup (IF 0 < r[2] /\ r[2] < PSize - 1 THEN {f.parity[r[2]]} ELSE {})
    ELSE IF m.failoffset = "none" THEN {f.parity[r[2]]}
    ELSE IF r[2] = PSize - 1 THEN {f.parity[r[2]], Garbage}
    ELSE {Garbage}

\* A rank without an entry (filesize 0) has nothing to load.
LoadLocal(r) ==
    /\ At(r, "local")
    /\ IF cp[r].loaded \/ cp[r].state = NODATA
       THEN /\ cp' = [cp EXCEPT ![r].loaded = TRUE]
            /\ Go({r}, "xred")
            /\ UNCHANGED mem
       ELSE \E d \in DataLoads(r, cp[r], file[r][Cur(r)]) :
            \E x \in IF lostpgroup THEN ParityLoads(r, cp[r], file[r][Cur(r)]) ELSE {Garbage} :
                /\ mem' = [mem EXCEPT ![r] = d]
                /\ IF x = LoadFails \/ Missing(r)
                   THEN Go({r}, "failed") /\ UNCHANGED cp
                   ELSE Go({r}, "xred") /\ cp' = [cp EXCEPT ![r].loaded = TRUE, ![r].parity = x]
    /\ UNCHANGED <<version, partner, lostpgroup, meta, file, run, faults>>

-----------------------------------------------------------------------------
(* XOR phase: if exactly one rank of xcomm has no data the others rebuild   *)
(* its data and parity (Reduce).                                           *)

\* What the lost rank gets: right only if everything the others put in is of
\* one checkpoint.
Rebuilt(S) ==
    IF \E s \in {mem[q] : q \in S} : \A q \in S : mem[q] = s /\ cp[q].parity = s
    THEN CHOOSE s \in {mem[q] : q \in S} : TRUE ELSE Garbage

XorPhase(x) ==
    /\ AllAt(xcomm(x), "xred")
    /\ Go(xcomm(x), "land")
    /\ LET lost == {r \in xcomm(x) : cp[r].state = NODATA}
           value == Rebuilt(xcomm(x) \ lost)
       IN  IF lost # {} /\ ~MoreThanOne(lost)
           THEN /\ mem' = [r \in Rank |-> IF r \in lost THEN value ELSE mem[r]]
                /\ cp' = [r \in Rank |-> IF r \in lost THEN [cp[r] EXCEPT !.state = XORDATA, !.parity = value]
                                         ELSE cp[r]]
           ELSE UNCHANGED <<mem, cp>>
    /\ UNCHANGED <<version, partner, lostpgroup, meta, file, run, faults>>

-----------------------------------------------------------------------------
(* Exchange phase: a partner group that is XORDATA altogether writes its   *)
(* checkpoint files anew (exchange_local_cps).                             *)

\* Mutant: every partner group exchanges, whatever its state.
LandAlways(p) ==
    /\ AllAt(pcomm(p), "land")
    /\ Go(pcomm(p), "xopen")
    /\ UNCHANGED <<version, mem, cp, partner, lostpgroup, meta, file, run, faults>>

Land(p) ==
    /\ AllAt(pcomm(p), "land")
    /\ IF \A r \in pcomm(p) : cp[r].state = XORDATA THEN Go(pcomm(p), "xopen") ELSE Go(pcomm(p), "barrier")
    /\ UNCHANGED <<version, mem, cp, partner, lostpgroup, meta, file, run, faults>>

ExchangeOpen(r) ==
    /\ At(r, "xopen")
    /\ OpenCpFile(r)
    /\ Go({r}, "xtransfer")
    /\ UNCHANGED <<version, mem, cp, partner, lostpgroup, run, faults>>

\* Without lostpgroup xorparity is NULL and the parity Allgather has no buffer
\* to send from.
ExchangeTransfer(p) ==
    /\ AllAt(pcomm(p), "xtransfer")
    /\ IF lostpgroup
       THEN /\ file' = [r \in Rank |-> IF r \in pcomm(p) THEN [file[r] EXCEPT ![Cur(r)] = GatheredFile(p)]
                                       ELSE file[r]]
            /\ Go(pcomm(p), "xmeta")
       ELSE Go(pcomm(p), "failed") /\ UNCHANGED file
    /\ UNCHANGED <<version, mem, cp, partner, lostpgroup, meta, run, faults>>

Barrier ==
    /\ AllAt(Rank, "barrier")
    /\ Go(Rank, "app")
    /\ cp' = [r \in Rank |-> NoCp]
    /\ UNCHANGED <<version, mem, partner, lostpgroup, meta, file, run, faults>>

RecoverStep ==
    \/ Negotiate
    \/ \E p \in PIDs : PartnerGather(p)
    \/ \E r \in Rank : ReceiverOpen(r)
    \/ \E p \in PIDs : \E s, r \in pcomm(p) : PairTransfer(s, r)
    \/ \E r \in Rank : SenderFails(r) \/ LoadLocal(r)
    \/ \E x \in PRank : XorPhase(x)
    \/ \E p \in PIDs : Land(p)
    \/ \E r \in Rank : ExchangeOpen(r)
    \/ \E p \in PIDs : ExchangeTransfer(p)
    \/ Barrier

-----------------------------------------------------------------------------
(* Properties.                                                             *)

\* No valid metadata without its checkpoint file: only a COMB_Finalize that was
\* killed while it removed files leaves that.
Intact == \A r \in Rank : \A s \in Slots : meta[r][s].is = "valid" => file[r][s].kind # "empty"

\* COMB_Recover delivers, if no checkpoint file is missing: no rank fails in it,
\* and when the last rank reaches the closing barrier every rank has in memory
\* the data of one and the same checkpoint, of the version reported as "restart".
RecoveryDelivers ==
    Intact =>
        /\ \A r \in Rank : ~At(r, "failed")
        /\ AllAt(Rank, "barrier") =>
             \E s \in {mem[r] : r \in Rank} : s # Garbage /\ \A r \in Rank : mem[r] = s /\ version[r] = s[2]

\* The weaker half of it, which a second restart does not keep.
NoRankFails == \A r \in Rank : ~At(r, "failed")

\* lostpgroup is decided before anything is repaired, from all versions and the
\* states of all ranks; when an XOR group later finds exactly one of its ranks
\* without data, the others have loaded the parity the rebuild reads.
XorHasParity ==
    \A x \in PRank :
        AllAt(xcomm(x), "xred") /\ (\E r \in xcomm(x) : cp[r].state = NODATA) => lostpgroup
=============================================================================
