--------------------------- MODULE RecoveryProofs ---------------------------
(***************************************************************************)
(* Theorems about the life of a job, recoveries included, for every grid,  *)
(* every number of kept checkpoints, of runs and of lost disks; and about  *)
(* what a restart finds when the job is killed while it makes checkpoints. *)
(***************************************************************************)
EXTENDS CheckpointProofs, Combined

-----------------------------------------------------------------------------
(* theoretical_repair decides exactly what can be rebuilt.                 *)

\* The counting of xgfails and the return values of theoretical_repair.
LEMMA RepairUnfolded ==
    ASSUME NEW st \in [Rank -> States]
    PROVE  theoretical_repair(st) > 0
              <=> \A a, b \in Rank :
                     /\ a[2] = b[2]
                     /\ AfterPartner(st)[a] = NODATA
                     /\ AfterPartner(st)[b] = NODATA
                     => a = b
<1>1. \A x \in PRank : \A r : r \in xcomm(x) <=> r \in Rank /\ r[2] = x
  BY DEF xcomm, Rank
<1>2. \A r \in Rank : r[2] \in PRank
  BY DEF Rank
<1>3. theoretical_repair(st) > 0 <=> ~ \E x \in PRank : MoreThanOne(xgfails(st, x))
  BY DEF theoretical_repair
<1> QED BY <1>1, <1>2, <1>3 DEF MoreThanOne, xgfails

\* After the partner phase a rank has nothing iff it had nothing and no partner
\* was full.
LEMMA AfterPartnerNoData ==
    ASSUME NEW st \in [Rank -> States], NEW r \in Rank
    PROVE  AfterPartner(st)[r] = NODATA
              <=> st[r] = NODATA /\ ~ \E q \in pcomm(r[1]) : st[q] = FULLDATA
BY DEF AfterPartner, NODATA, FULLDATA

\* One partner phase followed by one XOR phase rebuilds a version iff any
\* sequence of repairs could: the decision of theoretical_repair is exact.
THEOREM RepairExact ==
    ASSUME NEW st \in [Rank -> States]
    PROVE  theoretical_repair(st) > 0 <=> Rebuildable(st)
<1> DEFINE nothing(r) == AfterPartner(st)[r] = NODATA
<1>x. \A r, q \in Rank : q \in xcomm(r[2]) <=> q[2] = r[2]
  BY DEF xcomm, Rank
<1>1. ASSUME NEW a \in Rank, NEW b \in Rank, a # b, a[2] = b[2], nothing(a), nothing(b)
      PROVE  ~Rebuildable(st)
  <2> DEFINE K == Rank \ {a, b}
  <2>1. Closed(st, K)
    <3> SUFFICES ASSUME NEW r \in Rank, r = a \/ r = b
                 PROVE  ~ (\/ st[r] # NODATA
                           \/ \E q \in pcomm(r[1]) : st[q] = FULLDATA
                           \/ xcomm(r[2]) \ {r} \subseteq K)
      BY DEF Closed
    <3>1. st[r] = NODATA /\ ~ \E q \in pcomm(r[1]) : st[q] = FULLDATA
      BY <1>1, AfterPartnerNoData
    <3>2. a \in xcomm(r[2]) /\ b \in xcomm(r[2])
      BY <1>1, <1>x
    <3>3. ~ (xcomm(r[2]) \ {r} \subseteq K)
      BY <1>1, <3>2
    <3> QED BY <3>1, <3>3
  <2>2. K \in SUBSET Rank /\ K # Rank
    OBVIOUS
  <2> QED BY <2>1, <2>2 DEF Rebuildable
<1>2. ASSUME \A a, b \in Rank : a[2] = b[2] /\ nothing(a) /\ nothing(b) => a = b,
             NEW K \in SUBSET Rank, Closed(st, K)
      PROVE  K = Rank
  <2>1. \A r \in Rank : ~nothing(r) => r \in K
    BY <1>2, AfterPartnerNoData DEF Closed
  <2>2. ASSUME NEW r \in Rank, nothing(r)
        PROVE  r \in K
    <3>1. xcomm(r[2]) \subseteq Rank
      BY DEF xcomm, Rank
    <3>2. xcomm(r[2]) \ {r} \subseteq K
      BY <1>2, <1>x, <2>1, <2>2, <3>1
    <3> QED BY <1>2, <3>2 DEF Closed
  <2> QED BY <2>1, <2>2
<1> QED BY <1>1, <1>2, RepairUnfolded DEF Rebuildable

\* The states a restart collects are states, so its decision about every version
\* it considers is exact, in every state of every job.
THEOREM RepairAlwaysDecides == CombinedSpec => []RepairDecides
<1>1. ASSUME NEW v
      PROVE  ccommstates(v, {}) \in [Rank -> States]
  BY DEF ccommstates, version_state_in_presented_versions, States
<1>2. RepairDecides
  <2> SUFFICES ASSUME NEW v \in ccomm_versions({})
               PROVE  (repairphase(v, {}) > 0) = Rebuildable(ccommstates(v, {}))
    BY DEF RepairDecides
  <2>1. repairphase(v, {}) > 0 <=> Rebuildable(ccommstates(v, {}))
    BY <1>1, RepairExact DEF repairphase
  <2>2. (repairphase(v, {}) > 0) \in BOOLEAN /\ Rebuildable(ccommstates(v, {})) \in BOOLEAN
    BY DEF Rebuildable
  <2> QED BY <2>1, <2>2
<1> QED BY <1>2, PTL

-----------------------------------------------------------------------------
(* What is chosen from sets of versions and of positions.                  *)

\* The application's bound on versions; metadata is never ahead of it.
VersionsBounded ==
    \A r \in Rank : version[r] <= MaxVersion /\ \A s \in Slots : meta[r][s].version <= MaxVersion

\* global_negotiate_version takes the largest of the recoverable versions.
LEMMA NewestIsGreatest ==
    ASSUME TypeOK, VersionsBounded, NEW L, NEW H \in HashSets(ccomm_versions(L))
    PROVE  /\ H \subseteq 0 .. MaxVersion
           /\ NewestRecoverable(H, L) \in 0 .. MaxVersion
           /\ NewestRecoverable(H, L) # 0 => NewestRecoverable(H, L) \in H /\ repairphase(NewestRecoverable(H, L), L) > 0
           /\ \A w \in H : repairphase(w, L) > 0 => w <= NewestRecoverable(H, L)
<1>b. MaxVersion \in Nat
  BY CommunityAssumption
<1>1. H \subseteq 0 .. MaxVersion
  <2>1. \A r \in Rank : \A s \in Slots : meta[r][s].version \in 0 .. MaxVersion
    BY <1>b DEF VersionsBounded, TypeOK, Metas
  <2>2. \A r \in Rank : local_versions(r) \subseteq 0 .. MaxVersion
    BY <2>1 DEF local_versions, Presented
  <2> QED BY <2>2 DEF HashSets, ccomm_versions
<1> DEFINE S == {v \in H : repairphase(v, L) > 0} \cup {0}
<1>2. S \in SUBSET Nat /\ S # {} /\ \A n \in S : n <= MaxVersion
  <2>1. S \subseteq H \cup {0} /\ 0 \in S
    OBVIOUS
  <2> HIDE DEF S
  <2> QED BY <1>b, <1>1, <2>1
<1>3. \E m \in S : \A n \in S : n <= m
  <2> HIDE DEF S
  <2> QED BY <1>b, <1>2, GreatestOf
<1>4. /\ NewestRecoverable(H, L) \in S
      /\ \A w \in {v \in H : repairphase(v, L) > 0} : w <= NewestRecoverable(H, L)
  <2>1. NewestRecoverable(H, L) = CHOOSE v \in S : \A w \in {u \in H : repairphase(u, L) > 0} : w <= v
    BY DEF NewestRecoverable
  <2>2. \E m \in S : \A w \in {u \in H : repairphase(u, L) > 0} : w <= m
    BY <1>3
  <2> QED BY <2>1, <2>2
<1>5. S \subseteq 0 .. MaxVersion
  <2> HIDE DEF S
  <2> QED BY <1>b, <1>2
<1>6. NewestRecoverable(H, L) # 0 => NewestRecoverable(H, L) \in {v \in H : repairphase(v, L) > 0}
  BY <1>4
<1> QED BY <1>1, <1>4, <1>5, <1>6

\* assign_partner names a member of the group.
LEMMA PartnerType ==
    ASSUME NEW pstates \in [PRank -> BOOLEAN], NEW i \in PRank
    PROVE  assign_partner(pstates, i) \in PRank
<1> DEFINE stops == {d \in 1 .. PSize - 1 : Balanced(pstates, i, d)}
<1>1. ASSUME NEW d \in Nat
      PROVE  PartnerAt(pstates, i, d) \in PRank
  <2> DEFINE k == IF pstates[i] THEN i + d ELSE i + PSize - d
  <2>1. k \in Int
    BY GridAssumption DEF PRank
  <2>2. PartnerAt(pstates, i, d) = k % PSize
    BY DEF PartnerAt
  <2> HIDE DEF k
  <2> QED BY <2>1, <2>2, GridAssumption DEF PRank
<1>2. CASE stops = {}
  BY <1>2 DEF assign_partner
<1>3. CASE stops # {}
  <2>1. stops \in SUBSET Nat
    OBVIOUS
  <2>2. \E m \in stops : \A n \in stops : m <= n
    <3> HIDE DEF stops
    <3> QED BY <1>3, <2>1, LeastOf
  <2>3. (CHOOSE d \in stops : \A e \in stops : d <= e) \in Nat
    <3> HIDE DEF stops
    <3> QED BY <2>1, <2>2
  <2> QED BY <1>1, <1>3, <2>3 DEF assign_partner
<1> QED BY <1>2, <1>3

-----------------------------------------------------------------------------
(* Types.                                                                  *)

JobTyped == TypeOK /\ VersionsBounded

LEMMA NegotiateTyped ==
    ASSUME JobTyped, Negotiate
    PROVE  JobTyped'
<1> USE DEF JobTyped, Go
<1>1. PICK H \in HashSets(ccomm_versions({})) :
        LET V == NewestRecoverable(H, {})
        IN  /\ lostpgroup' = NeedsParity(H, {})
            /\ version' = [r \in Rank |-> V]
            /\ IF V = 0 THEN Go(Rank, "app") /\ cp' = [r \in Rank |-> NoCp]
               ELSE /\ Go(Rank, "gather")
                    /\ cp' = [r \in Rank |-> FetchedCp(r, V)]
  BY DEF Negotiate
<1> DEFINE V == NewestRecoverable(H, {})
<1>2. V \in Nat /\ V <= MaxVersion
  BY NewestIsGreatest, CommunityAssumption
<1> HIDE DEF V
<1>3. pc' \in [Rank -> CheckpointPCs \cup RecoverPCs \cup {"clean", "done"}]
  BY <1>1 DEF V, CheckpointPCs, RecoverPCs
<1>4. \A r \in Rank : slot(V) \in Slots /\ FetchedCp(r, V) \in Cps
  <2>1. slot(V) \in Slots
    BY <1>2, SlotType
  <2>2. \A r \in Rank : meta[r][slot(V)] \in Metas
    BY <2>1 DEF TypeOK
  <2> QED BY <2>1, <2>2, ConstantTypes DEF FetchedCp, Cps, Metas
<1>5. cp' \in [Rank -> Cps]
  BY <1>1, <1>4, ConstantTypes DEF V
<1>6. lostpgroup' \in BOOLEAN
  BY <1>1 DEF NeedsParity
<1>7. version' \in [Rank -> Nat] /\ \A r \in Rank : version'[r] <= MaxVersion
  BY <1>1, <1>2 DEF V
<1>8. UNCHANGED <<mem, partner, meta, file, run, faults>>
  BY DEF Negotiate
<1> QED BY <1>3, <1>5, <1>6, <1>7, <1>8 DEF TypeOK, VersionsBounded

\* The other steps of COMB_Recover.
LEMMA RecoverTyped ==
    ASSUME JobTyped, RecoverStep
    PROVE  JobTyped'
<1> USE DEF JobTyped, Go, At, AllAt
<1>1. ASSUME NEW p \in PIDs, PartnerGather(p)
      PROVE  JobTyped'
  <2> DEFINE pstates == [q \in PRank |-> cp[<<p, q>>].state = FULLDATA]
             peer == [r \in Rank |-> IF r \in pcomm(p) THEN assign_partner(pstates, r[2]) ELSE partner[r]]
  <2>1. \A r \in Rank : assign_partner(pstates, r[2]) \in PRank
    <3>1. pstates \in [PRank -> BOOLEAN]
      OBVIOUS
    <3> HIDE DEF pstates
    <3> QED BY <3>1, PartnerType, GridFacts
  <2>2. peer \in [Rank -> PRank]
    <3> HIDE DEF pstates
    <3> QED BY <2>1 DEF TypeOK
  <2>3. partner' \in [Rank -> PRank]
    <3>1. partner' = peer \/ partner' = partner
      BY <1>1 DEF PartnerGather
    <3> HIDE DEF peer
    <3> QED BY <2>2, <3>1 DEF TypeOK
  <2>4. pc' \in [Rank -> CheckpointPCs \cup RecoverPCs \cup {"clean", "done"}]
    <3>1. \/ pc' = [r \in Rank |-> IF r \notin pcomm(p) \/ peer[r] = r[2] THEN pc[r]
                                   ELSE IF pstates[r[2]] THEN "send" ELSE "recvopen"]
          \/ pc' = [r \in Rank |-> IF r \in pcomm(p) THEN "local" ELSE pc[r]]
      BY <1>1 DEF PartnerGather
    <3> HIDE DEF peer, pstates
    <3> QED BY <3>1 DEF TypeOK, RecoverPCs
  <2>5. UNCHANGED <<version, mem, cp, lostpgroup, meta, file, run, faults>>
    BY <1>1 DEF PartnerGather
  <2> QED BY <2>3, <2>4, <2>5 DEF TypeOK, VersionsBounded
<1>2. ASSUME NEW r \in Rank, ReceiverOpen(r) \/ ExchangeOpen(r)
      PROVE  JobTyped'
  <2>1. /\ pc' = [pc EXCEPT ![r] = "recv"] \/ pc' = [pc EXCEPT ![r] = "xtransfer"]
        /\ OpenCpFile(r)
        /\ UNCHANGED <<version, mem, cp, partner, lostpgroup, run, faults>>
    BY <1>2 DEF ReceiverOpen, ExchangeOpen, TypeOK
  <2>2. meta' \in [Rank -> [Slots -> Metas]] /\ file' \in [Rank -> [Slots -> Files]]
    BY <2>1, ConstantTypes DEF OpenCpFile, TypeOK
  <2>3. \A q \in Rank : \A s \in Slots : meta'[q][s] = meta[q][s] \/ meta'[q][s] = NoMeta
    BY <2>1 DEF OpenCpFile, TypeOK
  <2>4. VersionsBounded'
    BY <2>1, <2>3, CommunityAssumption DEF VersionsBounded, NoMeta
  <2>5. pc' \in [Rank -> CheckpointPCs \cup RecoverPCs \cup {"clean", "done"}]
    BY <2>1 DEF TypeOK, RecoverPCs
  <2> QED BY <2>1, <2>2, <2>4, <2>5 DEF TypeOK
<1>3. ASSUME NEW p \in PIDs, NEW s \in pcomm(p), NEW r \in pcomm(p), PairTransfer(s, r)
      PROVE  JobTyped'
  <2>0. s \in Rank /\ r \in Rank /\ Cur(s) \in Slots /\ Cur(r) \in Slots
    BY GridFacts, SlotType DEF Cur, TypeOK
  <2> DEFINE sent == file[s][Cur(s)]
  <2>1. sent \in Files
    BY <2>0 DEF TypeOK
  <2>2. \A q \in Rank : sent.data[q[2]] \in Stamp /\ sent.parity[q[2]] \in Stamp
    <3> HIDE DEF sent
    <3> QED BY <2>1, GridFacts DEF Files
  <2>3. mem' \in [Rank -> Stamp]
    BY <1>3, <2>2 DEF PairTransfer, TypeOK
  <2>4. cp' \in [Rank -> Cps]
    <3> HIDE DEF sent
    <3>1. cp' = [q \in Rank |->
                   IF q \notin {s, r} THEN cp[q]
                   ELSE [cp[q] EXCEPT !.loaded = TRUE, !.state = FULLDATA,
                           !.parity = IF q \in {x \in {s, r} : ~cp[x].loaded} /\ lostpgroup
                                      THEN sent.parity[q[2]] ELSE @]]
      BY <1>3 DEF PairTransfer, sent
    <3>2. ASSUME NEW q \in Rank, NEW x \in Stamp
          PROVE  [cp[q] EXCEPT !.loaded = TRUE, !.state = FULLDATA, !.parity = x] \in Cps
      <4>1. cp[q] \in Cps
        BY DEF TypeOK
      <4> QED BY <4>1, <3>2 DEF Cps, States
    <3>3. \A q \in Rank : cp[q] \in Cps /\ cp[q].parity \in Stamp
      BY DEF TypeOK, Cps
    <3> QED BY <2>2, <3>1, <3>2, <3>3
  <2>5. file' \in [Rank -> [Slots -> Files]]
    BY <1>3, <2>0, <2>1 DEF PairTransfer, TypeOK
  <2>6. pc' \in [Rank -> CheckpointPCs \cup RecoverPCs \cup {"clean", "done"}]
    BY <1>3, <2>0 DEF PairTransfer, TypeOK, RecoverPCs
  <2>7. UNCHANGED <<version, partner, lostpgroup, meta, run, faults>>
    BY <1>3 DEF PairTransfer
  <2> QED BY <2>3, <2>4, <2>5, <2>6, <2>7 DEF TypeOK, VersionsBounded
<1>4. ASSUME NEW r \in Rank, LoadLocal(r)
      PROVE  JobTyped'
  <2>0. Cur(r) \in Slots /\ file[r][Cur(r)] \in Files /\ r[2] \in PRank
    BY GridFacts, SlotType DEF Cur, TypeOK
  <2>1. /\ DataLoads(r, cp[r], file[r][Cur(r)]) \subseteq Stamp
        /\ ParityLoads(r, cp[r], file[r][Cur(r)]) \subseteq Stamp
        /\ Garbage \in Stamp
    BY <2>0 DEF DataLoads, ParityLoads, Files, Garbage, LoadFails, Stamp
  <2>2. mem' \in [Rank -> Stamp]
    BY <1>4, <2>1 DEF LoadLocal, TypeOK
  <2>3. cp' \in [Rank -> Cps]
    <3>1. cp[r] \in Cps
      BY DEF TypeOK
    <3>2. [cp[r] EXCEPT !.loaded = TRUE] \in Cps
      BY <3>1 DEF Cps
    <3>3. \A x \in Stamp : [cp[r] EXCEPT !.loaded = TRUE, !.parity = x] \in Cps
      BY <3>1 DEF Cps
    <3>4. \/ cp' = cp
          \/ cp' = [cp EXCEPT ![r].loaded = TRUE]
          \/ \E x \in Stamp : cp' = [cp EXCEPT ![r].loaded = TRUE, ![r].parity = x]
      BY <1>4, <2>1 DEF LoadLocal
    <3>5. ASSUME NEW x \in Stamp, cp' = [cp EXCEPT ![r].loaded = TRUE, ![r].parity = x]
          PROVE  cp' = [cp EXCEPT ![r] = [cp[r] EXCEPT !.loaded = TRUE, !.parity = x]]
      BY <3>5 DEF TypeOK
    <3>6. cp \in [Rank -> Cps]
      BY DEF TypeOK
    <3> QED BY <3>2, <3>3, <3>4, <3>5, <3>6
  <2>4. pc' \in [Rank -> CheckpointPCs \cup RecoverPCs \cup {"clean", "done"}]
    BY <1>4 DEF LoadLocal, TypeOK, RecoverPCs
  <2>5. UNCHANGED <<version, partner, lostpgroup, meta, file, run, faults>>
    BY <1>4 DEF LoadLocal
  <2> QED BY <2>2, <2>3, <2>4, <2>5 DEF TypeOK, VersionsBounded
<1>5. ASSUME NEW x \in PRank, XorPhase(x)
      PROVE  JobTyped'
  <2>1. ASSUME NEW S \in SUBSET Rank
        PROVE  Rebuilt(S) \in Stamp
    BY DEF Rebuilt, Garbage, Stamp, TypeOK
  <2> DEFINE lost == {r \in xcomm(x) : cp[r].state = NODATA}
  <2>2. Rebuilt(xcomm(x) \ lost) \in Stamp
    BY <2>1, GridFacts
  <2>3. mem' \in [Rank -> Stamp] /\ cp' \in [Rank -> Cps]
    <3>1. \/ UNCHANGED <<mem, cp>>
          \/ /\ mem' = [r \in Rank |-> IF r \in lost THEN Rebuilt(xcomm(x) \ lost) ELSE mem[r]]
             /\ cp' = [r \in Rank |-> IF r \in lost
                     THEN [cp[r] EXCEPT !.state = XORDATA, !.parity = Rebuilt(xcomm(x) \ lost)] ELSE cp[r]]
      BY <1>5 DEF XorPhase
    <3> DEFINE value == Rebuilt(xcomm(x) \ lost)
    <3> HIDE DEF lost, value
    <3>2. value \in Stamp
      BY <2>2 DEF value
    <3>3. \A r \in Rank : [cp[r] EXCEPT !.state = XORDATA, !.parity = value] \in Cps
      BY <3>2 DEF TypeOK, Cps, States
    <3> QED BY <3>1, <3>2, <3>3 DEF TypeOK, value
  <2>4. pc' \in [Rank -> CheckpointPCs \cup RecoverPCs \cup {"clean", "done"}]
    BY <1>5 DEF XorPhase, TypeOK, RecoverPCs
  <2>5. UNCHANGED <<version, partner, lostpgroup, meta, file, run, faults>>
    BY <1>5 DEF XorPhase
  <2> QED BY <2>3, <2>4, <2>5 DEF TypeOK, VersionsBounded
<1>6. ASSUME NEW p \in PIDs, Land(p)
      PROVE  JobTyped'
  BY <1>6 DEF Land, TypeOK, RecoverPCs, VersionsBounded
<1>7. ASSUME NEW p \in PIDs, ExchangeTransfer(p)
      PROVE  JobTyped'
  <2>1. file' \in [Rank -> [Slots -> Files]]
    <3>1. GatheredFile(p) \in Files
      <4>1. \A q \in PRank : mem[<<p, q>>] \in Stamp /\ cp[<<p, q>>].parity \in Stamp
        BY GridFacts DEF TypeOK, Cps
      <4> QED BY <4>1 DEF GatheredFile, Files
    <3>2. \/ file' = file
          \/ file' = [r \in Rank |-> IF r \in pcomm(p) THEN [file[r] EXCEPT ![Cur(r)] = GatheredFile(p)]
                                    ELSE file[r]]
      BY <1>7 DEF ExchangeTransfer
    <3>3. \A r \in Rank : file[r] \in [Slots -> Files] /\ [file[r] EXCEPT ![Cur(r)] = GatheredFile(p)] \in [Slots -> Files]
      BY <3>1 DEF TypeOK
    <3> QED BY <3>2, <3>3 DEF TypeOK
  <2>2. pc' \in [Rank -> CheckpointPCs \cup RecoverPCs \cup {"clean", "done"}]
    BY <1>7 DEF ExchangeTransfer, TypeOK, RecoverPCs
  <2>3. UNCHANGED <<version, mem, cp, partner, lostpgroup, meta, run, faults>>
    BY <1>7 DEF ExchangeTransfer
  <2> QED BY <2>1, <2>2, <2>3 DEF TypeOK, VersionsBounded
<1>8. CASE Barrier
  BY <1>8, ConstantTypes DEF Barrier, TypeOK, CheckpointPCs, VersionsBounded
<1>9. ASSUME NEW s \in Rank, SenderFails(s)
      PROVE  JobTyped'
  BY <1>9 DEF SenderFails, TypeOK, RecoverPCs, VersionsBounded
<1> QED BY <1>1, <1>2, <1>3, <1>4, <1>5, <1>6, <1>7, <1>8, <1>9, NegotiateTyped DEF RecoverStep

\* COMB_Checkpoint counts up to MaxVersion, and metadata gets that count.
LEMMA CheckpointTyped ==
    ASSUME JobTyped, CheckpointStep \/ MetaStep
    PROVE  JobTyped'
<1> USE DEF JobTyped
<1>1. TypeOK'
  BY TypeStep DEF CheckpointNext
<1>2. ASSUME version' = version, \A r \in Rank : meta'[r] = meta[r]
      PROVE  VersionsBounded'
  BY <1>2 DEF VersionsBounded
<1>3. ASSUME NEW x \in PRank, NEW k, NEW S, EnterXor(x, k, S)
      PROVE  VersionsBounded'
  <2>1. /\ meta' = meta
        /\ \A r \in Rank : version'[r] = version[r] \/ (version[r] < MaxVersion /\ version'[r] = version[r] + 1)
    <3>1. meta' = meta
      BY <1>3 DEF EnterXor
    <3>2. ASSUME NEW r \in Rank
          PROVE  version'[r] = version[r] \/ (version[r] < MaxVersion /\ version'[r] = version[r] + 1)
      <4>1. version'[r] = IF r \in xcomm(x) THEN Enters(r) ELSE version[r]
        BY <1>3 DEF EnterXor
      <4>2. r \in xcomm(x) => InXor(r)
        BY <1>3 DEF EnterXor
      <4> QED BY <4>1, <4>2 DEF InXor, Enters, At
    <3> QED BY <3>1, <3>2
  <2>2. ASSUME NEW r \in Rank
        PROVE  version'[r] <= MaxVersion
    <3>1. version[r] \in Nat /\ version[r] <= MaxVersion /\ MaxVersion \in Nat
      BY CommunityAssumption DEF VersionsBounded, TypeOK
    <3> QED BY <2>1, <3>1
  <2> QED BY <2>1, <2>2 DEF VersionsBounded
<1>4. ASSUME NEW r \in Rank, PartnerOpen(r) \/ MetaOpen(r)
      PROVE  VersionsBounded'
  <2>1. version' = version
    BY <1>4 DEF PartnerOpen, MetaOpen
  <2>2. \A q \in Rank : \A s \in Slots : meta'[q][s].version = meta[q][s].version \/ meta'[q][s].version = 0
    <3>1. NoMeta.version = 0 /\ TornMeta.version = 0
      BY DEF NoMeta, TornMeta
    <3>2. \A q \in Rank : \A s \in Slots : meta'[q][s] \in {meta[q][s], NoMeta, TornMeta}
      <4>1. CASE PartnerOpen(r)
        BY <4>1 DEF PartnerOpen, OpenCpFile, TypeOK
      <4>2. CASE MetaOpen(r)
        BY <4>2 DEF MetaOpen, TypeOK
      <4> QED BY <1>4, <4>1, <4>2
    <3> QED BY <3>1, <3>2
  <2> QED BY <2>1, <2>2, CommunityAssumption DEF VersionsBounded
<1>5. ASSUME NEW r \in Rank, MetaWrite(r)
      PROVE  VersionsBounded'
  <2>1. version' = version
    BY <1>5 DEF MetaWrite
  <2>2. \A q \in Rank : \A s \in Slots :
           meta'[q][s].version = meta[q][s].version \/ meta'[q][s].version = version[q]
    BY <1>5 DEF MetaWrite, TypeOK
  <2> QED BY <2>1, <2>2 DEF VersionsBounded
<1>6. ASSUME NEW p \in PIDs, NEW k, NEW S, Transfer(p, k, S)
      PROVE  VersionsBounded'
  BY <1>2, <1>6 DEF Transfer
<1>7. ASSUME NEW r \in Rank, MetaFails(r)
      PROVE  VersionsBounded'
  BY <1>2, <1>7 DEF MetaFails
<1>8. VersionsBounded'
  BY <1>3, <1>4, <1>5, <1>6, <1>7
     DEF CheckpointStep, MetaStep, XorCheckpoint, XorFails, PartnerTransfer, ParityFails
<1> QED BY <1>1, <1>8

\* Failures of the job, and its end.
LEMMA JobTypedStep ==
    ASSUME JobTyped, [CombinedNext]_vars
    PROVE  JobTyped'
<1> USE DEF JobTyped
<1>1. ASSUME NEW S \in SUBSET Rank, EmptyDisks(S)
      PROVE  /\ meta' \in [Rank -> [Slots -> Metas]] /\ file' \in [Rank -> [Slots -> Files]]
             /\ \A r \in Rank : \A s \in Slots : meta'[r][s].version <= MaxVersion
  <2>1. meta' \in [Rank -> [Slots -> Metas]] /\ file' \in [Rank -> [Slots -> Files]]
    BY <1>1, ConstantTypes DEF EmptyDisks, TypeOK
  <2>2. \A r \in Rank : \A s \in Slots : meta'[r][s] = meta[r][s] \/ meta'[r][s] = NoMeta
    BY <1>1 DEF EmptyDisks
  <2> QED BY <2>1, <2>2, CommunityAssumption DEF VersionsBounded, NoMeta
<1>2. ASSUME NEW L \in SUBSET Rank, Crash(L)
      PROVE  JobTyped'
  <2>1. EmptyDisks(L)
    BY <1>2 DEF Crash
  <2>2. /\ pc' \in [Rank -> CheckpointPCs \cup RecoverPCs \cup {"clean", "done"}]
        /\ version' \in [Rank -> Nat] /\ \A r \in Rank : version'[r] <= MaxVersion
        /\ mem' \in [Rank -> Stamp] /\ cp' \in [Rank -> Cps]
    BY <1>2, ConstantTypes, CommunityAssumption DEF Crash, Go, RecoverPCs, Stamp, TypeOK
  <2>3. partner' \in [Rank -> PRank] /\ lostpgroup' \in BOOLEAN /\ run' \in Nat /\ faults' \in Nat
    <3>1. \A r \in Rank : r[2] \in PRank
      BY GridFacts
    <3>2. partner' = [r \in Rank |-> r[2]] /\ lostpgroup' = FALSE /\ run' = run + 1 /\ faults' = faults
      BY <1>2 DEF Crash
    <3>3. partner' \in [Rank -> PRank]
      BY <3>1, <3>2
    <3>4. lostpgroup' \in BOOLEAN
      BY <3>2, Zenon
    <3>5. run' = run + 1 /\ faults' = faults
      BY <3>2, Zenon
    <3> QED BY <3>3, <3>4, <3>5 DEF TypeOK
  <2> QED BY <1>1, <2>1, <2>2, <2>3 DEF TypeOK, VersionsBounded
<1>3. CASE FinalizeStep
  <2>1. PICK r \in Rank : Finalize(r) \/ RemoveMeta(r) \/ RemoveFile(r) \/ Cleaned(r)
    BY <1>3 DEF FinalizeStep
  <2>2. UNCHANGED <<version, mem, cp, partner, lostpgroup, run, faults>>
    BY <2>1 DEF Finalize, RemoveMeta, RemoveFile, Cleaned
  <2>3. pc' \in [Rank -> CheckpointPCs \cup RecoverPCs \cup {"clean", "done"}]
    BY <2>1 DEF Finalize, RemoveMeta, RemoveFile, Cleaned, Go, TypeOK
  <2>4. /\ meta' = meta \/ \E s \in Slots : meta' = [meta EXCEPT ![r][s] = NoMeta]
        /\ file' = file \/ \E s \in Slots : file' = [file EXCEPT ![r][s] = NoFile]
    BY <2>1 DEF Finalize, RemoveMeta, RemoveFile, Cleaned
  <2>5. meta' \in [Rank -> [Slots -> Metas]] /\ file' \in [Rank -> [Slots -> Files]]
    <3>1. \A s \in Slots : [meta EXCEPT ![r][s] = NoMeta] \in [Rank -> [Slots -> Metas]]
      BY ConstantTypes DEF TypeOK
    <3>2. \A s \in Slots : [file EXCEPT ![r][s] = NoFile] \in [Rank -> [Slots -> Files]]
      BY ConstantTypes DEF TypeOK
    <3> QED BY <2>4, <3>1, <3>2 DEF TypeOK
  <2>6. \A q \in Rank : \A s \in Slots : meta'[q][s] = meta[q][s] \/ meta'[q][s] = NoMeta
    <3>1. ASSUME NEW t \in Slots, meta' = [meta EXCEPT ![r][t] = NoMeta]
          PROVE  \A q \in Rank : \A s \in Slots : meta'[q][s] = meta[q][s] \/ meta'[q][s] = NoMeta
      BY <3>1 DEF TypeOK
    <3> QED BY <2>4, <3>1
  <2>7. NoMeta.version = 0 /\ MaxVersion >= 0
    BY CommunityAssumption DEF NoMeta
  <2>8. VersionsBounded'
    BY <2>2, <2>6, <2>7 DEF VersionsBounded
  <2> QED BY <2>2, <2>3, <2>5, <2>8 DEF TypeOK
<1>4. CASE UNCHANGED vars
  BY <1>4 DEF vars, TypeOK, VersionsBounded
<1>5. CASE Crashes
  <2>1. PICK L \in SUBSET Rank : Crash(L)
    BY <1>5 DEF Crashes
  <2> QED BY <1>2, <2>1
<1> QED BY <1>3, <1>4, <1>5, CheckpointTyped, RecoverTyped DEF CombinedNext, JobEnded, JobHangs

\* The states the exploration starts from.
LEMMA JobStartTyped ==
    ASSUME CombinedInit
    PROVE  JobTyped
<1>s. StartVersion \in Nat /\ StartVersion <= MaxVersion
  BY CombinedAssumption, CommunityAssumption
<1>1. CASE StartVersion = 0
  <2>1. Init
    BY <1>1 DEF CombinedInit
  <2>2. TypeOK
    BY <2>1, InitTyped
  <2> QED BY <2>1, <2>2, CommunityAssumption DEF JobTyped, VersionsBounded, Init, NoMeta
<1>2. CASE StartVersion # 0
  <2>1. PICK S : /\ faults = IF S = {} THEN 0 ELSE 1
                 /\ meta = [r \in Rank |-> [s \in Slots |-> IF s = slot(StartVersion)
                                            THEN AfterCheckpoint(r, StartVersion, S).meta ELSE NoMeta]]
                 /\ file = [r \in Rank |-> [s \in Slots |-> IF s = slot(StartVersion)
                                            THEN AfterCheckpoint(r, StartVersion, S).file ELSE NoFile]]
    BY <1>2 DEF CombinedInit
  <2>2. \A r \in Rank : /\ AfterCheckpoint(r, StartVersion, S).meta \in Metas
                        /\ AfterCheckpoint(r, StartVersion, S).meta.version = StartVersion
                        /\ AfterCheckpoint(r, StartVersion, S).file \in Files
    BY <1>s DEF AfterCheckpoint, Metas, Files, States, FailOffsets, Stamp, Garbage
  <2>3. meta \in [Rank -> [Slots -> Metas]] /\ file \in [Rank -> [Slots -> Files]]
    BY <2>1, <2>2, ConstantTypes
  <2>4. /\ pc \in [Rank -> CheckpointPCs \cup RecoverPCs \cup {"clean", "done"}]
        /\ version \in [Rank -> Nat] /\ \A r \in Rank : version[r] <= MaxVersion
        /\ mem \in [Rank -> Stamp] /\ cp \in [Rank -> Cps]
    BY <1>2, <1>s, ConstantTypes DEF CombinedInit, CheckpointPCs, Stamp
  <2>5. partner \in [Rank -> PRank] /\ lostpgroup \in BOOLEAN /\ run \in Nat /\ faults \in Nat
    <3>1. \A r \in Rank : r[2] \in PRank
      BY GridFacts
    <3>2. partner = [r \in Rank |-> r[2]] /\ lostpgroup = FALSE /\ run = 1
      BY <1>2 DEF CombinedInit
    <3>3. faults = 0 \/ faults = 1
      BY <2>1
    <3>4. partner \in [Rank -> PRank]
      BY <3>1, <3>2
    <3>5. lostpgroup \in BOOLEAN
      BY <3>2, Zenon
    <3>6. run = 1
      BY <3>2, Zenon
    <3> QED BY <3>3, <3>4, <3>5, <3>6
  <2>6. \A r \in Rank : \A s \in Slots : meta[r][s].version <= MaxVersion
    BY <1>s, <2>1, <2>2, CommunityAssumption DEF NoMeta
  <2> QED BY <2>3, <2>4, <2>5, <2>6 DEF JobTyped, TypeOK, VersionsBounded
<1> QED BY <1>1, <1>2

\* Every variable keeps its type through checkpoints, failures and recoveries.
THEOREM JobTypeCorrect == CombinedSpec => []TypeOK
<1>1. JobTyped => TypeOK
  BY DEF JobTyped
<1> QED BY <1>1, JobStartTyped, JobTypedStep, PTL DEF CombinedSpec

-----------------------------------------------------------------------------
(* Without cleanup there is no metadata without its checkpoint file.       *)

\* Where the file of the slot in work is being written; where it is written and
\* the metadata is about to follow.
WritingPCs == {"transfer", "recv", "xtransfer"}
WrittenPCs == {"meta", "torn", "rmeta", "rtorn", "xmeta", "xtorn"}

\* While the file of a slot is written its metadata is not valid.
Backed(r) ==
    /\ \A s \in Slots : meta[r][s].is = "valid" => file[r][s].kind # "empty"
    /\ pc[r] \in WritingPCs => meta[r][Cur(r)].is # "valid"
    /\ pc[r] \in WrittenPCs => file[r][Cur(r)].kind # "empty"
    /\ pc[r] # "clean"

BackedInv == JobTyped /\ \A r \in Rank : Backed(r)

\* A step that does not touch the disk of r, and leaves it where it was or away
\* from its files.
LEMMA BackedKept ==
    ASSUME NEW r, Backed(r), meta'[r] = meta[r], file'[r] = file[r],
           \/ pc'[r] = pc[r] /\ version'[r] = version[r]
           \/ pc'[r] \notin WritingPCs \cup WrittenPCs \cup {"clean"}
    PROVE  Backed(r)'
BY DEF Backed, Cur

LEMMA BackedOpen ==
    ASSUME JobTyped, NEW r \in Rank, \A q \in Rank : Backed(q),
           PartnerOpen(r) \/ ReceiverOpen(r) \/ ExchangeOpen(r)
    PROVE  \A q \in Rank : Backed(q)'
<1>1. /\ pc'[r] \in WritingPCs /\ \A q \in Rank : q # r => pc'[q] = pc[q]
      /\ OpenCpFile(r) /\ version' = version
  BY DEF PartnerOpen, ReceiverOpen, ExchangeOpen, Go, WritingPCs
<1>2. Cur(r) \in Slots /\ meta \in [Rank -> [Slots -> Metas]] /\ file \in [Rank -> [Slots -> Files]]
  BY SlotType DEF JobTyped, TypeOK, Cur
<1>3. /\ meta'[r] = [meta[r] EXCEPT ![Cur(r)] = NoMeta]
      /\ file'[r] = [file[r] EXCEPT ![Cur(r)] = NoFile]
      /\ \A q \in Rank : q # r => meta'[q] = meta[q] /\ file'[q] = file[q]
  BY <1>1, <1>2 DEF OpenCpFile
<1>4. Backed(r)'
  <2>1. NoMeta.is # "valid"
    BY DEF NoMeta
  <2>2. pc'[r] \notin WrittenPCs \cup {"clean"}
    BY <1>1 DEF WritingPCs, WrittenPCs
  <2>3. Cur(r)' = Cur(r)
    BY <1>1 DEF Cur
  <2>4. \A s \in Slots : \/ meta'[r][s] = NoMeta
                         \/ meta'[r][s] = meta[r][s] /\ file'[r][s] = file[r][s]
    BY <1>2, <1>3
  <2>5. meta'[r][Cur(r)] = NoMeta
    BY <1>2, <1>3
  <2> QED BY <2>1, <2>2, <2>3, <2>4, <2>5 DEF Backed
<1>5. \A q \in Rank : q # r => Backed(q)'
  BY <1>1, <1>3, BackedKept
<1> QED BY <1>4, <1>5

\* A file that was being written is written further, or to its end.
LEMMA BackedWritten ==
    ASSUME JobTyped, NEW r \in Rank, Backed(r), pc[r] \in WritingPCs, NEW f,
           version'[r] = version[r], meta'[r] = meta[r], file'[r] = [file[r] EXCEPT ![Cur(r)] = f],
           \/ pc'[r] = pc[r]
           \/ pc'[r] \in WrittenPCs /\ f.kind # "empty"
    PROVE  Backed(r)'
<1>1. Cur(r) \in Slots /\ file[r] \in [Slots -> Files]
  BY SlotType DEF JobTyped, TypeOK, Cur
<1>2. Cur(r)' = Cur(r)
  BY DEF Cur
<1>3. \A s \in Slots : s # Cur(r) => file'[r][s] = file[r][s]
  BY <1>1
<1>4. file'[r][Cur(r)] = f
  BY <1>1
<1>5. pc'[r] # "clean" /\ (pc'[r] \in WrittenPCs => f.kind # "empty")
  BY DEF Backed, WritingPCs, WrittenPCs
<1> QED BY <1>2, <1>3, <1>4, <1>5 DEF Backed

LEMMA BackedTransfer ==
    ASSUME JobTyped, \A q \in Rank : Backed(q), NEW p \in PIDs, NEW k, NEW S, Transfer(p, k, S)
    PROVE  \A q \in Rank : Backed(q)'
<1> TAKE q \in Rank
<1>1. meta' = meta /\ version' = version
  BY DEF Transfer
<1>2. CASE q \notin pcomm(p)
  <2>1. file'[q] = file[q] /\ pc'[q] = pc[q]
    BY <1>2 DEF Transfer, Go
  <2> QED BY <1>1, <2>1, BackedKept
<1>3. CASE q \in pcomm(p)
  <2>1. pc[q] = "transfer"
    BY <1>3 DEF Transfer, At
  <2>2. pc'[q] = IF q \in S \/ cp[q].chunks + k = Transfers THEN "meta" ELSE pc[q]
    BY <1>3 DEF Transfer, Go
  <2> DEFINE alone == [GatheredPart(p, q, k) EXCEPT !.kind = "local",
                        !.parity = [x \in PRank |-> IF x = q[2] THEN cp[q].parity ELSE Garbage]]
             f == IF q \in S THEN alone ELSE GatheredPart(p, q, k)
  <2>3. file'[q] = [file[q] EXCEPT ![Cur(q)] = f]
    BY <1>3 DEF Transfer
  <2>4. q \in S \/ cp[q].chunks + k = Transfers => f.kind # "empty"
    BY DEF GatheredPart
  <2> HIDE DEF f
  <2>5. pc[q] \in WritingPCs /\ (pc'[q] = pc[q] \/ (pc'[q] \in WrittenPCs /\ f.kind # "empty"))
    BY <2>1, <2>2, <2>4 DEF WritingPCs, WrittenPCs
  <2> QED BY <1>1, <2>3, <2>5, BackedWritten
<1> QED BY <1>2, <1>3

LEMMA BackedMeta ==
    ASSUME JobTyped, \A q \in Rank : Backed(q), MetaStep
    PROVE  \A q \in Rank : Backed(q)'
<1>1. PICK r \in Rank : MetaOpen(r) \/ MetaWrite(r)
  BY DEF MetaStep
<1>2. Cur(r) \in Slots /\ meta \in [Rank -> [Slots -> Metas]] /\ pc \in [Rank -> CheckpointPCs \cup RecoverPCs \cup {"clean", "done"}]
  BY SlotType DEF JobTyped, TypeOK, Cur
<1>3. file' = file /\ version' = version
  BY <1>1 DEF MetaOpen, MetaWrite
<1>4. \A q \in Rank : q # r => meta'[q] = meta[q] /\ pc'[q] = pc[q]
  BY <1>1, <1>2 DEF MetaOpen, MetaWrite
<1>5. pc[r] \in WrittenPCs /\ pc'[r] \notin WritingPCs \cup {"clean"}
  BY <1>1, <1>2 DEF MetaOpen, MetaWrite, MetaFrom, MetaTo, WrittenPCs, WritingPCs
<1>6. \A s \in Slots : s # Cur(r) => meta'[r][s] = meta[r][s]
  BY <1>1, <1>2 DEF MetaOpen, MetaWrite
<1>7. Backed(r)'
  BY <1>2, <1>3, <1>5, <1>6 DEF Backed, Cur
<1> QED BY <1>3, <1>4, <1>7, BackedKept

LEMMA BackedCheckpoint ==
    ASSUME JobTyped, \A q \in Rank : Backed(q), CheckpointStep
    PROVE  \A q \in Rank : Backed(q)'
<1>1. ASSUME NEW x \in PRank, NEW k, NEW S, EnterXor(x, k, S)
      PROVE  \A q \in Rank : Backed(q)'
  <2> TAKE q \in Rank
  <2>1. meta' = meta /\ file' = file
    BY <1>1 DEF EnterXor
  <2>2. \/ pc'[q] = pc[q] /\ version'[q] = version[q]
        \/ pc'[q] \in {"app", "open", "xor"}
    BY <1>1 DEF EnterXor
  <2>3. {"app", "open", "xor"} \cap (WritingPCs \cup WrittenPCs \cup {"clean"}) = {}
    BY DEF WritingPCs, WrittenPCs
  <2> QED BY <2>1, <2>2, <2>3, BackedKept
<1>2. ASSUME NEW r \in Rank, MetaFails(r)
      PROVE  \A q \in Rank : Backed(q)'
  <2> TAKE q \in Rank
  <2>1. meta' = meta /\ file' = file /\ version' = version /\ (pc'[q] = pc[q] \/ pc'[q] = "app")
    BY <1>2 DEF MetaFails, Go
  <2>2. "app" \notin WritingPCs \cup WrittenPCs \cup {"clean"}
    BY DEF WritingPCs, WrittenPCs
  <2> QED BY <2>1, <2>2, BackedKept
<1>3. CASE \E x \in PRank : XorCheckpoint(x) \/ \E S \in SUBSET xcomm(x) : XorFails(x, S)
  BY <1>1, <1>3 DEF XorCheckpoint, XorFails
<1>4. CASE \E p \in PIDs : PartnerTransfer(p) \/ \E S \in SUBSET pcomm(p) : ParityFails(p, S)
  BY <1>4, BackedTransfer DEF PartnerTransfer, ParityFails
<1>5. CASE \E r \in Rank : PartnerOpen(r)
  BY <1>5, BackedOpen
<1> QED BY <1>2, <1>3, <1>4, <1>5 DEF CheckpointStep

LEMMA BackedRecover ==
    ASSUME JobTyped, \A q \in Rank : Backed(q), RecoverStep
    PROVE  \A q \in Rank : Backed(q)'
<1> DEFINE Quiet == {"app", "gather", "send", "recvopen", "local", "xred", "land", "xopen", "barrier", "failed"}
<1>q. Quiet \cap (WritingPCs \cup WrittenPCs \cup {"clean"}) = {}
  BY DEF WritingPCs, WrittenPCs
<1>1. ASSUME meta' = meta, file' = file,
             \A q \in Rank : pc'[q] \in Quiet \/ (pc'[q] = pc[q] /\ version'[q] = version[q])
      PROVE  \A q \in Rank : Backed(q)'
  <2> HIDE DEF Quiet
  <2> QED BY <1>q, <1>1, BackedKept
<1>2. CASE Negotiate
  <2>1. meta' = meta /\ file' = file /\ (Go(Rank, "app") \/ Go(Rank, "gather"))
    BY <1>2 DEF Negotiate
  <2> QED BY <1>1, <2>1 DEF Go
<1>3. CASE \E p \in PIDs : PartnerGather(p) \/ Land(p)
  <2>1. meta' = meta /\ file' = file /\ version' = version
    BY <1>3 DEF PartnerGather, Land
  <2>2. \A q \in Rank : pc'[q] \in {"send", "recvopen", "local", "xopen", "barrier"} \/ pc'[q] = pc[q]
    BY <1>3 DEF PartnerGather, Land, Go
  <2> QED BY <1>1, <2>1, <2>2
<1>4. CASE \E r \in Rank : SenderFails(r) \/ LoadLocal(r)
  <2>1. meta' = meta /\ file' = file /\ version' = version
    BY <1>4 DEF SenderFails, LoadLocal
  <2>2. \A q \in Rank : pc'[q] \in {"xred", "failed"} \/ pc'[q] = pc[q]
    BY <1>4 DEF SenderFails, LoadLocal, Go
  <2> QED BY <1>1, <2>1, <2>2
<1>5. CASE (\E x \in PRank : XorPhase(x)) \/ Barrier
  <2>1. meta' = meta /\ file' = file /\ version' = version
    BY <1>5 DEF XorPhase, Barrier
  <2>2. \A q \in Rank : pc'[q] \in {"land", "app"} \/ pc'[q] = pc[q]
    BY <1>5 DEF XorPhase, Barrier, Go
  <2> QED BY <1>1, <2>1, <2>2
<1>6. CASE \E r \in Rank : ReceiverOpen(r) \/ ExchangeOpen(r)
  BY <1>6, BackedOpen
<1>7. ASSUME NEW p \in PIDs, NEW s \in pcomm(p), NEW r \in pcomm(p), PairTransfer(s, r)
      PROVE  \A q \in Rank : Backed(q)'
  <2>1. s \in Rank /\ r \in Rank
    BY GridFacts
  <2> DEFINE sent == file[s][Cur(s)]
  <2>2. /\ pc[r] = "recv" /\ pc[s] = "send" /\ sent.kind # "empty"
        /\ file' = [file EXCEPT ![r][Cur(r)] = sent]
        /\ pc' = [pc EXCEPT ![s] = "gather", ![r] = "rmeta"]
        /\ meta' = meta /\ version' = version
    BY <1>7 DEF PairTransfer, At, Missing
  <2> HIDE DEF sent
  <2>3. pc'[r] = "rmeta" /\ \A q \in Rank : q # r => pc'[q] = pc[q] \/ pc'[q] = "gather"
    BY <2>1, <2>2 DEF JobTyped, TypeOK
  <2>4. file'[r] = [file[r] EXCEPT ![Cur(r)] = sent] /\ \A q \in Rank : q # r => file'[q] = file[q]
    BY <2>1, <2>2 DEF JobTyped, TypeOK
  <2>5. Backed(r)'
    BY <2>1, <2>2, <2>3, <2>4, BackedWritten DEF WritingPCs, WrittenPCs
  <2>6. \A q \in Rank : q # r => Backed(q)'
    BY <2>2, <2>3, <2>4, BackedKept DEF WritingPCs, WrittenPCs
  <2> QED BY <2>5, <2>6
<1>8. ASSUME NEW p \in PIDs, ExchangeTransfer(p)
      PROVE  \A q \in Rank : Backed(q)'
  <2>1. meta' = meta /\ version' = version
    BY <1>8 DEF ExchangeTransfer
  <2>2. CASE ~lostpgroup
    <3>1. file' = file /\ \A q \in Rank : pc'[q] = "failed" \/ pc'[q] = pc[q]
      BY <1>8, <2>2 DEF ExchangeTransfer, Go
    <3> QED BY <1>1, <2>1, <3>1
  <2>3. CASE lostpgroup
    <3> TAKE q \in Rank
    <3>1. q \in pcomm(p) => pc[q] = "xtransfer" /\ pc'[q] = "xmeta" /\ file'[q] = [file[q] EXCEPT ![Cur(q)] = GatheredFile(p)]
      BY <1>8, <2>3 DEF ExchangeTransfer, Go, AllAt
    <3>2. q \notin pcomm(p) => pc'[q] = pc[q] /\ file'[q] = file[q]
      BY <1>8, <2>3 DEF ExchangeTransfer, Go
    <3>3. GatheredFile(p).kind # "empty"
      BY DEF GatheredFile
    <3> QED BY <2>1, <3>1, <3>2, <3>3, BackedKept, BackedWritten DEF WritingPCs, WrittenPCs
  <2> QED BY <2>2, <2>3
<1> QED BY <1>2, <1>3, <1>4, <1>5, <1>6, <1>7, <1>8 DEF RecoverStep

LEMMA BackedStart == CombinedInit => \A r \in Rank : Backed(r)
<1> SUFFICES ASSUME CombinedInit, NEW r \in Rank
             PROVE  Backed(r)
  OBVIOUS
<1>1. pc[r] = "app"
  BY DEF CombinedInit, Init
<1>2. \A s \in Slots : meta[r][s].is = "valid" => file[r][s].kind # "empty"
  <2>1. CASE StartVersion = 0
    BY <2>1 DEF CombinedInit, Init, NoMeta
  <2>2. CASE StartVersion # 0
    <3>1. PICK S : /\ faults = IF S = {} THEN 0 ELSE 1
                   /\ meta = [q \in Rank |-> [s \in Slots |-> IF s = slot(StartVersion)
                                                THEN AfterCheckpoint(q, StartVersion, S).meta ELSE NoMeta]]
                   /\ file = [q \in Rank |-> [s \in Slots |-> IF s = slot(StartVersion)
                                                THEN AfterCheckpoint(q, StartVersion, S).file ELSE NoFile]]
      BY <2>2 DEF CombinedInit
    <3>2. AfterCheckpoint(r, StartVersion, S).file.kind # "empty" /\ NoMeta.is # "valid"
      BY DEF AfterCheckpoint, NoMeta
    <3> QED BY <3>1, <3>2
  <2> QED BY <2>1, <2>2
<1> QED BY <1>1, <1>2 DEF Backed, WritingPCs, WrittenPCs

LEMMA BackedStep ==
    ASSUME ~Cleanup, BackedInv, [CombinedNext]_vars
    PROVE  \A q \in Rank : Backed(q)'
<1> USE DEF BackedInv
<1>1. CASE Crashes
  <2>1. PICK L : Crash(L)
    BY <1>1 DEF Crashes
  <2> TAKE q \in Rank
  <2>2. pc'[q] = "load"
    BY <2>1 DEF Crash, Go
  <2>3. \/ meta'[q] = meta[q] /\ file'[q] = file[q]
        \/ meta'[q] = [s \in Slots |-> NoMeta]
    BY <2>1 DEF Crash, EmptyDisks
  <2>4. \A s \in Slots : meta'[q][s].is = "valid" => file'[q][s].kind # "empty"
    BY <2>3 DEF Backed, NoMeta
  <2> QED BY <2>2, <2>4 DEF Backed, WritingPCs, WrittenPCs
<1>2. CASE FinalizeStep
  <2>1. PICK r \in Rank : Finalize(r)
    BY <1>2 DEF FinalizeStep, RemoveMeta, RemoveFile, Cleaned, At, Backed
  <2> TAKE q \in Rank
  <2>2. meta' = meta /\ file' = file /\ version' = version /\ (pc'[q] = pc[q] \/ pc'[q] = "done")
    BY <2>1 DEF Finalize, Go
  <2> QED BY <2>2, BackedKept DEF WritingPCs, WrittenPCs
<1>3. CASE UNCHANGED vars
  BY <1>3, BackedKept DEF vars
<1> QED BY <1>1, <1>2, <1>3, BackedCheckpoint, BackedMeta, BackedRecover DEF CombinedNext, JobEnded, JobHangs

\* The case that the recovery properties leave out, metadata whose checkpoint file
\* is gone, needs a COMB_Finalize that removes files: in a job without cleanup no
\* failure leaves it, of a node or of a call, at any step of any run, while files
\* are rewritten in place by checkpoints and by recoveries.
THEOREM IntactWithoutCleanup == ~Cleanup => (CombinedSpec => []Intact)
<1> SUFFICES ASSUME ~Cleanup
             PROVE  CombinedSpec => []Intact
  OBVIOUS
<1>1. CombinedInit => BackedInv
  BY BackedStart, JobStartTyped DEF BackedInv
<1>2. BackedInv /\ [CombinedNext]_vars => BackedInv'
  BY BackedStep, JobTypedStep DEF BackedInv
<1>3. BackedInv => Intact
  BY DEF BackedInv, Backed, Intact
<1> QED BY <1>1, <1>2, <1>3, PTL DEF CombinedSpec

-----------------------------------------------------------------------------
(* lostpgroup, decided before anything is repaired, is enough.             *)

\* Metadata is in the slot of its version.
SlotTruth == \A r \in Rank : \A s \in Slots : meta[r][s].is = "valid" => slot(meta[r][s].version) = s

\* Where the partner phase may still help a rank; where it is over for it.
PartnerPhasePCs == {"gather", "send", "recvopen", "recv", "rmeta", "rtorn"}
AfterPhasePCs == {"local", "xred"}

\* A partner in the same recovery has what r waits for.
Helped(r) == \E q \in pcomm(r[1]) : cp[q].state = FULLDATA /\ pc[q] \in RecoverPCs

\* Without lostpgroup a rank that has no data is helped by a partner.
NoneIsLost ==
    ~lostpgroup => \A r \in Rank :
        /\ pc[r] \in PartnerPhasePCs /\ cp[r].state = NODATA => Helped(r)
        /\ pc[r] \in AfterPhasePCs => cp[r].state # NODATA

ParityInv == JobTyped /\ SlotTruth /\ NoneIsLost

\* The entry a rank fetches has the state it has presented.
LEMMA FetchedAsPresented ==
    ASSUME JobTyped, SlotTruth, NEW r \in Rank, NEW v \in Nat
    PROVE  FetchedCp(r, v).state = ccommstates(v, {})[r]
<1>1. \A t \in Slots : meta[r][t].is = "valid" /\ meta[r][t].version = v => t = slot(v)
  BY DEF SlotTruth
<1>2. CASE v \in local_versions(r)
  <2>1. PICK t \in Slots : /\ meta[r][t].is = "valid" /\ meta[r][t].version = v
                           /\ meta[r][t].state \in {XORDATA, FULLDATA}
    BY <1>2 DEF local_versions, Presented
  <2>2. t = slot(v)
    BY <1>1, <2>1
  <2>3. FetchedCp(r, v).state = meta[r][t].state
    BY <1>2, <2>2 DEF FetchedCp, NoCp
  <2>4. v \in local_fullversions(r) <=> meta[r][t].state = FULLDATA
    <3>1. ~Forgets(r)
      BY <1>2 DEF local_versions, Presented
    <3>2. v \in local_fullversions(r)
             <=> \E u \in Slots : meta[r][u].is = "valid" /\ meta[r][u].state = FULLDATA /\ meta[r][u].version = v
      BY <3>1 DEF local_fullversions, Presented
    <3> QED BY <1>1, <2>1, <2>2, <3>2
  <2> QED BY <1>2, <2>1, <2>3, <2>4 DEF ccommstates, version_state_in_presented_versions
<1>3. CASE v \notin local_versions(r)
  <2>1. v \notin local_fullversions(r)
    BY <1>3 DEF local_versions, local_fullversions, Presented
  <2> QED BY <1>3, <2>1 DEF FetchedCp, NoCp, ccommstates, version_state_in_presented_versions
<1> QED BY <1>2, <1>3

\* The decision of the negotiation: without lostpgroup the partner phase is all
\* that the chosen version needs.
LEMMA NegotiateDecides ==
    ASSUME ParityInv, Negotiate
    PROVE  NoneIsLost'
<1> USE DEF ParityInv, JobTyped
<1>1. PICK H \in HashSets(ccomm_versions({})) :
        LET V == NewestRecoverable(H, {})
        IN  /\ lostpgroup' = NeedsParity(H, {})
            /\ IF V = 0 THEN Go(Rank, "app")
               ELSE Go(Rank, "gather") /\ cp' = [r \in Rank |-> FetchedCp(r, V)]
  BY DEF Negotiate
<1> DEFINE V == NewestRecoverable(H, {})
           st == ccommstates(V, {})
<1>2. CASE V = 0
  BY <1>1, <1>2 DEF Go, NoneIsLost, PartnerPhasePCs, AfterPhasePCs
<1>3. CASE V # 0
  <2>1. /\ lostpgroup' = NeedsParity(H, {})
        /\ pc' = [r \in Rank |-> "gather"]
        /\ cp' = [r \in Rank |-> FetchedCp(r, V)]
    BY <1>1, <1>3 DEF Go
  <2>2. V \in Nat /\ V \in H /\ repairphase(V, {}) > 0
    BY <1>3, NewestIsGreatest, CommunityAssumption
  <2>3. \A r \in Rank : cp'[r].state = st[r] /\ pc'[r] = "gather"
    BY <2>1, <2>2, FetchedAsPresented
  <2>4. ASSUME ~NeedsParity(H, {}), NEW r \in Rank, st[r] = NODATA
        PROVE  \E q \in pcomm(r[1]) : st[q] = FULLDATA
    <3>1. ~(repairphase(V, {}) > 1)
      BY <2>2, <2>4 DEF NeedsParity
    <3>2. \A x \in PRank : xgfails(st, x) = {}
      BY <2>2, <3>1 DEF repairphase, theoretical_repair
    <3>3. r \in xcomm(r[2]) /\ r[2] \in PRank
      BY GridFacts
    <3>4. AfterPartner(st)[r] # NODATA
      BY <3>2, <3>3 DEF xgfails
    <3> QED BY <2>4, <3>4 DEF AfterPartner
  <2>5. ASSUME ~lostpgroup', NEW r \in Rank, cp'[r].state = NODATA
        PROVE  Helped(r)'
    <3>1. PICK q \in pcomm(r[1]) : st[q] = FULLDATA
      BY <2>1, <2>3, <2>4, <2>5
    <3>2. q \in Rank
      BY GridFacts
    <3> QED BY <2>3, <3>1, <3>2 DEF Helped, RecoverPCs
  <2> QED BY <2>3, <2>5 DEF NoneIsLost, AfterPhasePCs
<1> QED BY <1>2, <1>3

\* A step that takes no rank into the partner phase, takes no help away and
\* leaves no rank behind it without data.
LEMMA HelpKept ==
    ASSUME ParityInv, lostpgroup' = lostpgroup,
           \A r \in Rank : /\ pc'[r] \in PartnerPhasePCs => pc[r] \in PartnerPhasePCs
                           /\ pc'[r] \in PartnerPhasePCs /\ cp'[r].state = NODATA => cp[r].state = NODATA,
           \A r \in Rank : pc[r] \in RecoverPCs /\ cp[r].state = FULLDATA
                              => pc'[r] \in RecoverPCs /\ cp'[r].state = FULLDATA,
           ~lostpgroup => \A r \in Rank : pc'[r] \in AfterPhasePCs => cp'[r].state # NODATA
    PROVE  NoneIsLost'
<1>1. ASSUME NEW r \in Rank, Helped(r)
      PROVE  Helped(r)'
  <2>1. PICK q \in pcomm(r[1]) : cp[q].state = FULLDATA /\ pc[q] \in RecoverPCs
    BY <1>1 DEF Helped
  <2>2. q \in Rank
    BY GridFacts
  <2> QED BY <2>1, <2>2 DEF Helped
<1> QED BY <1>1 DEF ParityInv, NoneIsLost

\* COMB_Recover decides about partners and loads what is there.
LEMMA HelpInRecovery ==
    ASSUME ParityInv, RecoverStep
    PROVE  NoneIsLost'
<1> USE DEF ParityInv, JobTyped, Go, At, AllAt
<1>1. ASSUME NEW p \in PIDs, PartnerGather(p)
      PROVE  NoneIsLost'
  <2> DEFINE pstates == [q \in PRank |-> cp[<<p, q>>].state = FULLDATA]
             peer == [r \in Rank |-> IF r \in pcomm(p) THEN assign_partner(pstates, r[2]) ELSE partner[r]]
  <2>1. cp' = cp /\ lostpgroup' = lostpgroup /\ \A r \in pcomm(p) : pc[r] = "gather"
    BY <1>1 DEF PartnerGather
  <2>2. CASE imbalance_partners(pstates)
    <3>1. pc' = [r \in Rank |-> IF r \notin pcomm(p) \/ peer[r] = r[2] THEN pc[r]
                                ELSE IF pstates[r[2]] THEN "send" ELSE "recvopen"]
      BY <1>1, <2>2 DEF PartnerGather
    <3>2. \A r \in Rank : pc'[r] = pc[r] \/ (pc[r] = "gather" /\ pc'[r] \in {"send", "recvopen"})
      <4> HIDE DEF peer, pstates
      <4> QED BY <2>1, <3>1
    <3> QED BY <2>1, <3>2, HelpKept DEF NoneIsLost, PartnerPhasePCs, AfterPhasePCs, RecoverPCs
  <2>3. CASE ~imbalance_partners(pstates)
    <3>1. pc' = [r \in Rank |-> IF r \in pcomm(p) THEN "local" ELSE pc[r]]
      BY <1>1, <2>3 DEF PartnerGather
    <3>2. ASSUME NEW r \in pcomm(p), ~lostpgroup, cp[r].state = NODATA
          PROVE  FALSE
      <4>1. r \in Rank /\ r[1] = p /\ r[2] \in PRank /\ r = <<p, r[2]>>
        BY GridFacts
      <4>2. Helped(r)
        BY <2>1, <3>2, <4>1 DEF NoneIsLost, PartnerPhasePCs
      <4>3. PICK q \in pcomm(p) : cp[q].state = FULLDATA
        BY <4>1, <4>2 DEF Helped
      <4>4. q[2] \in PRank /\ q = <<p, q[2]>>
        BY GridFacts
      <4>5. \A k \in PRank : pstates[k] = (cp[<<p, k>>].state = FULLDATA)
        OBVIOUS
      <4>6. cp[<<p, q[2]>>].state = FULLDATA /\ cp[<<p, r[2]>>].state # FULLDATA
        BY <3>2, <4>1, <4>3, <4>4 DEF NODATA, FULLDATA
      <4>7. pstates[q[2]] # pstates[r[2]]
        <5> HIDE DEF pstates
        <5> QED BY <4>1, <4>4, <4>5, <4>6, Zenon
      <4> HIDE DEF pstates
      <4> QED BY <2>3, <4>1, <4>4, <4>7 DEF imbalance_partners
    <3>3. \A r \in Rank : r \in pcomm(p) \/ pc'[r] = pc[r]
      BY <3>1
    <3>4. \A r \in pcomm(p) : r \in Rank /\ pc'[r] = "local" /\ pc[r] = "gather"
      BY <2>1, <3>1, GridFacts
    <3> QED BY <2>1, <3>2, <3>3, <3>4, HelpKept DEF NoneIsLost, PartnerPhasePCs, AfterPhasePCs, RecoverPCs
  <2> QED BY <2>2, <2>3
<1>2. ASSUME NEW r \in Rank, ReceiverOpen(r) \/ ExchangeOpen(r)
      PROVE  NoneIsLost'
  <2>1. /\ cp' = cp /\ lostpgroup' = lostpgroup
        /\ \/ pc[r] = "recvopen" /\ pc' = [pc EXCEPT ![r] = "recv"]
           \/ pc[r] = "xopen" /\ pc' = [pc EXCEPT ![r] = "xtransfer"]
    BY <1>2 DEF ReceiverOpen, ExchangeOpen, TypeOK
  <2> QED BY <2>1, HelpKept DEF TypeOK, NoneIsLost, PartnerPhasePCs, AfterPhasePCs, RecoverPCs
<1>3. ASSUME NEW p \in PIDs, NEW s \in pcomm(p), NEW r \in pcomm(p), PairTransfer(s, r)
      PROVE  NoneIsLost'
  <2>1. s \in Rank /\ r \in Rank
    BY GridFacts
  <2>2. /\ lostpgroup' = lostpgroup
        /\ pc[s] = "send" /\ pc[r] = "recv" /\ pc' = [pc EXCEPT ![s] = "gather", ![r] = "rmeta"]
        /\ \A q \in Rank : IF q \in {s, r} THEN cp'[q].state = FULLDATA ELSE cp'[q] = cp[q]
    BY <1>3 DEF PairTransfer, TypeOK, Cps
  <2> QED BY <2>1, <2>2, HelpKept DEF TypeOK, NoneIsLost, PartnerPhasePCs, AfterPhasePCs, RecoverPCs, NODATA, FULLDATA
<1>4. ASSUME NEW r \in Rank, LoadLocal(r)
      PROVE  NoneIsLost'
  <2>1. /\ lostpgroup' = lostpgroup
        /\ pc[r] = "local" /\ \A q \in Rank : pc'[q] = pc[q] \/ (q = r /\ pc'[q] \in {"xred", "failed"})
    BY <1>4 DEF LoadLocal
  <2>2. \A q \in Rank : cp'[q].state = cp[q].state
    <3>1. cp[r] \in Cps /\ cp \in [Rank -> Cps]
      BY DEF TypeOK
    <3>2. \/ cp' = cp
          \/ cp' = [cp EXCEPT ![r].loaded = TRUE]
          \/ \E z : cp' = [cp EXCEPT ![r].loaded = TRUE, ![r].parity = z]
      BY <1>4 DEF LoadLocal
    <3>3. ASSUME NEW z, cp' = [cp EXCEPT ![r].loaded = TRUE, ![r].parity = z]
          PROVE  cp' = [cp EXCEPT ![r] = [cp[r] EXCEPT !.loaded = TRUE, !.parity = z]]
      BY <3>1, <3>3
    <3>4. /\ [cp[r] EXCEPT !.loaded = TRUE].state = cp[r].state
          /\ \A z : [cp[r] EXCEPT !.loaded = TRUE, !.parity = z].state = cp[r].state
      BY <3>1 DEF Cps
    <3> QED BY <3>1, <3>2, <3>3, <3>4
  <2> QED BY <2>1, <2>2, HelpKept DEF NoneIsLost, PartnerPhasePCs, AfterPhasePCs, RecoverPCs
<1>5. ASSUME NEW x \in PRank, XorPhase(x)
      PROVE  NoneIsLost'
  <2>1. /\ lostpgroup' = lostpgroup
        /\ \A q \in Rank : pc'[q] = pc[q] \/ (pc[q] = "xred" /\ pc'[q] = "land")
    BY <1>5, GridFacts DEF XorPhase
  <2>2. \A q \in Rank : cp'[q] = cp[q] \/ (cp[q].state = NODATA /\ cp'[q].state = XORDATA)
    <3> DEFINE lost == {r \in xcomm(x) : cp[r].state = NODATA}
               value == Rebuilt(xcomm(x) \ lost)
    <3>1. \/ cp' = cp
          \/ cp' = [r \in Rank |-> IF r \in lost THEN [cp[r] EXCEPT !.state = XORDATA, !.parity = value] ELSE cp[r]]
      BY <1>5 DEF XorPhase
    <3>2. \A r \in lost : cp[r].state = NODATA
      OBVIOUS
    <3> HIDE DEF lost, value
    <3>3. \A r \in Rank : [cp[r] EXCEPT !.state = XORDATA, !.parity = value].state = XORDATA
      BY DEF TypeOK, Cps
    <3> QED BY <3>1, <3>2, <3>3
  <2> QED BY <2>1, <2>2, HelpKept
          DEF NoneIsLost, PartnerPhasePCs, AfterPhasePCs, RecoverPCs, NODATA, XORDATA, FULLDATA
<1>6. ASSUME NEW p \in PIDs, Land(p) \/ ExchangeTransfer(p)
      PROVE  NoneIsLost'
  <2>1. /\ lostpgroup' = lostpgroup /\ cp' = cp
        /\ \A q \in Rank : \/ pc'[q] = pc[q]
                           \/ pc[q] = "land" /\ pc'[q] \in {"xopen", "barrier"}
                           \/ pc[q] = "xtransfer" /\ pc'[q] \in {"xmeta", "failed"}
    BY <1>6, GridFacts DEF Land, ExchangeTransfer
  <2> QED BY <2>1, HelpKept DEF NoneIsLost, PartnerPhasePCs, AfterPhasePCs, RecoverPCs
<1>7. CASE Barrier
  BY <1>7 DEF Barrier, NoneIsLost, PartnerPhasePCs, AfterPhasePCs
<1>8. ASSUME NEW s \in Rank, SenderFails(s)
      PROVE  NoneIsLost'
  <2>1. /\ lostpgroup' = lostpgroup /\ cp' = cp
        /\ pc[s] = "send" /\ \A q \in Rank : pc'[q] = IF q = s THEN "failed" ELSE pc[q]
    BY <1>8 DEF SenderFails
  <2> QED BY <2>1, HelpKept DEF NoneIsLost, PartnerPhasePCs, AfterPhasePCs, RecoverPCs
<1> QED BY <1>1, <1>2, <1>3, <1>4, <1>5, <1>6, <1>7, <1>8, NegotiateDecides DEF RecoverStep

\* COMB_Checkpoint, the metadata of either call, and the end of a run.
LEMMA HelpElsewhere ==
    ASSUME ParityInv, [CombinedNext]_vars, ~RecoverStep
    PROVE  NoneIsLost'
<1> USE DEF ParityInv, JobTyped, Go, At, AllAt
<1>1. ASSUME lostpgroup' = lostpgroup,
             \A r \in Rank : pc'[r] = pc[r] \/ (pc[r] \in CallPCs /\ pc'[r] \in CallPCs),
             \A r \in Rank : cp'[r] = cp[r] \/ pc[r] \in CheckpointPCs
      PROVE  NoneIsLost'
  BY <1>1, HelpKept DEF NoneIsLost, PartnerPhasePCs, AfterPhasePCs, RecoverPCs, CallPCs, CheckpointPCs
<1>2. CASE CheckpointStep
  <2>1. ASSUME NEW x \in PRank, NEW k, NEW S, EnterXor(x, k, S)
        PROVE  NoneIsLost'
    <3>1. ASSUME NEW r \in Rank
          PROVE  /\ pc'[r] = pc[r] \/ (pc[r] \in CheckpointPCs /\ pc'[r] \in CheckpointPCs)
                 /\ cp'[r] = cp[r] \/ pc[r] \in CheckpointPCs
      BY <2>1 DEF EnterXor, InXor, CheckpointPCs
    <3>2. lostpgroup' = lostpgroup
      BY <2>1 DEF EnterXor
    <3> QED BY <1>1, <3>1, <3>2 DEF CallPCs
  <2>2. ASSUME NEW r \in Rank, PartnerOpen(r)
        PROVE  NoneIsLost'
    BY <1>1, <2>2 DEF PartnerOpen, CallPCs, CheckpointPCs
  <2>3. ASSUME NEW p \in PIDs, NEW k, NEW S, Transfer(p, k, S)
        PROVE  NoneIsLost'
    <3>1. ASSUME NEW r \in Rank
          PROVE  /\ pc'[r] = pc[r] \/ (pc[r] \in CheckpointPCs /\ pc'[r] \in CheckpointPCs)
                 /\ cp'[r] = cp[r] \/ pc[r] \in CheckpointPCs
      BY <2>3 DEF Transfer, CheckpointPCs
    <3>2. lostpgroup' = lostpgroup
      BY <2>3 DEF Transfer
    <3> QED BY <1>1, <3>1, <3>2 DEF CallPCs
  <2>4. ASSUME NEW r \in Rank, MetaFails(r)
        PROVE  NoneIsLost'
    BY <1>1, <2>4 DEF MetaFails, CallPCs, CheckpointPCs, TypeOK
  <2> QED BY <1>2, <2>1, <2>2, <2>3, <2>4 DEF CheckpointStep, XorCheckpoint, XorFails, PartnerTransfer, ParityFails
<1>3. CASE MetaStep
  <2>1. PICK r \in Rank : MetaOpen(r) \/ MetaWrite(r)
    BY <1>3 DEF MetaStep
  <2>2. CASE MetaOpen(r)
    <3>1. /\ cp' = cp /\ lostpgroup' = lostpgroup
          /\ <<pc[r], pc'[r]>> \in {<<"meta", "torn">>, <<"rmeta", "rtorn">>, <<"xmeta", "xtorn">>}
          /\ \A q \in Rank : q # r => pc'[q] = pc[q]
      BY <2>2 DEF MetaOpen, MetaFrom, TypeOK
    <3> QED BY <3>1, HelpKept DEF NoneIsLost, PartnerPhasePCs, AfterPhasePCs, RecoverPCs
  <2>3. CASE MetaWrite(r)
    <3>1. /\ lostpgroup' = lostpgroup
          /\ <<pc[r], pc'[r]>> \in {<<"torn", "app">>, <<"rtorn", "gather">>, <<"xtorn", "barrier">>}
          /\ \A q \in Rank : q # r => pc'[q] = pc[q] /\ cp'[q] = cp[q]
          /\ pc[r] # "torn" => cp' = cp
      BY <2>3 DEF MetaWrite, MetaTo, TypeOK
    <3> QED BY <3>1, HelpKept DEF NoneIsLost, PartnerPhasePCs, AfterPhasePCs, RecoverPCs
  <2> QED BY <2>1, <2>2, <2>3
<1>4. CASE Crashes
  BY <1>4 DEF Crashes, Crash, NoneIsLost, PartnerPhasePCs, AfterPhasePCs
<1>5. ASSUME FinalizeStep
      PROVE  NoneIsLost'
  <2>1. lostpgroup' = lostpgroup /\ cp' = cp
    BY <1>5 DEF FinalizeStep, Finalize, RemoveMeta, RemoveFile, Cleaned
  <2>2. \A r \in Rank : pc'[r] = pc[r] \/ (pc[r] \in {"app", "clean"} /\ pc'[r] \in {"clean", "done"})
    BY <1>5 DEF FinalizeStep, Finalize, RemoveMeta, RemoveFile, Cleaned
  <2> QED BY <1>1, <2>1, <2>2 DEF CallPCs, CheckpointPCs
<1>6. CASE UNCHANGED vars
  BY <1>6, HelpKept DEF vars, NoneIsLost
<1> QED BY <1>2, <1>3, <1>4, <1>5, <1>6 DEF CombinedNext, JobEnded, JobHangs

\* Metadata is removed, torn, or written for the version in work.
LEMMA SlotTruthStep ==
    ASSUME JobTyped, SlotTruth, [CombinedNext]_vars
    PROVE  SlotTruth'
<1> USE DEF JobTyped
<1>1. ASSUME \A r \in Rank : \A s \in Slots :
                \/ meta'[r][s] \in {meta[r][s], NoMeta, TornMeta}
                \/ s = slot(meta'[r][s].version)
      PROVE  SlotTruth'
  BY <1>1 DEF SlotTruth, NoMeta, TornMeta
<1>2. CASE CheckpointStep
  <2>1. CASE \E r \in Rank : PartnerOpen(r)
    BY <1>1, <2>1 DEF PartnerOpen, OpenCpFile, TypeOK
  <2>2. CASE meta' = meta
    BY <1>1, <2>2
  <2>3. meta' = meta \/ \E r \in Rank : PartnerOpen(r)
    BY <1>2 DEF CheckpointStep, XorCheckpoint, XorFails, EnterXor, PartnerTransfer, ParityFails, Transfer, MetaFails
  <2> QED BY <2>1, <2>2, <2>3
<1>3. CASE MetaStep
  <2>1. PICK r \in Rank : MetaOpen(r) \/ MetaWrite(r)
    BY <1>3 DEF MetaStep
  <2>2. CASE MetaOpen(r)
    BY <1>1, <2>2 DEF MetaOpen, TypeOK
  <2>3. CASE MetaWrite(r)
    <3>1. PICK fo : meta' = [meta EXCEPT ![r][Cur(r)] =
             [is |-> "valid", version |-> version[r], state |-> cp[r].state, failoffset |-> fo]]
      BY <2>3 DEF MetaWrite
    <3>2. \A q \in Rank : \A s \in Slots :
             meta'[q][s] = meta[q][s] \/ (q = r /\ s = Cur(r) /\ meta'[q][s].version = version[r])
      BY <3>1 DEF TypeOK
    <3> QED BY <1>1, <3>2 DEF Cur
  <2> QED BY <2>1, <2>2, <2>3
<1>4. CASE RecoverStep
  <2>1. meta' = meta \/ \E r \in Rank : OpenCpFile(r)
    BY <1>4 DEF RecoverStep, Negotiate, PartnerGather, ReceiverOpen, SenderFails, PairTransfer, LoadLocal, XorPhase,
                Land, ExchangeOpen, ExchangeTransfer, Barrier
  <2>2. CASE \E r \in Rank : OpenCpFile(r)
    <3>1. PICK r \in Rank : meta' = [meta EXCEPT ![r][Cur(r)] = NoMeta]
      BY <2>2 DEF OpenCpFile
    <3>2. \A q \in Rank : \A s \in Slots : meta'[q][s] \in {meta[q][s], NoMeta}
      BY <3>1 DEF TypeOK
    <3> QED BY <1>1, <3>2
  <2>3. CASE meta' = meta
    BY <1>1, <2>3
  <2> QED BY <2>1, <2>2, <2>3
<1>5. CASE Crashes
  <2>1. PICK S : EmptyDisks(S)
    BY <1>5 DEF Crashes, Crash
  <2> QED BY <1>1, <2>1 DEF EmptyDisks, TypeOK
<1>7. CASE FinalizeStep
  <2>1. PICK r \in Rank : Finalize(r) \/ RemoveMeta(r) \/ RemoveFile(r) \/ Cleaned(r)
    BY <1>7 DEF FinalizeStep
  <2>2. meta' = meta \/ \E s \in Slots : meta' = [meta EXCEPT ![r][s] = NoMeta]
    BY <2>1 DEF Finalize, RemoveMeta, RemoveFile, Cleaned
  <2>3. ASSUME NEW t \in Slots, meta' = [meta EXCEPT ![r][t] = NoMeta]
        PROVE  \A q \in Rank : \A s \in Slots : meta'[q][s] \in {meta[q][s], NoMeta}
    BY <2>3 DEF TypeOK
  <2>4. \A q \in Rank : \A s \in Slots : meta'[q][s] \in {meta[q][s], NoMeta}
    BY <2>2, <2>3
  <2> QED BY <1>1, <2>4
<1>6. CASE UNCHANGED vars
  BY <1>1, <1>6 DEF vars
<1> QED BY <1>2, <1>3, <1>4, <1>5, <1>6, <1>7 DEF CombinedNext, JobEnded, JobHangs

LEMMA ParityStart ==
    ASSUME CombinedInit
    PROVE  ParityInv
<1>1. \A r \in Rank : pc[r] = "app"
  BY DEF CombinedInit, Init
<1>2. NoneIsLost
  BY <1>1 DEF NoneIsLost, PartnerPhasePCs, AfterPhasePCs
<1>3. SlotTruth
  <2>1. CASE StartVersion = 0
    BY <2>1 DEF CombinedInit, Init, SlotTruth, NoMeta
  <2>2. CASE StartVersion # 0
    <3>1. PICK S : /\ faults = IF S = {} THEN 0 ELSE 1
                   /\ meta = [r \in Rank |-> [s \in Slots |-> IF s = slot(StartVersion)
                                              THEN AfterCheckpoint(r, StartVersion, S).meta ELSE NoMeta]]
                   /\ file = [r \in Rank |-> [s \in Slots |-> IF s = slot(StartVersion)
                                              THEN AfterCheckpoint(r, StartVersion, S).file ELSE NoFile]]
      BY <2>2 DEF CombinedInit
    <3> QED BY <3>1 DEF SlotTruth, AfterCheckpoint, NoMeta
  <2> QED BY <2>1, <2>2
<1> QED BY <1>2, <1>3, JobStartTyped DEF ParityInv

\* When an XOR group finds one of its ranks without data, the broadcast decision
\* lostpgroup has made every other rank load its parity: whichever disks were
\* lost in whichever runs, and wherever earlier runs and recoveries were killed.
THEOREM LostGroupsHaveParity == CombinedSpec => []XorHasParity
<1>1. ParityInv /\ [CombinedNext]_vars => ParityInv'
  <2> SUFFICES ASSUME ParityInv, [CombinedNext]_vars
               PROVE  ParityInv'
    OBVIOUS
  <2>1. JobTyped' /\ SlotTruth'
    BY JobTypedStep, SlotTruthStep DEF ParityInv
  <2>2. NoneIsLost'
    BY HelpInRecovery, HelpElsewhere
  <2> QED BY <2>1, <2>2 DEF ParityInv
<1>2. ParityInv => XorHasParity
  <2>1. \A x \in PRank : \A r \in xcomm(x) : r \in Rank
    BY GridFacts
  <2> QED BY <2>1 DEF ParityInv, NoneIsLost, XorHasParity, AllAt, AfterPhasePCs
<1> QED BY <1>1, <1>2, ParityStart, PTL DEF CombinedSpec

-----------------------------------------------------------------------------
(* What a restart is presented.                                            *)

\* A rank presents what it holds, unless torn metadata makes it forget.
LEMMA HeldIsPresented ==
    ASSUME NEW r \in Rank, NEW v \in Nat, Holds(r, v), ~Forgets(r)
    PROVE  v \in local_versions(r) /\ v \in local_fullversions(r)
<1>1. /\ slot(v) \in Slots
      /\ meta[r][slot(v)].is = "valid" /\ meta[r][slot(v)].version = v /\ meta[r][slot(v)].state = FULLDATA
  BY SlotType DEF Holds
<1> QED BY <1>1 DEF local_versions, local_fullversions, Presented

\* One full member in all partner groups but one is enough.
LEMMA RowsRecover ==
    ASSUME NEW L, NEW v, NEW P,
           \A p \in PIDs \ {P} : \E r \in pcomm(p) : r \notin L /\ v \in local_fullversions(r)
    PROVE  repairphase(v, L) > 0
<1> DEFINE st == ccommstates(v, L)
<1>1. st \in [Rank -> States]
  BY DEF ccommstates, version_state_in_presented_versions, States
<1>2. ASSUME NEW a \in Rank, AfterPartner(st)[a] = NODATA
      PROVE  a[1] = P
  <2>1. SUFFICES ASSUME a[1] # P
                 PROVE  FALSE
    OBVIOUS
  <2>2. PICK r \in pcomm(a[1]) : r \notin L /\ v \in local_fullversions(r)
    BY <2>1, GridFacts
  <2>3. st[r] = FULLDATA
    BY <2>2, GridFacts DEF ccommstates, version_state_in_presented_versions
  <2> HIDE DEF st
  <2> QED BY <1>1, <1>2, <2>2, <2>3, AfterPartnerNoData
<1>3. \A a, b \in Rank : a[1] = b[1] /\ a[2] = b[2] => a = b
  BY GridFacts
<1> HIDE DEF st
<1>4. theoretical_repair(st) > 0
  BY <1>1, <1>2, <1>3, RepairUnfolded
<1> QED BY <1>4 DEF repairphase, st

\* While the keys are distinct no presented version vanishes from the hash set.
LEMMA HashSetHolds ==
    ASSUME HashKeysDistinct, faults = 0, NEW L, NEW H \in HashSets(ccomm_versions(L)), NEW v \in ccomm_versions(L)
    PROVE  v \in H
<1>1. \A u \in ccomm_versions(L) : \E r \in Rank : \E t \in Slots :
         meta[r][t].is = "valid" /\ meta[r][t].version = u
  BY DEF ccomm_versions, local_versions, Presented
<1>2. PICK w \in H : hashkey(w) = hashkey(v)
  BY DEF HashSets
<1>3. w \in ccomm_versions(L)
  BY DEF HashSets
<1>4. w = v
  BY <1>1, <1>2, <1>3 DEF HashKeysDistinct
<1> QED BY <1>4

-----------------------------------------------------------------------------
(* How far the ranks are.                                                  *)

LEMMA ReturnedType ==
    ASSUME TypeOK, NEW r \in Rank
    PROVE  /\ version[r] \in Nat /\ Returned(r) \in Int /\ Transferred(r) \in Int
           /\ Returned(r) <= version[r] /\ version[r] <= Returned(r) + 1
           /\ At(r, "app") <=> Returned(r) = version[r]
BY DEF TypeOK, Returned, Transferred

LEMMA SomeRank == \E r \in Rank : TRUE
<1>1. PIDs # {}
  BY GridAssumption, FS_EmptySet
<1> QED BY <1>1, GridFacts

LEMMA CompleteIsLeast ==
    ASSUME TypeOK
    PROVE  /\ Complete \in Int
           /\ \E r \in Rank : Complete = Returned(r)
           /\ \A r \in Rank : Complete <= Returned(r)
<1> DEFINE T == {Returned(r) + 1 : r \in Rank}
<1>1. T \in SUBSET Nat
  BY ReturnedType
<1>2. T # {}
  BY SomeRank
<1>3. PICK m \in T : \A n \in T : m <= n
  <2> HIDE DEF T
  <2> QED BY <1>1, <1>2, LeastOf
<1>4. PICK q \in Rank : m = Returned(q) + 1
  BY <1>3
<1>5. \A r \in Rank : Returned(q) <= Returned(r)
  <2>1. \A r \in Rank : m <= Returned(r) + 1
    BY <1>3
  <2> QED BY <1>4, <2>1, ReturnedType
<1>6. \E v \in {Returned(r) : r \in Rank} : \A r \in Rank : v <= Returned(r)
  BY <1>5
<1>7. /\ Complete \in {Returned(r) : r \in Rank}
      /\ \A r \in Rank : Complete <= Returned(r)
  BY <1>6 DEF Complete
<1> QED BY <1>7, ReturnedType

LEMMA WorkedOnIsGreatest ==
    ASSUME JobTyped
    PROVE  /\ WorkedOn \in Nat
           /\ \E r \in Rank : WorkedOn = version[r]
           /\ \A r \in Rank : version[r] <= WorkedOn
<1> DEFINE T == {version[r] : r \in Rank}
<1>1. T \in SUBSET Nat /\ T # {} /\ \A n \in T : n <= MaxVersion
  BY SomeRank DEF JobTyped, VersionsBounded, TypeOK
<1>2. \E m \in T : \A n \in T : n <= m
  <2> HIDE DEF T
  <2> QED BY <1>1, GreatestOf, CommunityAssumption
<1>3. /\ WorkedOn \in T
      /\ \A r \in Rank : version[r] <= WorkedOn
  BY <1>2 DEF WorkedOn
<1> QED BY <1>1, <1>3

-----------------------------------------------------------------------------
(* Losses that are tolerated.                                              *)

\* The invariants of COMB_Checkpoint that the argument rests on.
CallsInv == JobTyped /\ PaceInv /\ FilesInv /\ KeptInv /\ RecentInv /\ HashKeysDistinct /\ DriftBounded

LEMMA CallsInvariant == CheckpointSpec => []CallsInv
<1>1. Init => JobTyped
  <2> SUFFICES ASSUME Init
               PROVE  JobTyped
    OBVIOUS
  <2>1. TypeOK
    BY InitTyped
  <2> QED BY <2>1, CommunityAssumption DEF JobTyped, VersionsBounded, Init, NoMeta
<1>2. JobTyped /\ [CheckpointNext]_vars => JobTyped'
  <2> SUFFICES ASSUME JobTyped, [CheckpointNext]_vars
               PROVE  JobTyped'
    OBVIOUS
  <2>1. CASE UNCHANGED vars
    BY <2>1 DEF JobTyped, TypeOK, VersionsBounded, vars
  <2>2. CASE CheckpointStep \/ MetaStep
    BY <2>2, CheckpointTyped
  <2> QED BY <2>1, <2>2 DEF CheckpointNext, CheckpointsMade
<1>3. CheckpointSpec => []JobTyped
  BY <1>1, <1>2, PTL DEF CheckpointSpec
<1> QED BY <1>3, PaceInvariant, FilesInvariant, KeptInvariant, RecentInvariant, HashHoldsAll, DriftIsBounded, PTL
        DEF CallsInv

\* A version that all partner groups but P hold is chosen, or a newer one.
LEMMA CoveredIsChosen ==
    ASSUME CallsInv, faults = 0, NEW L, NEW H \in HashSets(ccomm_versions(L)), NEW P, NEW v \in Nat,
           \A p \in PIDs \ {P} : \E r \in pcomm(p) : r \notin L /\ ~Forgets(r) /\ Holds(r, v)
    PROVE  v \in H /\ repairphase(v, L) > 0 /\ v <= NewestRecoverable(H, L)
<1>1. \A p \in PIDs \ {P} : \E r \in pcomm(p) :
         r \in Rank /\ r \notin L /\ v \in local_versions(r) /\ v \in local_fullversions(r)
  BY HeldIsPresented, GridFacts
<1>2. \E p \in PIDs : p # P
  <2>1. SUFFICES ASSUME PIDs \subseteq {P}
                 PROVE  FALSE
    OBVIOUS
  <2>2. Cardinality(PIDs) <= 1
    <3>1. IsFiniteSet({P}) /\ Cardinality({P}) = 1
      BY FS_Singleton
    <3> QED BY <2>1, <3>1, FS_Subset
  <2> QED BY <2>2, GridAssumption, FS_CardinalityType
<1>3. v \in ccomm_versions(L)
  BY <1>1, <1>2 DEF ccomm_versions
<1>4. v \in H
  BY <1>3, HashSetHolds DEF CallsInv
<1>5. repairphase(v, L) > 0
  BY <1>1, RowsRecover
<1> QED BY <1>4, <1>5, NewestIsGreatest DEF CallsInv, JobTyped

\* The ranks outside the partner group and the XOR group that are hit hold the
\* last complete checkpoint, or a whole XOR group of them holds its successor.
LEMMA LossCovered ==
    ASSUME CpCount >= 2, CallsInv, faults = 0, NEW L \in SUBSET Rank, NEW P \in PIDs, NEW X \in PRank,
           L \cup TornRanks \subseteq pcomm(P) \cup xcomm(X), Complete >= 1
    PROVE  \E v \in Nat : /\ v >= Complete
                          /\ \A p \in PIDs \ {P} : \E r \in pcomm(p) : r \notin L /\ ~Forgets(r) /\ Holds(r, v)
<1> DEFINE Safe == {r \in Rank : r[1] # P /\ r[2] # X}
<1>t. /\ \A r \in Rank : version[r] \in Nat
      /\ CpCount \in Nat /\ Complete \in Int /\ TypeOK
  BY CommunityAssumption, CompleteIsLeast DEF CallsInv, JobTyped, TypeOK
<1>1. \A r \in Safe : r \in Rank /\ r \notin L /\ ~Forgets(r)
  BY GridFacts DEF TornRanks
<1>2. \A r \in Rank : version[r] <= Complete + 2
  <2>1. PICK q \in Rank : Complete = Returned(q)
    BY <1>t, CompleteIsLeast
  <2>2. version[q] <= Complete + 1
    BY <1>t, <2>1, ReturnedType
  <2> QED BY <1>t, <2>2 DEF CallsInv, DriftBounded
<1>3. \A r \in Rank : /\ version[r] >= Complete
                      /\ version[r] = Complete => At(r, "app")
  BY <1>t, CompleteIsLeast, ReturnedType
<1>4. \E Y \in PRank : Y # X
  BY GridAssumption DEF PRank
<1>5. CASE \E u \in Safe : version[u] = Complete + 2
  <2>1. PICK u \in Safe : version[u] = Complete + 2
    BY <1>5
  <2>2. ASSUME NEW p \in PIDs \ {P}
        PROVE  \E r \in pcomm(p) : r \notin L /\ ~Forgets(r) /\ Holds(r, Complete + 1)
    <3> DEFINE r == <<p, u[2]>>
    <3>1. r \in Rank /\ r \in pcomm(p) /\ r[2] = u[2] /\ r \in Safe /\ u \in Rank
      BY GridFacts
    <3>2. version[r] = Complete + 2
      BY <2>1, <3>1, PaceFacts DEF CallsInv, JobTyped
    <3> HIDE DEF r
    <3>3. Complete + 1 \in Nat /\ Kept(r, Complete + 1)
      BY <1>t, <3>1, <3>2 DEF Kept
    <3>4. Holds(r, Complete + 1)
      BY <3>1, <3>3 DEF CallsInv, KeptInv
    <3> HIDE DEF Safe
    <3> QED BY <1>1, <3>1, <3>4
  <2>3. Complete + 1 \in Nat /\ Complete + 1 >= Complete
    BY <1>t
  <2> QED BY <2>2, <2>3
<1>6. CASE \A u \in Safe : version[u] # Complete + 2
  <2>1. PICK Y \in PRank : Y # X
    BY <1>4
  <2>2. ASSUME NEW p \in PIDs \ {P}
        PROVE  \E r \in pcomm(p) : r \notin L /\ ~Forgets(r) /\ Holds(r, Complete)
    <3> DEFINE r == <<p, Y>>
    <3>1. r \in Rank /\ r \in pcomm(p) /\ r \in Safe
      BY <2>1, GridFacts
    <3> HIDE DEF r, Safe
    <3>2. version[r] \in Complete .. Complete + 1 /\ (version[r] = Complete => At(r, "app"))
      BY <1>t, <1>2, <1>3, <1>6, <3>1
    <3>3. Complete \in Nat /\ Kept(r, Complete)
      BY <1>t, <3>1, <3>2 DEF Kept, At
    <3>4. Holds(r, Complete)
      BY <3>1, <3>3 DEF CallsInv, KeptInv
    <3> QED BY <1>1, <3>1, <3>4
  <2>3. Complete \in Nat /\ Complete >= Complete
    BY <1>t
  <2> QED BY <2>2, <2>3
<1> QED BY <1>5, <1>6

\* Killed anywhere in its calls, a community that keeps two checkpoints loses
\* nothing it has completed when the lost and the torn ranks are members of one
\* partner group and of one XOR group: in every grid.
THEOREM LossIsTolerated == CpCount >= 2 => (CheckpointSpec => []LossTolerated)
<1> SUFFICES ASSUME CpCount >= 2
             PROVE  CheckpointSpec => []LossTolerated
  OBVIOUS
<1>1. CallsInv => LossTolerated
  <2> SUFFICES ASSUME CallsInv, faults = 0, NEW L \in SUBSET Rank, Tolerable(L \cup TornRanks), NEW V \in Outcomes(L)
               PROVE  V >= Complete
    BY DEF LossTolerated
  <2>1. PICK H \in HashSets(ccomm_versions(L)) : V = NewestRecoverable(H, L)
    BY DEF Outcomes
  <2>2. V \in Nat
    BY <2>1, NewestIsGreatest, CommunityAssumption DEF CallsInv, JobTyped
  <2>3. Complete \in Int
    BY CompleteIsLeast DEF CallsInv, JobTyped
  <2>4. CASE Complete < 1
    BY <2>2, <2>3, <2>4
  <2>5. CASE Complete >= 1
    <3>1. PICK P \in PIDs, X \in PRank : L \cup TornRanks \subseteq pcomm(P) \cup xcomm(X)
      BY DEF Tolerable
    <3>2. PICK v \in Nat : /\ v >= Complete
                           /\ \A p \in PIDs \ {P} : \E r \in pcomm(p) : r \notin L /\ ~Forgets(r) /\ Holds(r, v)
      BY <2>5, <3>1, LossCovered
    <3>3. v <= V
      BY <2>1, <3>2, CoveredIsChosen
    <3> QED BY <2>2, <2>3, <3>2, <3>3
  <2> QED BY <2>3, <2>4, <2>5
<1> QED BY <1>1, CallsInvariant, PTL

-----------------------------------------------------------------------------
(* The versions a restart can choose from.                                 *)

\* A presented version is one of the last CpCount of its rank, or the one whose
\* file the rank is about to overwrite.
LEMMA PresentedWindow ==
    ASSUME CallsInv, faults = 0, NEW r \in Rank, NEW v \in local_versions(r)
    PROVE  /\ v \in Nat /\ v <= version[r] /\ v + CpCount >= version[r]
           /\ v + CpCount = version[r] => pc[r] = "open"
           /\ v = version[r] => Transferred(r) = version[r]
<1>1. PICK s \in Slots : meta[r][s].is = "valid" /\ meta[r][s].version = v
  BY DEF local_versions, Presented
<1>2. v \in Nat /\ version[r] \in Nat /\ TypeOK
  BY <1>1 DEF CallsInv, JobTyped, TypeOK, Metas
<1>3. /\ v <= version[r] /\ slot(v) = s
  BY <1>1 DEF CallsInv, FilesInv, Truthful
<1>4. /\ v + CpCount >= version[r]
      /\ v + CpCount = version[r] => pc[r] = "open"
      /\ pc[r] = "open" => v < version[r]
  BY <1>1 DEF CallsInv, RecentInv, Recent
<1>5. ASSUME v = version[r]
      PROVE  Transferred(r) = version[r]
  <2>1. Cur(r) = s
    BY <1>3, <1>5 DEF Cur
  <2>2. pc[r] # "transfer"
    BY <1>1, <2>1 DEF CallsInv, FilesInv, Work
  <2>3. pc[r] # "open"
    BY <1>2, <1>4, <1>5
  <2>4. pc[r] # "xor"
    BY <1>2, PaceFacts DEF CallsInv
  <2> QED BY <2>2, <2>3, <2>4 DEF Transferred
<1> QED BY <1>2, <1>3, <1>4, <1>5

\* Nobody is ahead of a rank that has not transferred.
LEMMA AheadOfOpen ==
    ASSUME CallsInv, faults = 0, NEW r \in Rank, pc[r] = "open", NEW u \in Rank
    PROVE  version[u] <= version[r]
<1> DEFINE q == <<r[1], u[2]>>
<1>1. q \in Rank /\ q[1] = r[1] /\ q[2] = u[2]
  BY GridFacts
<1> HIDE DEF q
<1>2. version[q] = version[u] /\ Transferred(q) = Transferred(r)
  BY <1>1, PaceFacts DEF CallsInv, JobTyped
<1>3. /\ version[r] \in Nat /\ version[q] \in Nat /\ Transferred(r) = version[r] - 1
      /\ Transferred(q) \in {version[q], version[q] - 1}
  BY <1>1 DEF CallsInv, JobTyped, TypeOK, Transferred
<1> QED BY <1>2, <1>3

\* Killed anywhere, with the torn ranks in one partner group and one XOR group, a
\* community can recover every version that all ranks have returned from and no
\* call overwrites, and none outside the kept ones: what the agreement of several
\* communities relies on.
THEOREM WindowIsRecoverable == CheckpointSpec => []WindowRecoverable
<1>1. CallsInv => WindowRecoverable
  <2> SUFFICES ASSUME CallsInv, faults = 0, Tolerable(TornRanks), NEW H \in HashSets(ccomm_versions({}))
               PROVE  LET recoverables == {v \in H : repairphase(v, {}) > 0}
                      IN  /\ \A v \in 1 .. Complete : v > WorkedOn - CpCount => v \in recoverables
                          /\ \A v \in recoverables : v <= WorkedOn /\ v > Complete - CpCount /\ v >= WorkedOn - CpCount
    BY DEF WindowRecoverable
  <2>t. /\ JobTyped /\ TypeOK /\ \A r \in Rank : version[r] \in Nat
        /\ CpCount \in Nat \ {0} /\ Complete \in Int /\ WorkedOn \in Nat
    BY CommunityAssumption, CompleteIsLeast, WorkedOnIsGreatest DEF CallsInv, JobTyped, TypeOK
  <2>1. PICK P \in PIDs, X \in PRank : TornRanks \subseteq pcomm(P) \cup xcomm(X)
    BY DEF Tolerable
  <2>2. PICK Y \in PRank : Y # X
    BY GridAssumption DEF PRank
  <2>3. ASSUME NEW v \in 1 .. Complete, v > WorkedOn - CpCount
        PROVE  v \in H /\ repairphase(v, {}) > 0
    <3>1. ASSUME NEW p \in PIDs \ {P}
          PROVE  \E r \in pcomm(p) : r \notin {} /\ ~Forgets(r) /\ Holds(r, v)
      <4> DEFINE r == <<p, Y>>
      <4>1. r \in Rank /\ r \in pcomm(p) /\ r[1] # P /\ r[2] # X
        BY <2>2, GridFacts
      <4> HIDE DEF r
      <4>2. ~Forgets(r)
        BY <2>1, <4>1, GridFacts DEF TornRanks
      <4>3. v \in Nat /\ Kept(r, v)
        BY <2>t, <2>3, <4>1, CompleteIsLeast, WorkedOnIsGreatest, ReturnedType DEF Kept, At
      <4>4. Holds(r, v)
        BY <4>1, <4>3 DEF CallsInv, KeptInv
      <4> QED BY <4>1, <4>2, <4>4
    <3>2. v \in Nat
      BY <2>t
    <3> QED BY <3>1, <3>2, CoveredIsChosen
  <2>4. ASSUME NEW v \in H
        PROVE  v <= WorkedOn /\ v > Complete - CpCount /\ v >= WorkedOn - CpCount
    <3>1. PICK r \in Rank : v \in local_versions(r)
      BY DEF HashSets, ccomm_versions
    <3>2. /\ v \in Nat /\ v <= version[r] /\ v + CpCount >= version[r]
          /\ v + CpCount = version[r] => pc[r] = "open"
      BY <3>1, PresentedWindow
    <3>3. version[r] <= WorkedOn
      BY <2>t, WorkedOnIsGreatest
    <3>4. v > Complete - CpCount
      <4>1. Complete <= Returned(r) /\ Returned(r) \in Int /\ Returned(r) <= version[r]
            /\ (pc[r] = "open" => Returned(r) = version[r] - 1)
        BY <2>t, CompleteIsLeast, ReturnedType DEF Returned, At
      <4> QED BY <2>t, <3>2, <4>1
    <3>5. v >= WorkedOn - CpCount
      <4>1. PICK u \in Rank : WorkedOn = version[u]
        BY <2>t, WorkedOnIsGreatest
      <4>2. version[u] - version[r] <= 1
        BY <2>t DEF CallsInv, DriftBounded
      <4>3. pc[r] = "open" => version[u] <= version[r]
        BY AheadOfOpen
      <4> QED BY <2>t, <3>2, <4>1, <4>2, <4>3
    <3> QED BY <2>t, <3>2, <3>3, <3>4, <3>5
  <2> QED BY <2>3, <2>4
<1> QED BY <1>1, CallsInvariant, PTL

\* A recoverable version is presented in all partner groups but one.
LEMMA RowsPresent ==
    ASSUME NEW v, repairphase(v, {}) > 0
    PROVE  \E P \in PIDs : \A p \in PIDs \ {P} : \E r \in pcomm(p) : v \in local_versions(r)
<1> DEFINE st == ccommstates(v, {})
           Without(p) == \A r \in pcomm(p) : v \notin local_versions(r)
<1>1. st \in [Rank -> States]
  BY DEF ccommstates, version_state_in_presented_versions, States
<1>2. ASSUME NEW p \in PIDs, Without(p)
      PROVE  AfterPartner(st)[<<p, 0>>] = NODATA
  <2>1. \A r \in pcomm(p) : v \notin local_fullversions(r)
    BY <1>2 DEF local_versions, local_fullversions, Presented
  <2>2. \A r \in pcomm(p) : st[r] = NODATA
    BY <1>2, <2>1, GridFacts DEF ccommstates, version_state_in_presented_versions
  <2>3. <<p, 0>> \in Rank /\ <<p, 0>> \in pcomm(p) /\ <<p, 0>>[1] = p
    BY GridFacts
  <2> HIDE DEF st
  <2> QED BY <1>1, <2>2, <2>3, AfterPartnerNoData DEF NODATA, FULLDATA
<1>3. ASSUME NEW a \in PIDs, NEW b \in PIDs, Without(a), Without(b)
      PROVE  a = b
  <2>1. <<a, 0>> \in Rank /\ <<b, 0>> \in Rank
    BY GridFacts
  <2>2. theoretical_repair(st) > 0
    BY DEF repairphase
  <2>3. AfterPartner(st)[<<a, 0>>] = NODATA /\ AfterPartner(st)[<<b, 0>>] = NODATA
    BY <1>2, <1>3
  <2> HIDE DEF st
  <2>4. <<a, 0>> = <<b, 0>>
    BY <1>1, <2>1, <2>2, <2>3, RepairUnfolded
  <2> QED BY <2>4
<1>4. PIDs # {}
  BY GridAssumption, FS_EmptySet
<1> QED BY <1>3, <1>4

\* There are three partner groups.
LEMMA ThirdRow ==
    ASSUME NEW P, NEW Q
    PROVE  \E p \in PIDs : p # P /\ p # Q
<1>1. SUFFICES ASSUME PIDs \subseteq {P, Q}
               PROVE  FALSE
  OBVIOUS
<1>2. IsFiniteSet({P}) /\ Cardinality({P}) = 1
  BY FS_Singleton
<1>3. IsFiniteSet({P} \cup {Q}) /\ Cardinality({P} \cup {Q}) <= 2
  BY <1>2, FS_AddElement
<1>4. Cardinality(PIDs) <= Cardinality({P} \cup {Q})
  BY <1>1, <1>3, FS_Subset
<1>5. /\ Cardinality(PIDs) \in Nat /\ Cardinality({P} \cup {Q}) \in Nat
      /\ Cardinality(PIDs) >= 3
  BY <1>3, GridAssumption, FS_CardinalityType
<1> QED BY <1>3, <1>4, <1>5

\* The newest version and the one whose file it has taken are not recoverable
\* together: one partner group would present both.
LEMMA NotBothEnds ==
    ASSUME CallsInv, faults = 0, repairphase(WorkedOn, {}) > 0, repairphase(WorkedOn - CpCount, {}) > 0
    PROVE  FALSE
<1> DEFINE w == WorkedOn
           v == WorkedOn - CpCount
<1>t. /\ JobTyped /\ TypeOK /\ \A r \in Rank : version[r] \in Nat
      /\ CpCount \in Nat \ {0} /\ WorkedOn \in Nat
  BY CommunityAssumption, WorkedOnIsGreatest DEF CallsInv, JobTyped, TypeOK
<1>1. PICK P \in PIDs : \A p \in PIDs \ {P} : \E r \in pcomm(p) : w \in local_versions(r)
  BY RowsPresent
<1>2. PICK Q \in PIDs : \A p \in PIDs \ {Q} : \E r \in pcomm(p) : v \in local_versions(r)
  BY RowsPresent
<1>3. PICK p \in PIDs : p # P /\ p # Q
  BY ThirdRow
<1>4. PICK r \in pcomm(p) : w \in local_versions(r)
  BY <1>1, <1>3
<1>5. PICK s \in pcomm(p) : v \in local_versions(s)
  BY <1>2, <1>3
<1>6. r \in Rank /\ s \in Rank /\ r[1] = s[1]
  BY GridFacts
<1>7. version[r] = w /\ Transferred(r) = w
  <2>1. version[r] <= w /\ w <= version[r]
    BY <1>t, <1>4, <1>6, PresentedWindow, WorkedOnIsGreatest
  <2>2. version[r] = w
    BY <1>t, <1>6, <2>1
  <2> QED BY <1>4, <1>6, <2>2, PresentedWindow
<1>8. /\ v + CpCount >= version[s]
      /\ v + CpCount = version[s] => pc[s] = "open"
  BY <1>5, <1>6, PresentedWindow
<1>9. Transferred(r) <= Transferred(s)
  <2>1. Transferred(r) = Transferred(s) /\ Transferred(s) \in Int
    BY <1>t, <1>6, ReturnedType, PaceFacts DEF CallsInv
  <2> QED BY <2>1
<1>10. Transferred(s) <= version[s] /\ (pc[s] = "open" => Transferred(s) = version[s] - 1)
  BY <1>t, <1>6 DEF Transferred
<1>11. Transferred(s) \in Int /\ version[s] \in Nat
  BY <1>t, <1>6, ReturnedType
<1> QED BY <1>t, <1>7, <1>8, <1>9, <1>10, <1>11

\* The root of the community collects the recoverable versions in an array of
\* cpcount entries, from a hash set of cpcount + 1: they always fit, for every
\* grid and every number of kept checkpoints, while no call has failed.
THEOREM RecoverablesAlwaysFit == MaxFaults = 0 => (CheckpointSpec => []RecoverablesFit)
<1> SUFFICES ASSUME MaxFaults = 0
             PROVE  CheckpointSpec => []RecoverablesFit
  OBVIOUS
<1>1. CallsInv /\ faults = 0 => RecoverablesFit
  <2> SUFFICES ASSUME CallsInv, faults = 0, NEW H \in HashSets(ccomm_versions({}))
               PROVE  Cardinality({v \in H : repairphase(v, {}) > 0}) <= CpCount
    BY DEF RecoverablesFit
  <2> DEFINE R == {v \in H : repairphase(v, {}) > 0}
  <2>t. JobTyped /\ CpCount \in Nat \ {0} /\ WorkedOn \in Nat /\ \A r \in Rank : version[r] \in Nat
    BY CommunityAssumption, WorkedOnIsGreatest DEF CallsInv, JobTyped, TypeOK
  <2>1. ASSUME NEW v \in R
        PROVE  v \in Nat /\ WorkedOn - CpCount <= v /\ v <= WorkedOn
    <3>1. PICK r \in Rank : v \in local_versions(r)
      BY DEF HashSets, ccomm_versions
    <3>2. /\ v \in Nat /\ v <= version[r] /\ v + CpCount >= version[r]
          /\ v + CpCount = version[r] => pc[r] = "open"
      BY <3>1, PresentedWindow
    <3>3. PICK u \in Rank : WorkedOn = version[u]
      BY <2>t, WorkedOnIsGreatest
    <3>4. version[u] - version[r] <= 1 /\ (pc[r] = "open" => version[u] <= version[r])
      BY AheadOfOpen DEF CallsInv, DriftBounded
    <3>5. version[r] <= WorkedOn
      BY <2>t, WorkedOnIsGreatest
    <3> HIDE DEF R
    <3> QED BY <2>t, <3>2, <3>3, <3>4, <3>5
  <2>2. WorkedOn \notin R \/ WorkedOn - CpCount \notin R
    BY NotBothEnds
  <2>3. \E a \in Int : R \subseteq a .. a + CpCount - 1
    <3>1. CASE WorkedOn \notin R
      <4> HIDE DEF R
      <4>1. R \subseteq WorkedOn - CpCount .. WorkedOn - CpCount + CpCount - 1
        BY <2>t, <2>1, <3>1
      <4>2. WorkedOn - CpCount \in Int
        BY <2>t
      <4> QED BY <4>1, <4>2
    <3>2. CASE WorkedOn - CpCount \notin R
      <4> HIDE DEF R
      <4>1. R \subseteq WorkedOn - CpCount + 1 .. WorkedOn - CpCount + 1 + CpCount - 1
        BY <2>t, <2>1, <3>2
      <4>2. WorkedOn - CpCount + 1 \in Int
        BY <2>t
      <4> QED BY <4>1, <4>2
    <3> QED BY <2>2, <3>1, <3>2
  <2> HIDE DEF R
  <2>4. PICK a \in Int : R \subseteq a .. a + CpCount - 1
    BY <2>3
  <2>5. a + CpCount - 1 \in Int /\ a <= a + CpCount - 1
    BY <2>t
  <2>6. IsFiniteSet(a .. a + CpCount - 1) /\ Cardinality(a .. a + CpCount - 1) = CpCount
    BY <2>t, <2>5, FS_Interval
  <2>7. Cardinality(R) <= CpCount
    BY <2>4, <2>6, FS_Subset
  <2> QED BY <2>7 DEF R
<1>2. Init => faults <= MaxFaults
  BY DEF Init
<1>3. TypeOK /\ faults <= MaxFaults /\ [CheckpointNext]_vars => (faults <= MaxFaults)'
  BY FaultsGrow DEF TypeOK
<1>4. TypeOK /\ faults <= MaxFaults => faults = 0
  BY DEF TypeOK
<1> QED BY <1>1, <1>2, <1>3, <1>4, TypeCorrect, CallsInvariant, PTL DEF CheckpointSpec
=============================================================================
