---------------------------- MODULE Negotiation ----------------------------
(***************************************************************************)
(* load_local_metadata and global_negotiate_version for a job of one       *)
(* community (src/src/recovery_utils.c): which version a restart would     *)
(* choose from the disks as they are.  L is a set of ranks whose disks are *)
(* gone: the operators also say what a failure now would leave.            *)
(***************************************************************************)
EXTENDS Community

\* A short read makes the rank free every checkpoint it has read so far and
\* stop: it presents nothing.
Forgets(r) == \E s \in Slots : meta[r][s].is = "torn"
Presented(r, states) ==
    IF Forgets(r) THEN {}
    ELSE {meta[r][s].version : s \in {t \in Slots : meta[r][t].is = "valid" /\ meta[r][t].state \in states}}

local_versions(r) == Presented(r, {XORDATA, FULLDATA})
local_fullversions(r) == Presented(r, {FULLDATA})
ccomm_versions(L) == UNION {local_versions(r) : r \in Rank \ L}

\* Mutant: as many entries as checkpoints are kept.
hashkeyTight(v) == v % CpCount

\* make_hashset: one version per key v % (cpcount + 1); of two versions with
\* one key the later in rank and directory order stays.
hashkey(v) == v % (CpCount + 1)
HashSets(vs) ==
    {H \in SUBSET vs : \A v \in vs : \E w \in H : hashkey(w) = hashkey(v)
                                     /\ \A u \in H : hashkey(u) = hashkey(w) => u = w}

ccommstates(v, L) ==
    [r \in Rank |-> IF r \in L THEN NODATA
                    ELSE version_state_in_presented_versions(v, local_versions(r), local_fullversions(r))]

repairphase(v, L) == theoretical_repair(ccommstates(v, L))

\* Mutant: the smallest recoverable version.
OldestRecoverable(H, L) ==
    LET recoverables == {v \in H : repairphase(v, L) > 0}
    IN  IF recoverables = {} THEN 0 ELSE CHOOSE v \in recoverables : \A w \in recoverables : v <= w

\* The largest recoverable version of the hash set, 0 if there is none.
NewestRecoverable(H, L) ==
    LET recoverables == {v \in H : repairphase(v, L) > 0}
    IN  CHOOSE v \in recoverables \cup {0} : \A w \in recoverables : w <= v

\* Mutant: off by one phase.
NeedsParityOff(H, L) == \E v \in H : repairphase(v, L) > 3

\* lostpgroup: some recoverable version, not only the one chosen, needs XOR.
NeedsParity(H, L) == \E v \in H : repairphase(v, L) > 1

\* The versions a restart may choose after the loss of L.
Outcomes(L) == {NewestRecoverable(H, L) : H \in HashSets(ccomm_versions(L))}

-----------------------------------------------------------------------------
\* The root of the community collects the recoverable versions of a hash set of
\* cpcount + 1 entries in an array of cpcount entries: they always fit, as two
\* versions that share a slot would each need all but one of the partner groups.
RecoverablesFit ==
    \A H \in HashSets(ccomm_versions({})) :
        Cardinality({v \in H : repairphase(v, {}) > 0}) <= CpCount

\* make_hashset may let one of two versions with one key vanish.  It never has
\* to, before a call fails: the versions valid metadata presents, on all disks at
\* whatever step the ranks are, have distinct keys.
HashKeysDistinct ==
    faults = 0 =>
        \A r, s \in Rank : \A t, u \in Slots :
            meta[r][t].is = "valid" /\ meta[s][u].is = "valid" /\ hashkey(meta[r][t].version) = hashkey(meta[s][u].version)
                => meta[r][t].version = meta[s][u].version
=============================================================================
