----------------------------- MODULE Communities -----------------------------
(***************************************************************************)
(* A job of several communities.  Nothing in the library synchronizes      *)
(* them: each makes its checkpoints at its own pace, held together only by *)
(* the application's own collective calls.  At a restart their roots agree *)
(* on a version (global_negotiate_version, src/src/recovery_utils.c, with  *)
(* intersect_list_op of mpi_utils.c).  What a single community can recover *)
(* is what Checkpoint!WindowRecoverable shows of it.                       *)
(***************************************************************************)
EXTENDS Integers, FiniteSets

CONSTANTS
    CommunityIds, \* communityid of the communities
    CpHistory,    \* cpcount
    MaxInterval,  \* bound: checkpoints between two collectives of the application
    MaxRounds     \* bound: collectives of the application

ASSUME CommunitiesAssumption ==
    /\ CpHistory \in Nat \ {0}
    /\ MaxInterval \in Nat \ {0} /\ MaxRounds \in Nat
    /\ IsFiniteSet(CommunityIds) /\ CommunityIds # {}

VARIABLES
    interval, \* checkpoints the application makes from one of its collectives to the next
    rounds,   \* collectives of the application so far
    low,      \* community -> checkpoints that all its ranks have returned from
    high,     \* community -> the newest checkpoint one of its ranks works on
    stage,    \* "running", "negotiating", "agreed"
    recoverable, \* community -> ccomm_recoverables of its root
    lists,    \* community -> its root's contribution to the Allreduce, partly reduced
    pending,  \* the roots whose lists are not merged into another's yet
    agreed    \* the version all roots compute from the result

communityvars == <<interval, rounds, low, high, stage, recoverable, lists, pending, agreed>>

\* A rank enters its next call of COMB_Checkpoint: it has passed all collectives
\* before it, and is at most one checkpoint ahead of the others (DriftBounded).
EnterCheckpoint(c) ==
    /\ stage = "running"
    /\ high[c] < (rounds + 1) * interval /\ high[c] <= low[c] + 1
    /\ high' = [high EXCEPT ![c] = @ + 1]
    /\ UNCHANGED <<interval, rounds, low, stage, recoverable, lists, pending, agreed>>

\* The last rank returns from a checkpoint.
LeaveCheckpoint(c) ==
    /\ stage = "running" /\ low[c] < high[c]
    /\ low' = [low EXCEPT ![c] = @ + 1]
    /\ UNCHANGED <<interval, rounds, high, stage, recoverable, lists, pending, agreed>>

\* All ranks of the job meet in a collective of the application.
ApplicationCollective ==
    /\ stage = "running" /\ rounds < MaxRounds
    /\ \A c \in CommunityIds : low[c] = (rounds + 1) * interval
    /\ rounds' = rounds + 1
    /\ UNCHANGED <<interval, low, high, stage, recoverable, lists, pending, agreed>>

\* The versions a community has for certain, those it may have, and what it
\* finds recoverable: at most cpcount versions.
Certain(c) == {v \in 1 .. low[c] : v > high[c] - CpHistory}
Possible(c) == {v \in 1 .. high[c] : v > low[c] - CpHistory /\ v >= high[c] - CpHistory}
Recoverables(c) == {R \in SUBSET Possible(c) : Certain(c) \subseteq R /\ Cardinality(R) <= CpHistory}

\* The job is killed and started again; the roots enter the Allreduce.
Restarted ==
    /\ stage = "running" /\ stage' = "negotiating"
    /\ recoverable' \in [CommunityIds -> UNION {Recoverables(c) : c \in CommunityIds}]
    /\ \A c \in CommunityIds : recoverable'[c] \in Recoverables(c)
    /\ lists' = recoverable'
    /\ pending' = CommunityIds
    /\ UNCHANGED <<interval, rounds, low, high, agreed>>

-----------------------------------------------------------------------------
(* The Allreduce: MPI merges the lists in an order of its own.             *)

\* Mutant: as many keys as versions are kept.
keyTight(v) == v % CpHistory

key(v) == v % (CpHistory + 1)

\* make_hashset: of two versions with one key either may stay.
Hashed(R) ==
    {H \in SUBSET R : \A v \in R : \E w \in H : key(w) = key(v) /\ \A u \in H : key(u) = key(w) => u = w}

\* intersect_list_op: the list of a is merged into that of b.
intersect_list_op(a, b) ==
    /\ stage = "negotiating" /\ a # b /\ a \in pending /\ b \in pending
    /\ \E H \in Hashed(lists[a]) : lists' = [lists EXCEPT ![b] = @ \cap H]
    /\ pending' = pending \ {a}
    /\ UNCHANGED <<interval, rounds, low, high, stage, recoverable, agreed>>

\* Mutant: the first entry counts, not the largest.
Oldest(S) == CHOOSE v \in S \cup {0} : S = {} \/ (v \in S /\ \A w \in S : v <= w)

Newest(S) == CHOOSE v \in S \cup {0} : \A w \in S : w <= v

Agree ==
    /\ stage = "negotiating" /\ stage' = "agreed"
    /\ \E c \in pending : pending = {c} /\ agreed' = Newest(lists[c])
    /\ UNCHANGED <<interval, rounds, low, high, recoverable, lists, pending>>

CommunityInit ==
    /\ interval \in 1 .. MaxInterval /\ rounds = 0
    /\ low = [c \in CommunityIds |-> 0] /\ high = [c \in CommunityIds |-> 0]
    /\ stage = "running"
    /\ recoverable = [c \in CommunityIds |-> {}] /\ lists = [c \in CommunityIds |-> {}]
    /\ pending = {} /\ agreed = 0

CommunityNext ==
    \/ \E c \in CommunityIds : EnterCheckpoint(c) \/ LeaveCheckpoint(c)
    \/ ApplicationCollective
    \/ Restarted
    \/ \E a, b \in CommunityIds : intersect_list_op(a, b)
    \/ Agree

CommunitySpec == CommunityInit /\ [][CommunityNext]_communityvars

-----------------------------------------------------------------------------
(* Properties.                                                             *)

\* In whatever order the lists are merged, and though the operation looks at
\* keys and not at versions, the job restarts from the newest version that every
\* community can recover, or from none if there is no such version.
Common == {v \in UNION {recoverable[c] : c \in CommunityIds} : \A c \in CommunityIds : v \in recoverable[c]}
NewestCommonAgreed == stage = "agreed" => agreed = Newest(Common)

\* The pace of the application decides whether there is one: if it makes fewer
\* checkpoints from one of its collectives to the next than the library keeps,
\* the newest checkpoint that the whole job has completed is never lost.
DriftTolerated ==
    stage = "agreed" /\ interval < CpHistory => \E c \in CommunityIds : agreed >= low[c]
=============================================================================
