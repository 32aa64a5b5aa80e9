------------------------------- MODULE Groups -------------------------------
(***************************************************************************)
(* How COMB_Init (src/src/combined.c) divides the ranks of a job into      *)
(* communities, and a community into partner groups and XOR groups.        *)
(***************************************************************************)
EXTENDS Integers, FiniteSets

CONSTANTS
    GroupSizes,  \* pairs <<n, m>> of the configuration to explore
    Placements   \* the jobs to explore: rank -> its host, as functions on 0 .. ranks - 1

\* COMB_Init refuses smaller groups; a job has ranks 0, 1, 2, ...
ASSUME GroupsAssumption ==
    /\ \A g \in GroupSizes : g \in Nat \X Nat /\ g[1] >= 2 /\ g[2] >= 3
    /\ \A h \in Placements : /\ IsFiniteSet(DOMAIN h) /\ DOMAIN h # {}
                             /\ DOMAIN h = 0 .. Cardinality(DOMAIN h) - 1

VARIABLES
    n, m,          \* partner_group_size, xor_group_size
    host,          \* gethostname of every rank
    consider_rpn,  \* consider_ranks_per_node
    communityid, communitykey    \* rank -> its colour and key, once COMB_Init has run

groupvars == <<n, m, host, consider_rpn, communityid, communitykey>>

JobRank == DOMAIN host
ranks == Cardinality(JobRank)

\* Each rank compares its host with the preceding rank's, the first with the last's.
nhosts == Cardinality({r \in JobRank : host[r] # host[(r + ranks - 1) % ranks]})
nodesize == ranks \div nhosts

\* Mutant: communities of neighbours also where nodes are to be considered.
DivideByRank == communityid' = [r \in JobRank |-> r \div (m * n)] /\ communitykey' = [r \in JobRank |-> r % (m * n)]

\* At most one rank of a node to a community, if consider_ranks_per_node is set;
\* else neighbouring ranks.
Divide ==
    IF consider_rpn
    THEN /\ communityid' = [r \in JobRank |-> nodesize * (r \div (nodesize * m * n)) + (r % nodesize)]
         /\ communitykey' = [r \in JobRank |-> (r \div nodesize) % (m * n)]
    ELSE /\ communityid' = [r \in JobRank |-> r \div (m * n)]
         /\ communitykey' = [r \in JobRank |-> r % (m * n)]

GroupsInit ==
    /\ \E g \in GroupSizes : n = g[1] /\ m = g[2]
    /\ host \in Placements
    /\ consider_rpn \in BOOLEAN
    /\ communityid = <<>> /\ communitykey = <<>>

Unassigned == communityid = <<>>

COMB_Init ==
    /\ Unassigned
    /\ consider_rpn => nhosts >= 6
    /\ Divide
    /\ UNCHANGED <<n, m, host, consider_rpn>>

GroupsSpec == GroupsInit /\ [][COMB_Init]_groupvars

-----------------------------------------------------------------------------
(* MPI_Comm_split orders the members of a colour by key, then by rank.     *)

Before(r, s) == communitykey[r] < communitykey[s] \/ (communitykey[r] = communitykey[s] /\ r < s)
ccomm(r) == {s \in JobRank : communityid[s] = communityid[r]}
cranks(r) == Cardinality(ccomm(r))
crank(r) == Cardinality({s \in ccomm(r) : Before(s, r)})

\* Mutant: the two dimensions of the grid swapped.
pidSwapped(r) == crank(r) % n

pid(r) == crank(r) \div n
xid(r) == crank(r) % n

partners(r) == {s \in ccomm(r) : pid(s) = pid(r)}
xorgroup(r) == {s \in ccomm(r) : xid(s) = xid(r)}
pranksOf(r) == Cardinality(partners(r))
xranksOf(r) == Cardinality(xorgroup(r))
prankOf(r) == Cardinality({s \in partners(r) : xid(s) < xid(r)})
xrankOf(r) == Cardinality({s \in xorgroup(r) : pid(s) < pid(r)})

\* The root's walk over the states of its community in theoretical_repair stays
\* in the array and finds every rank where the strides of the group sizes put it.
WalkFits(r) ==
    /\ crank(r) = 0 => xranksOf(r) * pranksOf(r) = cranks(r)
    /\ crank(r) = xrankOf(r) * pranksOf(r) + prankOf(r)

\* compute_xstruct divides by xranks - 1.
ParityExists(r) == xranksOf(r) > 1

-----------------------------------------------------------------------------
(* Properties.                                                             *)

\* A full community is the grid all other modules work on: partner groups of n,
\* XOR groups of m, and the position in the one names the other.
FullGrid ==
    ~Unassigned => \A r \in JobRank : cranks(r) = m * n =>
        pranksOf(r) = n /\ xranksOf(r) = m /\ prankOf(r) = xid(r) /\ xrankOf(r) = pid(r)

\* The smaller last community "adjusts" only if its ranks are a multiple of the
\* partner group size and make two partner groups at least: otherwise there is
\* a rank without XOR partners, or the repair decision leaves its array.
ShortCommunities ==
    ~Unassigned => \A r \in JobRank :
        (\A s \in ccomm(r) : WalkFits(s) /\ ParityExists(s)) <=> (cranks(r) % n = 0 /\ cranks(r) >= 2 * n)

\* If the ranks are placed on nodes of one size in blocks, consider_ranks_per_node
\* keeps the ranks of a node in different communities, so that the loss of a node
\* is one loss to each community.
UniformBlocks == \E k \in 1 .. ranks : ranks % k = 0 /\ \A r, s \in JobRank : host[r] = host[s] <=> r \div k = s \div k
OneRankPerNode ==
    ~Unassigned /\ consider_rpn /\ UniformBlocks =>
        \A r, s \in JobRank : r # s /\ host[r] = host[s] => communityid[r] # communityid[s]
=============================================================================
