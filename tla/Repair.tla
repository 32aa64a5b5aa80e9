------------------------------- MODULE Repair -------------------------------
(***************************************************************************)
(* The pure decisions of recovery (src/src/recovery_utils.c): whether a    *)
(* version is repairable from the states its ranks present, and which      *)
(* member of a partner group repairs which.                                *)
(***************************************************************************)
EXTENDS Grid

MoreThanOne(S) == \E a, b \in S : a # b

\* Mutant: the partner phase is left out of the decision.
NoPartnerPhase(st) == st

\* "In every partner group, if someone has FULLDATA, mark everyone as FULLDATA."
AfterPartner(st) ==
    [r \in Rank |-> IF \E q \in pcomm(r[1]) : st[q] = FULLDATA THEN FULLDATA ELSE st[r]]

\* Mutant: the failures are counted before the partner phase.
xgfailsBefore(st, x) == {r \in xcomm(x) : st[r] = NODATA}

xgfails(st, x) == {r \in xcomm(x) : AfterPartner(st)[r] = NODATA}

\* Mutant: a second failure in an XOR group does not end the search.
RepairWithoutLimit(st) == IF \E x \in PRank : xgfails(st, x) # {} THEN 3 ELSE 1

\* 0: not repairable; 1: the partner phase suffices; 3: XOR recovery is needed.
theoretical_repair(st) ==
    IF \E x \in PRank : MoreThanOne(xgfails(st, x)) THEN 0
    ELSE IF \E x \in PRank : xgfails(st, x) # {} THEN 3
    ELSE 1

\* What can be rebuilt at all: a set of ranks closed under "a partner is full"
\* and "all others of the XOR group are known".
Closed(st, K) ==
    \A r \in Rank :
        \/ st[r] # NODATA
        \/ \E q \in pcomm(r[1]) : st[q] = FULLDATA
        \/ xcomm(r[2]) \ {r} \subseteq K
        => r \in K
Rebuildable(st) == \A K \in SUBSET Rank : Closed(st, K) => K = Rank

version_state_in_presented_versions(v, rankversions, rankfullversions) ==
    IF v \in rankfullversions THEN FULLDATA
    ELSE IF v \in rankversions THEN XORDATA
    ELSE NODATA

\* A partner group with full and not full members has a repair round to do.
imbalance_partners(pstates) == \E i, j \in PRank : pstates[i] # pstates[j]

\* Mutant: everybody searches forward.
PartnerForward(pstates, i, d) == (i + d) % PSize

\* The member at distance d from i: forward if i is full, backward if it waits.
PartnerAt(pstates, i, d) == (IF pstates[i] THEN i + d ELSE i + PSize - d) % PSize

\* Mutants: the search starts behind i; only the next member is considered.
BalancedBehind(pstates, i, d) ==
    LET walk(b) == {k \in 1 .. d : pstates[PartnerAt(pstates, i, k)] = b}
    IN  Cardinality(walk(TRUE)) = Cardinality(walk(FALSE))
BalancedNext(pstates, i, d) == d = 1 /\ pstates[PartnerAt(pstates, i, 1)] # pstates[i]

\* As many full as waiting members from i up to distance d.
Balanced(pstates, i, d) ==
    LET walk(b) == {k \in 0 .. d : pstates[PartnerAt(pstates, i, k)] = b}
    IN  Cardinality(walk(TRUE)) = Cardinality(walk(FALSE))

\* The first member where the counts balance; i itself if none does.
assign_partner(pstates, i) ==
    LET stops == {d \in 1 .. PSize - 1 : Balanced(pstates, i, d)}
    IN  IF stops = {} THEN i
        ELSE PartnerAt(pstates, i, CHOOSE d \in stops : \A e \in stops : d <= e)
=============================================================================
