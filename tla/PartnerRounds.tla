---------------------------- MODULE PartnerRounds ----------------------------
(***************************************************************************)
(* The partner phase of one partner group of any size (COMB_Recover's loop *)
(* over imbalance_partners and assign_partner), from every combination of  *)
(* full and not full members.  Each member assigns its partner by itself   *)
(* from the gathered states; a pair is formed only if both agree, and a    *)
(* member whose partner does not answer waits for ever.                    *)
(***************************************************************************)
EXTENDS Repair, FiniteSetsExt

VARIABLE pstates   \* prank -> is the member FULLDATA

RoundsInit == pstates \in [PRank -> BOOLEAN]

\* Whom each member takes for its partner.
Assigned == [i \in PRank |-> assign_partner(pstates, i)]

\* One round: the waiting member of each pair receives the checkpoint.
PartnerRound ==
    /\ imbalance_partners(pstates)
    /\ LET partner == Assigned
       IN  /\ \A i \in PRank : partner[partner[i]] = i
           /\ pstates' = [i \in PRank |-> pstates[i] \/ pstates[partner[i]]]

RoundsOver == ~imbalance_partners(pstates) /\ UNCHANGED pstates

RoundsSpec == RoundsInit /\ [][PartnerRound \/ RoundsOver]_pstates /\ WF_pstates(PartnerRound)

Full(ps) == {i \in PRank : ps[i]}

\* Members never block each other: whoever has a partner is that one's partner,
\* and exactly one of the two is full.
PairsAgree ==
    LET partner == Assigned
    IN  \A i \in PRank : partner[i] # i => partner[partner[i]] = i /\ pstates[i] # pstates[partner[i]]

\* No full member idles while another waits: every round doubles the number of
\* full members, up to the whole group.
RoundDoubles ==
    [][Cardinality(Full(pstates')) = Min({PSize, 2 * Cardinality(Full(pstates))})]_pstates

\* The phase ends with the whole group full, or with nobody full at all.
RoundsEnd == <>[](Full(pstates) = {} \/ Full(pstates) = PRank)
=============================================================================
