-------------------------------- MODULE Grid --------------------------------
(***************************************************************************)
(* The process grid of one community (src/src/combined.c, COMB_Init).      *)
(* Rank crank of the community gets pid = crank / n and xid = crank % n:   *)
(* the n ranks of one pid form a partner group, the m ranks of one xid     *)
(* form an XOR group.  A rank is the pair <<pid, prank>>; prank (the       *)
(* position in the partner group) is the xid of its XOR group.             *)
(***************************************************************************)
EXTENDS Integers, FiniteSets

CONSTANTS
    PIDs,   \* the partner groups of the community: xor_group_size (m) of them
    PSize   \* partner_group_size (n): the ranks of one partner group

\* COMB_Init refuses a configuration with n < 2 or m < 3.
ASSUME GridAssumption ==
    /\ IsFiniteSet(PIDs) /\ Cardinality(PIDs) >= 3
    /\ PSize \in Nat /\ PSize >= 2

PRank == 0 .. PSize - 1

Rank == PIDs \X PRank

pcomm(p) == {p} \X PRank
xcomm(x) == PIDs \X {x}

\* What a rank knows of its part of one checkpoint version (globals.h).
NODATA   == 1
XORDATA  == 2
FULLDATA == 3
States   == {NODATA, XORDATA, FULLDATA}
=============================================================================
