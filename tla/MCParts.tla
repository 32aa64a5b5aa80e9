------------------------------ MODULE MCParts ------------------------------
(***************************************************************************)
(* The parts of the library that share no state with the protocol models   *)
(* nor with each other, in one run: a behaviour moves one of them, and the *)
(* others stay in one of their initial states.                             *)
(***************************************************************************)
EXTENDS XorCode, FileLayout, Groups, Communities, Lifecycle

VARIABLE part \* the part that moves

PartNames == {"xor", "file", "groups", "communities", "life"}

MCShapes == {<<1>>, <<3, 1>>, <<2, 0, 3>>, <<5, 4>>, <<9, 8>>, <<1, 14, 2>>}

\* Jobs of c ranks with k consecutive ranks to a node; of 18 ranks dealt out to
\* 6 nodes; of 17 ranks on nodes of unequal size.
Blocks(k, c) == [r \in 0 .. c - 1 |-> r \div k]
Cyclic == [r \in 0 .. 17 |-> r % 6]
Uneven == [r \in 0 .. 16 |-> IF r < 4 THEN 0 ELSE 1 + (r - 4) \div 2]
MCPlacements == {Blocks(k, c) : k \in {1, 2, 3}, c \in 5 .. 21} \cup {Cyclic, Uneven}
MCGroupSizes == {<<2, 3>>, <<3, 3>>, <<2, 4>>}

XorIdle == xranks = 3 /\ datasize = 1 /\ lost = 0
FileIdle == pranks = 1 /\ shape = <<1>> /\ paritysize = 2
GroupsIdle == n = 2 /\ m = 3 /\ host = Uneven /\ ~consider_rpn
CommunitiesIdle == interval = 1

PartsInit ==
    /\ part \in PartNames
    /\ XorInit /\ (part = "xor" \/ XorIdle)
    /\ FileInit /\ (part = "file" \/ FileIdle)
    /\ GroupsInit /\ (part = "groups" \/ GroupsIdle)
    /\ CommunityInit /\ (part = "communities" \/ CommunitiesIdle)
    /\ LifeInit

PartsNext ==
    \/ part = "xor" /\ XorNext /\ UNCHANGED <<part, filevars, groupvars, communityvars, lifevars>>
    \/ part = "file" /\ FileNext /\ UNCHANGED <<part, xorvars, groupvars, communityvars, lifevars>>
    \/ part = "groups" /\ COMB_Init /\ UNCHANGED <<part, xorvars, filevars, communityvars, lifevars>>
    \/ part = "communities" /\ CommunityNext /\ UNCHANGED <<part, xorvars, filevars, groupvars, lifevars>>
    \/ part = "life" /\ LifeNext /\ UNCHANGED <<part, xorvars, filevars, groupvars, communityvars>>

PartsSpec == PartsInit /\ [][PartsNext]_<<part, xorvars, filevars, groupvars, communityvars, lifevars>>
=============================================================================
