-------------------------------- MODULE Pace --------------------------------
(***************************************************************************)
(* What the collectives of COMB_Checkpoint promise about progress, without *)
(* ranks, files or metadata: every XOR group counts the checkpoints it has *)
(* computed, every partner group those it has transferred.  No call spans  *)
(* the community; the counters keep each other in step.                    *)
(***************************************************************************)
EXTENDS Integers

CONSTANTS Xs, Ps, MaxCount

VARIABLES X, P

paceVars == <<X, P>>

PaceInit == X = [x \in Xs |-> 0] /\ P = [p \in Ps |-> 0]

\* An XOR group computes the next checkpoint once every partner group has
\* transferred its last one.
Compute(x) ==
    /\ X[x] < MaxCount
    /\ \A p \in Ps : P[p] = X[x]
    /\ X' = [X EXCEPT ![x] = @ + 1]
    /\ UNCHANGED P

\* A partner group transfers what every XOR group has computed.
Exchange(p) ==
    /\ \A x \in Xs : X[x] > P[p]
    /\ P' = [P EXCEPT ![p] = @ + 1]
    /\ UNCHANGED X

PaceNext == (\E x \in Xs : Compute(x)) \/ (\E p \in Ps : Exchange(p))

PaceSafety == PaceInit /\ [][PaceNext]_paceVars

PaceSpec == PaceSafety /\ WF_paceVars(PaceNext)
=============================================================================
