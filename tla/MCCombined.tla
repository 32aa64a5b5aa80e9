----------------------------- MODULE MCCombined -----------------------------
(* Combined for TLC; the partner groups are interchangeable.               *)
EXTENDS Combined, TLC

PIDSymmetry == Permutations(PIDs)
=============================================================================
