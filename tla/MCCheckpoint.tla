---------------------------- MODULE MCCheckpoint ----------------------------
(* Checkpoint for TLC; the partner groups are interchangeable.             *)
EXTENDS Checkpoint, TLC

PIDSymmetry == Permutations(PIDs)
=============================================================================
