--------------------------- MODULE MCCheckpointedRun ---------------------------
(* Instances of CheckpointedRun for TLC. *)
EXTENDS CheckpointedRun, TLC

MCSymmetry == Permutations(Result)

=============================================================================
