-------------------------- MODULE MCCheckpointCache --------------------------
(* CheckpointCache for TLC: tasks and checkpoints are interchangeable.       *)
EXTENDS CheckpointCache, TLC

Symmetry == Permutations(Tasks) \cup Permutations(Ids)
=============================================================================
