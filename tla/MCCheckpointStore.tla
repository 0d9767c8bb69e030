--------------------------- MODULE MCCheckpointStore ---------------------------
(* Instances of CheckpointStore for TLC.                                    *)
EXTENDS CheckpointStore, TLC

Symmetric == Permutations(ThreadId) \cup Permutations(BranchId)
             \cup Permutations(CheckpointId) \cup Permutations(Content)
================================================================================
