----------------------------- MODULE MCSqliteStore -----------------------------
(* Instances of SqliteStore for TLC.                                        *)
EXTENDS SqliteStore, TLC

Symmetric == Permutations(ThreadId) \cup Permutations(BranchId)
             \cup Permutations(CheckpointId) \cup Permutations(Content)
================================================================================
