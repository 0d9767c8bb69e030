------------------------------ MODULE LineageLog ------------------------------
(***************************************************************************)
(* What a checkpoint store promises, without saying how.                   *)
(*                                                                         *)
(* Every thread has a default lineage and every branch a lineage of its    *)
(* own; a lineage is an append-only log of checkpoint identifiers.  An     *)
(* identifier enters the store once: it is appended to exactly one         *)
(* lineage, and the only other place it may appear is the first position   *)
(* of a branch that was opened on it.  A branch is opened once.            *)
(*                                                                         *)
(* CheckpointStore is shown to implement this specification.               *)
(***************************************************************************)
EXTENDS Naturals, Sequences

CONSTANTS ThreadId,       \* default lineages, one per thread
          BranchId,       \* branch lineages
          CheckpointId    \* checkpoint identifiers

VARIABLES threadLog,      \* thread -> identifiers, oldest first
          branchLog       \* branch -> identifiers; empty until the branch exists

vars == <<threadLog, branchLog>>

TypeOK ==
  /\ threadLog \in [ThreadId -> Seq(CheckpointId)]
  /\ branchLog \in [BranchId -> Seq(CheckpointId)]

Init ==
  /\ threadLog = [t \in ThreadId |-> <<>>]
  /\ branchLog = [b \in BranchId |-> <<>>]

(* The identifier is in some lineage.                                      *)
Stored(c) ==
  \/ \E t \in ThreadId : \E i \in 1..Len(threadLog[t]) : threadLog[t][i] = c
  \/ \E b \in BranchId : \E i \in 1..Len(branchLog[b]) : branchLog[b][i] = c

AppendToThread(t, c) ==
  /\ ~ Stored(c)
  /\ threadLog' = [threadLog EXCEPT ![t] = Append(@, c)]
  /\ UNCHANGED branchLog

OpenBranch(b, c) ==
  /\ branchLog[b] = <<>>
  /\ Stored(c)
  /\ branchLog' = [branchLog EXCEPT ![b] = <<c>>]
  /\ UNCHANGED threadLog

AppendToBranch(b, c) ==
  /\ branchLog[b] # <<>>
  /\ ~ Stored(c)
  /\ branchLog' = [branchLog EXCEPT ![b] = Append(@, c)]
  /\ UNCHANGED threadLog

Next ==
  \E c \in CheckpointId :
    \/ \E t \in ThreadId : AppendToThread(t, c)
    \/ \E b \in BranchId : OpenBranch(b, c) \/ AppendToBranch(b, c)

Spec == Init /\ [][Next]_vars
================================================================================
