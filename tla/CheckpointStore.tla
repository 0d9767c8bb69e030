---------------------------- MODULE CheckpointStore ----------------------------
(***************************************************************************)
(* The storage-neutral checkpoint store of group-agent-core, as its        *)
(* in-memory implementation realises it                                    *)
(* (crates/group-agent-core/src/checkpoint_store.rs).                      *)
(*                                                                         *)
(* A store keeps immutable checkpoint records.  Each thread has a default  *)
(* lineage whose head a writer must name as the parent of its record       *)
(* (compare-and-set); a branch is a second lineage, opened on one stored   *)
(* record of its thread, with a compare-and-set head of its own.  Writes   *)
(* are idempotent by identifier and content.  Every operation runs under   *)
(* one mutex, so each is one atomic step here; the interleaving of the     *)
(* writers is the order of these steps.                                    *)
(*                                                                         *)
(* Abstracted: a record is its identifier, its thread, its parent and an   *)
(* opaque Content (snapshot bytes, counters, frontier, interrupt).         *)
(***************************************************************************)
EXTENDS Naturals, SequencesExt

CONSTANTS ThreadId, BranchId, CheckpointId,
          Content,        \* everything in a record beyond its lineage
          NoCheckpoint    \* Option::None where a checkpoint id is optional

ASSUME NoCheckpointAssumption == NoCheckpoint \notin CheckpointId

VARIABLES
  histories,         \* thread -> records of its default lineage, oldest first
  by_id,             \* stored id -> record, over both kinds of lineage
  record_branches,   \* id of a branch-only record -> its branch
  branches,          \* open branch -> [thread, history]; history[1] is the source
  reply              \* outcome of the latest call, as its caller sees it

contents == <<histories, by_id, record_branches, branches>>
vars == <<histories, by_id, record_branches, branches, reply>>

Record == [id : CheckpointId, thread : ThreadId,
           parent : CheckpointId \cup {NoCheckpoint}, content : Content]

Branch == [thread : ThreadId, history : Seq(Record)]

Results == {"Ok", "IdempotencyConflict", "Conflict", "BranchNotFound",
            "BranchAlreadyExists", "BranchSourceNotFound", "Failed"}

(* A partial map is a function whose domain is the set of its keys.        *)
IsPartialMap(f, K, V) == DOMAIN f \subseteq K /\ f \in [DOMAIN f -> V]

Put(f, k, v) == [x \in DOMAIN f \cup {k} |-> IF x = k THEN v ELSE f[x]]

EmptyMap == [x \in {} |-> NoCheckpoint]

--------------------------------------------------------------------------------
(* Queries.                                                                *)

HeadOf(history) ==
  IF history = <<>> THEN NoCheckpoint ELSE Last(history).id

Latest(t) == HeadOf(histories[t])

(* get filters by thread: another thread's identifier is not found.        *)
Get(t, c) == c \in DOMAIN by_id /\ by_id[c].thread = t

(* branch_head is None for an unknown branch and for another thread's.     *)
BranchOf(t, b) == b \in DOMAIN branches /\ branches[b].thread = t

BranchHead(t, b) ==
  IF BranchOf(t, b) THEN HeadOf(branches[b].history) ELSE NoCheckpoint

--------------------------------------------------------------------------------
(* Writes.  XResult is what the call answers, in the order the code makes   *)
(* its checks; X is the call.                                              *)

Init ==
  /\ histories = [t \in ThreadId |-> <<>>]
  /\ by_id = EmptyMap
  /\ record_branches = EmptyMap
  /\ branches = EmptyMap
  /\ reply = [result |-> "Ok", id |-> NoCheckpoint]

Answer(result, c) == reply' = [result |-> result, id |-> c]

Fresh(r) == r.id \notin DOMAIN by_id

(* Mutant of SaveResult: the compare-and-set comes first.                    *)
SaveResultHeadFirst(r) ==
  IF HeadOf(histories[r.thread]) # r.parent THEN "Conflict"
  ELSE IF ~ Fresh(r) /\ by_id[r.id] # r THEN "IdempotencyConflict"
  ELSE "Ok"

(* insert: the idempotency lookup precedes the compare-and-set.            *)
SaveResult(r) ==
  IF ~ Fresh(r)
  THEN IF by_id[r.id] = r THEN "Ok" ELSE "IdempotencyConflict"
  ELSE IF HeadOf(histories[r.thread]) # r.parent THEN "Conflict"
  ELSE "Ok"

SaveAppend(r) ==
  /\ Fresh(r) /\ SaveResult(r) = "Ok"
  /\ histories' = [histories EXCEPT ![r.thread] = Append(@, r)]
  /\ by_id' = Put(by_id, r.id, r)
  /\ Answer("Ok", r.id)
  /\ UNCHANGED <<record_branches, branches>>

(* Nothing is stored: the record is already there, or it is refused.       *)
SaveNoEffect(r) ==
  /\ ~ (Fresh(r) /\ SaveResult(r) = "Ok")
  /\ Answer(SaveResult(r), r.id)
  /\ UNCHANGED contents

Save(r) == SaveAppend(r) \/ SaveNoEffect(r)

(* Mutant of SaveBranchResult: any record of the branch may be continued.    *)
SaveBranchResultAnyMember(b, r) ==
  IF ~ Fresh(r)
  THEN IF by_id[r.id] = r /\ r.id \in DOMAIN record_branches
             /\ record_branches[r.id] = b
       THEN "Ok" ELSE "IdempotencyConflict"
  ELSE IF ~ BranchOf(r.thread, b) THEN "BranchNotFound"
  ELSE IF \A q \in ToSet(branches[b].history) : q.id # r.parent THEN "Conflict"
  ELSE "Ok"

(* insert_branch: a repeated write must also name the same branch.         *)
SaveBranchResult(b, r) ==
  IF ~ Fresh(r)
  THEN IF by_id[r.id] = r /\ r.id \in DOMAIN record_branches
             /\ record_branches[r.id] = b
       THEN "Ok" ELSE "IdempotencyConflict"
  ELSE IF ~ BranchOf(r.thread, b) THEN "BranchNotFound"
  ELSE IF HeadOf(branches[b].history) # r.parent THEN "Conflict"
  ELSE "Ok"

SaveBranchAppend(b, r) ==
  /\ Fresh(r) /\ SaveBranchResult(b, r) = "Ok"
  /\ branches' = [branches EXCEPT ![b].history = Append(@, r)]
  /\ record_branches' = Put(record_branches, r.id, b)
  /\ by_id' = Put(by_id, r.id, r)
  /\ Answer("Ok", r.id)
  /\ UNCHANGED histories

SaveBranchNoEffect(b, r) ==
  /\ ~ (Fresh(r) /\ SaveBranchResult(b, r) = "Ok")
  /\ Answer(SaveBranchResult(b, r), r.id)
  /\ UNCHANGED contents

SaveBranch(b, r) == SaveBranchAppend(b, r) \/ SaveBranchNoEffect(b, r)

(* Mutant of CreateBranchResult: an existing branch is opened again.         *)
CreateBranchResultReopens(t, b, source) ==
  IF ~ Get(t, source) THEN "BranchSourceNotFound" ELSE "Ok"

(* create_branch: an exact repetition is an error, not a success.          *)
CreateBranchResult(t, b, source) ==
  IF b \in DOMAIN branches THEN "BranchAlreadyExists"
  ELSE IF ~ Get(t, source) THEN "BranchSourceNotFound"
  ELSE "Ok"

CreateBranchOpen(t, b, source) ==
  /\ CreateBranchResult(t, b, source) = "Ok"
  /\ branches' = Put(branches, b, [thread |-> t, history |-> <<by_id[source]>>])
  /\ Answer("Ok", source)
  /\ UNCHANGED <<histories, by_id, record_branches>>

CreateBranchRefused(t, b, source) ==
  /\ CreateBranchResult(t, b, source) # "Ok"
  /\ Answer(CreateBranchResult(t, b, source), source)
  /\ UNCHANGED contents

CreateBranch(t, b, source) ==
  CreateBranchOpen(t, b, source) \/ CreateBranchRefused(t, b, source)

(* The store is unavailable (a poisoned lock, a storage error): the call    *)
(* fails and leaves nothing behind.                                        *)
Fail(c) == Answer("Failed", c) /\ UNCHANGED contents

Next ==
  \/ \E r \in Record : Save(r)
  \/ \E r \in Record, b \in BranchId : SaveBranch(b, r)
  \/ \E t \in ThreadId, b \in BranchId, c \in CheckpointId : CreateBranch(t, b, c)
  \/ \E c \in CheckpointId : Fail(c)

Spec == Init /\ [][Next]_vars

--------------------------------------------------------------------------------
(* Properties.                                                             *)

TypeOK ==
  /\ histories \in [ThreadId -> Seq(Record)]
  /\ IsPartialMap(by_id, CheckpointId, Record)
  /\ IsPartialMap(record_branches, CheckpointId, BranchId)
  /\ IsPartialMap(branches, BranchId, Branch)
  /\ reply \in [result : Results, id : CheckpointId \cup {NoCheckpoint}]

(* The record is what its identifier looks up.                             *)
Indexed(r) == r.id \in DOMAIN by_id /\ by_id[r.id] = r

(* insert keeps every default lineage one chain of parents from a root      *)
(* record to the head, all of one thread, indexed, and none of it claimed    *)
(* by a branch.                                                            *)
DefaultLineage ==
  \A t \in ThreadId : \A i \in 1..Len(histories[t]) :
    LET r == histories[t][i] IN
    /\ r.thread = t /\ Indexed(r) /\ r.id \notin DOMAIN record_branches
    /\ r.parent = IF i = 1 THEN NoCheckpoint ELSE histories[t][i - 1].id

(* insert_branch and create_branch keep every branch one chain of parents    *)
(* that starts at the shared source and continues through records of this    *)
(* branch only, all of the thread that owns the branch.                     *)
BranchLineage ==
  \A b \in DOMAIN branches :
    LET h == branches[b].history IN
    /\ h # <<>>
    /\ \A i \in 1..Len(h) : h[i].thread = branches[b].thread /\ Indexed(h[i])
    /\ \A i \in 2..Len(h) :
         /\ h[i].parent = h[i - 1].id
         /\ h[i].id \in DOMAIN record_branches /\ record_branches[h[i].id] = b

(* The indexes insert and insert_branch maintain hold nothing that no        *)
(* lineage reaches: what get returns is in the history its thread, or its    *)
(* branch, lists.                                                          *)
IndexComplete ==
  \A c \in DOMAIN by_id :
    /\ by_id[c].id = c
    /\ IF c \in DOMAIN record_branches
       THEN \E b \in DOMAIN branches :
              /\ record_branches[c] = b
              /\ \E i \in 2..Len(branches[b].history) :
                   branches[b].history[i].id = c
       ELSE \E i \in 1..Len(histories[by_id[c].thread]) :
              histories[by_id[c].thread][i].id = c

(* The compare-and-set of insert and insert_branch loses no update: within   *)
(* one lineage no two records continue the same parent.                     *)
SingleSuccessor ==
  /\ \A t \in ThreadId : \A i, j \in 1..Len(histories[t]) :
       histories[t][i].parent = histories[t][j].parent => i = j
  /\ \A b \in DOMAIN branches : \A i, j \in 1..Len(branches[b].history) :
       branches[b].history[i].parent = branches[b].history[j].parent => i = j

(* Every lineage is one chain of its own records without a fork, and the      *)
(* indexes list exactly what the lineages hold (insert, insert_branch,        *)
(* create_branch).                                                         *)
LineagesChained == DefaultLineage /\ BranchLineage /\ IndexComplete /\ SingleSuccessor

(* A writer that lost its answer may repeat the call: the write it made is   *)
(* acknowledged again however far the head has advanced since, because the   *)
(* idempotency lookup of insert and insert_branch precedes the              *)
(* compare-and-set.                                                        *)
RetryAccepted ==
  \A c \in DOMAIN by_id :
    IF c \in DOMAIN record_branches
    THEN SaveBranchResult(record_branches[c], by_id[c]) = "Ok"
    ELSE SaveResult(by_id[c]) = "Ok"

(* No call of any writer removes, reorders or rewrites a stored record, or   *)
(* moves a branch to another thread.                                        *)
AppendOnlyStep ==
  /\ \A t \in ThreadId : IsPrefix(histories[t], histories'[t])
  /\ \A c \in DOMAIN by_id : c \in DOMAIN by_id' /\ by_id'[c] = by_id[c]
  /\ \A b \in DOMAIN branches :
       /\ b \in DOMAIN branches'
       /\ branches'[b].thread = branches[b].thread
       /\ IsPrefix(branches[b].history, branches'[b].history)

AppendOnly == [][AppendOnlyStep]_vars

(* The store implements the append-only logs of LineageLog.                 *)
Ids(history) == [i \in 1..Len(history) |-> history[i].id]

Lineages == INSTANCE LineageLog WITH
  threadLog <- [t \in ThreadId |-> Ids(histories[t])],
  branchLog <- [b \in BranchId |->
                  IF b \in DOMAIN branches THEN Ids(branches[b].history) ELSE <<>>]

ImplementsLineageLog == Lineages!Spec
================================================================================
