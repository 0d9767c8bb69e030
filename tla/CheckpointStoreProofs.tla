------------------------- MODULE CheckpointStoreProofs -------------------------
(***************************************************************************)
(* Proofs about CheckpointStore, for every set of threads, branches,       *)
(* identifiers and contents.                                               *)
(*                                                                         *)
(* The argument.  The lineage invariants are not inductive by themselves:  *)
(* that two records of a lineage have different parents needs that they    *)
(* have different identifiers, and, for a branch, that no record of the    *)
(* branch is the parent of its source, which lies outside the branch.      *)
(* Both follow from the idempotency lookup: an identifier is stored once,  *)
(* and a parent is stored before its child.                                *)
(***************************************************************************)
EXTENDS CheckpointStore, SequenceTheorems, TLAPS

--------------------------------------------------------------------------------
(* The inductive invariant.                                                *)

(* No lineage holds an identifier twice.                                   *)
DistinctIds ==
  /\ \A t \in ThreadId : \A i, j \in 1..Len(histories[t]) :
       histories[t][i].id = histories[t][j].id => i = j
  /\ \A b \in DOMAIN branches : \A i, j \in 1..Len(branches[b].history) :
       branches[b].history[i].id = branches[b].history[j].id => i = j

(* The parent of a stored record is another stored record, or none.        *)
ParentStored ==
  \A c \in DOMAIN by_id : by_id[c].parent \in (DOMAIN by_id \cup {NoCheckpoint}) \ {c}

(* No record of a branch is the parent of the branch's source.             *)
SourceParentOutside ==
  \A b \in DOMAIN branches : \A i \in 1..Len(branches[b].history) :
    branches[b].history[i].id # branches[b].history[1].parent

(* Only stored records are assigned to a branch.                           *)
BranchRecordsStored == DOMAIN record_branches \subseteq DOMAIN by_id

LineageInv ==
  /\ DefaultLineage
  /\ BranchLineage
  /\ IndexComplete
  /\ DistinctIds
  /\ ParentStored
  /\ SourceParentOutside
  /\ BranchRecordsStored

IInv == TypeOK /\ LineageInv

--------------------------------------------------------------------------------
(* Facts about the operators of the model.                                  *)

(* Put stores one key of a map and keeps the others, as HashMap::insert does.  *)
LEMMA PutProperties ==
  ASSUME NEW K, NEW V, NEW f, IsPartialMap(f, K, V), NEW k \in K, NEW v \in V
  PROVE  /\ IsPartialMap(Put(f, k, v), K, V)
         /\ DOMAIN Put(f, k, v) = DOMAIN f \cup {k}
         /\ Put(f, k, v)[k] = v
         /\ \A x \in DOMAIN f : x # k => Put(f, k, v)[x] = f[x]
BY DEF IsPartialMap, Put

(* The fields of a record.                                                  *)
LEMMA RecordFields ==
  ASSUME NEW r \in Record
  PROVE  /\ r.id \in CheckpointId /\ r.thread \in ThreadId
         /\ r.parent \in CheckpointId \cup {NoCheckpoint} /\ r.content \in Content
BY DEF Record

(* Every call of the store either leaves its contents alone, or appends a      *)
(* fresh record to a lineage, or opens a branch.                             *)
LEMMA StepCases ==
  ASSUME [Next]_vars
  PROVE  \/ UNCHANGED contents
         \/ \E r \in Record : SaveAppend(r)
         \/ \E r \in Record, b \in BranchId : SaveBranchAppend(b, r)
         \/ \E t \in ThreadId, b \in BranchId, c \in CheckpointId :
              CreateBranchOpen(t, b, c)
BY DEF Next, vars, contents, Save, SaveNoEffect, SaveBranch, SaveBranchNoEffect,
       CreateBranch, CreateBranchRefused, Fail

(* The answers of the three calls are results of the store.                   *)
LEMMA ReplyType ==
  ASSUME TypeOK, [Next]_vars
  PROVE  reply' \in [result : Results, id : CheckpointId \cup {NoCheckpoint}]
<1>1. CASE UNCHANGED vars
  BY <1>1 DEF TypeOK, vars
<1>2. ASSUME NEW r \in Record, Save(r)
      PROVE  reply' \in [result : Results, id : CheckpointId \cup {NoCheckpoint}]
  <2>1. SaveResult(r) \in Results
    BY DEF SaveResult, Results
  <2> QED BY <1>2, <2>1, RecordFields
          DEF Save, SaveAppend, SaveNoEffect, Answer, Results
<1>3. ASSUME NEW r \in Record, NEW b \in BranchId, SaveBranch(b, r)
      PROVE  reply' \in [result : Results, id : CheckpointId \cup {NoCheckpoint}]
  <2>1. SaveBranchResult(b, r) \in Results
    BY DEF SaveBranchResult, Results
  <2> QED BY <1>3, <2>1, RecordFields
          DEF SaveBranch, SaveBranchAppend, SaveBranchNoEffect, Answer, Results
<1>4. ASSUME NEW t \in ThreadId, NEW b \in BranchId, NEW c \in CheckpointId,
             CreateBranch(t, b, c)
      PROVE  reply' \in [result : Results, id : CheckpointId \cup {NoCheckpoint}]
  <2>1. CreateBranchResult(t, b, c) \in Results
    BY DEF CreateBranchResult, Results
  <2> QED BY <1>4, <2>1
          DEF CreateBranch, CreateBranchOpen, CreateBranchRefused, Answer, Results
<1>5. ASSUME NEW c \in CheckpointId, Fail(c)
      PROVE  reply' \in [result : Results, id : CheckpointId \cup {NoCheckpoint}]
  BY <1>5 DEF Fail, Answer, Results
<1> QED BY <1>1, <1>2, <1>3, <1>4, <1>5 DEF Next

--------------------------------------------------------------------------------
(* Type correctness.                                                       *)

LEMMA InitType == Init => TypeOK
<1> SUFFICES ASSUME Init PROVE TypeOK
  OBVIOUS
<1>1. histories \in [ThreadId -> Seq(Record)]
  BY DEF Init
<1>2. /\ IsPartialMap(by_id, CheckpointId, Record)
      /\ IsPartialMap(record_branches, CheckpointId, BranchId)
      /\ IsPartialMap(branches, BranchId, Branch)
  BY DEF Init, EmptyMap, IsPartialMap
<1>3. reply \in [result : Results, id : CheckpointId \cup {NoCheckpoint}]
  BY DEF Init, Results
<1> QED BY <1>1, <1>2, <1>3 DEF TypeOK

LEMMA NextType == TypeOK /\ [Next]_vars => TypeOK'
<1> SUFFICES ASSUME TypeOK, [Next]_vars PROVE TypeOK'
  OBVIOUS
<1>r. reply' \in [result : Results, id : CheckpointId \cup {NoCheckpoint}]
  BY ReplyType
<1>1. CASE UNCHANGED contents
  BY <1>1, <1>r DEF contents, TypeOK, IsPartialMap
<1>2. ASSUME NEW r \in Record, SaveAppend(r) PROVE TypeOK'
  <2>1. histories' \in [ThreadId -> Seq(Record)]
    BY <1>2, RecordFields, AppendProperties DEF SaveAppend, TypeOK
  <2>2. IsPartialMap(by_id', CheckpointId, Record)
    BY <1>2, RecordFields, PutProperties DEF SaveAppend, TypeOK
  <2> QED BY <1>2, <1>r, <2>1, <2>2 DEF SaveAppend, TypeOK, IsPartialMap
<1>3. ASSUME NEW r \in Record, NEW b \in BranchId, SaveBranchAppend(b, r)
      PROVE  TypeOK'
  <2>1. b \in DOMAIN branches
    BY <1>3 DEF SaveBranchAppend, SaveBranchResult, BranchOf
  <2>2. IsPartialMap(branches', BranchId, Branch)
    BY <1>3, <2>1, AppendProperties DEF SaveBranchAppend, TypeOK, IsPartialMap, Branch
  <2>3. IsPartialMap(by_id', CheckpointId, Record)
    BY <1>3, RecordFields, PutProperties DEF SaveBranchAppend, TypeOK
  <2>4. IsPartialMap(record_branches', CheckpointId, BranchId)
    BY <1>3, RecordFields, PutProperties DEF SaveBranchAppend, TypeOK
  <2> QED BY <1>3, <1>r, <2>2, <2>3, <2>4 DEF SaveBranchAppend, TypeOK
<1>4. ASSUME NEW t \in ThreadId, NEW b \in BranchId, NEW c \in CheckpointId,
             CreateBranchOpen(t, b, c)
      PROVE  TypeOK'
  <2>1. by_id[c] \in Record
    BY <1>4 DEF CreateBranchOpen, CreateBranchResult, Get, TypeOK, IsPartialMap
  <2>2. [thread |-> t, history |-> <<by_id[c]>>] \in Branch
    BY <2>1 DEF Branch
  <2>3. IsPartialMap(branches', BranchId, Branch)
    BY <1>4, <2>2, PutProperties DEF CreateBranchOpen, TypeOK
  <2> QED BY <1>4, <1>r, <2>3 DEF CreateBranchOpen, TypeOK, IsPartialMap
<1> QED BY <1>1, <1>2, <1>3, <1>4, StepCases

(* Type correctness of the store: whatever calls are made, in whatever order,   *)
(* its maps hold records, branches and answers of the declared kinds.          *)
THEOREM TypeCorrect == Spec => []TypeOK
<1>1. Init => TypeOK
  BY InitType
<1>2. TypeOK /\ [Next]_vars => TypeOK'
  BY NextType
<1> QED BY <1>1, <1>2, PTL DEF Spec

--------------------------------------------------------------------------------
(* What the three effective steps do, in the terms of the invariant.           *)

(* insert appends a fresh record whose parent is the head of its thread.       *)
LEMMA SaveEffect ==
  ASSUME TypeOK, NEW r \in Record, SaveAppend(r)
  PROVE  /\ r.id \notin DOMAIN by_id
         /\ DOMAIN by_id' = DOMAIN by_id \cup {r.id}
         /\ by_id'[r.id] = r
         /\ \A c \in DOMAIN by_id : by_id'[c] = by_id[c]
         /\ Len(histories'[r.thread]) = Len(histories[r.thread]) + 1
         /\ histories'[r.thread][Len(histories[r.thread]) + 1] = r
         /\ \A i \in 1..Len(histories[r.thread]) :
              histories'[r.thread][i] = histories[r.thread][i]
         /\ \A t \in ThreadId : t # r.thread => histories'[t] = histories[t]
         /\ r.parent = IF Len(histories[r.thread]) = 0 THEN NoCheckpoint
                       ELSE histories[r.thread][Len(histories[r.thread])].id
         /\ record_branches' = record_branches /\ branches' = branches
<1>1. r.thread \in ThreadId /\ histories[r.thread] \in Seq(Record)
  BY RecordFields DEF TypeOK
<1>2. histories'[r.thread] = Append(histories[r.thread], r)
  BY <1>1 DEF SaveAppend, TypeOK
<1>3. r.id \notin DOMAIN by_id
  BY DEF SaveAppend, Fresh
<1>4. r.parent = HeadOf(histories[r.thread])
  BY DEF SaveAppend, SaveResult
<1>5. r.parent = IF Len(histories[r.thread]) = 0 THEN NoCheckpoint
                 ELSE histories[r.thread][Len(histories[r.thread])].id
  BY <1>1, <1>4, EmptySeq DEF HeadOf, Last
<1>6. /\ DOMAIN by_id' = DOMAIN by_id \cup {r.id}
      /\ by_id'[r.id] = r
      /\ \A c \in DOMAIN by_id : by_id'[c] = by_id[c]
  BY <1>3 DEF SaveAppend, Put
<1>7. /\ Len(histories'[r.thread]) = Len(histories[r.thread]) + 1
      /\ histories'[r.thread][Len(histories[r.thread]) + 1] = r
      /\ \A i \in 1..Len(histories[r.thread]) :
           histories'[r.thread][i] = histories[r.thread][i]
  BY <1>1, <1>2, AppendProperties
<1>8. \A t \in ThreadId : t # r.thread => histories'[t] = histories[t]
  BY DEF SaveAppend, TypeOK
<1> QED BY <1>3, <1>5, <1>6, <1>7, <1>8 DEF SaveAppend

(* The state after insert_branch appended r to b.                            *)
SaveBranchChange(b, r) ==
  /\ r.id \notin DOMAIN by_id
  /\ DOMAIN by_id' = DOMAIN by_id \cup {r.id}
  /\ by_id'[r.id] = r
  /\ \A c \in DOMAIN by_id : by_id'[c] = by_id[c]
  /\ b \in DOMAIN branches /\ DOMAIN branches' = DOMAIN branches
  /\ branches[b].thread = r.thread /\ branches'[b].thread = r.thread
  /\ branches[b].history \in Seq(Record)
  /\ branches'[b].history = Append(branches[b].history, r)
  /\ Len(branches'[b].history) = Len(branches[b].history) + 1
  /\ branches'[b].history[Len(branches[b].history) + 1] = r
  /\ \A i \in 1..Len(branches[b].history) :
       branches'[b].history[i] = branches[b].history[i]
  /\ \A d \in DOMAIN branches : d # b => branches'[d] = branches[d]
  /\ Len(branches[b].history) \in Nat \ {0}
  /\ r.parent = branches[b].history[Len(branches[b].history)].id
  /\ DOMAIN record_branches' = DOMAIN record_branches \cup {r.id}
  /\ record_branches'[r.id] = b
  /\ \A c \in DOMAIN record_branches :
       c # r.id => record_branches'[c] = record_branches[c]
  /\ histories' = histories

(* insert_branch appends a fresh record whose parent is the head of its branch. *)
LEMMA SaveBranchEffect ==
  ASSUME TypeOK, BranchLineage, NEW r \in Record, NEW b \in BranchId,
         SaveBranchAppend(b, r)
  PROVE  SaveBranchChange(b, r)
<1>1. r.id \notin DOMAIN by_id
  BY DEF SaveBranchAppend, Fresh
<1>2. /\ b \in DOMAIN branches /\ branches[b].thread = r.thread
      /\ r.parent = HeadOf(branches[b].history)
  BY DEF SaveBranchAppend, SaveBranchResult, BranchOf
<1>3. branches[b] \in Branch /\ branches[b].history \in Seq(Record)
  BY <1>2 DEF TypeOK, IsPartialMap, Branch
<1>4. branches[b].history # <<>>
  BY <1>2 DEF BranchLineage
<1>5. Len(branches[b].history) \in Nat \ {0}
  BY <1>3, <1>4, EmptySeq, LenProperties
<1>6. r.parent = branches[b].history[Len(branches[b].history)].id
  BY <1>2, <1>4 DEF HeadOf, Last
<1>7. /\ DOMAIN branches' = DOMAIN branches
      /\ branches'[b].thread = branches[b].thread
      /\ branches'[b].history = Append(branches[b].history, r)
      /\ \A d \in DOMAIN branches : d # b => branches'[d] = branches[d]
  BY <1>2, <1>3 DEF SaveBranchAppend, TypeOK, IsPartialMap, Branch
<1>8. /\ Len(branches'[b].history) = Len(branches[b].history) + 1
      /\ branches'[b].history[Len(branches[b].history) + 1] = r
      /\ \A i \in 1..Len(branches[b].history) :
           branches'[b].history[i] = branches[b].history[i]
  BY <1>3, <1>7, AppendProperties
<1>9. /\ DOMAIN by_id' = DOMAIN by_id \cup {r.id}
      /\ by_id'[r.id] = r
      /\ \A c \in DOMAIN by_id : by_id'[c] = by_id[c]
  BY <1>1 DEF SaveBranchAppend, Put
<1>10. /\ DOMAIN record_branches' = DOMAIN record_branches \cup {r.id}
       /\ record_branches'[r.id] = b
       /\ \A c \in DOMAIN record_branches :
            c # r.id => record_branches'[c] = record_branches[c]
  BY DEF SaveBranchAppend, Put
<1>11. histories' = histories
  BY DEF SaveBranchAppend
<1> QED BY <1>1, <1>2, <1>3, <1>5, <1>6, <1>7, <1>8, <1>9, <1>10, <1>11
        DEF SaveBranchChange

(* create_branch opens a new branch whose history is one stored record.         *)
LEMMA CreateBranchEffect ==
  ASSUME TypeOK, NEW t \in ThreadId, NEW b \in BranchId, NEW c \in CheckpointId,
         CreateBranchOpen(t, b, c)
  PROVE  /\ b \notin DOMAIN branches
         /\ c \in DOMAIN by_id /\ by_id[c].thread = t /\ by_id[c] \in Record
         /\ DOMAIN branches' = DOMAIN branches \cup {b}
         /\ branches'[b].thread = t /\ branches'[b].history = <<by_id[c]>>
         /\ \A d \in DOMAIN branches : branches'[d] = branches[d]
         /\ by_id' = by_id /\ record_branches' = record_branches
         /\ histories' = histories
<1>1. b \notin DOMAIN branches /\ c \in DOMAIN by_id /\ by_id[c].thread = t
  BY DEF CreateBranchOpen, CreateBranchResult, Get
<1>2. by_id[c] \in Record
  BY <1>1 DEF TypeOK, IsPartialMap
<1> QED BY <1>1, <1>2 DEF CreateBranchOpen, Put

--------------------------------------------------------------------------------
(* The lineage invariant is preserved by each effective step.                  *)

LEMMA SavePreserves ==
  ASSUME IInv, NEW r \in Record, SaveAppend(r)
  PROVE  LineageInv'
<1> DEFINE h == histories[r.thread]
<1> USE DEF IInv, LineageInv
<1>t. TypeOK /\ r.thread \in ThreadId /\ h \in Seq(Record) /\ Len(h) \in Nat
  BY RecordFields, LenProperties DEF TypeOK
<1>e. /\ r.id \notin DOMAIN by_id
      /\ DOMAIN by_id' = DOMAIN by_id \cup {r.id}
      /\ by_id'[r.id] = r
      /\ \A c \in DOMAIN by_id : by_id'[c] = by_id[c]
      /\ Len(histories'[r.thread]) = Len(h) + 1
      /\ histories'[r.thread][Len(h) + 1] = r
      /\ \A i \in 1..Len(h) : histories'[r.thread][i] = h[i]
      /\ \A t \in ThreadId : t # r.thread => histories'[t] = histories[t]
      /\ r.parent = IF Len(h) = 0 THEN NoCheckpoint ELSE h[Len(h)].id
      /\ record_branches' = record_branches /\ branches' = branches
  BY <1>t, SaveEffect
<1> HIDE DEF h
<1>1. DefaultLineage'
  <2> SUFFICES ASSUME NEW t \in ThreadId, NEW i \in 1..Len(histories'[t])
               PROVE  LET q == histories'[t][i] IN
                      /\ q.thread = t
                      /\ q.id \in DOMAIN by_id' /\ by_id'[q.id] = q
                      /\ q.id \notin DOMAIN record_branches'
                      /\ q.parent = IF i = 1 THEN NoCheckpoint ELSE histories'[t][i - 1].id
    BY DEF DefaultLineage, Indexed
  <2>1. CASE t # r.thread
    BY <1>e, <2>1 DEF DefaultLineage, Indexed
  <2>2. CASE t = r.thread /\ i \in 1..Len(h)
    <3>1. i - 1 \in 1..Len(h) \/ i = 1
      BY <1>t, <2>2
    <3>2. /\ h[i].thread = t /\ h[i].id \in DOMAIN by_id /\ by_id[h[i].id] = h[i]
          /\ h[i].id \notin DOMAIN record_branches
          /\ h[i].parent = IF i = 1 THEN NoCheckpoint ELSE h[i - 1].id
      BY <1>t, <2>2 DEF DefaultLineage, Indexed, h
    <3>3. /\ histories'[t][i] = h[i]
          /\ i # 1 => histories'[t][i - 1] = h[i - 1]
      BY <1>e, <2>2, <3>1
    <3>4. by_id'[h[i].id] = h[i] /\ h[i].id \in DOMAIN by_id'
      BY <1>e, <3>2
    <3> QED BY <1>e, <2>2, <3>2, <3>3, <3>4
  <2>3. CASE t = r.thread /\ i = Len(h) + 1
    <3>1. Len(h) = 0 \/ Len(h) \in 1..Len(h)
      BY <1>t
    <3>2. r.id \notin DOMAIN record_branches
      BY <1>e DEF BranchRecordsStored
    <3> QED BY <1>t, <1>e, <2>3, <3>1, <3>2 DEF Indexed
  <2> QED BY <1>t, <1>e, <2>1, <2>2, <2>3
<1>2. BranchLineage'
  BY <1>e DEF BranchLineage, Indexed
<1>3. IndexComplete'
  <2> SUFFICES ASSUME NEW c \in DOMAIN by_id'
               PROVE  /\ by_id'[c].id = c
                      /\ IF c \in DOMAIN record_branches'
                         THEN \E b \in DOMAIN branches' :
                                /\ record_branches'[c] = b
                                /\ \E i \in 2..Len(branches'[b].history) :
                                     branches'[b].history[i].id = c
                         ELSE \E i \in 1..Len(histories'[by_id'[c].thread]) :
                                histories'[by_id'[c].thread][i].id = c
    BY DEF IndexComplete
  <2>1. CASE c = r.id
    <3>1. c \notin DOMAIN record_branches
      BY <1>e, <2>1 DEF BranchRecordsStored
    <3>2. Len(h) + 1 \in 1..Len(histories'[r.thread])
      BY <1>t, <1>e
    <3> QED BY <1>e, <2>1, <3>1, <3>2
  <2>2. CASE c \in DOMAIN by_id /\ c \in DOMAIN record_branches
    BY <1>e, <2>2 DEF IndexComplete
  <2>3. CASE c \in DOMAIN by_id /\ c \notin DOMAIN record_branches
    <3>1. PICK i \in 1..Len(histories[by_id[c].thread]) :
            histories[by_id[c].thread][i].id = c
      BY <2>3 DEF IndexComplete
    <3>2. by_id[c].thread \in ThreadId
      BY <1>t, <2>3, RecordFields DEF TypeOK, IsPartialMap
    <3>3. CASE by_id[c].thread = r.thread
      <4>1. i \in 1..Len(h) /\ h[i].id = c /\ i \in 1..(Len(h) + 1)
        BY <1>t, <3>1, <3>3 DEF h
      <4> QED BY <1>t, <1>e, <2>3, <3>3, <4>1 DEF IndexComplete
    <3>4. CASE by_id[c].thread # r.thread
      BY <1>e, <2>3, <3>1, <3>2, <3>4 DEF IndexComplete
    <3> QED BY <3>3, <3>4
  <2> QED BY <1>e, <2>1, <2>2, <2>3
<1>4. DistinctIds'
  <2>1. ASSUME NEW t \in ThreadId, NEW i \in 1..Len(histories'[t]),
               NEW j \in 1..Len(histories'[t]),
               histories'[t][i].id = histories'[t][j].id
        PROVE  i = j
    <3>1. CASE t # r.thread
      BY <1>e, <2>1, <3>1 DEF DistinctIds
    <3>2. CASE t = r.thread
      <4>1. \A k \in 1..Len(h) : h[k].id \in DOMAIN by_id
        BY <1>t DEF DefaultLineage, Indexed, h
      <4>2. \A k, l \in 1..Len(h) : h[k].id = h[l].id => k = l
        BY <1>t DEF DistinctIds, h
      <4>3. i \in 1..Len(h) \/ i = Len(h) + 1
        BY <1>t, <1>e, <3>2
      <4>4. j \in 1..Len(h) \/ j = Len(h) + 1
        BY <1>t, <1>e, <3>2
      <4> QED BY <1>t, <1>e, <2>1, <3>2, <4>1, <4>2, <4>3, <4>4
    <3> QED BY <3>1, <3>2
  <2> QED BY <1>e, <2>1 DEF DistinctIds
<1>5. ParentStored'
  <2>1. r.parent \in DOMAIN by_id \cup {NoCheckpoint}
    <3>1. Len(h) = 0 \/ Len(h) \in 1..Len(h)
      BY <1>t
    <3> QED BY <1>t, <1>e, <3>1 DEF DefaultLineage, Indexed, h
  <2>2. r.parent # r.id
    BY <1>e, <2>1, RecordFields, NoCheckpointAssumption
  <2> QED BY <1>e, <2>1, <2>2 DEF ParentStored
<1>6. SourceParentOutside'
  BY <1>e DEF SourceParentOutside
<1>7. BranchRecordsStored'
  BY <1>e DEF BranchRecordsStored
<1> QED BY <1>1, <1>2, <1>3, <1>4, <1>5, <1>6, <1>7

LEMMA SaveBranchPreserves ==
  ASSUME IInv, NEW r \in Record, NEW b \in BranchId, SaveBranchAppend(b, r)
  PROVE  LineageInv'
<1> DEFINE h == branches[b].history
           g == branches'[b].history
<1> USE DEF IInv, LineageInv
<1>t. SaveBranchChange(b, r)
  BY SaveBranchEffect
<1>e. /\ r.id \notin DOMAIN by_id
      /\ DOMAIN by_id' = DOMAIN by_id \cup {r.id}
      /\ by_id'[r.id] = r
      /\ \A c \in DOMAIN by_id : by_id'[c] = by_id[c]
      /\ b \in DOMAIN branches /\ DOMAIN branches' = DOMAIN branches
      /\ branches[b].thread = r.thread /\ branches'[b].thread = r.thread
      /\ h \in Seq(Record) /\ g = Append(h, r)
      /\ Len(g) = Len(h) + 1 /\ g[Len(h) + 1] = r
      /\ \A i \in 1..Len(h) : g[i] = h[i]
      /\ \A d \in DOMAIN branches : d # b => branches'[d] = branches[d]
      /\ Len(h) \in Nat \ {0}
      /\ r.parent = h[Len(h)].id
      /\ DOMAIN record_branches' = DOMAIN record_branches \cup {r.id}
      /\ record_branches'[r.id] = b
      /\ \A c \in DOMAIN record_branches :
           c # r.id => record_branches'[c] = record_branches[c]
      /\ histories' = histories
  BY <1>t DEF SaveBranchChange
<1>h. \A i \in 1..Len(h) :
        /\ h[i].thread = r.thread
        /\ h[i].id \in DOMAIN by_id /\ by_id[h[i].id] = h[i]
  BY <1>e DEF BranchLineage, Indexed
<1>s. \A c \in DOMAIN record_branches :
        c # r.id /\ c \in DOMAIN by_id /\ record_branches'[c] = record_branches[c]
  BY <1>e DEF BranchRecordsStored
<1>1. DefaultLineage'
  BY <1>e, <1>s DEF DefaultLineage, Indexed
<1>2. BranchLineage'
  <2>1. ASSUME NEW d \in DOMAIN branches, d # b
        PROVE  LET k == branches'[d].history IN
               /\ k # <<>>
               /\ \A i \in 1..Len(k) :
                    /\ k[i].thread = branches'[d].thread
                    /\ k[i].id \in DOMAIN by_id' /\ by_id'[k[i].id] = k[i]
               /\ \A i \in 2..Len(k) :
                    /\ k[i].parent = k[i - 1].id
                    /\ k[i].id \in DOMAIN record_branches'
                    /\ record_branches'[k[i].id] = d
    <3> DEFINE k == branches[d].history
    <3>1. branches'[d] = branches[d]
      BY <1>e, <2>1
    <3>2. /\ k # <<>>
          /\ \A i \in 1..Len(k) :
               /\ k[i].thread = branches[d].thread
               /\ k[i].id \in DOMAIN by_id /\ by_id[k[i].id] = k[i]
          /\ \A i \in 2..Len(k) :
               /\ k[i].parent = k[i - 1].id
               /\ k[i].id \in DOMAIN record_branches /\ record_branches[k[i].id] = d
      BY <2>1 DEF BranchLineage, Indexed
    <3> HIDE DEF k
    <3>3. /\ k # <<>>
          /\ \A i \in 1..Len(k) :
               /\ k[i].thread = branches[d].thread
               /\ k[i].id \in DOMAIN by_id' /\ by_id'[k[i].id] = k[i]
          /\ \A i \in 2..Len(k) :
               /\ k[i].parent = k[i - 1].id
               /\ k[i].id \in DOMAIN record_branches'
               /\ record_branches'[k[i].id] = d
      BY <1>e, <1>s, <3>2
    <3> QED BY <3>1, <3>3 DEF k
  <2>2. g # <<>>
    BY <1>e, AppendProperties
  <2>3. \A i \in 1..Len(g) :
          /\ g[i].thread = branches'[b].thread
          /\ g[i].id \in DOMAIN by_id' /\ by_id'[g[i].id] = g[i]
    <3> SUFFICES ASSUME NEW i \in 1..Len(g)
                 PROVE  /\ g[i].thread = branches'[b].thread
                        /\ g[i].id \in DOMAIN by_id' /\ by_id'[g[i].id] = g[i]
      OBVIOUS
    <3>1. i \in 1..Len(h) \/ i = Len(h) + 1
      BY <1>e
    <3> HIDE DEF g, h
    <3> QED BY <1>e, <1>h, <3>1
  <2>4. \A i \in 2..Len(g) :
          /\ g[i].parent = g[i - 1].id
          /\ g[i].id \in DOMAIN record_branches' /\ record_branches'[g[i].id] = b
    <3> SUFFICES ASSUME NEW i \in 2..Len(g)
                 PROVE  /\ g[i].parent = g[i - 1].id
                        /\ g[i].id \in DOMAIN record_branches'
                        /\ record_branches'[g[i].id] = b
      OBVIOUS
    <3>1. /\ i - 1 \in 1..Len(h)
          /\ (i \in 2..Len(h) /\ i \in 1..Len(h)) \/ i = Len(h) + 1
      BY <1>e
    <3>2. \A k \in 2..Len(h) :
            /\ h[k].parent = h[k - 1].id
            /\ h[k].id \in DOMAIN record_branches /\ record_branches[h[k].id] = b
      BY <1>e DEF BranchLineage
    <3> HIDE DEF g, h
    <3>3. CASE i \in 2..Len(h) /\ i \in 1..Len(h)
      <4>1. g[i] = h[i] /\ g[i - 1] = h[i - 1]
        BY <1>e, <3>1, <3>3
      <4> QED BY <1>e, <1>s, <3>2, <3>3, <4>1
    <3>4. CASE i = Len(h) + 1
      BY <1>e, <3>1, <3>4
    <3> QED BY <3>1, <3>3, <3>4
  <2>5. ASSUME NEW d \in DOMAIN branches'
        PROVE  LET k == branches'[d].history IN
               /\ k # <<>>
               /\ \A i \in 1..Len(k) :
                    /\ k[i].thread = branches'[d].thread
                    /\ k[i].id \in DOMAIN by_id' /\ by_id'[k[i].id] = k[i]
               /\ \A i \in 2..Len(k) :
                    /\ k[i].parent = k[i - 1].id
                    /\ k[i].id \in DOMAIN record_branches'
                    /\ record_branches'[k[i].id] = d
    <3>1. CASE d = b
      BY <2>2, <2>3, <2>4, <3>1, Zenon
    <3>2. CASE d # b
      BY <1>e, <2>1, <3>2
    <3> QED BY <3>1, <3>2
  <2> QED BY <2>5 DEF BranchLineage, Indexed
<1>3. IndexComplete'
  <2> SUFFICES ASSUME NEW c \in DOMAIN by_id'
               PROVE  /\ by_id'[c].id = c
                      /\ IF c \in DOMAIN record_branches'
                         THEN \E d \in DOMAIN branches' :
                                /\ record_branches'[c] = d
                                /\ \E i \in 2..Len(branches'[d].history) :
                                     branches'[d].history[i].id = c
                         ELSE \E i \in 1..Len(histories'[by_id'[c].thread]) :
                                histories'[by_id'[c].thread][i].id = c
    BY DEF IndexComplete
  <2>1. CASE c = r.id
    <3>1. Len(h) + 1 \in 2..Len(g)
      BY <1>e
    <3> QED BY <1>e, <2>1, <3>1
  <2>2. CASE c \in DOMAIN by_id /\ c \in DOMAIN record_branches
    <3>1. PICK d \in DOMAIN branches :
            /\ record_branches[c] = d
            /\ \E i \in 2..Len(branches[d].history) : branches[d].history[i].id = c
      BY <2>2 DEF IndexComplete
    <3>2. PICK i \in 2..Len(branches[d].history) : branches[d].history[i].id = c
      BY <3>1
    <3>3. i \in 2..Len(branches'[d].history) /\ branches'[d].history[i].id = c
      <4>1. CASE d = b
        <5>1. i \in 1..Len(h) /\ i \in 2..Len(g)
          BY <1>e, <3>2, <4>1
        <5> QED BY <1>e, <3>2, <4>1, <5>1
      <4>2. CASE d # b
        BY <1>e, <3>2, <4>2
      <4> QED BY <4>1, <4>2
    <3> QED BY <1>e, <1>s, <2>2, <3>1, <3>3 DEF IndexComplete
  <2>3. CASE c \in DOMAIN by_id /\ c \notin DOMAIN record_branches
    BY <1>e, <2>3 DEF IndexComplete
  <2> QED BY <1>e, <2>1, <2>2, <2>3
<1>4. DistinctIds'
  <2>1. ASSUME NEW d \in DOMAIN branches, NEW i \in 1..Len(branches'[d].history),
               NEW j \in 1..Len(branches'[d].history),
               branches'[d].history[i].id = branches'[d].history[j].id
        PROVE  i = j
    <3>1. CASE d # b
      BY <1>e, <2>1, <3>1 DEF DistinctIds
    <3>2. CASE d = b
      <4>1. \A k, l \in 1..Len(h) : h[k].id = h[l].id => k = l
        BY <1>e DEF DistinctIds
      <4>2. i \in 1..Len(h) \/ i = Len(h) + 1
        BY <1>e, <3>2
      <4>3. j \in 1..Len(h) \/ j = Len(h) + 1
        BY <1>e, <3>2
      <4>4. g[i].id = g[j].id
        BY <2>1, <3>2
      <4> HIDE DEF g, h
      <4> QED BY <1>e, <1>h, <4>1, <4>2, <4>3, <4>4
    <3> QED BY <3>1, <3>2
  <2> QED BY <1>e, <2>1 DEF DistinctIds
<1>5. ParentStored'
  <2>1. r.parent \in DOMAIN by_id /\ r.parent # r.id
    <3>1. Len(h) \in 1..Len(h)
      BY <1>e
    <3> QED BY <1>e, <1>h, <3>1
  <2> QED BY <1>e, <2>1 DEF ParentStored
<1>6. SourceParentOutside'
  <2>1. ASSUME NEW d \in DOMAIN branches, NEW i \in 1..Len(branches'[d].history)
        PROVE  branches'[d].history[i].id # branches'[d].history[1].parent
    <3>1. CASE d # b
      BY <1>e, <2>1, <3>1 DEF SourceParentOutside
    <3>2. CASE d = b
      <4>1. 1 \in 1..Len(h) /\ g[1] = h[1]
        BY <1>e
      <4>2. h[1].parent \in DOMAIN by_id \cup {NoCheckpoint}
        BY <1>h, <4>1 DEF ParentStored
      <4>3. r.id # h[1].parent
        BY <1>e, <4>2, RecordFields, NoCheckpointAssumption
      <4>4. \A k \in 1..Len(h) : h[k].id # h[1].parent
        BY <1>e DEF SourceParentOutside
      <4>5. i \in 1..Len(h) \/ i = Len(h) + 1
        BY <1>e, <3>2
      <4>6. g[i].id # g[1].parent
        <5> HIDE DEF g, h
        <5> QED BY <1>e, <4>1, <4>3, <4>4, <4>5
      <4> QED BY <3>2, <4>6
    <3> QED BY <3>1, <3>2
  <2> QED BY <1>e, <2>1 DEF SourceParentOutside
<1>7. BranchRecordsStored'
  BY <1>e DEF BranchRecordsStored
<1> QED BY <1>1, <1>2, <1>3, <1>4, <1>5, <1>6, <1>7

LEMMA CreateBranchPreserves ==
  ASSUME IInv, NEW t \in ThreadId, NEW b \in BranchId, NEW c \in CheckpointId,
         CreateBranchOpen(t, b, c)
  PROVE  LineageInv'
<1> USE DEF IInv, LineageInv
<1>e. /\ b \notin DOMAIN branches
      /\ c \in DOMAIN by_id /\ by_id[c].thread = t /\ by_id[c] \in Record
      /\ DOMAIN branches' = DOMAIN branches \cup {b}
      /\ branches'[b].thread = t /\ branches'[b].history = <<by_id[c]>>
      /\ \A d \in DOMAIN branches : branches'[d] = branches[d]
      /\ by_id' = by_id /\ record_branches' = record_branches
      /\ histories' = histories
  BY CreateBranchEffect
<1>c. by_id[c].id = c /\ by_id[c].parent # c
  BY <1>e DEF IndexComplete, ParentStored
<1>1. DefaultLineage'
  BY <1>e DEF DefaultLineage, Indexed
<1>2. BranchLineage'
  BY <1>e, <1>c DEF BranchLineage, Indexed
<1>3. IndexComplete'
  BY <1>e DEF IndexComplete
<1>4. DistinctIds'
  BY <1>e DEF DistinctIds
<1>5. ParentStored'
  BY <1>e DEF ParentStored
<1>6. SourceParentOutside'
  BY <1>e, <1>c DEF SourceParentOutside
<1>7. BranchRecordsStored'
  BY <1>e DEF BranchRecordsStored
<1> QED BY <1>1, <1>2, <1>3, <1>4, <1>5, <1>6, <1>7

LEMMA UnchangedPreserves ==
  ASSUME IInv, UNCHANGED contents
  PROVE  LineageInv'
BY DEF IInv, LineageInv, contents, DefaultLineage, BranchLineage, Indexed,
       IndexComplete, DistinctIds, ParentStored, SourceParentOutside,
       BranchRecordsStored

--------------------------------------------------------------------------------
(* The theorems.                                                           *)

LEMMA InitLineage == Init => IInv
<1> SUFFICES ASSUME Init PROVE IInv
  OBVIOUS
<1>1. TypeOK
  BY InitType
<1>2. /\ \A t \in ThreadId : Len(histories[t]) = 0
      /\ DOMAIN by_id = {} /\ DOMAIN record_branches = {} /\ DOMAIN branches = {}
  BY DEF Init, EmptyMap
<1>3. LineageInv
  BY <1>2 DEF LineageInv, DefaultLineage, BranchLineage, IndexComplete, DistinctIds,
              ParentStored, SourceParentOutside, BranchRecordsStored
<1> QED BY <1>1, <1>3 DEF IInv

LEMMA NextLineage == IInv /\ [Next]_vars => IInv'
<1> SUFFICES ASSUME IInv, [Next]_vars PROVE IInv'
  OBVIOUS
<1>1. TypeOK'
  BY NextType DEF IInv
<1>2. LineageInv'
  BY StepCases, UnchangedPreserves, SavePreserves, SaveBranchPreserves,
     CreateBranchPreserves
<1> QED BY <1>1, <1>2 DEF IInv

(* The inductive invariant holds throughout.                                *)
THEOREM LineageInvariant == Spec => []IInv
<1>1. Init => IInv
  BY InitLineage
<1>2. IInv /\ [Next]_vars => IInv'
  BY NextLineage
<1> QED BY <1>1, <1>2, PTL DEF Spec

(* Within a lineage a parent is continued once: identifiers are distinct, and the   *)
(* parent of a branch's source lies outside of the branch.                     *)
LEMMA ParentsDiffer == IInv => SingleSuccessor
<1> SUFFICES ASSUME IInv PROVE SingleSuccessor
  OBVIOUS
<1>1. ASSUME NEW t \in ThreadId, NEW i \in 1..Len(histories[t]),
             NEW j \in 1..Len(histories[t]),
             histories[t][i].parent = histories[t][j].parent
      PROVE  i = j
  <2> DEFINE h == histories[t]
  <2>1. h \in Seq(Record) /\ Len(h) \in Nat
    BY LenProperties DEF IInv, TypeOK
  <2>2. \A k \in 1..Len(h) : h[k].id \in CheckpointId
    BY <2>1, ElementOfSeq, RecordFields
  <2>3. \A k \in 1..Len(h) : h[k].parent = IF k = 1 THEN NoCheckpoint ELSE h[k - 1].id
    BY DEF IInv, LineageInv, DefaultLineage
  <2>4. \A k, l \in 1..Len(h) : h[k].id = h[l].id => k = l
    BY DEF IInv, LineageInv, DistinctIds
  <2>5. h[i].parent = h[j].parent
    BY <1>1
  <2>6. /\ i = 1 \/ i - 1 \in 1..Len(h)
        /\ j = 1 \/ j - 1 \in 1..Len(h)
    BY <2>1
  <2> HIDE DEF h
  <2>7. i \in 1..Len(h) /\ j \in 1..Len(h)
    BY DEF h
  <2> QED BY <2>2, <2>3, <2>4, <2>5, <2>6, <2>7, NoCheckpointAssumption
<1>2. ASSUME NEW b \in DOMAIN branches, NEW i \in 1..Len(branches[b].history),
             NEW j \in 1..Len(branches[b].history),
             branches[b].history[i].parent = branches[b].history[j].parent
      PROVE  i = j
  <2> DEFINE h == branches[b].history
  <2>1. h \in Seq(Record) /\ Len(h) \in Nat
    <3>1. branches[b] \in Branch
      BY DEF IInv, TypeOK, IsPartialMap
    <3> QED BY <3>1, LenProperties DEF Branch
  <2>2. \A k \in 2..Len(h) : h[k].parent = h[k - 1].id
    BY DEF IInv, LineageInv, BranchLineage
  <2>3. \A k, l \in 1..Len(h) : h[k].id = h[l].id => k = l
    BY DEF IInv, LineageInv, DistinctIds
  <2>4. \A k \in 1..Len(h) : h[k].id # h[1].parent
    BY DEF IInv, LineageInv, SourceParentOutside
  <2>5. h[i].parent = h[j].parent
    BY <1>2
  <2>6. i \in 1..Len(h) /\ j \in 1..Len(h)
    OBVIOUS
  <2> HIDE DEF h
  <2>7. \A k \in 1..Len(h) : k = 1 \/ (k \in 2..Len(h) /\ k - 1 \in 1..Len(h))
    BY <2>1
  <2>8. /\ i # 1 => h[i].parent = h[i - 1].id /\ i - 1 \in 1..Len(h)
        /\ j # 1 => h[j].parent = h[j - 1].id /\ j - 1 \in 1..Len(h)
    BY <2>2, <2>6, <2>7
  <2>9. CASE i = 1 \/ j = 1
    BY <2>4, <2>5, <2>8, <2>9
  <2>10. CASE i # 1 /\ j # 1
    <3>1. i - 1 = j - 1
      BY <2>3, <2>5, <2>8, <2>10
    <3> QED BY <2>1, <2>6, <3>1
  <2> QED BY <2>9, <2>10
<1> QED BY <1>1, <1>2 DEF SingleSuccessor

(* The compare-and-set loses no update, in any lineage: two records of one       *)
(* lineage never continue the same parent.                                    *)
THEOREM NoLostUpdate == Spec => []SingleSuccessor
BY ParentsDiffer, LineageInvariant, PTL

(* Each default lineage is one chain of parents, and so is each branch: insert,  *)
(* insert_branch and create_branch keep them so, and the index get uses holds    *)
(* exactly the records the lineages list.                                     *)
THEOREM LineagesAreChains == Spec => []LineagesChained
<1>1. IInv => LineagesChained
  BY ParentsDiffer DEF IInv, LineageInv, LineagesChained
<1> QED BY <1>1, LineageInvariant, PTL

(* Repeating a write that was made is acknowledged for ever after, however far     *)
(* the lineage has advanced: the idempotency lookup precedes the compare-and-set.  *)
THEOREM RetryIsAccepted == Spec => []RetryAccepted
<1>1. IInv => RetryAccepted
  <2> SUFFICES ASSUME IInv, NEW c \in DOMAIN by_id
               PROVE  IF c \in DOMAIN record_branches
                      THEN SaveBranchResult(record_branches[c], by_id[c]) = "Ok"
                      ELSE SaveResult(by_id[c]) = "Ok"
    BY DEF RetryAccepted
  <2>1. by_id[c].id = c
    BY DEF IInv, LineageInv, IndexComplete
  <2> QED BY <2>1 DEF SaveBranchResult, SaveResult, Fresh
<1> QED BY <1>1, LineageInvariant, PTL

--------------------------------------------------------------------------------
(* What no step may do.                                                     *)

LEMMA PrefixOfAppend ==
  ASSUME NEW S, NEW s \in Seq(S), NEW e \in S
  PROVE  IsPrefix(s, Append(s, e)) /\ IsPrefix(s, s)
<1>1. Len(s) \in Nat /\ Len(Append(s, e)) = Len(s) + 1
  BY LenProperties, AppendProperties
<1>2. \A i \in 1..Len(s) : Append(s, e)[i] = s[i]
  BY AppendProperties
<1>3. SubSeq(s, 1, Len(s)) = SubSeq(Append(s, e), 1, Len(s))
  BY <1>1, <1>2
<1> QED BY <1>1, <1>3 DEF IsPrefix

(* No call of any writer removes, reorders or rewrites a stored record, or moves   *)
(* a branch to another thread.                                                *)
THEOREM StoreIsAppendOnly == Spec => AppendOnly
<1>1. IInv /\ [Next]_vars => AppendOnlyStep
  <2> SUFFICES ASSUME IInv, [Next]_vars PROVE AppendOnlyStep
    OBVIOUS
  <2>t. /\ TypeOK /\ BranchLineage
        /\ \A t \in ThreadId : histories[t] \in Seq(Record)
        /\ \A b \in DOMAIN branches : branches[b].history \in Seq(Record)
    BY DEF IInv, LineageInv, TypeOK, IsPartialMap, Branch
  <2>s. \A s : s \in Seq(Record) => IsPrefix(s, s)
    BY LenProperties DEF IsPrefix
  <2>1. CASE UNCHANGED contents
    BY <2>1, <2>t, <2>s DEF AppendOnlyStep, contents
  <2>2. ASSUME NEW r \in Record, SaveAppend(r) PROVE AppendOnlyStep
    <3>1. IsPrefix(histories[r.thread], histories'[r.thread])
      BY <2>2, <2>t, RecordFields, PrefixOfAppend DEF SaveAppend, TypeOK
    <3> QED BY <2>2, <2>t, <2>s, <3>1, SaveEffect DEF AppendOnlyStep
  <2>3. ASSUME NEW r \in Record, NEW b \in BranchId, SaveBranchAppend(b, r)
        PROVE  AppendOnlyStep
    <3>1. SaveBranchChange(b, r)
      BY <2>3, <2>t, SaveBranchEffect
    <3>2. IsPrefix(branches[b].history, branches'[b].history)
      BY <3>1, PrefixOfAppend DEF SaveBranchChange
    <3> QED BY <2>t, <2>s, <3>1, <3>2 DEF AppendOnlyStep, SaveBranchChange
  <2>4. ASSUME NEW t \in ThreadId, NEW b \in BranchId, NEW c \in CheckpointId,
               CreateBranchOpen(t, b, c)
        PROVE  AppendOnlyStep
    BY <2>4, <2>t, <2>s, CreateBranchEffect DEF AppendOnlyStep
  <2> QED BY <2>1, <2>2, <2>3, <2>4, StepCases
<1> QED BY <1>1, LineageInvariant, PTL DEF Spec, AppendOnly

--------------------------------------------------------------------------------
(* Refinement.                                                              *)

LEMMA IdsOfAppend ==
  ASSUME NEW h \in Seq(Record), NEW r \in Record
  PROVE  /\ Ids(h) \in Seq(CheckpointId) /\ Len(Ids(h)) = Len(h)
         /\ Ids(Append(h, r)) = Append(Ids(h), r.id)
<1>1. Len(h) \in Nat /\ \A i \in 1..Len(h) : h[i].id \in CheckpointId
  BY LenProperties, ElementOfSeq, RecordFields
<1>2. Ids(h) \in Seq(CheckpointId) /\ Len(Ids(h)) = Len(h)
  BY <1>1 DEF Ids
<1>3. Len(Append(h, r)) = Len(h) + 1 /\ Append(h, r)[Len(h) + 1] = r
      /\ \A i \in 1..Len(h) : Append(h, r)[i] = h[i]
  BY AppendProperties
<1>4. Ids(Append(h, r)) = Append(Ids(h), r.id)
  <2>1. /\ Append(Ids(h), r.id) \in Seq(CheckpointId)
        /\ Len(Append(Ids(h), r.id)) = Len(h) + 1
        /\ \A i \in 1..Len(h) : Append(Ids(h), r.id)[i] = h[i].id
        /\ Append(Ids(h), r.id)[Len(h) + 1] = r.id
    BY <1>1, <1>2, RecordFields, AppendProperties DEF Ids
  <2>2. /\ Ids(Append(h, r)) \in Seq(CheckpointId)
        /\ Len(Ids(Append(h, r))) = Len(h) + 1
        /\ \A i \in 1..(Len(h) + 1) : Ids(Append(h, r))[i] = Append(h, r)[i].id
    BY <1>1, <1>3, RecordFields DEF Ids
  <2>3. \A i \in 1..(Len(h) + 1) : Append(Ids(h), r.id)[i] = Ids(Append(h, r))[i]
    BY <1>1, <1>3, <2>1, <2>2
  <2> QED BY <2>1, <2>2, <2>3, SeqEqual
<1> QED BY <1>2, <1>4

(* The identifiers LineageLog sees in some lineage are the stored ones.         *)
LEMMA StoredIds ==
  ASSUME IInv, NEW c \in CheckpointId
  PROVE  Lineages!Stored(c) <=> c \in DOMAIN by_id
<1> DEFINE threads == [t \in ThreadId |-> Ids(histories[t])]
           logs == [b \in BranchId |->
                      IF b \in DOMAIN branches THEN Ids(branches[b].history) ELSE <<>>]
<1>t. /\ \A t \in ThreadId : histories[t] \in Seq(Record)
      /\ \A b \in DOMAIN branches : b \in BranchId /\ branches[b].history \in Seq(Record)
  BY DEF IInv, TypeOK, IsPartialMap, Branch
<1>i. \A h \in Seq(Record) :
        Len(Ids(h)) = Len(h) /\ \A i \in 1..Len(h) : Ids(h)[i] = h[i].id
  BY LenProperties DEF Ids
<1>s. Lineages!Stored(c) <=>
        \/ \E t \in ThreadId : \E i \in 1..Len(threads[t]) : threads[t][i] = c
        \/ \E b \in BranchId : \E i \in 1..Len(logs[b]) : logs[b][i] = c
  BY DEF Lineages!Stored
<1>1. ASSUME NEW t \in ThreadId, NEW i \in 1..Len(threads[t]), threads[t][i] = c
      PROVE  c \in DOMAIN by_id
  <2>1. i \in 1..Len(histories[t]) /\ histories[t][i].id = c
    BY <1>1, <1>t, <1>i
  <2> QED BY <2>1 DEF IInv, LineageInv, DefaultLineage, Indexed
<1>2. ASSUME NEW b \in BranchId, NEW i \in 1..Len(logs[b]), logs[b][i] = c
      PROVE  c \in DOMAIN by_id
  <2>1. b \in DOMAIN branches
    BY <1>2
  <2>2. i \in 1..Len(branches[b].history) /\ branches[b].history[i].id = c
    BY <1>2, <1>t, <1>i, <2>1
  <2> QED BY <2>1, <2>2 DEF IInv, LineageInv, BranchLineage, Indexed
<1>3. ASSUME c \in DOMAIN by_id
      PROVE  \/ \E t \in ThreadId : \E i \in 1..Len(threads[t]) : threads[t][i] = c
             \/ \E b \in BranchId : \E i \in 1..Len(logs[b]) : logs[b][i] = c
  <2>1. CASE c \in DOMAIN record_branches
    <3>1. PICK b \in DOMAIN branches : \E i \in 2..Len(branches[b].history) :
                                        branches[b].history[i].id = c
      BY <1>3, <2>1 DEF IInv, LineageInv, IndexComplete
    <3>2. PICK i \in 2..Len(branches[b].history) : branches[b].history[i].id = c
      BY <3>1
    <3>3. b \in BranchId /\ logs[b] = Ids(branches[b].history)
      BY <1>t
    <3>4. i \in 1..Len(branches[b].history)
      BY <1>t, <3>2, LenProperties
    <3> QED BY <1>t, <1>i, <3>2, <3>3, <3>4
  <2>2. CASE c \notin DOMAIN record_branches
    <3>1. PICK i \in 1..Len(histories[by_id[c].thread]) :
                 histories[by_id[c].thread][i].id = c
      BY <1>3, <2>2 DEF IInv, LineageInv, IndexComplete
    <3>2. by_id[c].thread \in ThreadId
      BY <1>3, RecordFields DEF IInv, TypeOK, IsPartialMap
    <3> QED BY <1>t, <1>i, <3>1, <3>2
  <2> QED BY <2>1, <2>2
<1> QED BY <1>s, <1>1, <1>2, <1>3

(* Each call maps to a step of LineageLog or leaves its logs alone.             *)
LEMMA StepRefines ==
  ASSUME IInv, [Next]_vars
  PROVE  [Lineages!Next]_(Lineages!vars)
<1> DEFINE threads == [t \in ThreadId |-> Ids(histories[t])]
           logs == [b \in BranchId |->
                      IF b \in DOMAIN branches THEN Ids(branches[b].history) ELSE <<>>]
<1>t. /\ TypeOK /\ BranchLineage
      /\ \A t \in ThreadId : histories[t] \in Seq(Record)
      /\ \A b \in DOMAIN branches : b \in BranchId /\ branches[b].history \in Seq(Record)
  BY DEF IInv, LineageInv, TypeOK, IsPartialMap, Branch
<1>1. CASE UNCHANGED contents
  BY <1>1 DEF contents, Lineages!vars
<1>2. ASSUME NEW r \in Record, SaveAppend(r) PROVE Lineages!Next
  <2>1. r.id \in CheckpointId /\ r.thread \in ThreadId
    BY RecordFields
  <2>2. ~ Lineages!Stored(r.id)
    BY <1>2, <1>t, <2>1, SaveEffect, StoredIds
  <2>3. threads' = [threads EXCEPT ![r.thread] = Append(@, r.id)]
    <3>1. Ids(histories'[r.thread]) = Append(Ids(histories[r.thread]), r.id)
      BY <1>2, <1>t, <2>1, IdsOfAppend DEF SaveAppend, TypeOK
    <3>2. \A t \in ThreadId : t # r.thread => histories'[t] = histories[t]
      BY <1>2, <1>t, SaveEffect
    <3> QED BY <2>1, <3>1, <3>2
  <2>4. logs' = logs
    BY <1>2 DEF SaveAppend
  <2>5. Lineages!AppendToThread(r.thread, r.id)
    BY <2>2, <2>3, <2>4 DEF Lineages!AppendToThread
  <2> QED BY <2>1, <2>5 DEF Lineages!Next
<1>3. ASSUME NEW r \in Record, NEW b \in BranchId, SaveBranchAppend(b, r)
      PROVE  Lineages!Next
  <2>1. r.id \in CheckpointId
    BY RecordFields
  <2>2. SaveBranchChange(b, r)
    BY <1>3, <1>t, SaveBranchEffect
  <2>3. ~ Lineages!Stored(r.id)
    BY <2>1, <2>2, StoredIds DEF SaveBranchChange
  <2>4. Ids(branches'[b].history) = Append(Ids(branches[b].history), r.id)
    BY <2>2, IdsOfAppend DEF SaveBranchChange
  <2>5. logs' = [logs EXCEPT ![b] = Append(@, r.id)]
    BY <2>2, <2>4 DEF SaveBranchChange
  <2>6. logs[b] # <<>>
    <3>1. Len(Ids(branches[b].history)) # 0
      BY <2>2, IdsOfAppend DEF SaveBranchChange
    <3> QED BY <2>2, <3>1 DEF SaveBranchChange
  <2>7. threads' = threads
    BY <2>2 DEF SaveBranchChange
  <2>8. Lineages!AppendToBranch(b, r.id)
    BY <2>3, <2>5, <2>6, <2>7 DEF Lineages!AppendToBranch
  <2> QED BY <2>1, <2>8 DEF Lineages!Next
<1>4. ASSUME NEW t \in ThreadId, NEW b \in BranchId, NEW c \in CheckpointId,
             CreateBranchOpen(t, b, c)
      PROVE  Lineages!Next
  <2>1. /\ b \notin DOMAIN branches
        /\ c \in DOMAIN by_id /\ by_id[c] \in Record
        /\ DOMAIN branches' = DOMAIN branches \cup {b}
        /\ branches'[b].history = <<by_id[c]>>
        /\ \A d \in DOMAIN branches : branches'[d] = branches[d]
        /\ histories' = histories
    BY <1>4, <1>t, CreateBranchEffect
  <2>2. by_id[c].id = c
    BY <2>1 DEF IInv, LineageInv, IndexComplete
  <2>3. Ids(branches'[b].history) = <<c>>
    BY <2>1, <2>2 DEF Ids
  <2>4. Lineages!Stored(c)
    BY <2>1, StoredIds
  <2>5. logs[b] = <<>> /\ logs' = [logs EXCEPT ![b] = <<c>>]
    BY <2>1, <2>3
  <2>6. Lineages!OpenBranch(b, c)
    BY <2>1, <2>4, <2>5 DEF Lineages!OpenBranch
  <2> QED BY <2>6 DEF Lineages!Next
<1> QED BY <1>1, <1>2, <1>3, <1>4, StepCases

(* The store implements the append-only logs: an identifier enters one lineage     *)
(* once, a lineage only grows, and a branch is opened once, on a stored record.     *)
THEOREM Refinement == Spec => ImplementsLineageLog
<1>1. Init => Lineages!Init
  BY DEF Init, EmptyMap, Ids, Lineages!Init
<1>2. IInv /\ [Next]_vars => [Lineages!Next]_(Lineages!vars)
  BY StepRefines
<1> QED BY <1>1, <1>2, LineageInvariant, PTL DEF Spec, ImplementsLineageLog, Lineages!Spec
================================================================================
