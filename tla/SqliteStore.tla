------------------------------ MODULE SqliteStore ------------------------------
(***************************************************************************)
(* The SQLite checkpoint store                                             *)
(* (crates/group-agent-checkpoint-sqlite/src/lib.rs and its migrations).   *)
(*                                                                         *)
(* The four tables are kept as committed (db).  A write runs in one        *)
(* BEGIN IMMEDIATE transaction, statement by statement, on its own copy of *)
(* the tables (txn.db); SQLite admits one such transaction at a time, and  *)
(* a writer that waits for it longer than the busy timeout fails.  A       *)
(* statement error, a dropped future and a crash of the process all roll   *)
(* the transaction back, between any two statements.  Readers see the      *)
(* committed tables: every read is one statement, or one read transaction. *)
(*                                                                         *)
(* The store is shown to implement CheckpointStore, through the queries    *)
(* its own readers run.                                                    *)
(*                                                                         *)
(* Abstracted: a row of group_checkpoint_records is the record it encodes; *)
(* the sequence column is the position in db.records.                      *)
(***************************************************************************)
EXTENDS Naturals, SequencesExt

CONSTANTS ThreadId, BranchId, CheckpointId, Content, NoCheckpoint,
          NoTransaction

ASSUME NoCheckpointAssumption == NoCheckpoint \notin CheckpointId

VARIABLES
  db,      \* the committed tables
  txn,     \* the write transaction in progress: [call, step, db]
  reply    \* outcome of the latest call, as its caller sees it

vars == <<db, txn, reply>>

Record == [id : CheckpointId, thread : ThreadId,
           parent : CheckpointId \cup {NoCheckpoint}, content : Content]

SaveCall == [op : {"save"}, record : Record]
SaveBranchCall == [op : {"save_branch"}, branch : BranchId, record : Record]
CreateBranchCall ==
  [op : {"create_branch"}, thread : ThreadId, branch : BranchId,
   source : CheckpointId]
Call == SaveCall \cup SaveBranchCall \cup CreateBranchCall

(* The tables: records in sequence order, thread -> head, branch -> row,    *)
(* checkpoint -> membership row.                                           *)
EmptyMap == [x \in {} |-> NoCheckpoint]

EmptyTables ==
  [records |-> <<>>, heads |-> EmptyMap, branches |-> EmptyMap,
   members |-> EmptyMap]

Put(f, k, v) == [x \in DOMAIN f \cup {k} |-> IF x = k THEN v ELSE f[x]]

--------------------------------------------------------------------------------
(* Queries.                                                                *)

RowsOf(d) == ToSet(d.records)
Has(d, c) == \E r \in RowsOf(d) : r.id = c
RowById(d, c) == CHOOSE r \in RowsOf(d) : r.id = c

(* fetch_head: the primary key of group_checkpoint_heads is the thread.    *)
HeadRow(d, t) == IF t \in DOMAIN d.heads THEN d.heads[t] ELSE NoCheckpoint

MemberOf(d, c, t) == c \in DOMAIN d.members /\ d.members[c].thread = t

(* SELECT ... ORDER BY sequence: the rows of s in S, in their order.          *)
Picked(s, S) ==
  LET picked[i \in 0..Len(s)] ==
        IF i = 0 THEN <<>>
        ELSE IF s[i] \in S THEN Append(picked[i - 1], s[i]) ELSE picked[i - 1]
  IN picked[Len(s)]

(* Mutant of HistoryRows: branch records are not excluded.                   *)
HistoryRowsUnfiltered(d, t) == Picked(d.records, {r \in RowsOf(d) : r.thread = t})

(* history: the thread's rows that no branch claims, by sequence.          *)
HistoryRows(d, t) ==
  Picked(d.records, {r \in RowsOf(d) : r.thread = t /\ ~ MemberOf(d, r.id, t)})

(* fetch_branch_history: the source, then the members by sequence.         *)
BranchMembers(d, t, b) ==
  Picked(d.records,
         {r \in RowsOf(d) : MemberOf(d, r.id, t) /\ d.members[r.id].branch = b})

BranchRows(d, t, b) ==
  <<RowById(d, d.branches[b].source)>> \o BranchMembers(d, t, b)

HasBranch(d, t, b) == b \in DOMAIN d.branches /\ d.branches[b].thread = t

(* What fetch_branch_history verifies before it returns the rows: each      *)
(* selected identifier has a record of the owning thread and occurs once,   *)
(* each row continues the one before it, and the head is the last row.      *)
BranchRowsValid(d, t, b) ==
  LET row == d.branches[b]
      selected == {c \in DOMAIN d.members : d.members[c].branch = b
                                            /\ d.members[c].thread = t}
      rows == BranchRows(d, t, b)
  IN /\ \A c \in selected \cup {row.source, row.head} :
          Has(d, c) /\ RowById(d, c).thread = t
     /\ row.source \notin selected
     /\ \A i \in 2..Len(rows) : rows[i].parent = rows[i - 1].id
     /\ row.head \in selected \cup {row.source}
     /\ Last(rows).id = row.head

--------------------------------------------------------------------------------
(* The checks each write makes before its first modification: "Continue"    *)
(* when it goes on to write, otherwise the answer it rolls back with.       *)
(* "Corrupt" is the storage failure that reports inconsistent tables.       *)

SaveLookup(d, k) ==
  LET r == k.record IN
  IF Has(d, r.id)
  THEN IF RowById(d, r.id) = r THEN "Ok" ELSE "IdempotencyConflict"
  ELSE IF HeadRow(d, r.thread) # r.parent THEN "Conflict"
  ELSE "Continue"

(* A repeated branch write is judged by its membership row, whose owner and  *)
(* branch are cross-checked first.                                         *)
RepeatedBranchSave(d, k) ==
  LET r == k.record
      isMember == r.id \in DOMAIN d.members /\ d.members[r.id].branch = k.branch
  IN IF isMember /\ d.members[r.id].thread # r.thread THEN "Corrupt"
     ELSE IF ~ isMember \/ RowById(d, r.id) # r THEN "IdempotencyConflict"
     ELSE IF ~ HasBranch(d, r.thread, k.branch) THEN "Corrupt"
     ELSE "Ok"

SaveBranchLookup(d, k) ==
  LET r == k.record
      head == d.branches[k.branch].head
  IN IF Has(d, r.id) THEN RepeatedBranchSave(d, k)
     ELSE IF ~ HasBranch(d, r.thread, k.branch) THEN "BranchNotFound"
     ELSE IF ~ Has(d, head) \/ RowById(d, head).thread # r.thread THEN "Corrupt"
     ELSE IF head # r.parent THEN "Conflict"
     ELSE "Continue"

CreateBranchLookup(d, k) ==
  IF k.branch \in DOMAIN d.branches THEN "BranchAlreadyExists"
  ELSE IF ~ (Has(d, k.source) /\ RowById(d, k.source).thread = k.thread)
  THEN "BranchSourceNotFound"
  ELSE "Continue"

Lookup(d, k) ==
  CASE k.op = "save" -> SaveLookup(d, k)
    [] k.op = "save_branch" -> SaveBranchLookup(d, k)
    [] k.op = "create_branch" -> CreateBranchLookup(d, k)

--------------------------------------------------------------------------------
(* Statements.                                                             *)

InsertRecord(d, r) == [d EXCEPT !.records = Append(@, r)]

UpdateHead(d, r) == [d EXCEPT !.heads = Put(@, r.thread, r.id)]

InsertMember(d, b, r) ==
  [d EXCEPT !.members = Put(@, r.id, [thread |-> r.thread, branch |-> b])]

UpdateBranchHead(d, b, r) == [d EXCEPT !.branches[b].head = r.id]

InsertBranch(d, k) ==
  [d EXCEPT !.branches =
     Put(@, k.branch,
         [thread |-> k.thread, source |-> k.source, head |-> k.source])]

(* Mutants of Statements: a branch write leaves the branch head where it was,   *)
(* or moves it before the record is a member.                               *)
StatementsKeepBranchHead(op) ==
  CASE op = "save" -> <<"record", "head">>
    [] op = "save_branch" -> <<"record", "member">>
    [] op = "create_branch" -> <<"branch">>

StatementsHeadBeforeMember(op) ==
  CASE op = "save" -> <<"record", "head">>
    [] op = "save_branch" -> <<"record", "branch_head", "member">>
    [] op = "create_branch" -> <<"branch">>

(* The statements of each write, in the order the code issues them.        *)
Statements(op) ==
  CASE op = "save" -> <<"record", "head">>
    [] op = "save_branch" -> <<"record", "member", "branch_head">>
    [] op = "create_branch" -> <<"branch">>

Run(d, k, statement) ==
  CASE statement = "record" -> InsertRecord(d, k.record)
    [] statement = "head" -> UpdateHead(d, k.record)
    [] statement = "member" -> InsertMember(d, k.branch, k.record)
    [] statement = "branch_head" -> UpdateBranchHead(d, k.branch, k.record)
    [] statement = "branch" -> InsertBranch(d, k)

--------------------------------------------------------------------------------
(* The transaction.                                                        *)

IdOf(k) == IF k.op = "create_branch" THEN k.source ELSE k.record.id

Answer(result, k) == reply' = [result |-> result, id |-> IdOf(k)]

Init ==
  /\ db = EmptyTables
  /\ txn = NoTransaction
  /\ reply = [result |-> "Ok", id |-> NoCheckpoint]

InTransaction == txn # NoTransaction

(* begin_save: the write lock is taken at once, before anything is read.   *)
Begin(k) ==
  /\ ~ InTransaction
  /\ txn' = [call |-> k, step |-> 0, db |-> db]
  /\ UNCHANGED <<db, reply>>

(* Another writer held the lock for the whole busy timeout of a call about    *)
(* this checkpoint.                                                         *)
Busy(c) ==
  /\ InTransaction
  /\ reply' = [result |-> "Failed", id |-> c]
  /\ UNCHANGED <<db, txn>>

(* The checks answer the call; the transaction is rolled back.             *)
LookupAnswers ==
  /\ InTransaction /\ txn.step = 0
  /\ Lookup(txn.db, txn.call) # "Continue"
  /\ Answer(Lookup(txn.db, txn.call), txn.call)
  /\ txn' = NoTransaction
  /\ UNCHANGED db

LookupContinues ==
  /\ InTransaction /\ txn.step = 0
  /\ Lookup(txn.db, txn.call) = "Continue"
  /\ txn' = [txn EXCEPT !.step = 1]
  /\ UNCHANGED <<db, reply>>

Execute ==
  /\ InTransaction
  /\ txn.step \in 1..Len(Statements(txn.call.op))
  /\ txn' = [txn EXCEPT !.step = @ + 1,
                        !.db = Run(@, txn.call, Statements(txn.call.op)[txn.step])]
  /\ UNCHANGED <<db, reply>>

Commit ==
  /\ InTransaction
  /\ txn.step = Len(Statements(txn.call.op)) + 1
  /\ db' = txn.db
  /\ txn' = NoTransaction
  /\ Answer("Ok", txn.call)

(* A statement or the commit fails: the caller gets a storage failure and    *)
(* the dropped transaction is rolled back.                                  *)
StatementFails ==
  /\ InTransaction
  /\ Answer("Failed", txn.call)
  /\ txn' = NoTransaction
  /\ UNCHANGED db

(* The future of the call is dropped (its run was cancelled or timed out)    *)
(* or the process dies: nobody is answered.                                 *)
Dropped ==
  /\ InTransaction
  /\ txn' = NoTransaction
  /\ UNCHANGED <<db, reply>>

Next ==
  \/ \E k \in Call : Begin(k)
  \/ \E c \in CheckpointId : Busy(c)
  \/ LookupAnswers
  \/ LookupContinues
  \/ Execute
  \/ Commit
  \/ StatementFails
  \/ Dropped

Spec == Init /\ [][Next]_vars

--------------------------------------------------------------------------------
(* Properties.                                                             *)

IsMap(f, K, V) == DOMAIN f \subseteq K /\ f \in [DOMAIN f -> V]

IsTables(d) ==
  /\ d.records \in Seq(Record)
  /\ IsMap(d.heads, ThreadId, CheckpointId)
  /\ IsMap(d.branches, BranchId,
           [thread : ThreadId, source : CheckpointId, head : CheckpointId])
  /\ IsMap(d.members, CheckpointId, [thread : ThreadId, branch : BranchId])

(* latest reads the heads table and history reads the records that no        *)
(* branch claims: over the committed tables the two always agree, the head   *)
(* is the last row of the history.                                         *)
HeadIsLastOfHistory ==
  \A t \in ThreadId :
    LET rows == HistoryRows(db, t) IN
    HeadRow(db, t) = IF rows = <<>> THEN NoCheckpoint ELSE Last(rows).id

(* The corruption checks of fetch_branch_history never reject tables that    *)
(* only this store has written, whichever writes failed half way.           *)
BranchReadsNeverCorrupt ==
  \A t \in ThreadId, b \in BranchId : HasBranch(db, t, b) => BranchRowsValid(db, t, b)

(* Nor do the ownership checks of save_branch, for a caller that keeps an    *)
(* identifier on one thread: a write is answered with a corruption report    *)
(* only when its identifier is stored under another thread.                 *)
CorruptionMeansOtherThread ==
  InTransaction /\ txn.step = 0 /\ Lookup(txn.db, txn.call) = "Corrupt" =>
    /\ Has(txn.db, IdOf(txn.call))
    /\ RowById(txn.db, IdOf(txn.call)).thread # txn.call.record.thread

(* No reader and no writer of tables that only this store has written is ever  *)
(* misled by them: the two default reads agree, and corruption is reported    *)
(* only to a caller that reuses an identifier across threads.               *)
ReadsAgree ==
  /\ HeadIsLastOfHistory
  /\ BranchReadsNeverCorrupt
  /\ CorruptionMeansOtherThread

(* The durable-execution design says of a write that reuses a stored         *)
(* identifier: "different content under the same ID is an idempotency        *)
(* conflict".                                                               *)
DifferentContentConflicts ==
  /\ InTransaction /\ txn.step = 0 /\ txn.call.op \in {"save", "save_branch"}
  /\ Has(txn.db, txn.call.record.id)
  /\ RowById(txn.db, txn.call.record.id) # txn.call.record
  => Lookup(txn.db, txn.call) = "IdempotencyConflict"

(* The constraints and triggers of the migrations, which abort the statement *)
(* when they do not hold: identifiers are unique; a membership row names a    *)
(* record that continues the current head of its branch; a head that is not  *)
(* the source has its membership row.                                       *)
ConstraintHolds(d, k, statement) ==
  CASE statement = "record" -> ~ Has(d, k.record.id)
    [] statement = "head" ->
         /\ Has(d, k.record.id)
         /\ \A t \in DOMAIN d.heads : d.heads[t] = k.record.id => t = k.record.thread
    [] statement = "member" ->
         /\ Has(d, k.record.id) /\ HasBranch(d, k.record.thread, k.branch)
         /\ k.record.id \notin DOMAIN d.members
         /\ k.record.parent = d.branches[k.branch].head
    [] statement = "branch_head" ->
         /\ MemberOf(d, k.record.id, k.record.thread)
         /\ d.members[k.record.id].branch = k.branch
    [] statement = "branch" ->
         /\ k.branch \notin DOMAIN d.branches
         /\ Has(d, k.source) /\ RowById(d, k.source).thread = k.thread

(* No statement of save, save_branch or create_branch ever trips a           *)
(* constraint or a trigger: a write that passed its checks is aborted by a    *)
(* storage fault only.                                                      *)
ConstraintsNeverFire ==
  InTransaction /\ txn.step \in 1..Len(Statements(txn.call.op)) =>
    ConstraintHolds(txn.db, txn.call, Statements(txn.call.op)[txn.step])

(* What the readers make of the tables.                                     *)
HistoriesOf(d) == [t \in ThreadId |-> HistoryRows(d, t)]

IndexOf(d) == [c \in {r.id : r \in RowsOf(d)} |-> RowById(d, c)]

RecordBranchesOf(d) == [c \in DOMAIN d.members |-> d.members[c].branch]

BranchesOf(d) ==
  [b \in DOMAIN d.branches |->
     [thread |-> d.branches[b].thread,
      history |-> BranchRows(d, d.branches[b].thread, b)]]

(* A corruption report is one of the storage failures of the contract.      *)
ReplyOf(answer) ==
  IF answer.result = "Corrupt" THEN [answer EXCEPT !.result = "Failed"] ELSE answer

(* What readers of the committed tables see is a CheckpointStore.            *)
Store == INSTANCE CheckpointStore WITH
  histories <- HistoriesOf(db), by_id <- IndexOf(db),
  record_branches <- RecordBranchesOf(db), branches <- BranchesOf(db),
  reply <- ReplyOf(reply)

(* Every behaviour of the SQLite store, with its rolled back transactions,    *)
(* is one of the atomic in-memory store.                                    *)
ImplementsCheckpointStore == Store!Spec
================================================================================
