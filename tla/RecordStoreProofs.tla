--------------------------- MODULE RecordStoreProofs ---------------------------
(***************************************************************************)
(* Proofs about the two layers that keep checkpoint records: SqliteStore   *)
(* and, above a store, CheckpointCache.  The two are independent; each     *)
(* half proves theorems about its own specification.                       *)
(*                                                                         *)
(* SqliteStore, for every set of threads, branches, identifiers and        *)
(* contents: the store implements CheckpointStore, its readers are never   *)
(* misled, and its constraints never fire.  Nothing but a commit changes   *)
(* the committed tables, and a transaction works on a copy that is the     *)
(* committed tables with the statements run so far (Working): SQLite       *)
(* admits one writer, so what the checks of a write found still holds when *)
(* it commits.  The committed tables are Sound: the heads, which           *)
(* compare-and-set reads, are the last rows of what the history queries    *)
(* select, and a branch's rows are one chain.                              *)
(*                                                                         *)
(* CheckpointCache, for any number of tasks, checkpoints and overlapping   *)
(* loads, any cleanup floor, and a store that may lie.  That handles are   *)
(* shared is inductive only with its reason: whatever a caller holds is    *)
(* the object its entry refers to.  An entry is overwritten or scanned     *)
(* away only when nobody holds its object, so no handle is ever orphaned.  *)
(* That a conflict is real rests on where the adapter's records come from: *)
(* each one, in an entry or in a call under way, is in the log or its      *)
(* checkpoint has been lied about, and the log holds one record of a       *)
(* checkpoint.                                                             *)
(***************************************************************************)
EXTENDS SqliteStore, CheckpointCache, FiniteSetTheorems, SequenceTheorems,
        WellFoundedInduction, TLAPS

--------------------------------------------------------------------------------
(* Picking rows in order.                                                    *)

(* Every set of naturals that is not empty has a least element.             *)
LEMMA LeastNumber ==
  ASSUME NEW S \in SUBSET Nat, S # {}
  PROVE  \E m \in S : \A k \in S : m <= k
<1>1. \E R : IsWellFoundedOn(R, Nat) /\ \A x, y \in Nat : x < y => <<x, y>> \in R
  <2>1. \A x, y \in Nat : x < y => <<x, y>> \in OpToRel(<, Nat)
    BY DEF OpToRel
  <2>2. IsWellFoundedOn(OpToRel(<, Nat), Nat)
    BY NatLessThanWellFounded
  <2> HIDE DEF OpToRel
  <2> QED BY <2>1, <2>2, Zenon
<1>2. PICK R : IsWellFoundedOn(R, Nat) /\ \A x, y \in Nat : x < y => <<x, y>> \in R
  BY <1>1
<1>3. PICK m \in S : \A k \in S : ~ (<<k, m>> \in R)
  <2>1. S \subseteq Nat
    OBVIOUS
  <2>2. IsWellFoundedOn(R, Nat)
    BY <1>2
  <2>3. \E m \in S : \A k \in S : ~ (<<k, m>> \in R)
    BY <2>1, <2>2, WFMin, ZenonT(30)
  <2> QED BY <2>3
<1>4. ASSUME NEW k \in S PROVE m <= k
  <2>1. m \in Nat /\ k \in Nat
    OBVIOUS
  <2>2. ~ (k < m)
    BY <2>1, <1>2, <1>3, Zenon
  <2> QED BY <2>1, <2>2
<1> QED BY <1>4

(* f picks from the first n rows of s those in S.                             *)
Picks(s, S, n, f) ==
  f = [i \in 0..n |-> IF i = 0 THEN <<>>
                      ELSE IF s[i] \in S THEN Append(f[i - 1], s[i]) ELSE f[i - 1]]

(* What picking does row by row.                                              *)
LEMMA PicksRows ==
  ASSUME NEW s, NEW S, NEW n \in Nat, NEW f, Picks(s, S, n, f)
  PROVE  /\ f[0] = <<>>
         /\ \A i \in 1..n : f[i] = IF s[i] \in S THEN Append(f[i - 1], s[i]) ELSE f[i - 1]
<1>1. \A i \in 0..n : f[i] = IF i = 0 THEN <<>>
                             ELSE IF s[i] \in S THEN Append(f[i - 1], s[i]) ELSE f[i - 1]
  BY DEF Picks
<1>2. 0 \in 0..n /\ \A i \in 1..n : i \in 0..n /\ i # 0
  OBVIOUS
<1> QED BY <1>1, <1>2

(* It can be done: otherwise take the fewest rows where it cannot.                *)
LEMMA PicksExist ==
  ASSUME NEW s, NEW S
  PROVE  \A n \in Nat : \E f : Picks(s, S, n, f)
<1> DEFINE Bad == {n \in Nat : ~ \E f : Picks(s, S, n, f)}
<1> SUFFICES ASSUME Bad # {} PROVE FALSE
  OBVIOUS
<1>1. PICK m \in Bad : \A k \in Bad : m <= k
  BY LeastNumber
<1>2. m # 0
  <2>1. Picks(s, S, 0, [i \in 0..0 |-> <<>>])
    BY DEF Picks
  <2> QED BY <2>1
<1>3. PICK f : Picks(s, S, m - 1, f)
  <2>1. m - 1 \in Nat /\ m - 1 \notin Bad
    BY <1>1, <1>2
  <2> QED BY <2>1
<1> DEFINE last == IF s[m] \in S THEN Append(f[m - 1], s[m]) ELSE f[m - 1]
           h == [i \in 0..m |-> IF i = m THEN last ELSE f[i]]
<1>4. Picks(s, S, m, h)
  <2>1. \A i \in 0..(m - 1) : f[i] = IF i = 0 THEN <<>>
                                     ELSE IF s[i] \in S THEN Append(f[i - 1], s[i]) ELSE f[i - 1]
    BY <1>3 DEF Picks
  <2>2. \A i \in 0..m : h[i] = IF i = 0 THEN <<>>
                               ELSE IF s[i] \in S THEN Append(h[i - 1], s[i]) ELSE h[i - 1]
    BY <2>1, <1>2
  <2> QED BY <2>2 DEF Picks
<1> QED BY <1>4

(* Picked is what picking ends with.                                           *)
LEMMA PickedPicks ==
  ASSUME NEW s, NEW S, Len(s) \in Nat
  PROVE  \E f : Picks(s, S, Len(s), f) /\ Picked(s, S) = f[Len(s)]
<1> DEFINE P(f) == f = [i \in 0..Len(s) |->
                         IF i = 0 THEN <<>>
                         ELSE IF s[i] \in S THEN Append(f[i - 1], s[i]) ELSE f[i - 1]]
           g == CHOOSE f : P(f)
<1>1. \A f : P(f) <=> Picks(s, S, Len(s), f)
  BY DEF Picks
<1>2. Picked(s, S) = g[Len(s)]
  BY DEF Picked
<1>3. \E f : Picks(s, S, Len(s), f)
  BY PicksExist
<1> HIDE DEF P
<1>4. P(g)
  BY <1>1, <1>3
<1> HIDE DEF g
<1> QED BY <1>1, <1>2, <1>4

(* Rows that are alike are picked alike: otherwise take the first that are not.     *)
LEMMA PicksAgree ==
  ASSUME NEW s, NEW S, NEW f, NEW t, NEW T, NEW g, NEW n \in Nat, NEW m \in Nat, NEW k \in Nat,
         Picks(s, S, n, f), Picks(t, T, m, g), k <= n, k <= m,
         \A i \in 1..k : s[i] = t[i] /\ (s[i] \in S <=> t[i] \in T)
  PROVE  f[k] = g[k]
<1> DEFINE Bad == {i \in 0..k : f[i] # g[i]}
<1> SUFFICES ASSUME Bad # {} PROVE FALSE
  OBVIOUS
<1>1. PICK j \in Bad : \A i \in Bad : j <= i
  <2>1. Bad \in SUBSET Nat
    OBVIOUS
  <2> QED BY <2>1, LeastNumber
<1>2. j # 0
  <2>1. f[0] = <<>> /\ g[0] = <<>>
    BY PicksRows
  <2> QED BY <2>1
<1>3. j \in 1..k /\ j - 1 \in 0..k /\ j - 1 \notin Bad
  BY <1>1, <1>2
<1>4. f[j - 1] = g[j - 1]
  BY <1>3
<1>5. /\ f[j] = IF s[j] \in S THEN Append(f[j - 1], s[j]) ELSE f[j - 1]
      /\ g[j] = IF t[j] \in T THEN Append(g[j - 1], t[j]) ELSE g[j - 1]
  <2>1. j \in 1..n /\ j \in 1..m
    BY <1>3
  <2>2. \A i \in 1..n : f[i] = IF s[i] \in S THEN Append(f[i - 1], s[i]) ELSE f[i - 1]
    BY PicksRows
  <2>3. \A i \in 1..m : g[i] = IF t[i] \in T THEN Append(g[i - 1], t[i]) ELSE g[i - 1]
    BY PicksRows
  <2> QED BY <2>1, <2>2, <2>3
<1> QED BY <1>3, <1>4, <1>5

(* Nothing is picked from no rows.                                             *)
LEMMA PickedEmpty ==
  ASSUME NEW S
  PROVE  Picked(<<>>, S) = <<>>
<1>1. Len(<<>>) = 0
  OBVIOUS
<1>2. PICK f : Picks(<<>>, S, 0, f) /\ Picked(<<>>, S) = f[0]
  BY <1>1, PickedPicks
<1>3. f[0] = <<>>
  BY <1>2 DEF Picks
<1> QED BY <1>2, <1>3

(* The rows picked depend only on which of the rows are in the set.               *)
LEMMA PickedSame ==
  ASSUME NEW R, NEW s \in Seq(R), NEW S, NEW T,
         \A i \in 1..Len(s) : s[i] \in S <=> s[i] \in T
  PROVE  Picked(s, S) = Picked(s, T)
<1>1. Len(s) \in Nat
  OBVIOUS
<1>2. PICK f : Picks(s, S, Len(s), f) /\ Picked(s, S) = f[Len(s)]
  BY <1>1, PickedPicks
<1>3. PICK g : Picks(s, T, Len(s), g) /\ Picked(s, T) = g[Len(s)]
  BY <1>1, PickedPicks
<1>4. f[Len(s)] = g[Len(s)]
  BY <1>1, <1>2, <1>3, PicksAgree
<1> QED BY <1>2, <1>3, <1>4

(* A row inserted last is picked last.                                          *)
LEMMA PickedAppend ==
  ASSUME NEW R, NEW s \in Seq(R), NEW x \in R, NEW S
  PROVE  Picked(Append(s, x), S) = IF x \in S THEN Append(Picked(s, S), x) ELSE Picked(s, S)
<1> DEFINE n == Len(s)
           t == Append(s, x)
<1>1. n \in Nat /\ Len(t) = n + 1 /\ t[n + 1] = x /\ \A i \in 1..n : t[i] = s[i]
  OBVIOUS
<1> HIDE DEF t
<1>2. PICK f : Picks(s, S, n, f) /\ Picked(s, S) = f[n]
  BY <1>1, PickedPicks
<1> HIDE DEF n
<1>3. PICK g : Picks(t, S, n + 1, g) /\ Picked(t, S) = g[n + 1]
  BY <1>1, PickedPicks
<1>4. g[n + 1] = IF x \in S THEN Append(g[n], x) ELSE g[n]
  BY <1>1, <1>3, PicksRows
<1>5. f[n] = g[n]
  <2>1. PICK m \in Nat : m = n + 1
    BY <1>1
  <2>2. n \in Nat /\ n <= n /\ n <= m
    BY <2>1, <1>1
  <2>3. \A i \in 1..n : s[i] = t[i] /\ (s[i] \in S <=> t[i] \in S)
    BY <1>1
  <2>4. Picks(s, S, n, f) /\ Picks(t, S, m, g)
    BY <2>1, <1>2, <1>3
  <2> QED BY <2>2, <2>3, <2>4, PicksAgree
<1> QED BY <1>2, <1>3, <1>4, <1>5 DEF t

(* Only rows that are in the set are picked.                                    *)
LEMMA PickedType ==
  ASSUME NEW R, NEW s \in Seq(R), NEW S
  PROVE  Picked(s, S) \in Seq({s[i] : i \in 1..Len(s)} \cap S)
<1> DEFINE Q == {s[i] : i \in 1..Len(s)} \cap S
<1>1. Len(s) \in Nat
  OBVIOUS
<1>2. PICK f : Picks(s, S, Len(s), f) /\ Picked(s, S) = f[Len(s)]
  BY <1>1, PickedPicks
<1> DEFINE Bad == {i \in 0..Len(s) : f[i] \notin Seq(Q)}
<1>3. Bad = {}
  <2> SUFFICES ASSUME Bad # {} PROVE FALSE
    OBVIOUS
  <2>1. PICK j \in Bad : \A i \in Bad : j <= i
    <3>1. Bad \in SUBSET Nat
      BY <1>1
    <3> HIDE DEF Bad
    <3> QED BY <3>1, LeastNumber
  <2>2. f[0] = <<>>
    BY <1>1, <1>2, PicksRows
  <2>3. j # 0
    <3>1. <<>> \in Seq(Q)
      OBVIOUS
    <3> HIDE DEF Q
    <3> QED BY <2>2, <3>1
  <2>4. j \in 1..Len(s) /\ j - 1 \in 0..Len(s) /\ j - 1 \notin Bad
    BY <2>1, <2>3, <1>1
  <2>5. f[j - 1] \in Seq(Q)
    BY <2>4
  <2>6. f[j] = IF s[j] \in S THEN Append(f[j - 1], s[j]) ELSE f[j - 1]
    BY <2>4, <1>1, <1>2, PicksRows
  <2>7. s[j] \in S => s[j] \in Q
    BY <2>4
  <2> HIDE DEF Q
  <2>8. f[j] \in Seq(Q)
    BY <2>5, <2>6, <2>7
  <2> QED BY <2>8
<1> QED BY <1>1, <1>2, <1>3

--------------------------------------------------------------------------------
(* The inductive invariant.                                                     *)

Typed(d) == DOMAIN d = {"records", "heads", "branches", "members"} /\ IsTables(d)

(* An identifier is one row's.                                                  *)
UniqueRows(d) == \A r, q \in RowsOf(d) : r.id = q.id => r = q

(* A membership row is of a stored record and of a branch of its thread.            *)
MembersSound(d) ==
  \A c \in DOMAIN d.members :
    /\ Has(d, c) /\ RowById(d, c).thread = d.members[c].thread
    /\ HasBranch(d, d.members[c].thread, d.members[c].branch)

(* The head a writer compares with is the last row a reader sees.                  *)
HeadsSound(d) ==
  \A t \in ThreadId :
    LET rows == HistoryRows(d, t)
    IN  HeadRow(d, t) = IF rows = <<>> THEN NoCheckpoint ELSE rows[Len(rows)].id

BranchSound(d, b) ==
  LET row == d.branches[b]
      rows == BranchRows(d, row.thread, b)
  IN  /\ Has(d, row.source) /\ RowById(d, row.source).thread = row.thread
      /\ ~ (row.source \in DOMAIN d.members /\ d.members[row.source].branch = b)
      /\ \A i \in 2..Len(rows) : rows[i].parent = rows[i - 1].id
      /\ rows[Len(rows)].id = row.head

BranchesSound(d) == \A b \in DOMAIN d.branches : BranchSound(d, b)

Sound(d) ==
  Typed(d) /\ UniqueRows(d) /\ MembersSound(d) /\ HeadsSound(d) /\ BranchesSound(d)

(* The tables after the statements that come before the given one, for each write.    *)
SaveTables(d, r, step) ==
  CASE step = 1 -> d
    [] step = 2 -> InsertRecord(d, r)
    [] step = 3 -> UpdateHead(InsertRecord(d, r), r)

SaveBranchTables(d, b, r, step) ==
  CASE step = 1 -> d
    [] step = 2 -> InsertRecord(d, r)
    [] step = 3 -> InsertMember(InsertRecord(d, r), b, r)
    [] step = 4 -> UpdateBranchHead(InsertMember(InsertRecord(d, r), b, r), b, r)

CreateBranchTables(d, k, step) ==
  CASE step = 1 -> d
    [] step = 2 -> InsertBranch(d, k)

(* A write has passed its checks and run the statements before this one.             *)
Writing(d, k, step, x) ==
  \/ /\ k \in SaveCall /\ step \in 1..3 /\ x = SaveTables(d, k.record, step)
  \/ /\ k \in SaveBranchCall /\ step \in 1..4
     /\ x = SaveBranchTables(d, k.branch, k.record, step)
  \/ /\ k \in CreateBranchCall /\ step \in 1..2 /\ x = CreateBranchTables(d, k, step)

(* What a transaction works on.                                                 *)
Working(x) ==
  /\ x.call \in Call /\ DOMAIN x = {"call", "step", "db"}
  /\ \/ x.step = 0 /\ x.db = db
     \/ Lookup(db, x.call) = "Continue" /\ Writing(db, x.call, x.step, x.db)

Inv == Sound(db) /\ (InTransaction => Working(txn))

--------------------------------------------------------------------------------
(* Queries.                                                                     *)

(* What the typed tables hold.                                                   *)
LEMMA TypedTables ==
  ASSUME NEW d, Typed(d)
  PROVE  /\ d.records \in Seq(Record) /\ RowsOf(d) \subseteq Record
         /\ RowsOf(d) = {d.records[i] : i \in 1..Len(d.records)}
         /\ DOMAIN d.members \subseteq CheckpointId /\ DOMAIN d.branches \subseteq BranchId
         /\ \A b \in DOMAIN d.branches :
              d.branches[b] \in [thread : ThreadId, source : CheckpointId, head : CheckpointId]
         /\ \A c \in DOMAIN d.members :
              d.members[c].thread \in ThreadId /\ d.members[c].branch \in BranchId
         /\ DOMAIN d.heads \subseteq ThreadId
         /\ \A t \in DOMAIN d.heads : d.heads[t] \in CheckpointId
<1>1. /\ d.records \in Seq(Record) /\ DOMAIN d.members \subseteq CheckpointId
      /\ DOMAIN d.branches \subseteq BranchId /\ DOMAIN d.heads \subseteq ThreadId
      /\ d.members \in [DOMAIN d.members -> [thread : ThreadId, branch : BranchId]]
      /\ d.heads \in [DOMAIN d.heads -> CheckpointId]
      /\ d.branches \in [DOMAIN d.branches ->
                          [thread : ThreadId, source : CheckpointId, head : CheckpointId]]
  BY DEF Typed, IsTables, IsMap
<1>2. RowsOf(d) = {d.records[i] : i \in 1..Len(d.records)}
  BY <1>1 DEF RowsOf, ToSet
<1>3. RowsOf(d) \subseteq Record
  BY <1>1, <1>2
<1> QED BY <1>1, <1>2, <1>3

(* An identifier's row.                                                          *)
LEMMA RowFacts ==
  ASSUME NEW d, Typed(d), UniqueRows(d)
  PROVE  /\ \A c : Has(d, c) => RowById(d, c) \in RowsOf(d) /\ RowById(d, c).id = c
         /\ \A r \in RowsOf(d) : Has(d, r.id) /\ RowById(d, r.id) = r
<1>1. \A c : Has(d, c) => RowById(d, c) \in RowsOf(d) /\ RowById(d, c).id = c
  BY DEF Has, RowById
<1>2. ASSUME NEW r \in RowsOf(d) PROVE Has(d, r.id) /\ RowById(d, r.id) = r
  <2>1. Has(d, r.id)
    BY DEF Has
  <2> QED BY <2>1, <1>1 DEF UniqueRows
<1> QED BY <1>1, <1>2

(* Every row a query lists is stored, and is one it asked for.                      *)
LEMMA PickedRows ==
  ASSUME NEW d, Typed(d), NEW S, S \subseteq RowsOf(d)
  PROVE  Picked(d.records, S) \in Seq(S)
<1>1. PICK s : s = d.records
  OBVIOUS
<1>2. s \in Seq(Record) /\ RowsOf(d) = {s[i] : i \in 1..Len(s)}
  BY <1>1, TypedTables
<1>3. Picked(s, S) \in Seq({s[i] : i \in 1..Len(s)} \cap S)
  BY <1>2, PickedType
<1>4. {s[i] : i \in 1..Len(s)} \cap S = S
  BY <1>2
<1> QED BY <1>1, <1>3, <1>4, Zenon

LEMMA ListedRows ==
  ASSUME NEW d, Typed(d), NEW t
  PROVE  HistoryRows(d, t) \in Seq(RowsOf(d))
<1> DEFINE S == {r \in RowsOf(d) : r.thread = t /\ ~ MemberOf(d, r.id, t)}
<1>1. S \subseteq RowsOf(d) /\ HistoryRows(d, t) = Picked(d.records, S)
  BY DEF HistoryRows
<1> HIDE DEF S
<1>2. Picked(d.records, S) \in Seq(S)
  BY <1>1, PickedRows
<1> QED BY <1>1, <1>2

LEMMA ListedMembers ==
  ASSUME NEW d, Typed(d), NEW t, NEW b
  PROVE  /\ BranchMembers(d, t, b) \in Seq(RowsOf(d))
         /\ \A i \in 1..Len(BranchMembers(d, t, b)) :
              /\ MemberOf(d, BranchMembers(d, t, b)[i].id, t)
              /\ d.members[BranchMembers(d, t, b)[i].id].branch = b
<1> DEFINE S == {r \in RowsOf(d) : MemberOf(d, r.id, t) /\ d.members[r.id].branch = b}
<1>1. /\ S \subseteq RowsOf(d) /\ BranchMembers(d, t, b) = Picked(d.records, S)
      /\ \A r \in S : MemberOf(d, r.id, t) /\ d.members[r.id].branch = b
  BY DEF BranchMembers
<1> HIDE DEF S
<1>2. Picked(d.records, S) \in Seq(S)
  BY <1>1, PickedRows
<1>3. PICK s \in Seq(S) : s = BranchMembers(d, t, b)
  BY <1>1, <1>2
<1>4. \A i \in 1..Len(s) : MemberOf(d, s[i].id, t) /\ d.members[s[i].id].branch = b
  BY <1>1
<1>5. s \in Seq(RowsOf(d))
  BY <1>1
<1> QED BY <1>3, <1>4, <1>5

(* e is d with the row r, and with a membership row for it or not.                  *)
Inserted(d, e, r) ==
  /\ ~ Has(d, r.id) /\ e.records = Append(d.records, r)
  /\ DOMAIN e.members \cup {r.id} = DOMAIN d.members \cup {r.id}
  /\ \A c \in DOMAIN d.members : c # r.id => e.members[c] = d.members[c]

(* Inserting a row: the queries list it last, or not at all.                         *)
LEMMA InsertQueries ==
  ASSUME NEW d, NEW e, NEW r \in Record, Typed(d), Inserted(d, e, r), NEW t
  PROVE  /\ HistoryRows(e, t) =
              IF r.thread = t /\ ~ MemberOf(e, r.id, t) THEN Append(HistoryRows(d, t), r)
              ELSE HistoryRows(d, t)
         /\ \A b : BranchMembers(e, t, b) =
                     IF MemberOf(e, r.id, t) /\ e.members[r.id].branch = b
                     THEN Append(BranchMembers(d, t, b), r) ELSE BranchMembers(d, t, b)
<1> ~ Has(d, r.id) /\ e.records = Append(d.records, r)
  BY DEF Inserted
<1>1. /\ d.records \in Seq(Record) /\ RowsOf(d) = {d.records[i] : i \in 1..Len(d.records)}
  BY TypedTables
<1>2. RowsOf(e) = RowsOf(d) \cup {r}
  <2>1. e.records \in Seq(Record)
    BY <1>1
  <2>2. RowsOf(e) = {e.records[i] : i \in 1..Len(e.records)}
    BY <2>1 DEF RowsOf, ToSet
  <2>3. /\ Len(d.records) \in Nat /\ Len(e.records) = Len(d.records) + 1
        /\ e.records[Len(d.records) + 1] = r
        /\ \A i \in 1..Len(d.records) : e.records[i] = d.records[i]
    BY <1>1
  <2> QED BY <1>1, <2>2, <2>3
<1>3. \A q \in RowsOf(d) : q.id # r.id
  BY DEF Has
<1>4. \A i \in 1..Len(d.records) : d.records[i] \in RowsOf(d)
  BY <1>1
<1> DEFINE Listed(x, u) == {q \in RowsOf(x) : q.thread = u /\ ~ MemberOf(x, q.id, u)}
           Claimed(x, u, b) ==
             {q \in RowsOf(x) : MemberOf(x, q.id, u) /\ x.members[q.id].branch = b}
<1>5. ASSUME NEW q \in RowsOf(d)
      PROVE  (q \in Listed(e, t) <=> q \in Listed(d, t))
             /\ \A b : q \in Claimed(e, t, b) <=> q \in Claimed(d, t, b)
  BY <1>2, <1>3 DEF MemberOf, Inserted
<1>6. /\ r \in Listed(e, t) <=> (r.thread = t /\ ~ MemberOf(e, r.id, t))
      /\ \A b : r \in Claimed(e, t, b) <=> (MemberOf(e, r.id, t) /\ e.members[r.id].branch = b)
  BY <1>2
<1>7. /\ HistoryRows(d, t) = Picked(d.records, Listed(d, t))
      /\ HistoryRows(e, t) = Picked(Append(d.records, r), Listed(e, t))
      /\ \A b : /\ BranchMembers(d, t, b) = Picked(d.records, Claimed(d, t, b))
                /\ BranchMembers(e, t, b) = Picked(Append(d.records, r), Claimed(e, t, b))
  BY DEF HistoryRows, BranchMembers
<1> HIDE DEF Listed, Claimed
<1>8. Picked(d.records, Listed(e, t)) = Picked(d.records, Listed(d, t))
  BY <1>1, <1>4, <1>5, PickedSame
<1>9. ASSUME NEW S
      PROVE  Picked(Append(d.records, r), S) =
               IF r \in S THEN Append(Picked(d.records, S), r) ELSE Picked(d.records, S)
  <2>1. ASSUME NEW s \in Seq(Record)
        PROVE  Picked(Append(s, r), S) =
                 IF r \in S THEN Append(Picked(s, S), r) ELSE Picked(s, S)
    BY PickedAppend, Zenon
  <2> QED BY <2>1, <1>1
<1>10. ASSUME NEW b
       PROVE  BranchMembers(e, t, b) =
                IF MemberOf(e, r.id, t) /\ e.members[r.id].branch = b
                THEN Append(BranchMembers(d, t, b), r) ELSE BranchMembers(d, t, b)
  <2>1. Picked(d.records, Claimed(e, t, b)) = Picked(d.records, Claimed(d, t, b))
    BY <1>1, <1>4, <1>5, PickedSame
  <2>2. Picked(Append(d.records, r), Claimed(e, t, b)) =
          IF r \in Claimed(e, t, b) THEN Append(Picked(d.records, Claimed(e, t, b)), r)
          ELSE Picked(d.records, Claimed(e, t, b))
    BY <1>9
  <2> QED BY <2>1, <2>2, <1>6, <1>7
<1> QED BY <1>6, <1>7, <1>8, <1>9, <1>10

(* Inserting a row with an identifier that is not stored.                           *)
LEMMA InsertRows ==
  ASSUME NEW d, NEW e, NEW r \in Record, Typed(d), UniqueRows(d), ~ Has(d, r.id),
         e.records = Append(d.records, r)
  PROVE  /\ RowsOf(e) = RowsOf(d) \cup {r}
         /\ UniqueRows(e)
         /\ \A c : Has(e, c) <=> Has(d, c) \/ c = r.id
         /\ \A c : Has(d, c) => RowById(e, c) = RowById(d, c) /\ c # r.id
         /\ RowById(e, r.id) = r
<1>1. /\ d.records \in Seq(Record) /\ RowsOf(d) = {d.records[i] : i \in 1..Len(d.records)}
  BY TypedTables
<1>2. RowsOf(e) = RowsOf(d) \cup {r}
  <2>1. e.records \in Seq(Record)
    BY <1>1
  <2>2. RowsOf(e) = {e.records[i] : i \in 1..Len(e.records)}
    BY <2>1 DEF RowsOf, ToSet
  <2>3. /\ Len(d.records) \in Nat /\ Len(e.records) = Len(d.records) + 1
        /\ e.records[Len(d.records) + 1] = r
        /\ \A i \in 1..Len(d.records) : e.records[i] = d.records[i]
    BY <1>1
  <2> QED BY <1>1, <2>2, <2>3
<1>3. \A q \in RowsOf(d) : q.id # r.id
  BY DEF Has
<1>4. UniqueRows(e)
  BY <1>2, <1>3 DEF UniqueRows
<1>5. \A c : Has(e, c) <=> Has(d, c) \/ c = r.id
  BY <1>2 DEF Has
<1>6. ASSUME NEW c, Has(d, c) PROVE RowById(e, c) = RowById(d, c) /\ c # r.id
  <2>1. RowById(d, c) \in RowsOf(d) /\ RowById(d, c).id = c
    BY <1>6, RowFacts
  <2>2. RowById(e, c) \in RowsOf(e) /\ RowById(e, c).id = c
    BY <1>5, <1>6 DEF Has, RowById
  <2> QED BY <2>1, <2>2, <1>2, <1>3, <1>4 DEF UniqueRows
<1>7. RowById(e, r.id) = r
  <2>1. RowById(e, r.id) \in RowsOf(e) /\ RowById(e, r.id).id = r.id
    BY <1>5 DEF Has, RowById
  <2> QED BY <2>1, <1>2, <1>3
<1> QED BY <1>2, <1>4, <1>5, <1>6, <1>7

--------------------------------------------------------------------------------
(* What each write does to the tables.                                            *)

(* The fields of a record.                                                        *)
LEMMA RecordFields ==
  ASSUME NEW r \in Record
  PROVE  r.id \in CheckpointId /\ r.thread \in ThreadId
BY DEF Record

(* INSERT INTO group_checkpoint_records.                                           *)
LEMMA InsertRecordFacts ==
  ASSUME NEW d, Typed(d), NEW r \in Record, NEW e, e = InsertRecord(d, r)
  PROVE  /\ Typed(e) /\ e.records = Append(d.records, r) /\ e.heads = d.heads
         /\ e.branches = d.branches /\ e.members = d.members
<1>1. /\ DOMAIN e = {"records", "heads", "branches", "members"}
      /\ e.records = Append(d.records, r) /\ e.heads = d.heads
      /\ e.branches = d.branches /\ e.members = d.members
  BY DEF Typed, InsertRecord
<1>2. e.records \in Seq(Record)
  BY <1>1, TypedTables
<1>3. Typed(e)
  BY <1>1, <1>2 DEF Typed, IsTables
<1> QED BY <1>1, <1>3

(* INSERT ... ON CONFLICT UPDATE of group_checkpoint_heads.                         *)
LEMMA UpdateHeadFacts ==
  ASSUME NEW d, Typed(d), NEW r \in Record, NEW e, e = UpdateHead(d, r)
  PROVE  /\ Typed(e) /\ e.records = d.records /\ e.branches = d.branches
         /\ e.members = d.members
         /\ HeadRow(e, r.thread) = r.id
         /\ \A t : t # r.thread => HeadRow(e, t) = HeadRow(d, t)
<1>1. /\ DOMAIN e = {"records", "heads", "branches", "members"}
      /\ e.records = d.records /\ e.heads = Put(d.heads, r.thread, r.id)
      /\ e.branches = d.branches /\ e.members = d.members
  BY DEF Typed, UpdateHead
<1>2. /\ IsMap(Put(d.heads, r.thread, r.id), ThreadId, CheckpointId)
      /\ DOMAIN Put(d.heads, r.thread, r.id) = DOMAIN d.heads \cup {r.thread}
      /\ Put(d.heads, r.thread, r.id)[r.thread] = r.id
      /\ \A x \in DOMAIN d.heads :
           x # r.thread => Put(d.heads, r.thread, r.id)[x] = d.heads[x]
  <2>1. IsMap(d.heads, ThreadId, CheckpointId)
    BY DEF Typed, IsTables
  <2>2. r.id \in CheckpointId /\ r.thread \in ThreadId
    BY RecordFields
  <2> DEFINE f == d.heads
             k == r.thread
             v == r.id
  <2> HIDE DEF f, k, v
  <2>3. IsMap(f, ThreadId, CheckpointId) /\ k \in ThreadId /\ v \in CheckpointId
    BY <2>1, <2>2 DEF f, k, v
  <2>4. /\ IsMap(Put(f, k, v), ThreadId, CheckpointId)
        /\ DOMAIN Put(f, k, v) = DOMAIN f \cup {k} /\ Put(f, k, v)[k] = v
        /\ \A x \in DOMAIN f : x # k => Put(f, k, v)[x] = f[x]
    BY <2>3 DEF Put, IsMap
  <2> QED BY <2>4, Zenon DEF f, k, v
<1>3. Typed(e)
  BY <1>1, <1>2 DEF Typed, IsTables
<1>4. HeadRow(e, r.thread) = r.id /\ \A t : t # r.thread => HeadRow(e, t) = HeadRow(d, t)
  BY <1>1, <1>2 DEF HeadRow
<1> QED BY <1>1, <1>3, <1>4

(* INSERT INTO the membership table.                                              *)
LEMMA InsertMemberFacts ==
  ASSUME NEW d, Typed(d), NEW r \in Record, NEW b \in BranchId, NEW e, e = InsertMember(d, b, r)
  PROVE  /\ Typed(e) /\ e.records = d.records /\ e.branches = d.branches
         /\ e.heads = d.heads
         /\ DOMAIN e.members = DOMAIN d.members \cup {r.id}
         /\ e.members[r.id].thread = r.thread /\ e.members[r.id].branch = b
         /\ \A c \in DOMAIN d.members : c # r.id => e.members[c] = d.members[c]
<1> DEFINE row == [thread |-> r.thread, branch |-> b]
<1>1. /\ DOMAIN e = {"records", "heads", "branches", "members"}
      /\ e.records = d.records /\ e.heads = d.heads /\ e.branches = d.branches
      /\ e.members = Put(d.members, r.id, row)
  BY DEF Typed, InsertMember
<1>2. /\ IsMap(Put(d.members, r.id, row), CheckpointId, [thread : ThreadId, branch : BranchId])
      /\ DOMAIN Put(d.members, r.id, row) = DOMAIN d.members \cup {r.id}
      /\ Put(d.members, r.id, row)[r.id] = row
      /\ \A x \in DOMAIN d.members : x # r.id => Put(d.members, r.id, row)[x] = d.members[x]
  <2>1. IsMap(d.members, CheckpointId, [thread : ThreadId, branch : BranchId])
    BY DEF Typed, IsTables
  <2>2. r.id \in CheckpointId /\ row \in [thread : ThreadId, branch : BranchId]
    BY RecordFields
  <2> DEFINE V == [thread : ThreadId, branch : BranchId]
             f == d.members
             k == r.id
  <2> HIDE DEF row, V, f, k
  <2>3. IsMap(f, CheckpointId, V) /\ k \in CheckpointId /\ row \in V
    BY <2>1, <2>2 DEF V, f, k
  <2>4. /\ IsMap(Put(f, k, row), CheckpointId, V)
        /\ DOMAIN Put(f, k, row) = DOMAIN f \cup {k} /\ Put(f, k, row)[k] = row
        /\ \A x \in DOMAIN f : x # k => Put(f, k, row)[x] = f[x]
    BY <2>3 DEF Put, IsMap
  <2> QED BY <2>4, Zenon DEF V, f, k
<1>3. row.thread = r.thread /\ row.branch = b
  OBVIOUS
<1> HIDE DEF row
<1>4. Typed(e)
  BY <1>1, <1>2 DEF Typed, IsTables
<1> QED BY <1>1, <1>2, <1>3, <1>4

(* UPDATE of a branch's head.                                                     *)
LEMMA UpdateBranchHeadFacts ==
  ASSUME NEW d, Typed(d), NEW r \in Record, NEW b \in DOMAIN d.branches,
         NEW e, e = UpdateBranchHead(d, b, r)
  PROVE  /\ Typed(e) /\ e.records = d.records /\ e.members = d.members
         /\ e.heads = d.heads /\ DOMAIN e.branches = DOMAIN d.branches
         /\ e.branches[b].head = r.id /\ e.branches[b].thread = d.branches[b].thread
         /\ e.branches[b].source = d.branches[b].source
         /\ \A c \in DOMAIN d.branches : c # b => e.branches[c] = d.branches[c]
<1> DEFINE Row == [thread : ThreadId, source : CheckpointId, head : CheckpointId]
           row == [d.branches[b] EXCEPT !.head = r.id]
<1>1. /\ DOMAIN e = {"records", "heads", "branches", "members"}
      /\ e.records = d.records /\ e.heads = d.heads /\ e.members = d.members
      /\ e.branches = [d.branches EXCEPT ![b] = row]
  BY DEF Typed, UpdateBranchHead
<1>2. d.branches \in [DOMAIN d.branches -> Row] /\ DOMAIN d.branches \subseteq BranchId
  BY DEF Typed, IsTables, IsMap
<1>3. /\ row \in Row /\ row.head = r.id /\ row.thread = d.branches[b].thread
      /\ row.source = d.branches[b].source
  <2>1. d.branches[b] \in Row /\ r.id \in CheckpointId
    BY <1>2, RecordFields
  <2> QED BY <2>1
<1> HIDE DEF row, Row
<1>4. /\ DOMAIN e.branches = DOMAIN d.branches /\ e.branches[b] = row
      /\ \A c \in DOMAIN d.branches : c # b => e.branches[c] = d.branches[c]
      /\ e.branches \in [DOMAIN e.branches -> Row]
  BY <1>1, <1>2, <1>3
<1>5. Typed(e)
  BY <1>1, <1>2, <1>4 DEF Typed, IsTables, IsMap, Row
<1> QED BY <1>1, <1>3, <1>4, <1>5

(* INSERT INTO the branch table.                                                   *)
LEMMA InsertBranchFacts ==
  ASSUME NEW d, Typed(d), NEW k \in CreateBranchCall, NEW e, e = InsertBranch(d, k)
  PROVE  /\ Typed(e) /\ e.records = d.records /\ e.members = d.members
         /\ e.heads = d.heads /\ DOMAIN e.branches = DOMAIN d.branches \cup {k.branch}
         /\ e.branches[k.branch].head = k.source
         /\ e.branches[k.branch].thread = k.thread
         /\ e.branches[k.branch].source = k.source
         /\ \A c \in DOMAIN d.branches : c # k.branch => e.branches[c] = d.branches[c]
<1> DEFINE Row == [thread : ThreadId, source : CheckpointId, head : CheckpointId]
           row == [thread |-> k.thread, source |-> k.source, head |-> k.source]
<1>1. /\ DOMAIN e = {"records", "heads", "branches", "members"}
      /\ e.records = d.records /\ e.heads = d.heads /\ e.members = d.members
      /\ e.branches = Put(d.branches, k.branch, row)
  BY DEF Typed, InsertBranch
<1>2. /\ row \in Row /\ k.branch \in BranchId /\ row.head = k.source
      /\ row.thread = k.thread /\ row.source = k.source
  BY DEF CreateBranchCall
<1>3. IsMap(d.branches, BranchId, Row)
  BY DEF Typed, IsTables
<1> HIDE DEF row
<1>4. /\ IsMap(Put(d.branches, k.branch, row), BranchId, Row)
      /\ DOMAIN Put(d.branches, k.branch, row) = DOMAIN d.branches \cup {k.branch}
      /\ Put(d.branches, k.branch, row)[k.branch] = row
      /\ \A x \in DOMAIN d.branches :
           x # k.branch => Put(d.branches, k.branch, row)[x] = d.branches[x]
  <2> HIDE DEF Row
  <2> DEFINE f == d.branches
             b == k.branch
  <2> HIDE DEF f, b
  <2>1. IsMap(f, BranchId, Row) /\ b \in BranchId /\ row \in Row
    BY <1>2, <1>3 DEF f, b
  <2>2. /\ IsMap(Put(f, b, row), BranchId, Row)
        /\ DOMAIN Put(f, b, row) = DOMAIN f \cup {b} /\ Put(f, b, row)[b] = row
        /\ \A x \in DOMAIN f : x # b => Put(f, b, row)[x] = f[x]
    BY <2>1 DEF Put, IsMap
  <2> QED BY <2>2, Zenon DEF f, b
<1>5. Typed(e)
  BY <1>1, <1>4 DEF Typed, IsTables
<1> QED BY <1>1, <1>2, <1>4, <1>5

(* The queries read two tables only.                                              *)
LEMMA SameQueries ==
  ASSUME NEW d, NEW e, e.records = d.records, e.members = d.members
  PROVE  /\ RowsOf(e) = RowsOf(d)
         /\ \A c : (Has(e, c) <=> Has(d, c)) /\ RowById(e, c) = RowById(d, c)
         /\ \A t : HistoryRows(e, t) = HistoryRows(d, t)
         /\ \A t, b : BranchMembers(e, t, b) = BranchMembers(d, t, b)
<1>1. RowsOf(e) = RowsOf(d)
  BY DEF RowsOf
<1>2. \A c, t : MemberOf(e, c, t) <=> MemberOf(d, c, t)
  BY DEF MemberOf
<1>3. \A c : (Has(e, c) <=> Has(d, c)) /\ RowById(e, c) = RowById(d, c)
  BY <1>1 DEF Has, RowById
<1>4. ASSUME NEW t PROVE HistoryRows(e, t) = HistoryRows(d, t)
  BY <1>1, <1>2 DEF HistoryRows
<1>5. ASSUME NEW t, NEW b PROVE BranchMembers(e, t, b) = BranchMembers(d, t, b)
  BY <1>1, <1>2 DEF BranchMembers
<1> QED BY <1>1, <1>3, <1>4, <1>5

LEMMA NoElements ==
  ASSUME NEW s \in Seq({})
  PROVE  s = <<>>
OBVIOUS

(* A branch's rows, when its source is stored, are the source and its members.          *)
LEMMA BranchRowsShape ==
  ASSUME NEW d, Typed(d), UniqueRows(d), NEW t, NEW b, Has(d, d.branches[b].source),
         NEW rows, rows = BranchRows(d, t, b)
  PROVE  /\ rows \in Seq(RowsOf(d)) /\ Len(rows) # 0
         /\ rows[1] = RowById(d, d.branches[b].source)
         /\ \A i \in 2..Len(rows) :
              MemberOf(d, rows[i].id, t) /\ d.members[rows[i].id].branch = b
<1> DEFINE first == RowById(d, d.branches[b].source)
           rest == BranchMembers(d, t, b)
           R == RowsOf(d)
<1>1. first \in R
  BY RowFacts
<1>2. rest \in Seq(R)
  BY ListedMembers
<1>3. \A i \in 1..Len(rest) : MemberOf(d, rest[i].id, t) /\ d.members[rest[i].id].branch = b
  BY ListedMembers
<1>4. rows = <<first>> \o rest
  BY DEF BranchRows
<1> HIDE DEF first, rest, R
<1>5. /\ rows \in Seq(R) /\ Len(rows) = Len(rest) + 1 /\ rows[1] = first
      /\ \A i \in 2..Len(rows) : rows[i] = rest[i - 1] /\ i - 1 \in 1..Len(rest)
      /\ Len(rest) \in Nat
  <2>1. <<first>> \in Seq(R) /\ Len(<<first>>) = 1 /\ <<first>>[1] = first
    BY <1>1
  <2>2. Len(rest) \in Nat
    BY <1>2
  <2>3. rows \in Seq(R)
    BY <2>1, <1>2, <1>4
  <2>4. Len(rows) = Len(rest) + 1 /\ rows[1] = first
    BY <2>1, <2>2, <1>2, <1>4
  <2>5. ASSUME NEW i \in 2..Len(rows)
        PROVE  rows[i] = rest[i - 1] /\ i - 1 \in 1..Len(rest)
    BY <2>1, <2>2, <2>4, <1>2, <1>4
  <2> QED BY <2>2, <2>3, <2>4, <2>5
<1>6. /\ \A i \in 2..Len(rows) : MemberOf(d, rows[i].id, t) /\ d.members[rows[i].id].branch = b
      /\ Len(rows) # 0
  BY <1>3, <1>5
<1>7. rows \in Seq(RowsOf(d)) /\ rows[1] = RowById(d, d.branches[b].source)
  BY <1>5 DEF R, first
<1> QED BY <1>6, <1>7

(* Appending to a branch's members is appending to its rows.                        *)
LEMMA ExtendedRows ==
  ASSUME NEW R, NEW x \in R, NEW s \in Seq(R), NEW r \in R
  PROVE  <<x>> \o Append(s, r) = Append(<<x>> \o s, r)
OBVIOUS

(* save appends to the thread's history and to nothing else.                        *)
LEMMA AfterSave ==
  ASSUME NEW d, Sound(d), NEW r \in Record, ~ Has(d, r.id)
  PROVE  LET e == UpdateHead(InsertRecord(d, r), r)
         IN  /\ Sound(e) /\ e.records = Append(d.records, r)
             /\ e.branches = d.branches /\ e.members = d.members
             /\ HistoryRows(e, r.thread) = Append(HistoryRows(d, r.thread), r)
             /\ \A t : t # r.thread => HistoryRows(e, t) = HistoryRows(d, t)
             /\ \A b \in DOMAIN d.branches :
                  BranchRows(e, d.branches[b].thread, b) = BranchRows(d, d.branches[b].thread, b)
<1>1. PICK m : m = InsertRecord(d, r)
  OBVIOUS
<1>2. PICK e : e = UpdateHead(m, r)
  OBVIOUS
<1>3. /\ Typed(d) /\ UniqueRows(d) /\ MembersSound(d) /\ HeadsSound(d) /\ BranchesSound(d)
  BY DEF Sound
<1>4. /\ Typed(m) /\ m.records = Append(d.records, r) /\ m.heads = d.heads
      /\ m.branches = d.branches /\ m.members = d.members
  BY <1>1, <1>3, InsertRecordFacts
<1>5. /\ Typed(e) /\ e.records = m.records /\ e.branches = m.branches
      /\ e.members = m.members /\ HeadRow(e, r.thread) = r.id
      /\ \A t : t # r.thread => HeadRow(e, t) = HeadRow(m, t)
  BY <1>2, <1>4, UpdateHeadFacts
<1>6. \A t : t # r.thread => HeadRow(e, t) = HeadRow(d, t)
  BY <1>4, <1>5 DEF HeadRow
<1>7. /\ Typed(e) /\ e.records = Append(d.records, r) /\ e.branches = d.branches
      /\ e.members = d.members /\ HeadRow(e, r.thread) = r.id
  BY <1>4, <1>5
<1>8. r.id \notin DOMAIN d.members
  BY <1>3 DEF MembersSound
<1>9. \A t : ~ MemberOf(e, r.id, t)
  BY <1>7, <1>8 DEF MemberOf
<1>10. ASSUME NEW t
       PROVE  /\ HistoryRows(e, t) = IF r.thread = t THEN Append(HistoryRows(d, t), r)
                                     ELSE HistoryRows(d, t)
              /\ \A b : BranchMembers(e, t, b) = BranchMembers(d, t, b)
  <2>1. /\ HistoryRows(e, t) =
              IF r.thread = t /\ ~ MemberOf(e, r.id, t) THEN Append(HistoryRows(d, t), r)
              ELSE HistoryRows(d, t)
        /\ \A b : BranchMembers(e, t, b) =
                    IF MemberOf(e, r.id, t) /\ e.members[r.id].branch = b
                    THEN Append(BranchMembers(d, t, b), r) ELSE BranchMembers(d, t, b)
    <3>1. Inserted(d, e, r)
      BY <1>7 DEF Inserted
    <3> QED BY <3>1, <1>3, InsertQueries
  <2> QED BY <2>1, <1>9
<1>11. /\ RowsOf(e) = RowsOf(d) \cup {r} /\ UniqueRows(e)
       /\ \A c : Has(e, c) <=> Has(d, c) \/ c = r.id
       /\ \A c : Has(d, c) => RowById(e, c) = RowById(d, c) /\ c # r.id
       /\ RowById(e, r.id) = r
  BY <1>3, <1>7, InsertRows
<1>12. ASSUME NEW b \in DOMAIN d.branches
       PROVE  BranchRows(e, d.branches[b].thread, b) = BranchRows(d, d.branches[b].thread, b)
  <2>1. Has(d, d.branches[b].source)
    BY <1>3 DEF BranchesSound, BranchSound
  <2> QED BY <2>1, <1>7, <1>10, <1>11 DEF BranchRows
<1>13. MembersSound(e)
  BY <1>3, <1>7, <1>11 DEF MembersSound, HasBranch
<1>14. HeadsSound(e)
  <2> SUFFICES ASSUME NEW t \in ThreadId
               PROVE  HeadRow(e, t) = IF HistoryRows(e, t) = <<>> THEN NoCheckpoint
                                      ELSE HistoryRows(e, t)[Len(HistoryRows(e, t))].id
    BY DEF HeadsSound
  <2>1. CASE t = r.thread
    <3>1. HistoryRows(d, t) \in Seq(RowsOf(d))
      BY <1>3, ListedRows
    <3>2. PICK h : h = HistoryRows(d, t)
      OBVIOUS
    <3>3. h \in Seq(RowsOf(d) \cup {r})
      BY <3>1, <3>2
    <3>4. Append(h, r) # <<>> /\ Append(h, r)[Len(Append(h, r))] = r
      BY <3>3
    <3> QED BY <2>1, <3>2, <3>4, <1>7, <1>10
  <2>2. CASE t # r.thread
    BY <2>2, <1>3, <1>6, <1>10 DEF HeadsSound
  <2> QED BY <2>1, <2>2
<1>15. BranchesSound(e)
  <2> SUFFICES ASSUME NEW b \in DOMAIN d.branches PROVE BranchSound(e, b)
    BY <1>7 DEF BranchesSound
  <2>1. BranchSound(d, b)
    BY <1>3 DEF BranchesSound
  <2> QED BY <2>1, <1>7, <1>11, <1>12 DEF BranchSound
<1>16. Sound(e)
  BY <1>7, <1>11, <1>13, <1>14, <1>15 DEF Sound
<1>17. e = UpdateHead(InsertRecord(d, r), r)
  BY <1>1, <1>2
<1> QED BY <1>7, <1>10, <1>12, <1>16, <1>17

(* save_branch appends to the branch's rows and to nothing else.                      *)
LEMMA AfterSaveBranch ==
  ASSUME NEW d, Sound(d), NEW r \in Record, NEW a \in BranchId, ~ Has(d, r.id),
         HasBranch(d, r.thread, a), d.branches[a].head = r.parent
  PROVE  LET e == UpdateBranchHead(InsertMember(InsertRecord(d, r), a, r), a, r)
         IN  /\ Sound(e) /\ e.records = Append(d.records, r)
             /\ DOMAIN e.branches = DOMAIN d.branches
             /\ \A b \in DOMAIN d.branches : e.branches[b].thread = d.branches[b].thread
             /\ DOMAIN e.members = DOMAIN d.members \cup {r.id}
             /\ e.members[r.id].branch = a
             /\ \A c \in DOMAIN d.members : e.members[c] = d.members[c] /\ c # r.id
             /\ \A t : HistoryRows(e, t) = HistoryRows(d, t)
             /\ BranchRows(e, r.thread, a) = Append(BranchRows(d, r.thread, a), r)
             /\ \A b \in DOMAIN d.branches : b # a =>
                  BranchRows(e, d.branches[b].thread, b) = BranchRows(d, d.branches[b].thread, b)
<1>1. PICK m : m = InsertRecord(d, r)
  OBVIOUS
<1>2. PICK n : n = InsertMember(m, a, r)
  OBVIOUS
<1>3. PICK e : e = UpdateBranchHead(n, a, r)
  OBVIOUS
<1>4. /\ Typed(d) /\ UniqueRows(d) /\ MembersSound(d) /\ HeadsSound(d) /\ BranchesSound(d)
  BY DEF Sound
<1>5. /\ Typed(m) /\ m.records = Append(d.records, r) /\ m.heads = d.heads
      /\ m.branches = d.branches /\ m.members = d.members
  BY <1>1, <1>4, InsertRecordFacts
<1>6. /\ Typed(n) /\ n.records = m.records /\ n.branches = m.branches /\ n.heads = m.heads
      /\ DOMAIN n.members = DOMAIN m.members \cup {r.id}
      /\ n.members[r.id].thread = r.thread /\ n.members[r.id].branch = a
      /\ \A c \in DOMAIN m.members : c # r.id => n.members[c] = m.members[c]
  BY <1>2, <1>5, InsertMemberFacts
<1>7. a \in DOMAIN n.branches /\ a \in DOMAIN d.branches /\ d.branches[a].thread = r.thread
  BY <1>5, <1>6 DEF HasBranch
<1>8. /\ Typed(e) /\ e.records = n.records /\ e.members = n.members /\ e.heads = n.heads
      /\ DOMAIN e.branches = DOMAIN n.branches
      /\ e.branches[a].head = r.id /\ e.branches[a].thread = n.branches[a].thread
      /\ e.branches[a].source = n.branches[a].source
      /\ \A c \in DOMAIN n.branches : c # a => e.branches[c] = n.branches[c]
  BY <1>3, <1>6, <1>7, UpdateBranchHeadFacts
<1>9. r.id \notin DOMAIN d.members
  BY <1>4 DEF MembersSound
<1>10. /\ Typed(e) /\ e.records = Append(d.records, r) /\ e.heads = d.heads
       /\ DOMAIN e.members = DOMAIN d.members \cup {r.id}
       /\ e.members[r.id].thread = r.thread /\ e.members[r.id].branch = a
       /\ \A c \in DOMAIN d.members : e.members[c] = d.members[c] /\ c # r.id
       /\ DOMAIN e.branches = DOMAIN d.branches /\ e.branches[a].head = r.id
       /\ \A b \in DOMAIN d.branches : /\ e.branches[b].thread = d.branches[b].thread
                                       /\ e.branches[b].source = d.branches[b].source
                                       /\ b # a => e.branches[b] = d.branches[b]
  BY <1>5, <1>6, <1>7, <1>8, <1>9
<1>11. \A t : MemberOf(e, r.id, t) <=> t = r.thread
  BY <1>10 DEF MemberOf
<1>12. ASSUME NEW t
       PROVE  /\ HistoryRows(e, t) = HistoryRows(d, t)
              /\ \A b : BranchMembers(e, t, b) =
                          IF t = r.thread /\ b = a THEN Append(BranchMembers(d, t, b), r)
                          ELSE BranchMembers(d, t, b)
  <2>1. Inserted(d, e, r)
    BY <1>10 DEF Inserted
  <2>2. /\ HistoryRows(e, t) =
              IF r.thread = t /\ ~ MemberOf(e, r.id, t) THEN Append(HistoryRows(d, t), r)
              ELSE HistoryRows(d, t)
        /\ \A b : BranchMembers(e, t, b) =
                    IF MemberOf(e, r.id, t) /\ e.members[r.id].branch = b
                    THEN Append(BranchMembers(d, t, b), r) ELSE BranchMembers(d, t, b)
    BY <1>4, <2>1, InsertQueries
  <2> QED BY <2>2, <1>10, <1>11
<1>13. /\ RowsOf(e) = RowsOf(d) \cup {r} /\ UniqueRows(e)
       /\ \A c : Has(e, c) <=> Has(d, c) \/ c = r.id
       /\ \A c : Has(d, c) => RowById(e, c) = RowById(d, c) /\ c # r.id
       /\ RowById(e, r.id) = r
  <2>1. e.records = Append(d.records, r)
    BY <1>10
  <2> QED BY <1>4, <2>1, InsertRows
<1>14. \A b \in DOMAIN d.branches : Has(d, d.branches[b].source)
  BY <1>4 DEF BranchesSound, BranchSound
<1>15. ASSUME NEW b \in DOMAIN d.branches, b # a
       PROVE  BranchRows(e, d.branches[b].thread, b) = BranchRows(d, d.branches[b].thread, b)
  <2>1. PICK t : t = d.branches[b].thread
    OBVIOUS
  <2>2. BranchMembers(e, t, b) = BranchMembers(d, t, b)
    BY <1>12, <1>15
  <2>3. /\ e.branches[b].source = d.branches[b].source
        /\ RowById(e, d.branches[b].source) = RowById(d, d.branches[b].source)
    BY <1>10, <1>13, <1>14
  <2>4. BranchRows(e, t, b) = BranchRows(d, t, b)
    BY <2>2, <2>3 DEF BranchRows
  <2> QED BY <2>1, <2>4
<1>16. /\ BranchRows(e, r.thread, a) = Append(BranchRows(d, r.thread, a), r)
       /\ BranchRows(d, r.thread, a) \in Seq(RowsOf(d)) /\ Len(BranchRows(d, r.thread, a)) # 0
  <2> DEFINE R == RowsOf(d) \cup {r}
  <2>1. Has(d, d.branches[a].source)
    BY <1>7, <1>14
  <2>2. PICK x : x = RowById(d, d.branches[a].source)
    OBVIOUS
  <2>3. PICK s : s = BranchMembers(d, r.thread, a)
    OBVIOUS
  <2>4. x \in R
    BY <1>4, <2>1, <2>2, RowFacts
  <2>5. s \in Seq(RowsOf(d))
    BY <1>4, <2>3, ListedMembers
  <2>6. s \in Seq(R) /\ r \in R
    BY <2>5
  <2>7. BranchRows(d, r.thread, a) = <<x>> \o s
    BY <2>2, <2>3 DEF BranchRows
  <2>8. BranchRows(e, r.thread, a) = <<x>> \o Append(s, r)
    BY <2>1, <2>2, <2>3, <1>7, <1>10, <1>12, <1>13 DEF BranchRows
  <2>9. BranchRows(d, r.thread, a) \in Seq(RowsOf(d)) /\ Len(BranchRows(d, r.thread, a)) # 0
    BY <2>1, <1>4, BranchRowsShape
  <2> HIDE DEF R
  <2> QED BY <2>4, <2>6, <2>7, <2>8, <2>9, ExtendedRows
<1>17. MembersSound(e)
  <2> SUFFICES ASSUME NEW c \in DOMAIN e.members
               PROVE  /\ Has(e, c) /\ RowById(e, c).thread = e.members[c].thread
                      /\ HasBranch(e, e.members[c].thread, e.members[c].branch)
    BY DEF MembersSound
  <2>1. CASE c = r.id
    BY <2>1, <1>7, <1>10, <1>13 DEF HasBranch
  <2>2. CASE c \in DOMAIN d.members
    BY <2>2, <1>4, <1>10, <1>13 DEF HasBranch, MembersSound
  <2> QED BY <2>1, <2>2, <1>10
<1>18. HeadsSound(e)
  BY <1>4, <1>10, <1>12 DEF HeadsSound, HeadRow
<1>19. BranchesSound(e)
  <2> SUFFICES ASSUME NEW b \in DOMAIN d.branches PROVE BranchSound(e, b)
    BY <1>10 DEF BranchesSound
  <2>1. BranchSound(d, b)
    BY <1>4 DEF BranchesSound
  <2>2. CASE b # a
    <3>1. e.branches[b] = d.branches[b]
      BY <2>2, <1>10
    <3>2. e.branches[b].source # r.id
      BY <3>1, <1>13, <1>14
    <3> QED BY <2>1, <3>1, <3>2, <2>2, <1>10, <1>13, <1>15 DEF BranchSound
  <2>3. CASE b = a
    <3>1. PICK h : h = BranchRows(d, r.thread, a)
      OBVIOUS
    <3>2. /\ \A i \in 2..Len(h) : h[i].parent = h[i - 1].id
          /\ h[Len(h)].id = d.branches[a].head
      BY <2>1, <2>3, <3>1, <1>7 DEF BranchSound
    <3>3. h \in Seq(RowsOf(d) \cup {r}) /\ Len(h) # 0
      BY <3>1, <1>16
    <3>4. PICK g : g = Append(h, r)
      OBVIOUS
    <3>5. /\ Len(g) = Len(h) + 1 /\ Len(h) \in Nat /\ g[Len(h) + 1] = r
          /\ \A i \in 1..Len(h) : g[i] = h[i]
      BY <3>3, <3>4
    <3>6. \A i \in 2..Len(g) : g[i].parent = g[i - 1].id
      BY <3>2, <3>3, <3>5
    <3>7. g[Len(g)].id = r.id
      BY <3>5
    <3>8. BranchRows(e, e.branches[a].thread, a) = g
      BY <3>1, <3>4, <1>7, <1>10, <1>16
    <3>9. /\ Has(e, e.branches[a].source)
          /\ RowById(e, e.branches[a].source).thread = e.branches[a].thread
      BY <2>1, <2>3, <1>7, <1>10, <1>13 DEF BranchSound
    <3>10. ~ (e.branches[a].source \in DOMAIN e.members
              /\ e.members[e.branches[a].source].branch = a)
      BY <2>1, <2>3, <1>7, <1>10, <1>13 DEF BranchSound
    <3> QED BY <2>3, <3>6, <3>7, <3>8, <3>9, <3>10, <1>10 DEF BranchSound
  <2> QED BY <2>2, <2>3
<1>20. Sound(e)
  BY <1>10, <1>13, <1>17, <1>18, <1>19 DEF Sound
<1>21. e = UpdateBranchHead(InsertMember(InsertRecord(d, r), a, r), a, r)
  BY <1>1, <1>2, <1>3
<1> QED BY <1>10, <1>12, <1>15, <1>16, <1>20, <1>21

(* create_branch opens a branch whose rows are its source.                           *)
LEMMA AfterCreateBranch ==
  ASSUME NEW d, Sound(d), NEW k \in CreateBranchCall, k.branch \notin DOMAIN d.branches,
         Has(d, k.source), RowById(d, k.source).thread = k.thread
  PROVE  LET e == InsertBranch(d, k)
         IN  /\ Sound(e) /\ e.records = d.records /\ e.members = d.members
             /\ DOMAIN e.branches = DOMAIN d.branches \cup {k.branch}
             /\ e.branches[k.branch].thread = k.thread
             /\ BranchRows(e, k.thread, k.branch) = <<RowById(d, k.source)>>
             /\ \A b \in DOMAIN d.branches :
                  /\ e.branches[b].thread = d.branches[b].thread
                  /\ BranchRows(e, d.branches[b].thread, b) =
                       BranchRows(d, d.branches[b].thread, b)
<1>1. PICK e : e = InsertBranch(d, k)
  OBVIOUS
<1>2. PICK a : a = k.branch
  OBVIOUS
<1>3. /\ Typed(d) /\ UniqueRows(d) /\ MembersSound(d) /\ HeadsSound(d) /\ BranchesSound(d)
  BY DEF Sound
<1>4. /\ Typed(e) /\ e.records = d.records /\ e.members = d.members
      /\ e.heads = d.heads /\ DOMAIN e.branches = DOMAIN d.branches \cup {a}
      /\ e.branches[a].head = k.source /\ e.branches[a].thread = k.thread
      /\ e.branches[a].source = k.source
      /\ \A c \in DOMAIN d.branches : c # a => e.branches[c] = d.branches[c]
  BY <1>1, <1>2, <1>3, InsertBranchFacts
<1>5. a \notin DOMAIN d.branches
  BY <1>2
<1>6. /\ RowsOf(e) = RowsOf(d)
      /\ \A c : (Has(e, c) <=> Has(d, c)) /\ RowById(e, c) = RowById(d, c)
      /\ \A t : HistoryRows(e, t) = HistoryRows(d, t)
      /\ \A t, b : BranchMembers(e, t, b) = BranchMembers(d, t, b)
  BY <1>4, SameQueries
<1>7. \A c \in DOMAIN d.members : d.members[c].branch # a
  BY <1>3, <1>5 DEF MembersSound, HasBranch
<1>8. PICK x : x = RowById(d, k.source)
  OBVIOUS
<1>9. BranchRows(e, k.thread, a) = <<x>>
  <2>1. PICK t : t = k.thread
    OBVIOUS
  <2>2. BranchMembers(d, t, a) = <<>>
    <3> DEFINE S == {r \in RowsOf(d) : MemberOf(d, r.id, t) /\ d.members[r.id].branch = a}
    <3>1. S = {}
      BY <1>7 DEF MemberOf
    <3>2. BranchMembers(d, t, a) = Picked(d.records, S)
      BY DEF BranchMembers
    <3> HIDE DEF S
    <3>3. Picked(d.records, S) \in Seq(S)
      BY <3>1, <1>3, PickedRows
    <3>4. Picked(d.records, S) \in Seq({})
      BY <3>1, <3>3, Zenon
    <3> QED BY <3>2, <3>4, NoElements
  <2>3. BranchRows(e, t, a) = <<x>> \o <<>>
    BY <2>2, <1>4, <1>6, <1>8 DEF BranchRows
  <2> QED BY <2>1, <2>3
<1>10. ASSUME NEW b \in DOMAIN d.branches
       PROVE  /\ e.branches[b] = d.branches[b] /\ b # a
              /\ BranchRows(e, d.branches[b].thread, b) = BranchRows(d, d.branches[b].thread, b)
  <2>1. PICK t : t = d.branches[b].thread
    OBVIOUS
  <2>2. e.branches[b] = d.branches[b] /\ b # a
    BY <1>4, <1>5
  <2>3. BranchRows(e, t, b) = BranchRows(d, t, b)
    BY <2>2, <1>6 DEF BranchRows
  <2> QED BY <2>1, <2>2, <2>3
<1>11. UniqueRows(e)
  BY <1>3, <1>6 DEF UniqueRows
<1>12. MembersSound(e)
  BY <1>3, <1>4, <1>6, <1>10 DEF MembersSound, HasBranch
<1>13. HeadsSound(e)
  BY <1>3, <1>4, <1>6 DEF HeadsSound, HeadRow
<1>14. BranchSound(e, a)
  <2>1. <<x>>[1] = x /\ Len(<<x>>) = 1
    OBVIOUS
  <2>2. x.id = k.source /\ x.thread = k.thread
    BY <1>3, <1>8, RowFacts
  <2>3. BranchRows(e, e.branches[a].thread, a) = <<x>>
    BY <1>4, <1>9
  <2>4. Has(e, e.branches[a].source)
        /\ RowById(e, e.branches[a].source).thread = e.branches[a].thread
    BY <1>4, <1>6
  <2>5. ~ (e.branches[a].source \in DOMAIN e.members
           /\ e.members[e.branches[a].source].branch = a)
    BY <1>4, <1>7
  <2>6. \A i \in 2..Len(<<x>>) : <<x>>[i].parent = <<x>>[i - 1].id
    BY <2>1
  <2>7. <<x>>[Len(<<x>>)].id = e.branches[a].head
    BY <2>1, <2>2, <1>4
  <2> QED BY <2>3, <2>4, <2>5, <2>6, <2>7, Zenon DEF BranchSound
<1>15. BranchesSound(e)
  <2> SUFFICES ASSUME NEW b \in DOMAIN d.branches PROVE BranchSound(e, b)
    BY <1>4, <1>14 DEF BranchesSound
  <2>1. BranchSound(d, b)
    BY <1>3 DEF BranchesSound
  <2> QED BY <2>1, <1>4, <1>6, <1>10 DEF BranchSound
<1>16. Sound(e)
  BY <1>4, <1>11, <1>12, <1>13, <1>15 DEF Sound
<1> QED BY <1>1, <1>2, <1>4, <1>8, <1>9, <1>10, <1>16

--------------------------------------------------------------------------------
(* Initially.                                                                    *)

LEMMA InitInv == Init => Inv
<1> SUFFICES ASSUME Init PROVE Inv
  OBVIOUS
<1>1. /\ db.records = <<>> /\ db.heads = EmptyMap /\ db.branches = EmptyMap
      /\ db.members = EmptyMap /\ DOMAIN db = {"records", "heads", "branches", "members"}
  BY DEF Init, EmptyTables
<1>2. DOMAIN EmptyMap = {} /\ \A K, V : IsMap(EmptyMap, K, V)
  BY DEF EmptyMap, IsMap
<1>3. Typed(db)
  BY <1>1, <1>2 DEF Typed, IsTables
<1>4. RowsOf(db) = {}
  BY <1>1 DEF RowsOf, ToSet
<1>5. \A t : HistoryRows(db, t) = <<>>
  BY <1>1, PickedEmpty DEF HistoryRows
<1>6. Sound(db)
  BY <1>1, <1>2, <1>3, <1>4, <1>5
     DEF Sound, UniqueRows, MembersSound, HeadsSound, BranchesSound, HeadRow
<1> QED BY <1>6 DEF Inv, Init, InTransaction

--------------------------------------------------------------------------------
(* The writes, statement by statement.                                            *)

(* The parts of each call.                                                        *)
LEMMA CallFacts ==
  ASSUME NEW k \in Call
  PROVE  /\ k \in SaveCall => k.op = "save" /\ k.record \in Record
         /\ k \in SaveBranchCall =>
              k.op = "save_branch" /\ k.record \in Record /\ k.branch \in BranchId
         /\ k \in CreateBranchCall =>
              /\ k.op = "create_branch" /\ k.branch \in BranchId /\ k.thread \in ThreadId
              /\ k.source \in CheckpointId
         /\ k \in SaveCall \/ k \in SaveBranchCall \/ k \in CreateBranchCall
         /\ k.op = "save" => k \in SaveCall
         /\ k.op = "save_branch" => k \in SaveBranchCall
         /\ k.op = "create_branch" => k \in CreateBranchCall
BY DEF Call, SaveCall, SaveBranchCall, CreateBranchCall

(* What the checks of a write have established when it goes on.                        *)
LEMMA SaveContinues ==
  ASSUME NEW d, NEW k \in Call, k \in SaveCall, Lookup(d, k) = "Continue"
  PROVE  ~ Has(d, k.record.id) /\ HeadRow(d, k.record.thread) = k.record.parent
<1>1. SaveLookup(d, k) = "Continue"
  BY CallFacts DEF Lookup
<1> QED BY <1>1 DEF SaveLookup

LEMMA SaveBranchContinues ==
  ASSUME NEW d, NEW k \in Call, k \in SaveBranchCall, Lookup(d, k) = "Continue"
  PROVE  /\ ~ Has(d, k.record.id) /\ HasBranch(d, k.record.thread, k.branch)
         /\ d.branches[k.branch].head = k.record.parent
<1>1. SaveBranchLookup(d, k) = "Continue"
  BY CallFacts DEF Lookup
<1>2. RepeatedBranchSave(d, k) # "Continue"
  BY DEF RepeatedBranchSave
<1> QED BY <1>1, <1>2 DEF SaveBranchLookup

LEMMA CreateBranchContinues ==
  ASSUME NEW d, NEW k \in Call, k \in CreateBranchCall, Lookup(d, k) = "Continue"
  PROVE  /\ k.branch \notin DOMAIN d.branches
         /\ Has(d, k.source) /\ RowById(d, k.source).thread = k.thread
<1>1. CreateBranchLookup(d, k) = "Continue"
  BY CallFacts DEF Lookup
<1> QED BY <1>1 DEF CreateBranchLookup

(* The statements of each write.                                                   *)
LEMMA StatementFacts ==
  /\ Len(Statements("save")) = 2 /\ Len(Statements("save_branch")) = 3
  /\ Len(Statements("create_branch")) = 1
  /\ Statements("save")[1] = "record" /\ Statements("save")[2] = "head"
  /\ Statements("save_branch")[1] = "record" /\ Statements("save_branch")[2] = "member"
  /\ Statements("save_branch")[3] = "branch_head"
  /\ Statements("create_branch")[1] = "branch"
BY DEF Statements

LEMMA RunFacts ==
  ASSUME NEW d, NEW k
  PROVE  /\ Run(d, k, "record") = InsertRecord(d, k.record)
         /\ Run(d, k, "head") = UpdateHead(d, k.record)
         /\ Run(d, k, "member") = InsertMember(d, k.branch, k.record)
         /\ Run(d, k, "branch_head") = UpdateBranchHead(d, k.branch, k.record)
         /\ Run(d, k, "branch") = InsertBranch(d, k)
BY DEF Run

LEMMA TablesFacts ==
  ASSUME NEW d, NEW b, NEW r, NEW k
  PROVE  /\ SaveTables(d, r, 1) = d /\ SaveTables(d, r, 2) = InsertRecord(d, r)
         /\ SaveTables(d, r, 3) = UpdateHead(InsertRecord(d, r), r)
         /\ SaveBranchTables(d, b, r, 1) = d
         /\ SaveBranchTables(d, b, r, 2) = InsertRecord(d, r)
         /\ SaveBranchTables(d, b, r, 3) = InsertMember(InsertRecord(d, r), b, r)
         /\ SaveBranchTables(d, b, r, 4) =
              UpdateBranchHead(InsertMember(InsertRecord(d, r), b, r), b, r)
         /\ CreateBranchTables(d, k, 1) = d /\ CreateBranchTables(d, k, 2) = InsertBranch(d, k)
BY DEF SaveTables, SaveBranchTables, CreateBranchTables

(* Executing one statement goes from the tables before it to the tables after it.         *)
LEMMA WritingAdvances ==
  ASSUME NEW d, NEW k \in Call, NEW n, NEW x, Writing(d, k, n, x),
         n \in 1..Len(Statements(k.op))
  PROVE  Writing(d, k, n + 1, Run(x, k, Statements(k.op)[n]))
<1>1. PICK r : r = k.record
  OBVIOUS
<1>2. PICK b : b = k.branch
  OBVIOUS
<1>3. /\ SaveTables(d, r, 1) = d /\ SaveTables(d, r, 2) = InsertRecord(d, r)
      /\ SaveTables(d, r, 3) = UpdateHead(InsertRecord(d, r), r)
      /\ SaveBranchTables(d, b, r, 1) = d
      /\ SaveBranchTables(d, b, r, 2) = InsertRecord(d, r)
      /\ SaveBranchTables(d, b, r, 3) = InsertMember(InsertRecord(d, r), b, r)
      /\ SaveBranchTables(d, b, r, 4) =
           UpdateBranchHead(InsertMember(InsertRecord(d, r), b, r), b, r)
      /\ CreateBranchTables(d, k, 1) = d /\ CreateBranchTables(d, k, 2) = InsertBranch(d, k)
  BY TablesFacts
<1>4. \A y : /\ Run(y, k, "record") = InsertRecord(y, r)
             /\ Run(y, k, "head") = UpdateHead(y, r)
             /\ Run(y, k, "member") = InsertMember(y, b, r)
             /\ Run(y, k, "branch_head") = UpdateBranchHead(y, b, r)
             /\ Run(y, k, "branch") = InsertBranch(y, k)
  BY <1>1, <1>2, RunFacts
<1>5. CASE k \in SaveCall
  <2>1. k.op = "save" /\ k \notin SaveBranchCall /\ k \notin CreateBranchCall
    BY <1>5, CallFacts
  <2>2. n \in 1..2 /\ x = SaveTables(d, r, n)
    BY <2>1, <1>1, StatementFacts DEF Writing
  <2>3. CASE n = 1
    BY <2>1, <2>2, <2>3, <1>1, <1>3, <1>4, <1>5, StatementFacts DEF Writing
  <2>4. CASE n = 2
    BY <2>1, <2>2, <2>4, <1>1, <1>3, <1>4, <1>5, StatementFacts DEF Writing
  <2> QED BY <2>2, <2>3, <2>4
<1>6. CASE k \in SaveBranchCall
  <2>1. k.op = "save_branch" /\ k \notin SaveCall /\ k \notin CreateBranchCall
    BY <1>6, CallFacts
  <2>2. n \in 1..3 /\ x = SaveBranchTables(d, b, r, n)
    BY <2>1, <1>1, <1>2, StatementFacts DEF Writing
  <2>3. CASE n = 1
    BY <2>1, <2>2, <2>3, <1>1, <1>2, <1>3, <1>4, <1>6, StatementFacts DEF Writing
  <2>4. CASE n = 2
    BY <2>1, <2>2, <2>4, <1>1, <1>2, <1>3, <1>4, <1>6, StatementFacts DEF Writing
  <2>5. CASE n = 3
    BY <2>1, <2>2, <2>5, <1>1, <1>2, <1>3, <1>4, <1>6, StatementFacts DEF Writing
  <2> QED BY <2>2, <2>3, <2>4, <2>5
<1>7. CASE k \in CreateBranchCall
  <2>1. k.op = "create_branch" /\ k \notin SaveCall /\ k \notin SaveBranchCall
    BY <1>7, CallFacts
  <2>2. n = 1 /\ x = CreateBranchTables(d, k, n)
    BY <2>1, StatementFacts DEF Writing
  <2> QED BY <2>1, <2>2, <1>3, <1>4, <1>7, StatementFacts DEF Writing
<1> QED BY <1>5, <1>6, <1>7, CallFacts

(* What a finished write has made of the tables.                                   *)
LEMMA WritingEnds ==
  ASSUME NEW d, NEW k \in Call, NEW n, NEW x, Writing(d, k, n, x),
         n = Len(Statements(k.op)) + 1
  PROVE  \/ k \in SaveCall /\ x = UpdateHead(InsertRecord(d, k.record), k.record)
         \/ /\ k \in SaveBranchCall
            /\ x = UpdateBranchHead(InsertMember(InsertRecord(d, k.record), k.branch, k.record),
                                    k.branch, k.record)
         \/ k \in CreateBranchCall /\ x = InsertBranch(d, k)
<1>1. PICK r : r = k.record
  OBVIOUS
<1>2. PICK b : b = k.branch
  OBVIOUS
<1>3. /\ SaveTables(d, r, 3) = UpdateHead(InsertRecord(d, r), r)
      /\ SaveBranchTables(d, b, r, 4) =
           UpdateBranchHead(InsertMember(InsertRecord(d, r), b, r), b, r)
      /\ CreateBranchTables(d, k, 2) = InsertBranch(d, k)
  BY TablesFacts
<1>4. CASE k \in SaveCall
  <2>1. k.op = "save" /\ k \notin SaveBranchCall /\ k \notin CreateBranchCall
    BY <1>4, CallFacts
  <2>2. n = 3
    <3>1. Len(Statements(k.op)) = 2
      BY <2>1, StatementFacts, Zenon
    <3> QED BY <3>1
  <2> QED BY <2>1, <2>2, <1>1, <1>3, <1>4 DEF Writing
<1>5. CASE k \in SaveBranchCall
  <2>1. k.op = "save_branch" /\ k \notin SaveCall /\ k \notin CreateBranchCall
    BY <1>5, CallFacts
  <2>2. n = 4
    <3>1. Len(Statements(k.op)) = 3
      BY <2>1, StatementFacts, Zenon
    <3> QED BY <3>1
  <2> QED BY <2>1, <2>2, <1>1, <1>2, <1>3, <1>5 DEF Writing
<1>6. CASE k \in CreateBranchCall
  <2>1. k.op = "create_branch" /\ k \notin SaveCall /\ k \notin SaveBranchCall
    BY <1>6, CallFacts
  <2>2. n = 2
    <3>1. Len(Statements(k.op)) = 1
      BY <2>1, StatementFacts, Zenon
    <3> QED BY <3>1
  <2> QED BY <2>1, <2>2, <1>3, <1>6 DEF Writing
<1> QED BY <1>4, <1>5, <1>6, CallFacts

(* A finished write leaves sound tables.                                            *)
LEMMA FinishedSound ==
  ASSUME NEW d, Sound(d), NEW k \in Call, Lookup(d, k) = "Continue",
         NEW n, NEW x, Writing(d, k, n, x), n = Len(Statements(k.op)) + 1
  PROVE  Sound(x)
<1>1. CASE k \in SaveCall /\ x = UpdateHead(InsertRecord(d, k.record), k.record)
  <2>1. PICK r : r = k.record
    OBVIOUS
  <2>2. r \in Record /\ ~ Has(d, r.id)
    BY <1>1, <2>1, CallFacts, SaveContinues
  <2>3. Sound(UpdateHead(InsertRecord(d, r), r))
    BY <2>2, AfterSave
  <2> QED BY <1>1, <2>1, <2>3
<1>2. CASE /\ k \in SaveBranchCall
           /\ x = UpdateBranchHead(InsertMember(InsertRecord(d, k.record), k.branch, k.record),
                                   k.branch, k.record)
  <2>1. PICK r : r = k.record
    OBVIOUS
  <2>2. PICK b : b = k.branch
    OBVIOUS
  <2>3. /\ r \in Record /\ b \in BranchId /\ ~ Has(d, r.id) /\ HasBranch(d, r.thread, b)
        /\ d.branches[b].head = r.parent
    BY <1>2, <2>1, <2>2, CallFacts, SaveBranchContinues
  <2>4. Sound(UpdateBranchHead(InsertMember(InsertRecord(d, r), b, r), b, r))
    BY <2>3, AfterSaveBranch
  <2> QED BY <1>2, <2>1, <2>2, <2>4
<1>3. CASE k \in CreateBranchCall /\ x = InsertBranch(d, k)
  <2>1. /\ k.branch \notin DOMAIN d.branches /\ Has(d, k.source)
        /\ RowById(d, k.source).thread = k.thread
    BY <1>3, CreateBranchContinues
  <2>2. Sound(InsertBranch(d, k))
    BY <1>3, <2>1, AfterCreateBranch
  <2> QED BY <1>3, <2>2
<1> QED BY <1>1, <1>2, <1>3, WritingEnds

(* The parts of a transaction.                                                     *)
LEMMA Writes ==
  ASSUME Inv, InTransaction
  PROVE  /\ Sound(db) /\ txn.call \in Call /\ DOMAIN txn = {"call", "step", "db"}
         /\ \/ txn.step = 0 /\ txn.db = db
            \/ /\ txn.step # 0 /\ Lookup(db, txn.call) = "Continue"
               /\ Writing(db, txn.call, txn.step, txn.db)
<1>1. Working(txn) /\ Sound(db)
  BY DEF Inv
<1>2. \A k, x : ~ Writing(db, k, 0, x)
  BY DEF Writing
<1> QED BY <1>1, <1>2 DEF Working

LEMMA NextInv ==
  ASSUME Inv, [Next]_vars
  PROVE  Inv'
<1>1. ASSUME NEW k \in Call, Begin(k) PROVE Inv'
  <2>1. /\ db' = db /\ txn'.call = k /\ txn'.step = 0 /\ txn'.db = db
        /\ DOMAIN txn' = {"call", "step", "db"}
    BY <1>1 DEF Begin
  <2>2. Sound(db)'
    BY <2>1 DEF Inv
  <2> QED BY <2>1, <2>2 DEF Inv, Working
<1>2. ASSUME NEW c \in CheckpointId, Busy(c) PROVE Inv'
  <2>1. UNCHANGED <<db, txn>>
    BY <1>2 DEF Busy
  <2> QED BY <2>1 DEF Inv, Working, InTransaction
<1>3. CASE LookupAnswers
  <2>1. db' = db /\ ~ InTransaction'
    BY <1>3 DEF LookupAnswers, InTransaction
  <2> QED BY <2>1 DEF Inv
<1>4. CASE LookupContinues
  <2>1. /\ txn.step = 0 /\ InTransaction /\ Lookup(txn.db, txn.call) = "Continue"
        /\ txn' = [txn EXCEPT !.step = 1] /\ db' = db
    BY <1>4 DEF LookupContinues
  <2>2. txn.db = db /\ txn.call \in Call /\ DOMAIN txn = {"call", "step", "db"}
    BY <2>1, Writes
  <2>3. /\ txn'.step = 1 /\ txn'.call = txn.call /\ txn'.db = db
        /\ DOMAIN txn' = {"call", "step", "db"}
    BY <2>1, <2>2
  <2>4. PICK k \in Call : k = txn.call
    BY <2>2
  <2>5. Writing(db, k, 1, db)
    BY CallFacts, TablesFacts DEF Writing
  <2>6. Lookup(db, k) = "Continue" /\ txn'.call = k
    BY <2>1, <2>2, <2>3, <2>4
  <2>7. Sound(db)'
    BY <2>1 DEF Inv
  <2> QED BY <2>1, <2>3, <2>5, <2>6, <2>7 DEF Inv, Working
<1>5. CASE Execute
  <2>1. PICK k, n, x : k = txn.call /\ n = txn.step /\ x = txn.db
    OBVIOUS
  <2>2. /\ InTransaction /\ n \in 1..Len(Statements(k.op)) /\ db' = db
        /\ txn' = [txn EXCEPT !.step = n + 1, !.db = Run(x, k, Statements(k.op)[n])]
    BY <1>5, <2>1 DEF Execute
  <2>3. n # 0
    BY <2>2
  <2>4. /\ k \in Call /\ DOMAIN txn = {"call", "step", "db"}
        /\ Lookup(db, k) = "Continue" /\ Writing(db, k, n, x)
    BY <2>1, <2>2, <2>3, Writes
  <2>5. PICK m, y : m = n + 1 /\ y = Run(x, k, Statements(k.op)[n])
    OBVIOUS
  <2>6. Writing(db, k, m, y)
    BY <2>2, <2>4, <2>5, WritingAdvances
  <2>7. /\ txn'.step = m /\ txn'.call = k /\ txn'.db = y
        /\ DOMAIN txn' = {"call", "step", "db"}
    BY <2>1, <2>2, <2>4, <2>5
  <2>8. Sound(db)'
    BY <2>2 DEF Inv
  <2> QED BY <2>2, <2>4, <2>6, <2>7, <2>8 DEF Inv, Working
<1>6. CASE Commit
  <2>1. PICK k, n, x : k = txn.call /\ n = txn.step /\ x = txn.db
    OBVIOUS
  <2>2. /\ InTransaction /\ n = Len(Statements(k.op)) + 1 /\ db' = x /\ ~ InTransaction'
    BY <1>6, <2>1 DEF Commit, InTransaction
  <2>3. k \in Call /\ Sound(db)
    BY <2>1, <2>2, Writes
  <2>4. n # 0
    BY <2>2, <2>3, CallFacts, StatementFacts
  <2>5. Lookup(db, k) = "Continue" /\ Writing(db, k, n, x)
    BY <2>1, <2>2, <2>4, Writes
  <2>6. Sound(x)
    BY <2>2, <2>3, <2>5, FinishedSound
  <2> QED BY <2>2, <2>6 DEF Inv
<1>7. CASE StatementFails
  <2>1. db' = db /\ ~ InTransaction'
    BY <1>7 DEF StatementFails, InTransaction
  <2> QED BY <2>1 DEF Inv
<1>8. CASE Dropped
  <2>1. db' = db /\ ~ InTransaction'
    BY <1>8 DEF Dropped, InTransaction
  <2> QED BY <2>1 DEF Inv
<1>9. CASE UNCHANGED vars
  BY <1>9 DEF vars, Inv, Working, InTransaction
<1> QED BY <1>1, <1>2, <1>3, <1>4, <1>5, <1>6, <1>7, <1>8, <1>9 DEF Next

THEOREM Invariance == Spec => []Inv
BY InitInv, NextInv, PTL DEF Spec

--------------------------------------------------------------------------------
(* The readers, and the checks of the writers.                                       *)

(* A branch's head is a stored record of its thread: the source, or a member.           *)
LEMMA BranchHeads ==
  ASSUME NEW d, Sound(d), NEW b \in DOMAIN d.branches
  PROVE  LET row == d.branches[b]
         IN  /\ Has(d, row.head) /\ RowById(d, row.head).thread = row.thread
             /\ \/ row.head = row.source
                \/ MemberOf(d, row.head, row.thread) /\ d.members[row.head].branch = b
<1>1. PICK row : row = d.branches[b]
  OBVIOUS
<1>2. PICK rows : rows = BranchRows(d, row.thread, b)
  OBVIOUS
<1>3. /\ Typed(d) /\ UniqueRows(d) /\ MembersSound(d) /\ BranchSound(d, b)
  BY DEF Sound, BranchesSound
<1>4. /\ Has(d, row.source) /\ RowById(d, row.source).thread = row.thread
      /\ rows[Len(rows)].id = row.head
  BY <1>1, <1>2, <1>3 DEF BranchSound
<1>5. /\ rows \in Seq(RowsOf(d)) /\ Len(rows) # 0 /\ rows[1] = RowById(d, row.source)
      /\ \A i \in 2..Len(rows) :
           MemberOf(d, rows[i].id, row.thread) /\ d.members[rows[i].id].branch = b
  <2>1. PICK t : t = row.thread
    OBVIOUS
  <2>2. rows = BranchRows(d, t, b) /\ Has(d, d.branches[b].source)
    BY <2>1, <1>1, <1>2, <1>4
  <2>3. /\ rows \in Seq(RowsOf(d)) /\ Len(rows) # 0
        /\ rows[1] = RowById(d, d.branches[b].source)
        /\ \A i \in 2..Len(rows) :
             MemberOf(d, rows[i].id, t) /\ d.members[rows[i].id].branch = b
    BY <1>3, <2>2, BranchRowsShape
  <2> QED BY <2>1, <2>3, <1>1
<1>6. PICK n \in 1..Len(rows) : n = Len(rows)
  BY <1>5
<1>7. rows[n] \in RowsOf(d) /\ rows[n].id = row.head
  BY <1>4, <1>5, <1>6
<1>8. Has(d, row.head) /\ RowById(d, row.head) = rows[n]
  BY <1>3, <1>7, RowFacts
<1>9. CASE n = 1
  <2>1. row.head = row.source
    BY <1>3, <1>4, <1>5, <1>7, <1>9, RowFacts
  <2> QED BY <2>1, <1>1, <1>4
<1>10. CASE n # 1
  <2>1. MemberOf(d, row.head, row.thread) /\ d.members[row.head].branch = b
    <3>1. n \in 2..Len(rows)
      BY <1>6, <1>10
    <3> QED BY <3>1, <1>5, <1>7
  <2>2. RowById(d, row.head).thread = row.thread
    BY <2>1, <1>3 DEF MembersSound, MemberOf
  <2> QED BY <2>1, <2>2, <1>1, <1>8
<1> QED BY <1>9, <1>10

LEMMA BranchRowsAreValid ==
  ASSUME NEW d, Sound(d), NEW t \in ThreadId, NEW b \in BranchId, HasBranch(d, t, b)
  PROVE  BranchRowsValid(d, t, b)
<1>1. PICK row : row = d.branches[b]
  OBVIOUS
<1>2. b \in DOMAIN d.branches /\ row.thread = t
  BY <1>1 DEF HasBranch
<1>3. Typed(d) /\ UniqueRows(d) /\ MembersSound(d) /\ BranchSound(d, b)
  BY <1>2 DEF Sound, BranchesSound
<1> DEFINE selected == {c \in DOMAIN d.members : d.members[c].branch = b
                                                 /\ d.members[c].thread = t}
           rows == BranchRows(d, t, b)
<1>4. /\ Has(d, row.source) /\ RowById(d, row.source).thread = t
      /\ ~ (row.source \in DOMAIN d.members /\ d.members[row.source].branch = b)
      /\ \A i \in 2..Len(rows) : rows[i].parent = rows[i - 1].id
      /\ rows[Len(rows)].id = row.head
  BY <1>1, <1>2, <1>3 DEF BranchSound
<1>5. /\ Has(d, row.head) /\ RowById(d, row.head).thread = t
      /\ \/ row.head = row.source
         \/ MemberOf(d, row.head, t) /\ d.members[row.head].branch = b
  BY <1>1, <1>2, BranchHeads
<1>6. \A c \in selected : Has(d, c) /\ RowById(d, c).thread = t
  BY <1>3 DEF MembersSound
<1>7. row.head \in selected \cup {row.source} /\ row.source \notin selected
  BY <1>4, <1>5 DEF MemberOf
<1>8. Last(rows).id = row.head
  BY <1>4 DEF Last
<1>9. \A c \in selected \cup {row.source, row.head} : Has(d, c) /\ RowById(d, c).thread = t
  BY <1>4, <1>5, <1>6
<1> HIDE DEF selected, rows
<1> QED BY <1>1, <1>4, <1>7, <1>8, <1>9 DEF BranchRowsValid, selected, rows

(* save_branch reports corruption only about an identifier of another thread.             *)
LEMMA CorruptIsOtherThread ==
  ASSUME NEW d, Sound(d), NEW k \in Call, Lookup(d, k) = "Corrupt"
  PROVE  Has(d, IdOf(k)) /\ RowById(d, IdOf(k)).thread # k.record.thread
<1>1. k \in SaveBranchCall
  BY CallFacts DEF Lookup, SaveLookup, CreateBranchLookup
<1>2. k.op = "save_branch" /\ IdOf(k) = k.record.id
  BY <1>1, CallFacts DEF IdOf
<1>3. SaveBranchLookup(d, k) = "Corrupt"
  BY <1>2 DEF Lookup
<1>4. PICK r, b : r = k.record /\ b = k.branch
  OBVIOUS
<1>5. MembersSound(d)
  BY DEF Sound
<1>6. Has(d, r.id)
  <2> SUFFICES ASSUME ~ Has(d, r.id) PROVE FALSE
    OBVIOUS
  <2>1. /\ HasBranch(d, r.thread, b)
        /\ ~ Has(d, d.branches[b].head) \/ RowById(d, d.branches[b].head).thread # r.thread
    BY <1>3, <1>4 DEF SaveBranchLookup
  <2>2. b \in DOMAIN d.branches /\ d.branches[b].thread = r.thread
    BY <2>1 DEF HasBranch
  <2>3. Has(d, d.branches[b].head)
        /\ RowById(d, d.branches[b].head).thread = d.branches[b].thread
    BY <2>2, BranchHeads
  <2> QED BY <2>1, <2>2, <2>3
<1>7. RepeatedBranchSave(d, k) = "Corrupt"
  BY <1>3, <1>4, <1>6 DEF SaveBranchLookup
<1>8. /\ r.id \in DOMAIN d.members /\ d.members[r.id].branch = b
      /\ \/ d.members[r.id].thread # r.thread
         \/ RowById(d, r.id) = r /\ ~ HasBranch(d, r.thread, b)
  BY <1>4, <1>7 DEF RepeatedBranchSave
<1>9. /\ RowById(d, r.id).thread = d.members[r.id].thread
      /\ HasBranch(d, d.members[r.id].thread, b)
  BY <1>5, <1>8 DEF MembersSound
<1>10. RowById(d, r.id).thread # r.thread
  BY <1>8, <1>9
<1> QED BY <1>2, <1>4, <1>6, <1>10

(* Every state's tables answer the readers alike, and accuse no honest caller.           *)
THEOREM ReadsAgreeHolds == Spec => []ReadsAgree
<1>1. ASSUME Inv PROVE ReadsAgree
  <2>1. Sound(db)
    BY <1>1 DEF Inv
  <2>2. HeadIsLastOfHistory
    BY <2>1 DEF Sound, HeadsSound, HeadIsLastOfHistory, Last
  <2>3. BranchReadsNeverCorrupt
    BY <2>1, BranchRowsAreValid DEF BranchReadsNeverCorrupt
  <2>4. CorruptionMeansOtherThread
    <3> SUFFICES ASSUME InTransaction, txn.step = 0, Lookup(txn.db, txn.call) = "Corrupt"
                 PROVE  /\ Has(txn.db, IdOf(txn.call))
                        /\ RowById(txn.db, IdOf(txn.call)).thread # txn.call.record.thread
      BY DEF CorruptionMeansOtherThread
    <3>1. PICK k \in Call : k = txn.call
      BY <1>1, Writes
    <3>2. txn.db = db
      BY <1>1, Writes
    <3>3. Has(db, IdOf(k)) /\ RowById(db, IdOf(k)).thread # k.record.thread
      BY <2>1, <3>1, <3>2, CorruptIsOtherThread
    <3> QED BY <3>1, <3>2, <3>3
  <2> QED BY <2>2, <2>3, <2>4 DEF ReadsAgree
<1> QED BY <1>1, Invariance, PTL

(* A stored head is a stored record.                                                *)
LEMMA HeadsAreStored ==
  ASSUME NEW d, Sound(d), NEW t \in DOMAIN d.heads
  PROVE  Has(d, d.heads[t])
<1>1. Typed(d) /\ UniqueRows(d) /\ HeadsSound(d)
  BY DEF Sound
<1>2. t \in ThreadId /\ d.heads[t] \in CheckpointId
  BY <1>1, TypedTables
<1>3. PICK rows : rows = HistoryRows(d, t)
  OBVIOUS
<1>4. rows \in Seq(RowsOf(d))
  BY <1>1, <1>3, ListedRows
<1>5. d.heads[t] = IF rows = <<>> THEN NoCheckpoint ELSE rows[Len(rows)].id
  BY <1>1, <1>2, <1>3 DEF HeadsSound, HeadRow
<1>6. rows # <<>>
  BY <1>2, <1>5, NoCheckpointAssumption
<1>7. rows[Len(rows)] \in RowsOf(d)
  BY <1>4, <1>6
<1> QED BY <1>5, <1>6, <1>7 DEF Has

LEMMA ConstraintsHold ==
  ASSUME NEW d, Sound(d), NEW k \in Call, Lookup(d, k) = "Continue",
         NEW n, NEW x, Writing(d, k, n, x), n \in 1..Len(Statements(k.op))
  PROVE  ConstraintHolds(x, k, Statements(k.op)[n])
<1>1. Typed(d) /\ UniqueRows(d) /\ MembersSound(d)
  BY DEF Sound
<1>2. PICK r, b : r = k.record /\ b = k.branch
  OBVIOUS
<1>3. /\ SaveTables(d, r, 1) = d /\ SaveTables(d, r, 2) = InsertRecord(d, r)
      /\ SaveBranchTables(d, b, r, 1) = d
      /\ SaveBranchTables(d, b, r, 2) = InsertRecord(d, r)
      /\ SaveBranchTables(d, b, r, 3) = InsertMember(InsertRecord(d, r), b, r)
      /\ CreateBranchTables(d, k, 1) = d
  BY TablesFacts
<1>4. ASSUME NEW e, r \in Record, ~ Has(d, r.id), e = InsertRecord(d, r)
      PROVE  /\ Typed(e) /\ Has(e, r.id) /\ e.heads = d.heads /\ e.branches = d.branches
             /\ r.id \notin DOMAIN e.members
             /\ \A t \in DOMAIN e.heads : e.heads[t] # r.id
  <2>1. /\ Typed(e) /\ e.records = Append(d.records, r) /\ e.heads = d.heads
        /\ e.branches = d.branches /\ e.members = d.members
    BY <1>1, <1>4, InsertRecordFacts
  <2>2. Has(e, r.id)
    BY <1>1, <1>4, <2>1, InsertRows
  <2>3. r.id \notin DOMAIN d.members
    BY <1>1, <1>4 DEF MembersSound
  <2>4. \A t \in DOMAIN d.heads : d.heads[t] # r.id
    BY <1>4, HeadsAreStored
  <2> QED BY <2>1, <2>2, <2>3, <2>4
<1>5. CASE k \in SaveCall
  <2>1. k.op = "save" /\ k \notin SaveBranchCall /\ k \notin CreateBranchCall /\ r \in Record
    BY <1>2, <1>5, CallFacts
  <2>2. ~ Has(d, r.id)
    BY <1>2, <1>5, SaveContinues
  <2>3. n \in 1..2 /\ x = SaveTables(d, r, n)
    BY <2>1, <1>2, StatementFacts DEF Writing
  <2>4. CASE n = 1
    <3>1. Statements(k.op)[n] = "record" /\ x = d
      BY <2>1, <2>3, <2>4, <1>3, StatementFacts
    <3> QED BY <3>1, <2>2, <1>2 DEF ConstraintHolds
  <2>5. CASE n = 2
    <3>1. Statements(k.op)[n] = "head" /\ x = InsertRecord(d, r)
      BY <2>1, <2>3, <2>5, <1>3, StatementFacts
    <3>2. Has(x, r.id) /\ \A t \in DOMAIN x.heads : x.heads[t] # r.id
      BY <3>1, <2>1, <2>2, <1>4
    <3> QED BY <3>1, <3>2, <1>2 DEF ConstraintHolds
  <2> QED BY <2>3, <2>4, <2>5
<1>6. CASE k \in SaveBranchCall
  <2>1. /\ k.op = "save_branch" /\ k \notin SaveCall /\ k \notin CreateBranchCall
        /\ r \in Record /\ b \in BranchId
    BY <1>2, <1>6, CallFacts
  <2>2. /\ ~ Has(d, r.id) /\ HasBranch(d, r.thread, b) /\ d.branches[b].head = r.parent
    BY <1>2, <1>6, SaveBranchContinues
  <2>3. n \in 1..3 /\ x = SaveBranchTables(d, b, r, n)
    BY <2>1, <1>2, StatementFacts DEF Writing
  <2>4. CASE n = 1
    <3>1. Statements(k.op)[n] = "record" /\ x = d
      BY <2>1, <2>3, <2>4, <1>3, StatementFacts
    <3> QED BY <3>1, <2>2, <1>2 DEF ConstraintHolds
  <2>5. CASE n = 2
    <3>1. Statements(k.op)[n] = "member" /\ x = InsertRecord(d, r)
      BY <2>1, <2>3, <2>5, <1>3, StatementFacts
    <3>2. Has(x, r.id) /\ x.branches = d.branches /\ r.id \notin DOMAIN x.members
      BY <3>1, <2>1, <2>2, <1>4
    <3>3. HasBranch(x, r.thread, b) /\ r.parent = x.branches[b].head
      BY <3>2, <2>2 DEF HasBranch
    <3> QED BY <3>1, <3>2, <3>3, <1>2 DEF ConstraintHolds
  <2>6. CASE n = 3
    <3>1. PICK m : m = InsertRecord(d, r)
      OBVIOUS
    <3>2. Statements(k.op)[n] = "branch_head" /\ x = InsertMember(m, b, r)
      BY <3>1, <2>1, <2>3, <2>6, <1>3, StatementFacts
    <3>3. Typed(m)
      BY <3>1, <2>1, <2>2, <1>4
    <3>4. /\ r.id \in DOMAIN x.members /\ x.members[r.id].thread = r.thread
          /\ x.members[r.id].branch = b
      BY <3>2, <3>3, <2>1, InsertMemberFacts
    <3> QED BY <3>2, <3>4, <1>2 DEF ConstraintHolds, MemberOf
  <2> QED BY <2>3, <2>4, <2>5, <2>6
<1>7. CASE k \in CreateBranchCall
  <2>1. k.op = "create_branch" /\ k \notin SaveCall /\ k \notin SaveBranchCall
    BY <1>7, CallFacts
  <2>2. n = 1 /\ x = CreateBranchTables(d, k, n)
    BY <2>1, StatementFacts DEF Writing
  <2>3. Statements(k.op)[n] = "branch" /\ x = d
    BY <2>1, <2>2, <1>3, StatementFacts
  <2>4. /\ k.branch \notin DOMAIN d.branches
        /\ Has(d, k.source) /\ RowById(d, k.source).thread = k.thread
    BY <1>7, CreateBranchContinues
  <2> QED BY <2>3, <2>4 DEF ConstraintHolds
<1> QED BY <1>5, <1>6, <1>7, CallFacts

(* What the checks of a write found still holds when its statements run.                 *)
THEOREM ConstraintsNeverFireHolds == Spec => []ConstraintsNeverFire
<1>1. ASSUME Inv PROVE ConstraintsNeverFire
  <2> SUFFICES ASSUME InTransaction, txn.step \in 1..Len(Statements(txn.call.op))
               PROVE  ConstraintHolds(txn.db, txn.call, Statements(txn.call.op)[txn.step])
    BY DEF ConstraintsNeverFire
  <2>1. PICK k, n, x : k = txn.call /\ n = txn.step /\ x = txn.db
    OBVIOUS
  <2>2. n \in 1..Len(Statements(k.op)) /\ n # 0
    BY <2>1
  <2>3. Sound(db) /\ k \in Call /\ Lookup(db, k) = "Continue" /\ Writing(db, k, n, x)
    BY <1>1, <2>1, <2>2, Writes
  <2>4. ConstraintHolds(x, k, Statements(k.op)[n])
    BY <2>2, <2>3, ConstraintsHold
  <2> QED BY <2>1, <2>4
<1> QED BY <1>1, Invariance, PTL

--------------------------------------------------------------------------------
(* The store implements CheckpointStore.                                            *)

(* The tables as the contract's maps.                                               *)
LEMMA IndexFacts ==
  ASSUME NEW d, Sound(d)
  PROVE  /\ \A c : c \in DOMAIN IndexOf(d) <=> Has(d, c)
         /\ \A c : Has(d, c) => IndexOf(d)[c] = RowById(d, c)
         /\ DOMAIN RecordBranchesOf(d) = DOMAIN d.members
         /\ \A c \in DOMAIN d.members : RecordBranchesOf(d)[c] = d.members[c].branch
         /\ DOMAIN BranchesOf(d) = DOMAIN d.branches
         /\ \A b \in DOMAIN d.branches :
              /\ BranchesOf(d)[b].thread = d.branches[b].thread
              /\ BranchesOf(d)[b].history = BranchRows(d, d.branches[b].thread, b)
<1>1. \A c : c \in {r.id : r \in RowsOf(d)} <=> Has(d, c)
  BY DEF Has
<1>2. /\ \A c : c \in DOMAIN IndexOf(d) <=> Has(d, c)
      /\ \A c : Has(d, c) => IndexOf(d)[c] = RowById(d, c)
  BY <1>1 DEF IndexOf
<1>3. /\ DOMAIN RecordBranchesOf(d) = DOMAIN d.members
      /\ \A c \in DOMAIN d.members : RecordBranchesOf(d)[c] = d.members[c].branch
  BY DEF RecordBranchesOf
<1>4. /\ DOMAIN BranchesOf(d) = DOMAIN d.branches
      /\ \A b \in DOMAIN d.branches :
           /\ BranchesOf(d)[b].thread = d.branches[b].thread
           /\ BranchesOf(d)[b].history = BranchRows(d, d.branches[b].thread, b)
  BY DEF BranchesOf
<1> QED BY <1>2, <1>3, <1>4

(* The heads the contract compares with are the heads the statements read.             *)
LEMMA HeadFacts ==
  ASSUME Sound(db)
  PROVE  /\ \A t \in ThreadId : Store!HeadOf(HistoriesOf(db)[t]) = HeadRow(db, t)
         /\ \A t, b : Store!BranchOf(t, b) <=> HasBranch(db, t, b)
         /\ \A b \in DOMAIN db.branches :
              Store!HeadOf(BranchesOf(db)[b].history) = db.branches[b].head
<1>1. ASSUME NEW t \in ThreadId PROVE Store!HeadOf(HistoriesOf(db)[t]) = HeadRow(db, t)
  <2>1. HistoriesOf(db)[t] = HistoryRows(db, t)
    BY DEF HistoriesOf
  <2>2. HeadsSound(db)
    BY DEF Sound
  <2> QED BY <2>1, <2>2 DEF HeadsSound, Store!HeadOf, Store!Last
<1>2. \A t, b : Store!BranchOf(t, b) <=> HasBranch(db, t, b)
  BY IndexFacts DEF Store!BranchOf, HasBranch
<1>3. ASSUME NEW b \in DOMAIN db.branches
      PROVE  Store!HeadOf(BranchesOf(db)[b].history) = db.branches[b].head
  <2>1. PICK rows : rows = BranchRows(db, db.branches[b].thread, b)
    OBVIOUS
  <2>2. BranchSound(db, b) /\ Typed(db) /\ UniqueRows(db)
    BY DEF Sound, BranchesSound
  <2>3. rows[Len(rows)].id = db.branches[b].head /\ Has(db, db.branches[b].source)
    BY <2>1, <2>2 DEF BranchSound
  <2>4. rows \in Seq(RowsOf(db)) /\ Len(rows) # 0
    BY <2>1, <2>2, <2>3, BranchRowsShape
  <2>5. rows # <<>>
    BY <2>4
  <2>6. BranchesOf(db)[b].history = rows
    BY <2>1, IndexFacts
  <2> QED BY <2>3, <2>5, <2>6 DEF Store!HeadOf, Store!Last
<1> QED BY <1>1, <1>2, <1>3

(* The checks of each write answer what the contract answers.                           *)
LEMMA SaveAnswers ==
  ASSUME Sound(db), NEW k \in Call, k \in SaveCall, NEW r \in Record, r = k.record
  PROVE  /\ Lookup(db, k) = "Continue" => Store!Fresh(r) /\ Store!SaveResult(r) = "Ok"
         /\ Lookup(db, k) # "Continue" =>
              /\ Store!SaveResult(r) = Lookup(db, k)
              /\ ~ (Store!Fresh(r) /\ Store!SaveResult(r) = "Ok")
<1>1. Store!Fresh(r) <=> ~ Has(db, r.id)
  BY IndexFacts DEF Store!Fresh
<1>2. Has(db, r.id) => IndexOf(db)[r.id] = RowById(db, r.id)
  BY IndexFacts
<1>3. Store!HeadOf(HistoriesOf(db)[r.thread]) = HeadRow(db, r.thread)
  BY HeadFacts, RecordFields
<1>4. Lookup(db, k) = SaveLookup(db, k)
  BY CallFacts DEF Lookup
<1> QED BY <1>1, <1>2, <1>3, <1>4 DEF SaveLookup, Store!SaveResult

LEMMA SaveBranchAnswers ==
  ASSUME Sound(db), NEW k \in Call, k \in SaveBranchCall, NEW r \in Record, r = k.record,
         NEW b \in BranchId, b = k.branch, Lookup(db, k) # "Corrupt"
  PROVE  /\ Lookup(db, k) = "Continue" =>
              Store!Fresh(r) /\ Store!SaveBranchResult(b, r) = "Ok"
         /\ Lookup(db, k) # "Continue" =>
              /\ Store!SaveBranchResult(b, r) = Lookup(db, k)
              /\ ~ (Store!Fresh(r) /\ Store!SaveBranchResult(b, r) = "Ok")
<1>1. Store!Fresh(r) <=> ~ Has(db, r.id)
  BY IndexFacts DEF Store!Fresh
<1>2. Has(db, r.id) => IndexOf(db)[r.id] = RowById(db, r.id)
  BY IndexFacts
<1>3. Lookup(db, k) = SaveBranchLookup(db, k)
  BY CallFacts DEF Lookup
<1>4. CASE Has(db, r.id)
  <2>1. Lookup(db, k) = RepeatedBranchSave(db, k)
    BY <1>3, <1>4 DEF SaveBranchLookup
  <2>2. /\ r.id \in DOMAIN RecordBranchesOf(db) <=> r.id \in DOMAIN db.members
        /\ r.id \in DOMAIN db.members =>
             RecordBranchesOf(db)[r.id] = db.members[r.id].branch
    BY IndexFacts
  <2>3. /\ RepeatedBranchSave(db, k) # "Continue"
        /\ RepeatedBranchSave(db, k) =
             IF RowById(db, r.id) = r /\ r.id \in DOMAIN db.members
                /\ db.members[r.id].branch = b
             THEN "Ok" ELSE "IdempotencyConflict"
    BY <2>1 DEF RepeatedBranchSave
  <2> QED BY <2>1, <2>2, <2>3, <1>1, <1>2, <1>4 DEF Store!SaveBranchResult
<1>5. CASE ~ Has(db, r.id)
  <2>1. Store!BranchOf(r.thread, b) <=> HasBranch(db, r.thread, b)
    BY HeadFacts
  <2>2. HasBranch(db, r.thread, b) =>
          Store!HeadOf(BranchesOf(db)[b].history) = db.branches[b].head
    BY HeadFacts DEF HasBranch
  <2>3. Lookup(db, k) = IF ~ HasBranch(db, r.thread, b) THEN "BranchNotFound"
                        ELSE IF db.branches[b].head # r.parent THEN "Conflict"
                        ELSE "Continue"
    BY <1>3, <1>5 DEF SaveBranchLookup
  <2> QED BY <2>1, <2>2, <2>3, <1>1, <1>5 DEF Store!SaveBranchResult
<1> QED BY <1>4, <1>5

LEMMA CreateBranchAnswers ==
  ASSUME Sound(db), NEW k \in Call, k \in CreateBranchCall, NEW b, b = k.branch,
         NEW t, t = k.thread, NEW c, c = k.source
  PROVE  /\ Lookup(db, k) = "Continue" => Store!CreateBranchResult(t, b, c) = "Ok"
         /\ Lookup(db, k) # "Continue" =>
              /\ Store!CreateBranchResult(t, b, c) = Lookup(db, k)
              /\ Lookup(db, k) # "Ok"
<1>1. b \in DOMAIN BranchesOf(db) <=> b \in DOMAIN db.branches
  BY IndexFacts
<1>2. Store!Get(t, c) <=> Has(db, c) /\ RowById(db, c).thread = t
  BY IndexFacts DEF Store!Get
<1>3. Lookup(db, k) = CreateBranchLookup(db, k)
  BY CallFacts DEF Lookup
<1> QED BY <1>1, <1>2, <1>3 DEF CreateBranchLookup, Store!CreateBranchResult

LEMMA IdFacts ==
  ASSUME NEW k \in Call
  PROVE  /\ IdOf(k) \in CheckpointId
         /\ k \in SaveCall \cup SaveBranchCall => IdOf(k) = k.record.id
         /\ k \in CreateBranchCall => IdOf(k) = k.source
BY CallFacts, RecordFields DEF IdOf

(* What an answer is to the contract.                                              *)
LEMMA ReplyFacts ==
  ASSUME NEW result, NEW c
  PROVE  /\ result # "Corrupt" =>
              ReplyOf([result |-> result, id |-> c]) = [result |-> result, id |-> c]
         /\ ReplyOf([result |-> "Corrupt", id |-> c]) = [result |-> "Failed", id |-> c]
BY DEF ReplyOf

(* A call that leaves the tables alone.                                             *)
LEMMA TablesKept ==
  ASSUME db' = db
  PROVE  UNCHANGED Store!contents
BY DEF Store!contents

LEMMA FailureRefines ==
  ASSUME NEW c \in CheckpointId, db' = db,
         \/ reply' = [result |-> "Failed", id |-> c]
         \/ reply' = [result |-> "Corrupt", id |-> c]
  PROVE  Store!Next
<1>1. ReplyOf(reply)' = [result |-> "Failed", id |-> c]
  BY ReplyFacts
<1>2. Store!Fail(c)
  BY <1>1, TablesKept DEF Store!Fail, Store!Answer
<1> QED BY <1>2 DEF Store!Next

LEMMA AnswersRefine ==
  ASSUME Inv, LookupAnswers
  PROVE  Store!Next
<1>1. PICK k, result : k = txn.call /\ result = Lookup(db, k)
  OBVIOUS
<1>2. InTransaction /\ txn.step = 0 /\ db' = db
  BY DEF LookupAnswers
<1>3. k \in Call /\ Sound(db) /\ txn.db = db
  BY <1>1, <1>2, Writes
<1>4. result # "Continue" /\ reply' = [result |-> result, id |-> IdOf(k)]
  BY <1>1, <1>3 DEF LookupAnswers, Answer
<1>5. IdOf(k) \in CheckpointId
  BY <1>3, IdFacts
<1>6. CASE result = "Corrupt"
  BY <1>2, <1>4, <1>5, <1>6, FailureRefines
<1>7. ASSUME result # "Corrupt"
      PROVE  ReplyOf(reply)' = [result |-> result, id |-> IdOf(k)]
  BY <1>4, <1>7, ReplyFacts
<1>8. CASE result # "Corrupt" /\ k \in SaveCall
  <2>1. PICK r \in Record : r = k.record
    BY <1>3, <1>8, CallFacts
  <2>2. Store!SaveResult(r) = result /\ ~ (Store!Fresh(r) /\ Store!SaveResult(r) = "Ok")
    BY <1>1, <1>3, <1>4, <1>8, <2>1, SaveAnswers
  <2>3. IdOf(k) = r.id
    BY <1>3, <1>8, <2>1, IdFacts
  <2>4. Store!SaveNoEffect(r)
    BY <1>2, <1>7, <1>8, <2>2, <2>3, TablesKept DEF Store!SaveNoEffect, Store!Answer
  <2> QED BY <2>4 DEF Store!Next, Store!Save, Record, Store!Record
<1>9. CASE result # "Corrupt" /\ k \in SaveBranchCall
  <2>1. PICK r \in Record, b \in BranchId : r = k.record /\ b = k.branch
    BY <1>3, <1>9, CallFacts
  <2>2. /\ Store!SaveBranchResult(b, r) = result
        /\ ~ (Store!Fresh(r) /\ Store!SaveBranchResult(b, r) = "Ok")
    BY <1>1, <1>3, <1>4, <1>9, <2>1, SaveBranchAnswers
  <2>3. IdOf(k) = r.id
    BY <1>3, <1>9, <2>1, IdFacts
  <2>4. Store!SaveBranchNoEffect(b, r)
    BY <1>2, <1>7, <1>9, <2>2, <2>3, TablesKept DEF Store!SaveBranchNoEffect, Store!Answer
  <2> QED BY <2>4 DEF Store!Next, Store!SaveBranch, Record, Store!Record
<1>10. CASE result # "Corrupt" /\ k \in CreateBranchCall
  <2>1. PICK t \in ThreadId, b \in BranchId, c \in CheckpointId :
          t = k.thread /\ b = k.branch /\ c = k.source
    BY <1>3, <1>10, CallFacts
  <2>2. Store!CreateBranchResult(t, b, c) = result /\ result # "Ok"
    BY <1>1, <1>3, <1>4, <1>10, <2>1, CreateBranchAnswers
  <2>3. IdOf(k) = c
    BY <1>3, <1>10, <2>1, IdFacts
  <2>4. Store!CreateBranchRefused(t, b, c)
    BY <1>2, <1>7, <1>10, <2>2, <2>3, TablesKept DEF Store!CreateBranchRefused, Store!Answer
  <2> QED BY <2>4 DEF Store!Next, Store!CreateBranch
<1> QED BY <1>3, <1>6, <1>8, <1>9, <1>10, CallFacts

(* A new row is one new entry of the index.                                          *)
LEMMA IndexGrows ==
  ASSUME NEW d, NEW e, Sound(d), Sound(e), NEW r \in Record, ~ Has(d, r.id),
         e.records = Append(d.records, r)
  PROVE  IndexOf(e) = Store!Put(IndexOf(d), r.id, r)
<1>1. PICK c : c = r.id
  OBVIOUS
<1>2. Typed(d) /\ UniqueRows(d)
  BY DEF Sound
<1>3. /\ \A x : Has(e, x) <=> Has(d, x) \/ x = c
      /\ \A x : Has(d, x) => RowById(e, x) = RowById(d, x) /\ x # c
      /\ RowById(e, c) = r
  BY <1>1, <1>2, InsertRows
<1>4. PICK f, g : f = IndexOf(d) /\ g = IndexOf(e)
  OBVIOUS
<1>5. /\ \A x : x \in DOMAIN f <=> Has(d, x)
      /\ \A x : Has(d, x) => f[x] = RowById(d, x)
  BY <1>4, IndexFacts
<1>6. /\ \A x : x \in DOMAIN g <=> Has(e, x)
      /\ \A x : Has(e, x) => g[x] = RowById(e, x)
  BY <1>4, IndexFacts
<1>7. g = [x \in DOMAIN g |-> g[x]]
  BY <1>4 DEF IndexOf
<1>8. DOMAIN g = DOMAIN f \cup {c}
  BY <1>3, <1>5, <1>6
<1>9. \A x \in DOMAIN g : g[x] = IF x = c THEN r ELSE f[x]
  BY <1>3, <1>5, <1>6
<1>10. g = [x \in DOMAIN f \cup {c} |-> IF x = c THEN r ELSE f[x]]
  BY <1>7, <1>8, <1>9
<1> QED BY <1>1, <1>4, <1>10 DEF Store!Put

LEMMA SaveCommits ==
  ASSUME Sound(db), NEW k \in Call, k \in SaveCall, Lookup(db, k) = "Continue",
         db' = UpdateHead(InsertRecord(db, k.record), k.record),
         reply' = [result |-> "Ok", id |-> IdOf(k)]
  PROVE  Store!Next
<1>1. PICK r \in Record : r = k.record
  BY CallFacts
<1>2. PICK d, e : d = db /\ e = db'
  OBVIOUS
<1>3. Sound(d) /\ ~ Has(d, r.id) /\ e = UpdateHead(InsertRecord(d, r), r)
  BY <1>1, <1>2, SaveContinues
<1>4. PICK t \in ThreadId : t = r.thread
  BY RecordFields
<1>5. /\ Sound(e) /\ e.records = Append(d.records, r)
      /\ e.branches = d.branches /\ e.members = d.members
      /\ HistoryRows(e, t) = Append(HistoryRows(d, t), r)
      /\ \A u : u # t => HistoryRows(e, u) = HistoryRows(d, u)
      /\ \A b \in DOMAIN d.branches :
           BranchRows(e, d.branches[b].thread, b) = BranchRows(d, d.branches[b].thread, b)
  BY <1>3, <1>4, AfterSave
<1>6. HistoriesOf(e) = [HistoriesOf(d) EXCEPT ![t] = Append(@, r)]
  BY <1>5 DEF HistoriesOf
<1>7. IndexOf(e) = Store!Put(IndexOf(d), r.id, r)
  BY <1>3, <1>5, IndexGrows
<1>8. RecordBranchesOf(e) = RecordBranchesOf(d) /\ BranchesOf(e) = BranchesOf(d)
  BY <1>5 DEF RecordBranchesOf, BranchesOf
<1>9. Store!Fresh(r) /\ Store!SaveResult(r) = "Ok"
  BY <1>1, SaveAnswers
<1>10. ReplyOf(reply)' = [result |-> "Ok", id |-> r.id]
  BY <1>1, ReplyFacts, IdFacts
<1>11. Store!SaveAppend(r)
  BY <1>2, <1>4, <1>6, <1>7, <1>8, <1>9, <1>10 DEF Store!SaveAppend, Store!Answer
<1> QED BY <1>11 DEF Store!Next, Store!Save, Record, Store!Record

LEMMA SaveBranchCommits ==
  ASSUME Sound(db), NEW k \in Call, k \in SaveBranchCall, Lookup(db, k) = "Continue",
         db' = UpdateBranchHead(InsertMember(InsertRecord(db, k.record), k.branch, k.record),
                                k.branch, k.record),
         reply' = [result |-> "Ok", id |-> IdOf(k)]
  PROVE  Store!Next
<1>1. PICK r \in Record, a \in BranchId : r = k.record /\ a = k.branch
  BY CallFacts
<1>2. PICK d, e : d = db /\ e = db'
  OBVIOUS
<1>3. /\ Sound(d) /\ ~ Has(d, r.id) /\ HasBranch(d, r.thread, a)
      /\ d.branches[a].head = r.parent
      /\ e = UpdateBranchHead(InsertMember(InsertRecord(d, r), a, r), a, r)
  BY <1>1, <1>2, SaveBranchContinues
<1>4. a \in DOMAIN d.branches /\ d.branches[a].thread = r.thread
  BY <1>3 DEF HasBranch
<1>5. /\ Sound(e) /\ e.records = Append(d.records, r)
      /\ DOMAIN e.branches = DOMAIN d.branches
      /\ \A b \in DOMAIN d.branches : e.branches[b].thread = d.branches[b].thread
      /\ DOMAIN e.members = DOMAIN d.members \cup {r.id}
      /\ e.members[r.id].branch = a
      /\ \A c \in DOMAIN d.members : e.members[c] = d.members[c] /\ c # r.id
      /\ \A t : HistoryRows(e, t) = HistoryRows(d, t)
      /\ BranchRows(e, r.thread, a) = Append(BranchRows(d, r.thread, a), r)
      /\ \A b \in DOMAIN d.branches : b # a =>
           BranchRows(e, d.branches[b].thread, b) = BranchRows(d, d.branches[b].thread, b)
  BY <1>3, AfterSaveBranch
<1>6. HistoriesOf(e) = HistoriesOf(d)
  BY <1>5 DEF HistoriesOf
<1>7. IndexOf(e) = Store!Put(IndexOf(d), r.id, r)
  BY <1>3, <1>5, IndexGrows
<1>8. RecordBranchesOf(e) = Store!Put(RecordBranchesOf(d), r.id, a)
  <2>1. PICK c : c = r.id
    OBVIOUS
  <2>2. PICK f : f = RecordBranchesOf(d)
    OBVIOUS
  <2>3. /\ DOMAIN f = DOMAIN d.members
        /\ \A x \in DOMAIN d.members : f[x] = d.members[x].branch
    BY <2>2, <1>3, IndexFacts
  <2>4. RecordBranchesOf(e) = [x \in DOMAIN f \cup {c} |-> IF x = c THEN a ELSE f[x]]
    BY <2>1, <2>3, <1>5 DEF RecordBranchesOf
  <2> QED BY <2>1, <2>2, <2>4 DEF Store!Put
<1>9. BranchesOf(e) = [BranchesOf(d) EXCEPT ![a].history = Append(@, r)]
  <2>1. ASSUME NEW b \in DOMAIN d.branches, b # a
        PROVE  /\ e.branches[b].thread = d.branches[b].thread
               /\ BranchRows(e, e.branches[b].thread, b) =
                    BranchRows(d, d.branches[b].thread, b)
    BY <2>1, <1>5
  <2>2. /\ e.branches[a].thread = d.branches[a].thread
        /\ BranchRows(e, e.branches[a].thread, a) =
             Append(BranchRows(d, d.branches[a].thread, a), r)
    BY <1>4, <1>5
  <2>3. PICK f : f = BranchesOf(d)
    OBVIOUS
  <2>4. PICK h : h = BranchRows(d, d.branches[a].thread, a)
    OBVIOUS
  <2>5. /\ DOMAIN f = DOMAIN d.branches /\ f = [b \in DOMAIN f |-> f[b]]
        /\ \A b \in DOMAIN d.branches :
             f[b] = [thread |-> d.branches[b].thread,
                     history |-> BranchRows(d, d.branches[b].thread, b)]
    BY <2>3 DEF BranchesOf
  <2>6. f[a] = [thread |-> d.branches[a].thread, history |-> h]
    BY <2>4, <2>5, <1>4
  <2>7. [f[a] EXCEPT !.history = Append(@, r)] =
          [thread |-> d.branches[a].thread, history |-> Append(h, r)]
    BY <2>6
  <2>8. PICK v : v = [f[a] EXCEPT !.history = Append(@, r)]
    OBVIOUS
  <2>9. [thread |-> e.branches[a].thread, history |-> BranchRows(e, e.branches[a].thread, a)] = v
    BY <2>2, <2>4, <2>7, <2>8
  <2>10. ASSUME NEW b \in DOMAIN d.branches, b # a
         PROVE  [thread |-> e.branches[b].thread,
                 history |-> BranchRows(e, e.branches[b].thread, b)] = f[b]
    BY <2>1, <2>5, <2>10
  <2>11. BranchesOf(e) = [b \in DOMAIN f |-> IF b = a THEN v ELSE f[b]]
    BY <2>5, <2>9, <2>10, <1>5 DEF BranchesOf
  <2>12. [f EXCEPT ![a] = v] = [b \in DOMAIN f |-> IF b = a THEN v ELSE f[b]]
    BY <2>5
  <2>13. BranchesOf(e) = [f EXCEPT ![a] = v]
    BY <2>11, <2>12
  <2>14. [f EXCEPT ![a] = v] = [f EXCEPT ![a].history = Append(@, r)]
    BY <2>8
  <2> QED BY <2>3, <2>13, <2>14
<1>10. Store!Fresh(r) /\ Store!SaveBranchResult(a, r) = "Ok"
  BY <1>1, SaveBranchAnswers
<1>11. ReplyOf(reply)' = [result |-> "Ok", id |-> r.id]
  BY <1>1, ReplyFacts, IdFacts
<1>12. Store!SaveBranchAppend(a, r)
  BY <1>2, <1>6, <1>7, <1>8, <1>9, <1>10, <1>11 DEF Store!SaveBranchAppend, Store!Answer
<1> QED BY <1>12 DEF Store!Next, Store!SaveBranch, Record, Store!Record

LEMMA CreateBranchCommits ==
  ASSUME Sound(db), NEW k \in Call, k \in CreateBranchCall, Lookup(db, k) = "Continue",
         db' = InsertBranch(db, k), reply' = [result |-> "Ok", id |-> IdOf(k)]
  PROVE  Store!Next
<1>1. PICK t \in ThreadId, a \in BranchId, c \in CheckpointId :
        t = k.thread /\ a = k.branch /\ c = k.source
  BY CallFacts
<1>2. PICK d, e : d = db /\ e = db'
  OBVIOUS
<1>3. /\ Sound(d) /\ a \notin DOMAIN d.branches /\ Has(d, c)
      /\ RowById(d, c).thread = t /\ e = InsertBranch(d, k)
  BY <1>1, <1>2, CreateBranchContinues
<1>4. /\ Sound(e) /\ e.records = d.records /\ e.members = d.members
      /\ DOMAIN e.branches = DOMAIN d.branches \cup {a}
      /\ e.branches[a].thread = t
      /\ BranchRows(e, t, a) = <<RowById(d, c)>>
      /\ \A b \in DOMAIN d.branches :
           /\ e.branches[b].thread = d.branches[b].thread
           /\ BranchRows(e, d.branches[b].thread, b) = BranchRows(d, d.branches[b].thread, b)
  BY <1>1, <1>3, AfterCreateBranch
<1>5. /\ RowsOf(e) = RowsOf(d) /\ \A x : RowById(e, x) = RowById(d, x)
      /\ \A u : HistoryRows(e, u) = HistoryRows(d, u)
  BY <1>4, SameQueries
<1>6. /\ HistoriesOf(e) = HistoriesOf(d) /\ IndexOf(e) = IndexOf(d)
      /\ RecordBranchesOf(e) = RecordBranchesOf(d)
  BY <1>4, <1>5 DEF HistoriesOf, IndexOf, RecordBranchesOf
<1>7. IndexOf(d)[c] = RowById(d, c)
  BY <1>3, IndexFacts
<1>8. BranchesOf(e) = Store!Put(BranchesOf(d), a, [thread |-> t, history |-> <<IndexOf(d)[c]>>])
  <2>1. PICK f : f = BranchesOf(d)
    OBVIOUS
  <2>2. PICK v : v = [thread |-> t, history |-> <<RowById(d, c)>>]
    OBVIOUS
  <2>3. /\ DOMAIN f = DOMAIN d.branches
        /\ \A b \in DOMAIN d.branches :
             f[b] = [thread |-> d.branches[b].thread,
                     history |-> BranchRows(d, d.branches[b].thread, b)]
    BY <2>1 DEF BranchesOf
  <2>4. [thread |-> e.branches[a].thread, history |-> BranchRows(e, e.branches[a].thread, a)] = v
    BY <2>2, <1>4
  <2>5. ASSUME NEW b \in DOMAIN d.branches
        PROVE  [thread |-> e.branches[b].thread,
                history |-> BranchRows(e, e.branches[b].thread, b)] = f[b]
    BY <2>3, <1>4
  <2>6. BranchesOf(e) = [x \in DOMAIN f \cup {a} |-> IF x = a THEN v ELSE f[x]]
    BY <2>3, <2>4, <2>5, <1>3, <1>4 DEF BranchesOf
  <2> QED BY <2>1, <2>2, <2>6, <1>7 DEF Store!Put
<1>9. Store!CreateBranchResult(t, a, c) = "Ok"
  BY <1>1, CreateBranchAnswers
<1>10. ReplyOf(reply)' = [result |-> "Ok", id |-> c]
  BY <1>1, ReplyFacts, IdFacts
<1>11. Store!CreateBranchOpen(t, a, c)
  BY <1>2, <1>6, <1>8, <1>9, <1>10 DEF Store!CreateBranchOpen, Store!Answer
<1> QED BY <1>11 DEF Store!Next, Store!CreateBranch

LEMMA CommitRefines ==
  ASSUME Inv, Commit
  PROVE  Store!Next
<1>1. PICK k, n, x : k = txn.call /\ n = txn.step /\ x = txn.db
  OBVIOUS
<1>2. /\ InTransaction /\ n = Len(Statements(k.op)) + 1 /\ db' = x
      /\ reply' = [result |-> "Ok", id |-> IdOf(k)]
  BY <1>1 DEF Commit, Answer
<1>3. k \in Call /\ Sound(db)
  BY <1>1, <1>2, Writes
<1>4. n # 0
  BY <1>2, <1>3, CallFacts, StatementFacts
<1>5. Lookup(db, k) = "Continue" /\ Writing(db, k, n, x)
  BY <1>1, <1>2, <1>4, Writes
<1>6. \/ k \in SaveCall /\ x = UpdateHead(InsertRecord(db, k.record), k.record)
      \/ /\ k \in SaveBranchCall
         /\ x = UpdateBranchHead(InsertMember(InsertRecord(db, k.record), k.branch, k.record),
                                 k.branch, k.record)
      \/ k \in CreateBranchCall /\ x = InsertBranch(db, k)
  BY <1>2, <1>3, <1>5, WritingEnds
<1> QED BY <1>2, <1>3, <1>5, <1>6, SaveCommits, SaveBranchCommits, CreateBranchCommits

(* A step that neither commits nor answers is invisible.                             *)
LEMMA Invisible ==
  ASSUME db' = db, reply' = reply
  PROVE  UNCHANGED Store!vars
BY DEF Store!vars

LEMMA StepRefines ==
  ASSUME Inv, [Next]_vars
  PROVE  [Store!Next]_(Store!vars)
<1>1. ASSUME NEW k \in Call, Begin(k) PROVE UNCHANGED Store!vars
  BY <1>1, Invisible DEF Begin
<1>2. ASSUME NEW c \in CheckpointId, Busy(c) PROVE Store!Next
  BY <1>2, FailureRefines DEF Busy
<1>3. CASE LookupAnswers
  BY <1>3, AnswersRefine
<1>4. CASE LookupContinues
  BY <1>4, Invisible DEF LookupContinues
<1>5. CASE Execute
  BY <1>5, Invisible DEF Execute
<1>6. CASE Commit
  BY <1>6, CommitRefines
<1>7. CASE StatementFails
  <2>1. PICK k \in Call : k = txn.call
    BY <1>7, Writes DEF StatementFails
  <2>2. db' = db /\ reply' = [result |-> "Failed", id |-> IdOf(k)]
    BY <1>7, <2>1 DEF StatementFails, Answer
  <2> QED BY <2>2, IdFacts, FailureRefines
<1>8. CASE Dropped
  BY <1>8, Invisible DEF Dropped
<1>9. CASE UNCHANGED vars
  BY <1>9, Invisible DEF vars
<1> QED BY <1>1, <1>2, <1>3, <1>4, <1>5, <1>6, <1>7, <1>8, <1>9 DEF Next

LEMMA InitRefines == Init => Store!Init
<1> SUFFICES ASSUME Init PROVE Store!Init
  OBVIOUS
<1>1. /\ db.records = <<>> /\ db.branches = EmptyMap /\ db.members = EmptyMap
  BY DEF Init, EmptyTables
<1>2. HistoriesOf(db) = [t \in ThreadId |-> <<>>]
  BY <1>1, PickedEmpty DEF HistoriesOf, HistoryRows
<1>3. RowsOf(db) = {}
  BY <1>1 DEF RowsOf, ToSet
<1>4. /\ IndexOf(db) = Store!EmptyMap /\ RecordBranchesOf(db) = Store!EmptyMap
      /\ BranchesOf(db) = Store!EmptyMap
  BY <1>1, <1>3 DEF IndexOf, RecordBranchesOf, BranchesOf, EmptyMap, Store!EmptyMap
<1>5. ReplyOf(reply) = [result |-> "Ok", id |-> NoCheckpoint]
  BY ReplyFacts DEF Init
<1> QED BY <1>2, <1>4, <1>5 DEF Store!Init

(* The statement-by-statement transactions of the SQLite store, with its lock          *)
(* timeouts, failing statements, dropped futures and crashes, are atomic: its readers    *)
(* and callers see a CheckpointStore.                                               *)
THEOREM ImplementsCheckpointStoreHolds == Spec => ImplementsCheckpointStore
<1>1. Init => Store!Init
  BY InitRefines
<1>2. Inv /\ [Next]_vars => [Store!Next]_(Store!vars)
  BY StepRefines
<1> QED BY <1>1, <1>2, Invariance, PTL DEF Spec, ImplementsCheckpointStore, Store!Spec


-----------------------------------------------------------------------------
(* The cache is bounded.                                                   *)

(* The countdown and the size of the map, which is finite.                 *)
BoundInv ==
  /\ until \in Nat /\ survived \in Nat /\ IsFiniteSet(DOMAIN entries)
  /\ GarbageBounded

(* A call of cache() leaves at most one entry more than the scan kept.       *)
LEMMA CacheDomain ==
  ASSUME NEW t \in Tasks, Cache(t)
  PROVE  \E x : DOMAIN entries' = Kept \/ DOMAIN entries' = Kept \cup {x}
<1> DEFINE record == Head(todo[t])
<1>1. \/ entries' = [id \in Kept |-> entries[id]]
      \/ Insert(Kept, record, fresh[t])
  BY DEF Cache
<1>2. QED
  BY <1>1 DEF Insert

(* Only cache() touches the map and its countdown.                         *)
LEMMA OtherStepsKeepMap ==
  ASSUME [CacheNext]_caching, ~\E t \in Tasks : Cache(t)
  PROVE  UNCHANGED <<entries, until, survived>>
BY DEF CacheNext, caching, OtherWriter, Save, AnsweredOther, Load, Serve, Cached, Decode, Drop

(* One cache() call keeps the bound: the insertion costs one of the        *)
(* countdown, and a scan leaves exactly the survivors.                     *)
LEMMA CacheKeepsBound ==
  ASSUME BoundInv, NEW t \in Tasks, Cache(t)
  PROVE  BoundInv'
<1>1. CleanupFloor \in Nat \ {0}
  BY CacheAssumption
<1>2. Kept \subseteq DOMAIN entries
  BY DEF Kept, Survivors
<1>3. /\ IsFiniteSet(Kept) /\ Cardinality(Kept) \in Nat
      /\ Cardinality(Kept) <= Cardinality(DOMAIN entries)
      /\ Cardinality(DOMAIN entries) \in Nat
  BY <1>2, FS_Subset, FS_CardinalityType DEF BoundInv
<1>4. PICK x : DOMAIN entries' = Kept \/ DOMAIN entries' = Kept \cup {x}
  BY CacheDomain
<1>5. /\ IsFiniteSet(DOMAIN entries') /\ Cardinality(DOMAIN entries') \in Nat
      /\ Cardinality(DOMAIN entries') <= Cardinality(Kept) + 1
  <2>1. /\ IsFiniteSet(Kept \cup {x})
        /\ \/ Cardinality(Kept \cup {x}) = Cardinality(Kept)
           \/ Cardinality(Kept \cup {x}) = Cardinality(Kept) + 1
    BY <1>3, FS_AddElement
  <2>2. QED
    BY <1>3, <1>4, <2>1
<1>6. RemoveExpired
  BY DEF Cache
<1>7. CASE until - 1 > 0
  <2>1. until' = until - 1 /\ survived' = survived /\ Kept = DOMAIN entries
    BY <1>6, <1>7 DEF RemoveExpired, Kept
  <2>2. AtLeastFloor(survived)' = AtLeastFloor(survived) /\ AtLeastFloor(survived) \in Nat
    BY <2>1, <1>1 DEF AtLeastFloor, BoundInv
  <2>3. QED
    BY <2>1, <2>2, <1>3, <1>5, <1>7 DEF BoundInv, GarbageBounded
<1>8. CASE ~(until - 1 > 0)
  <2>1. /\ Kept = Survivors /\ survived' = Cardinality(Kept)
        /\ until' = AtLeastFloor(Cardinality(Kept))
    BY <1>6, <1>8 DEF RemoveExpired, Kept, Budget
  <2>2. /\ AtLeastFloor(Cardinality(Kept)) \in Nat /\ AtLeastFloor(Cardinality(Kept)) >= 1
        /\ AtLeastFloor(survived)' = AtLeastFloor(Cardinality(Kept))
    BY <2>1, <1>1, <1>3 DEF AtLeastFloor
  <2>3. QED
    BY <2>1, <2>2, <1>3, <1>5 DEF BoundInv, GarbageBounded
<1>9. QED
  BY <1>7, <1>8

(* The new adapter's map is empty.                                         *)
LEMMA BoundInit == CacheInit => BoundInv
<1> SUFFICES ASSUME CacheInit PROVE BoundInv
  OBVIOUS
<1>1. DOMAIN entries = {}
  BY DEF CacheInit
<1>2. IsFiniteSet(DOMAIN entries) /\ Cardinality(DOMAIN entries) = 0
  BY <1>1, FS_EmptySet
<1>3. QED
  BY <1>2, CacheAssumption DEF CacheInit, BoundInv, GarbageBounded, AtLeastFloor

(* Every step keeps the bound.                                             *)
LEMMA BoundNext == BoundInv /\ [CacheNext]_caching => BoundInv'
<1> SUFFICES ASSUME BoundInv, [CacheNext]_caching PROVE BoundInv'
  OBVIOUS
<1>1. CASE \E t \in Tasks : Cache(t)
  BY <1>1, CacheKeepsBound
<1>2. CASE ~\E t \in Tasks : Cache(t)
  BY <1>2, OtherStepsKeepMap DEF BoundInv, GarbageBounded, AtLeastFloor
<1>3. QED
  BY <1>1, <1>2

(* Whatever its callers keep alive, the cache holds at most the survivors  *)
(* of its last scan and one scan budget more, and the countdown of         *)
(* remove_expired never passes below zero.                                 *)
THEOREM CacheIsBounded == CacheSpec => []GarbageBounded
<1>1. BoundInv => GarbageBounded
  BY DEF BoundInv
<1>2. QED
  BY <1>1, BoundInit, BoundNext, PTL DEF CacheSpec

-----------------------------------------------------------------------------
(* The cache is faithful.                                                  *)

(* The log holds one record of a checkpoint, with the content saved.       *)
LogHonest ==
  /\ \A i \in DOMAIN log : log[i].content = "saved"
  /\ \A i, j \in DOMAIN log : log[i].id = log[j].id => log[i] = log[j]

(* A record is in the log, or the store has lied about its checkpoint.     *)
Backed(r) == (\E i \in DOMAIN log : log[i] = r) \/ r.id \in lied

(* So it is with every record the adapter has.                             *)
RecordsBacked ==
  /\ \A t \in Tasks : \A i \in DOMAIN todo[t] : Backed(todo[t][i])
  /\ \A id \in DOMAIN entries : Backed(entries[id].record)

(* Entries are filed under their own checkpoint, and a decoded object is   *)
(* one of the checkpoint its task is decoding.                             *)
FiledById ==
  /\ \A id \in DOMAIN entries : entries[id].record.id = id /\ entries[id].weak[1] = id
  /\ \A t \in Tasks : pc[t] = "decoded" => fresh[t][1] = Head(todo[t]).id

(* What a caller holds is what its entry refers to.                        *)
HeldIsCached ==
  \A t \in Tasks : \A o \in handles[t] \cup got[t] :
    o[1] \in DOMAIN entries /\ entries[o[1]].weak = o

FaithInv == TypeOK /\ LogHonest /\ RecordsBacked /\ FiledById /\ HeldIsCached /\ ConflictIsReal

(* The first record a busy task has to decode, and the ones after it.      *)
LEMMA HeadRecord ==
  ASSUME TypeOK, NEW t \in Tasks, pc[t] # "idle"
  PROVE  /\ Head(todo[t]) \in CheckpointRecord /\ Head(todo[t]).id \in Ids
         /\ 1 \in DOMAIN todo[t] /\ Head(todo[t]) = todo[t][1]
         /\ Tail(todo[t]) \in Seq(CheckpointRecord)
         /\ \A i \in DOMAIN Tail(todo[t]) : i + 1 \in DOMAIN todo[t] /\ Tail(todo[t])[i] = todo[t][i + 1]
         /\ Len(todo[t]) # 1 => Tail(todo[t]) # <<>>
<1>1. todo[t] \in Seq(CheckpointRecord) /\ todo[t] # <<>>
  BY DEF TypeOK
<1>2. Len(todo[t]) \in Nat /\ Len(todo[t]) > 0 /\ DOMAIN todo[t] = 1..Len(todo[t])
  BY <1>1
<1>3. Head(todo[t]) = todo[t][1] /\ Head(todo[t]) \in CheckpointRecord
  BY <1>1, <1>2
<1>4. /\ Tail(todo[t]) \in Seq(CheckpointRecord) /\ Len(Tail(todo[t])) = Len(todo[t]) - 1
      /\ DOMAIN Tail(todo[t]) = 1..Len(todo[t]) - 1
      /\ \A i \in 1..Len(todo[t]) - 1 : Tail(todo[t])[i] = todo[t][i + 1]
  BY <1>1, <1>2
<1>5. Len(todo[t]) # 1 => Tail(todo[t]) # <<>>
  <2>1. Len(Tail(todo[t])) = 0 => Len(todo[t]) = 1
    BY <1>2, <1>4
  <2>2. Tail(todo[t]) = <<>> => Len(Tail(todo[t])) = 0
    BY <1>4, EmptySeq
  <2>3. QED
    BY <2>1, <2>2
<1>6. QED
  BY <1>2, <1>3, <1>4, <1>5 DEF CheckpointRecord

(* A conflict between an entry and a record of its checkpoint, both backed,  *)
(* means that the store has lied about the checkpoint.                     *)
LEMMA ConflictMeansLie ==
  ASSUME FaithInv, NEW t \in Tasks, pc[t] # "idle",
         Head(todo[t]).id \in DOMAIN entries,
         Conflicts(entries[Head(todo[t]).id], Head(todo[t]))
  PROVE  Head(todo[t]).id \in lied
<1> DEFINE r == Head(todo[t])
           e == entries[r.id].record
<1>1. Backed(r) /\ Backed(e) /\ e.id = r.id /\ e # r
  BY HeadRecord DEF FaithInv, RecordsBacked, FiledById, Conflicts
<1>2. ASSUME r.id \notin lied PROVE FALSE
  <2>1. PICK i \in DOMAIN log : log[i] = r
    BY <1>1, <1>2 DEF Backed
  <2>2. PICK j \in DOMAIN log : log[j] = e
    BY <1>1, <1>2 DEF Backed
  <2>3. QED
    BY <1>1, <2>1, <2>2 DEF FaithInv, LogHonest
<1>3. QED
  BY <1>2

(* A store call gives an idle task records that are backed; nothing else of  *)
(* the adapter changes.                                                    *)
LEMMA ServeKeeps ==
  ASSUME FaithInv, NEW t \in Tasks, NEW records \in Seq(CheckpointRecord), records # <<>>,
         NEW step \in {"saving", "loading"}, pc[t] = "idle", Serve(t, records, step),
         log' \in Seq(CheckpointRecord), LogHonest',
         \A i \in DOMAIN log : i \in DOMAIN log' /\ log'[i] = log[i],
         \A i \in DOMAIN records : (\E j \in DOMAIN log' : log'[j] = records[i]) \/ records[i].content = "other"
  PROVE  FaithInv'
<1> USE DEF FaithInv
<1>1. lied \subseteq lied' /\ \A i \in DOMAIN records : records[i].content = "other" => records[i].id \in lied'
  BY DEF Serve, Range
<1>2. /\ pc' = [pc EXCEPT ![t] = step] /\ todo' = [todo EXCEPT ![t] = records]
      /\ UNCHANGED <<entries, until, survived, got, fresh, handles, conflicts>>
  BY DEF Serve
<1>3. TypeOK'
  BY <1>2 DEF TypeOK
<1>4. RecordsBacked'
  <2>1. \A r : Backed(r) => Backed(r)'
    BY <1>1 DEF Backed
  <2>2. \A i \in DOMAIN records : Backed(records[i])'
    BY <1>1 DEF Backed
  <2>3. \A id \in DOMAIN entries' : Backed(entries[id].record)'
    BY <2>1, <1>2 DEF RecordsBacked
  <2>4. ASSUME NEW u \in Tasks, NEW i \in DOMAIN todo'[u] PROVE Backed(todo[u][i])'
    <3>1. CASE u = t
      BY <3>1, <1>2, <2>2 DEF TypeOK
    <3>2. CASE u # t
      BY <3>2, <1>2, <2>1 DEF TypeOK, RecordsBacked
    <3>3. QED
      BY <3>1, <3>2
  <2>5. QED
    BY <2>3, <2>4 DEF RecordsBacked
<1>5. FiledById'
  BY <1>2 DEF FiledById, TypeOK
<1>6. HeldIsCached' /\ ConflictIsReal'
  BY <1>1, <1>2 DEF HeldIsCached, ConflictIsReal
<1>7. QED
  BY <1>3, <1>4, <1>5, <1>6

(* Appending a record of a new checkpoint keeps the log honest.            *)
LEMMA AppendKeepsLog ==
  ASSUME FaithInv, NEW r \in CheckpointRecord, r.content = "saved", r.id \notin Logged, log' = Append(log, r)
  PROVE  /\ log' \in Seq(CheckpointRecord) /\ LogHonest'
         /\ \A i \in DOMAIN log : i \in DOMAIN log' /\ log'[i] = log[i]
         /\ \E j \in DOMAIN log' : log'[j] = r
<1>1. /\ log \in Seq(CheckpointRecord) /\ Len(log) \in Nat /\ DOMAIN log = 1..Len(log)
      /\ \A i \in DOMAIN log : log[i].id # r.id
  BY DEF FaithInv, TypeOK, Logged
<1>2. /\ log' \in Seq(CheckpointRecord) /\ DOMAIN log' = 1..Len(log) + 1 /\ log'[Len(log) + 1] = r
      /\ \A i \in 1..Len(log) : log'[i] = log[i]
  BY <1>1
<1>3. \A i \in DOMAIN log' : (i \in DOMAIN log /\ log'[i] = log[i]) \/ log'[i] = r
  BY <1>1, <1>2
<1>4. LogHonest'
  BY <1>1, <1>3 DEF LogHonest, FaithInv
<1>5. QED
  BY <1>1, <1>2, <1>4

(* A log that grows honestly does not concern the cache.                   *)
LEMMA LogGrowthKeeps ==
  ASSUME FaithInv, log' \in Seq(CheckpointRecord), LogHonest',
         \A i \in DOMAIN log : i \in DOMAIN log' /\ log'[i] = log[i],
         UNCHANGED <<entries, until, survived, pc, todo, got, fresh, handles, lied, conflicts>>
  PROVE  FaithInv'
<1> USE DEF FaithInv
<1>1. TypeOK'
  BY DEF TypeOK
<1>2. RecordsBacked'
  <2>1. \A r : Backed(r) => Backed(r)'
    BY DEF Backed
  <2>2. QED
    BY <2>1 DEF RecordsBacked
<1>3. FiledById' /\ HeldIsCached' /\ ConflictIsReal'
  BY DEF FiledById, HeldIsCached, ConflictIsReal
<1>4. QED
  BY <1>1, <1>2, <1>3

(* A save and a load bring in records that are backed.                     *)
LEMMA StoreCallKeeps ==
  ASSUME FaithInv, NEW t \in Tasks, Save(t) \/ Load(t)
  PROVE  FaithInv'
<1>0. log \in Seq(CheckpointRecord) /\ Len(log) \in Nat /\ DOMAIN log = 1..Len(log)
  BY DEF FaithInv, TypeOK
<1>1. CASE Save(t)
  <2>1. PICK id \in Ids :
          LET record == [id |-> id, schema |-> "current", content |-> "saved"]
          IN  /\ \/ id \notin Logged /\ log' = Append(log, record)
                 \/ record \in Range(log) /\ UNCHANGED log
              /\ Serve(t, <<record>>, "saving") \/ AnsweredOther
    BY <1>1 DEF Save
  <2> DEFINE record == [id |-> id, schema |-> "current", content |-> "saved"]
  <2>2. record \in CheckpointRecord /\ record.id = id /\ record.content = "saved"
    BY DEF CheckpointRecord, Schemas, Contents
  <2>3. /\ log' \in Seq(CheckpointRecord) /\ LogHonest'
        /\ \A i \in DOMAIN log : i \in DOMAIN log' /\ log'[i] = log[i]
        /\ \E j \in DOMAIN log' : log'[j] = record
    <3>1. CASE id \notin Logged /\ log' = Append(log, record)
      BY <3>1, <2>2, AppendKeepsLog
    <3>2. CASE record \in Range(log) /\ UNCHANGED log
      BY <3>2, <1>0 DEF Range, FaithInv, LogHonest
    <3>3. QED
      BY <2>1, <3>1, <3>2
  <2> HIDE DEF record
  <2>4. <<record>> \in Seq(CheckpointRecord) /\ <<record>> # <<>> /\ \A i \in DOMAIN <<record>> : <<record>>[i] = record
    BY <2>2
  <2>5. pc[t] = "idle" /\ (Serve(t, <<record>>, "saving") \/ AnsweredOther)
    BY <2>1, <1>1 DEF Save, record
  <2>6. CASE Serve(t, <<record>>, "saving")
    BY <2>3, <2>4, <2>5, <2>6, ServeKeeps
  <2>7. CASE AnsweredOther
    BY <2>3, <2>7, LogGrowthKeeps DEF AnsweredOther, call
  <2>8. QED
    BY <2>5, <2>6, <2>7
<1>2. CASE Load(t)
  <2>1. PICK lie \in Lies :
          LET shown == [i \in DOMAIN log |-> IF lie THEN Lie(log[i]) ELSE log[i]]
          IN  \/ \E i \in DOMAIN log : Serve(t, <<shown[i]>>, "loading")
              \/ Serve(t, shown, "loading")
    BY <1>2 DEF Load
  <2> DEFINE shown == [i \in DOMAIN log |-> IF lie THEN Lie(log[i]) ELSE log[i]]
  <2>2. \A i \in DOMAIN log : /\ shown[i] \in CheckpointRecord
                              /\ shown[i] = log[i] \/ shown[i].content = "other"
    <3>1. \A i \in DOMAIN log : log[i] \in CheckpointRecord
      BY <1>0
    <3>2. \A r \in CheckpointRecord : Lie(r) \in CheckpointRecord /\ Lie(r).content = "other"
      BY DEF Lie, CheckpointRecord, Contents
    <3>3. QED
      BY <3>1, <3>2
  <2>3. shown \in Seq(CheckpointRecord) /\ DOMAIN shown = DOMAIN log
    BY <1>0, <2>2
  <2>4. /\ UNCHANGED log /\ log # <<>> /\ pc[t] = "idle" /\ LogHonest'
    BY <1>2 DEF Load, FaithInv, LogHonest
  <2>5. shown # <<>>
    BY <2>3, <2>4, <1>0
  <2>6. (\E i \in DOMAIN log : Serve(t, <<shown[i]>>, "loading")) \/ Serve(t, shown, "loading")
    BY <2>1
  <2> HIDE DEF shown
  <2>7. CASE Serve(t, shown, "loading")
    BY <2>7, <2>2, <2>3, <2>4, <2>5, <1>0, ServeKeeps
  <2>8. ASSUME NEW k \in DOMAIN log, Serve(t, <<shown[k]>>, "loading") PROVE FaithInv'
    <3>1. /\ <<shown[k]>> \in Seq(CheckpointRecord) /\ <<shown[k]>> # <<>>
          /\ \A i \in DOMAIN <<shown[k]>> : <<shown[k]>>[i] = shown[k]
      BY <2>2, <2>8
    <3>2. (\E j \in DOMAIN log' : log'[j] = shown[k]) \/ shown[k].content = "other"
      BY <2>2, <2>4
    <3>3. QED
      BY <3>1, <3>2, <2>8, <2>4, <1>0, ServeKeeps
  <2>9. QED
    BY <2>6, <2>7, <2>8
<1>3. QED
  BY <1>1, <1>2

(* A map the adapter may have, given what callers hold.                    *)
GoodMap(e) ==
  /\ \A id \in DOMAIN e : /\ id \in Ids /\ e[id] \in Entry
                         /\ e[id].record.id = id /\ e[id].weak[1] = id
                         /\ Backed(e[id].record)
  /\ \A t \in Tasks : \A o \in handles[t] \cup got[t] : o[1] \in DOMAIN e /\ e[o[1]].weak = o

(* A scan that keeps the entries of live objects orphans no handle.        *)
LEMMA ScanKeepsMap ==
  ASSUME FaithInv, NEW e, DOMAIN e \subseteq DOMAIN entries,
         \A id \in DOMAIN e : e[id] = entries[id],
         \A id \in DOMAIN entries : Strong(entries[id].weak) => id \in DOMAIN e
  PROVE  GoodMap(e)
<1>1. \A t \in Tasks : \A o \in handles[t] \cup got[t] : Strong(o)
  BY DEF Strong
<1>2. \A t \in Tasks : \A o \in handles[t] \cup got[t] : o[1] \in DOMAIN e /\ e[o[1]].weak = o
  BY <1>1 DEF FaithInv, HeldIsCached
<1>3. QED
  BY <1>2 DEF GoodMap, FaithInv, TypeOK, FiledById, RecordsBacked

(* Storing an object under its checkpoint orphans no handle, if nobody     *)
(* holds an object of that checkpoint.                                     *)
LEMMA InsertKeepsMap ==
  ASSUME FaithInv, NEW e, GoodMap(e), NEW r \in CheckpointRecord, NEW o \in Objects, Backed(r), o[1] = r.id,
         \A t \in Tasks : \A p \in handles[t] \cup got[t] : p[1] # r.id
  PROVE  GoodMap([id \in DOMAIN e \cup {r.id} |->
                    IF id = r.id THEN [record |-> r, weak |-> o] ELSE e[id]])
<1> DEFINE x == [record |-> r, weak |-> o]
           f == [id \in DOMAIN e \cup {r.id} |-> IF id = r.id THEN x ELSE e[id]]
<1>1. x \in Entry /\ x.record = r /\ x.weak = o /\ r.id \in Ids
  BY DEF Entry, CheckpointRecord
<1>2. DOMAIN f = DOMAIN e \cup {r.id} /\ f[r.id] = x /\ \A id \in DOMAIN e : id # r.id => f[id] = e[id]
  OBVIOUS
<1> HIDE DEF x, f
<1>3. GoodMap(f)
  BY <1>1, <1>2 DEF GoodMap
<1>4. QED
  BY <1>3 DEF f, x

(* What a step does besides the map when it ends the decoding of a record. *)
LEMMA StepKeeps ==
  ASSUME FaithInv, GoodMap(entries'), NEW t \in Tasks, pc[t] # "idle",
         UNCHANGED <<log, lied>>, until' \in Nat, survived' \in Nat, conflicts' \subseteq lied,
         \/ Fail(t)
         \/ \E o \in Objects : /\ Collect(t, o) /\ o[1] \in DOMAIN entries'
                               /\ entries'[o[1]].weak = o
  PROVE  FaithInv'
<1> USE DEF FaithInv
<1>1. \A r : Backed(r) <=> Backed(r)'
  BY DEF Backed
<1>2. LogHonest' /\ ConflictIsReal'
  BY DEF LogHonest, ConflictIsReal
<1>3. /\ todo' \in [Tasks -> Seq(CheckpointRecord)] /\ todo'[t] \in {<<>>, Tail(todo[t])}
      /\ fresh' \in [Tasks -> Objects \cup {None}]
      /\ pc' \in [Tasks -> {"idle", "saving", "loading", "missed", "decoded"}]
      /\ pc'[t] \in {"idle", "loading"}
      /\ \A u \in Tasks : u # t => pc'[u] = pc[u] /\ todo'[u] = todo[u] /\ fresh'[u] = fresh[u]
  <2>1. Tail(todo[t]) \in Seq(CheckpointRecord) /\ <<>> \in Seq(CheckpointRecord)
    BY HeadRecord
  <2>2. CASE Fail(t)
    BY <2>1, <2>2 DEF Fail, TypeOK
  <2>3. ASSUME NEW o \in Objects, Collect(t, o) PROVE <1>3!:
    <3>1. /\ todo' = [todo EXCEPT ![t] = Tail(todo[t])] /\ fresh' = [fresh EXCEPT ![t] = None]
          /\ pc' = [pc EXCEPT ![t] = "idle"] \/ pc' = [pc EXCEPT ![t] = "loading"]
      BY <2>3 DEF Collect
    <3>2. QED
      BY <2>1, <3>1 DEF TypeOK
  <2>4. QED
    BY <2>2, <2>3
<1>4. pc'[t] # "idle" => todo'[t] # <<>>
  <2>1. CASE Fail(t)
    BY <2>1 DEF Fail, TypeOK
  <2>2. CASE \E o \in Objects : Collect(t, o)
    BY <2>2, HeadRecord DEF Collect, TypeOK
  <2>3. QED
    BY <2>1, <2>2
<1>5. /\ got' \in [Tasks -> SUBSET Objects] /\ handles' \in [Tasks -> SUBSET Objects]
      /\ \A u \in Tasks : \A o \in handles'[u] \cup got'[u] :
            \/ o \in handles[u] \cup got[u]
            \/ o[1] \in DOMAIN entries' /\ entries'[o[1]].weak = o
  <2>1. CASE Fail(t)
    BY <2>1 DEF Fail, TypeOK
  <2>2. CASE \E o \in Objects : /\ Collect(t, o) /\ o[1] \in DOMAIN entries'
                                 /\ entries'[o[1]].weak = o
    <3>1. PICK o \in Objects : /\ Collect(t, o) /\ o[1] \in DOMAIN entries'
                               /\ entries'[o[1]].weak = o
      BY <2>2
    <3>2. CASE Len(todo[t]) = 1
      <4>1. /\ got' = [got EXCEPT ![t] = {}]
            /\ handles' = [handles EXCEPT ![t] = handles[t] \cup got[t] \cup {o}]
        BY <3>1, <3>2 DEF Collect
      <4>2. /\ got \in [Tasks -> SUBSET Objects] /\ handles \in [Tasks -> SUBSET Objects]
        BY DEF TypeOK
      <4>3. QED
        BY <3>1, <4>1, <4>2
    <3>3. CASE Len(todo[t]) # 1
      <4>1. got' = [got EXCEPT ![t] = got[t] \cup {o}] /\ handles' = handles
        BY <3>1, <3>3 DEF Collect
      <4>2. /\ got \in [Tasks -> SUBSET Objects] /\ handles \in [Tasks -> SUBSET Objects]
        BY DEF TypeOK
      <4>3. QED
        BY <3>1, <4>1, <4>2
    <3>4. QED
      BY <3>2, <3>3
  <2>3. QED
    BY <2>1, <2>2
<1>6. TypeOK'
  BY <1>3, <1>4, <1>5 DEF TypeOK, GoodMap
<1>7. RecordsBacked'
  <2>1. \A i \in DOMAIN todo'[t] : Backed(todo'[t][i])
    <3>1. CASE todo'[t] = <<>>
      BY <3>1
    <3>2. CASE todo'[t] = Tail(todo[t])
      BY <3>2, HeadRecord DEF RecordsBacked
    <3>3. QED
      BY <1>3, <3>1, <3>2
  <2>2. \A u \in Tasks : \A i \in DOMAIN todo'[u] : Backed(todo'[u][i])
    BY <1>3, <2>1 DEF RecordsBacked
  <2>3. QED
    BY <1>1, <2>2 DEF RecordsBacked, GoodMap
<1>8. FiledById'
  BY <1>3 DEF FiledById, GoodMap
<1>9. HeldIsCached'
  BY <1>5 DEF HeldIsCached, GoodMap
<1>10. QED
  BY <1>2, <1>6, <1>7, <1>8, <1>9

(* Another writer's record does not concern the cache.                     *)
LEMMA OtherWriterKeeps ==
  ASSUME FaithInv, OtherWriter
  PROVE  FaithInv'
<1>1. PICK id \in Ids \ Logged, schema \in Schemas :
        log' = Append(log, [id |-> id, schema |-> schema, content |-> "saved"])
  BY DEF OtherWriter
<1>2. [id |-> id, schema |-> schema, content |-> "saved"] \in CheckpointRecord
  BY DEF CheckpointRecord, Contents
<1>3. /\ log' \in Seq(CheckpointRecord) /\ LogHonest'
      /\ \A i \in DOMAIN log : i \in DOMAIN log' /\ log'[i] = log[i]
  BY <1>1, <1>2, AppendKeepsLog
<1>4. UNCHANGED <<entries, until, survived, pc, todo, got, fresh, handles, lied, conflicts>>
  BY DEF OtherWriter, call
<1>5. QED
  BY <1>3, <1>4, LogGrowthKeeps

(* A miss and a decoding change only the call's own state.                 *)
LEMMA CallStepKeeps ==
  ASSUME FaithInv, NEW t \in Tasks, pc[t] # "idle",
         UNCHANGED <<log, entries, until, survived, todo, got, handles, lied, conflicts>>,
         \/ pc' = [pc EXCEPT ![t] = "missed"] /\ UNCHANGED fresh
         \/ /\ pc' = [pc EXCEPT ![t] = "decoded"]
            /\ \E o \in Objects : o[1] = Head(todo[t]).id /\ fresh' = [fresh EXCEPT ![t] = o]
  PROVE  FaithInv'
<1> USE DEF FaithInv
<1>1. TypeOK'
  <2>1. \A o \in Objects : o # None
    BY CacheAssumption DEF Objects
  <2>2. /\ pc' \in [Tasks -> {"idle", "saving", "loading", "missed", "decoded"}]
        /\ fresh' \in [Tasks -> Objects \cup {None}]
        /\ \A u \in Tasks : pc'[u] # "idle" => pc[u] # "idle"
    BY DEF TypeOK
  <2>3. \A u \in Tasks : pc'[u] = "decoded" => fresh'[u] # None
    <3>1. CASE pc' = [pc EXCEPT ![t] = "missed"] /\ UNCHANGED fresh
      BY <3>1 DEF TypeOK
    <3>2. ASSUME NEW o \in Objects, fresh' = [fresh EXCEPT ![t] = o],
                 pc' = [pc EXCEPT ![t] = "decoded"]
          PROVE  \A u \in Tasks : pc'[u] = "decoded" => fresh'[u] # None
      BY <2>1, <3>2 DEF TypeOK
    <3>3. QED
      BY <3>1, <3>2
  <2>4. QED
    BY <2>2, <2>3 DEF TypeOK
<1>2. LogHonest' /\ RecordsBacked' /\ HeldIsCached' /\ ConflictIsReal'
  BY DEF LogHonest, RecordsBacked, Backed, HeldIsCached, ConflictIsReal
<1>3. FiledById'
  BY DEF FiledById, TypeOK
<1>4. QED
  BY <1>1, <1>2, <1>3

(* cached() returns the entry's object, misses, or tells of a real conflict. *)
LEMMA CachedKeeps ==
  ASSUME FaithInv, NEW t \in Tasks, Cached(t)
  PROVE  FaithInv'
<1> DEFINE r == Head(todo[t])
<1>1. pc[t] # "idle" /\ UNCHANGED <<log, entries, until, survived, lied>>
  BY DEF Cached
<1>2. GoodMap(entries') /\ until' \in Nat /\ survived' \in Nat
  BY <1>1, ScanKeepsMap DEF FaithInv, TypeOK
<1>3. CASE r.id \notin DOMAIN entries
  BY <1>1, <1>3, CallStepKeeps DEF Cached
<1>4. CASE r.id \in DOMAIN entries /\ Conflicts(entries[r.id], r)
  <2>1. Fail(t) /\ conflicts' = conflicts \cup {r.id}
    BY <1>4 DEF Cached
  <2>2. r.id \in lied
    BY <1>1, <1>4, ConflictMeansLie
  <2>3. conflicts' \subseteq lied
    BY <2>1, <2>2 DEF FaithInv, ConflictIsReal
  <2>4. QED
    BY <1>1, <1>2, <2>1, <2>3, StepKeeps
<1>5. CASE r.id \in DOMAIN entries /\ ~Conflicts(entries[r.id], r)
  <2>1. CASE Strong(entries[r.id].weak)
    <3>1. Collect(t, entries[r.id].weak) /\ conflicts' = conflicts
      BY <1>5, <2>1 DEF Cached
    <3>2. entries[r.id].weak \in Objects /\ entries[r.id].weak[1] = r.id
      BY <1>5 DEF FaithInv, TypeOK, Entry, FiledById
    <3>3. QED
      BY <1>1, <1>2, <1>5, <3>1, <3>2, StepKeeps DEF FaithInv, ConflictIsReal
  <2>2. CASE ~Strong(entries[r.id].weak)
    BY <1>1, <1>5, <2>2, CallStepKeeps DEF Cached
  <2>3. QED
    BY <2>1, <2>2
<1>6. QED
  BY <1>3, <1>4, <1>5

(* from_record makes an object of the record's checkpoint, or fails.       *)
LEMMA DecodeKeeps ==
  ASSUME FaithInv, NEW t \in Tasks, Decode(t)
  PROVE  FaithInv'
<1>1. pc[t] # "idle" /\ UNCHANGED <<log, entries, until, survived, lied, conflicts>>
  BY DEF Decode
<1>2. CASE Fail(t)
  <2>1. GoodMap(entries') /\ until' \in Nat /\ survived' \in Nat /\ conflicts' \subseteq lied
    BY <1>1, ScanKeepsMap DEF FaithInv, TypeOK, ConflictIsReal
  <2>2. QED
    BY <1>1, <1>2, <2>1, StepKeeps
<1>3. CASE ~Fail(t)
  <2> DEFINE o == CHOOSE x \in Allocatable(Head(todo[t]).id) : TRUE
  <2>1. /\ Allocatable(Head(todo[t]).id) # {} /\ fresh' = [fresh EXCEPT ![t] = o]
        /\ pc' = [pc EXCEPT ![t] = "decoded"] /\ UNCHANGED <<todo, got, handles>>
    BY <1>3 DEF Decode
  <2>2. o \in Objects /\ o[1] = Head(todo[t]).id
    BY <2>1 DEF Allocatable
  <2>3. QED
    BY <1>1, <2>1, <2>2, CallStepKeeps
<1>4. QED
  BY <1>2, <1>3

(* cache() replaces an entry only when nobody holds its object.            *)
LEMMA CacheKeeps ==
  ASSUME FaithInv, BoundInv, NEW t \in Tasks, Cache(t)
  PROVE  FaithInv'
<1> DEFINE r == Head(todo[t])
           scanned == [id \in Kept |-> entries[id]]
<1>1. pc[t] = "decoded" /\ pc[t] # "idle" /\ UNCHANGED <<log, lied>> /\ RemoveExpired
  BY DEF Cache
<1>2. Kept \subseteq DOMAIN entries /\ \A id \in DOMAIN entries : Strong(entries[id].weak) => id \in Kept
  BY DEF Kept, Survivors
<1>3. GoodMap(scanned)
  BY <1>2, ScanKeepsMap
<1>4. until' \in Nat /\ survived' \in Nat
  BY CacheKeepsBound DEF BoundInv
<1>5. /\ r \in CheckpointRecord /\ Backed(r) /\ fresh[t] \in Objects /\ fresh[t][1] = r.id
  <2>1. r \in CheckpointRecord /\ Backed(r)
    BY <1>1, HeadRecord DEF FaithInv, RecordsBacked
  <2>2. QED
    BY <1>1, <2>1 DEF FaithInv, TypeOK, FiledById
<1>6. CASE r.id \in Kept /\ Conflicts(entries[r.id], r)
  <2>1. Fail(t) /\ entries' = scanned /\ conflicts' = conflicts \cup {r.id}
    BY <1>6 DEF Cache
  <2>2. r.id \in lied
    BY <1>1, <1>2, <1>6, ConflictMeansLie
  <2>3. conflicts' \subseteq lied
    BY <2>1, <2>2 DEF FaithInv, ConflictIsReal
  <2>4. QED
    BY <1>1, <1>3, <1>4, <2>1, <2>3, StepKeeps
<1>7. CASE ~(r.id \in Kept /\ Conflicts(entries[r.id], r))
  <2>1. conflicts' \subseteq lied
    BY <1>7 DEF Cache, FaithInv, ConflictIsReal
  <2>2. CASE Reusable(Kept, r)
    <3>1. entries' = scanned /\ Collect(t, entries[r.id].weak)
      BY <1>7, <2>2 DEF Cache
    <3>2. r.id \in Kept /\ entries[r.id].weak \in Objects /\ entries[r.id].weak[1] = r.id
      BY <1>2, <2>2 DEF Reusable, FaithInv, TypeOK, Entry, FiledById
    <3>3. r.id \in DOMAIN entries' /\ entries'[r.id].weak = entries[r.id].weak
      BY <3>1, <3>2
    <3>4. QED
      BY <1>1, <1>3, <1>4, <2>1, <3>1, <3>2, <3>3, StepKeeps
  <2>3. CASE ~Reusable(Kept, r)
    <3>1. Insert(Kept, r, fresh[t]) /\ Collect(t, fresh[t])
      BY <1>7, <2>3 DEF Cache
    <3>2. \A u \in Tasks : \A p \in handles[u] \cup got[u] : p[1] # r.id
      <4>1. ASSUME NEW u \in Tasks, NEW p \in handles[u] \cup got[u], p[1] = r.id PROVE FALSE
        <5>1. Strong(p) /\ r.id \in DOMAIN entries /\ entries[r.id].weak = p
          BY <4>1 DEF Strong, FaithInv, HeldIsCached
        <5>2. QED
          BY <5>1, <1>2, <2>3 DEF Reusable
      <4>2. QED
        BY <4>1
    <3>3. /\ DOMAIN entries' = Kept \cup {r.id}
          /\ entries' = [id \in DOMAIN scanned \cup {r.id} |->
                           IF id = r.id THEN [record |-> r, weak |-> fresh[t]] ELSE scanned[id]]
      BY <3>1 DEF Insert
    <3> HIDE DEF r, scanned
    <3>4. GoodMap(entries')
      BY <1>3, <1>5, <3>2, <3>3, InsertKeepsMap
    <3>5. r.id \in DOMAIN entries' /\ entries'[r.id].weak = fresh[t]
      BY <3>3
    <3>6. QED
      BY <1>1, <1>4, <1>5, <2>1, <3>1, <3>4, <3>5, StepKeeps
  <2>4. QED
    BY <2>2, <2>3
<1>8. QED
  BY <1>6, <1>7

(* A dropped handle leaves the others cached.                              *)
LEMMA DropKeeps ==
  ASSUME FaithInv, NEW t \in Tasks, Drop(t)
  PROVE  FaithInv'
<1> USE DEF FaithInv
<1>1. PICK o \in handles[t] : handles' = [handles EXCEPT ![t] = handles[t] \ {o}]
  BY DEF Drop
<1>2. UNCHANGED <<log, entries, until, survived, pc, todo, got, fresh, lied, conflicts>>
  BY DEF Drop, call
<1>3. handles' \in [Tasks -> SUBSET Objects] /\ \A u \in Tasks : handles'[u] \subseteq handles[u]
  BY <1>1 DEF TypeOK
<1>4. TypeOK'
  BY <1>2, <1>3 DEF TypeOK
<1>5. LogHonest' /\ RecordsBacked' /\ FiledById' /\ ConflictIsReal'
  BY <1>2 DEF LogHonest, RecordsBacked, Backed, FiledById, ConflictIsReal
<1>6. HeldIsCached'
  BY <1>2, <1>3 DEF HeldIsCached
<1>7. QED
  BY <1>4, <1>5, <1>6

(* The two invariants, together: a scan needs the map to be finite.        *)
IInv == BoundInv /\ FaithInv

(* A new adapter is faithful: nothing is stored, cached or held.            *)
LEMMA FaithInit == CacheInit => FaithInv
<1> SUFFICES ASSUME CacheInit PROVE FaithInv
  OBVIOUS
<1>1. CleanupFloor \in Nat
  BY CacheAssumption
<1>2. TypeOK
  BY <1>1 DEF CacheInit, TypeOK
<1>3. LogHonest /\ RecordsBacked /\ FiledById /\ HeldIsCached /\ ConflictIsReal
  BY DEF CacheInit, LogHonest, RecordsBacked, FiledById, HeldIsCached, ConflictIsReal
<1>4. QED
  BY <1>2, <1>3 DEF FaithInv

(* Every step keeps the adapter faithful.                                  *)
LEMMA FaithNext ==
  ASSUME BoundInv, FaithInv, [CacheNext]_caching
  PROVE  FaithInv'
<1>1. CASE OtherWriter
  BY <1>1, OtherWriterKeeps
<1>2. ASSUME NEW t \in Tasks, Save(t) \/ Load(t) PROVE FaithInv'
  BY <1>2, StoreCallKeeps
<1>3. ASSUME NEW t \in Tasks, Cached(t) PROVE FaithInv'
  BY <1>3, CachedKeeps
<1>4. ASSUME NEW t \in Tasks, Decode(t) PROVE FaithInv'
  BY <1>4, DecodeKeeps
<1>5. ASSUME NEW t \in Tasks, Cache(t) PROVE FaithInv'
  BY <1>5, CacheKeeps
<1>6. ASSUME NEW t \in Tasks, Drop(t) PROVE FaithInv'
  BY <1>6, DropKeeps
<1>7. CASE UNCHANGED caching
  BY <1>7 DEF caching, call, FaithInv, TypeOK, LogHonest, RecordsBacked, Backed, FiledById,
              HeldIsCached, ConflictIsReal
<1>8. QED
  BY <1>1, <1>2, <1>3, <1>4, <1>5, <1>6, <1>7 DEF CacheNext

(* Callers of RecordCheckpointer share one object of a checkpoint whatever *)
(* loads overlap or expire, and are told of a conflict only where the      *)
(* store returned other content.                                           *)
THEOREM CacheIsTransparent == CacheSpec => []CacheIsFaithful
<1>1. CacheInit => IInv
  BY FaithInit, BoundInit DEF IInv
<1>2. IInv /\ [CacheNext]_caching => IInv'
  BY FaithNext, BoundNext DEF IInv
<1>3. IInv => CacheIsFaithful
  BY DEF IInv, FaithInv, HeldIsCached, CacheIsFaithful, HandlesShared
<1>4. QED
  BY <1>1, <1>2, <1>3, PTL DEF CacheSpec

================================================================================
