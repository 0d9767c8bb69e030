--------------------------- MODULE DurableRunsProofs ---------------------------
(***************************************************************************)
(* Proofs about DurableRuns, for any number of calls, threads, branches,   *)
(* nodes, routers, policies and budgets: the four invariants and the       *)
(* action property its run checks.                                         *)
(*                                                                         *)
(* The argument.  A call knows the store only through what it read, and no *)
(* lock keeps that current; what makes its writes right is that the store  *)
(* only grows.  IInv therefore says of every call, whatever it is doing,   *)
(* how its state relates to records that can no longer change: where the   *)
(* checkpoint it calls its parent is, whether the call is exactly there    *)
(* (AtParent) or further on (Beyond), and what it is about to write or was *)
(* told (Bounded, Answered).  A step of one call keeps its own part, and   *)
(* RunInvGrows keeps everybody else's: a record of another call cannot     *)
(* disturb it.  A conflict means a loss to another call because            *)
(* identifiers increase along a lineage and a call has written nothing     *)
(* after its parent.                                                       *)
(***************************************************************************)
EXTENDS DurableRuns, FiniteSetTheorems, SequenceTheorems, WellFoundedInduction, TLAPS

--------------------------------------------------------------------------------
(* Counting the nodes of a snapshot.                                        *)

(* Every set of naturals that is not empty has a least element.             *)
LEMMA LeastNumber ==
  ASSUME NEW S \in SUBSET Nat, S # {}
  PROVE  \E m \in S : \A k \in S : m <= k
<1>1. \E R : IsWellFoundedOn(R, Nat) /\ \A x, y \in Nat : x < y => <<x, y>> \in R
  <2>1. \A x, y \in Nat : x < y => <<x, y>> \in OpToRel(<, Nat)
    BY DEF OpToRel
  <2>2. IsWellFoundedOn(OpToRel(<, Nat), Nat)
    BY NatLessThanWellFounded
  <2> HIDE DEF OpToRel
  <2> QED BY <2>1, <2>2, Zenon
<1>2. PICK R : IsWellFoundedOn(R, Nat) /\ \A x, y \in Nat : x < y => <<x, y>> \in R
  BY <1>1
<1>3. PICK m \in S : \A k \in S : ~ (<<k, m>> \in R)
  <2>1. S \subseteq Nat
    OBVIOUS
  <2>2. IsWellFoundedOn(R, Nat)
    BY <1>2
  <2>3. \E m \in S : \A k \in S : ~ (<<k, m>> \in R)
    BY <2>1, <2>2, WFMin, ZenonT(30)
  <2> QED BY <2>3
<1>4. ASSUME NEW k \in S PROVE m <= k
  <2>1. m \in Nat /\ k \in Nat
    OBVIOUS
  <2>2. ~ (k < m)
    BY <2>1, <1>2, <1>3, Zenon
  <2> QED BY <2>1, <2>2
<1> QED BY <1>4

(* g counts the nodes of the first supersteps of a snapshot.                *)
Counts(log, n, g) ==
  g = [i \in 0..n |-> IF i = 0 THEN 0 ELSE g[i - 1] + Cardinality(log[i])]

(* There is such a count: otherwise take the shortest log without one.       *)
LEMMA CountExists ==
  ASSUME NEW log
  PROVE  \A n \in Nat : \E g : Counts(log, n, g)
<1> DEFINE Bad == {n \in Nat : ~ \E g : Counts(log, n, g)}
<1> SUFFICES ASSUME Bad # {} PROVE FALSE
  OBVIOUS
<1>1. PICK m \in Bad : \A k \in Bad : m <= k
  BY LeastNumber
<1>2. m # 0
  <2>1. Counts(log, 0, [i \in 0..0 |-> 0])
    BY DEF Counts
  <2> QED BY <2>1
<1>3. PICK g : Counts(log, m - 1, g)
  <2>1. m - 1 \in Nat /\ m - 1 \notin Bad
    BY <1>1, <1>2
  <2> QED BY <2>1
<1> DEFINE h == [i \in 0..m |-> IF i = m THEN g[m - 1] + Cardinality(log[m]) ELSE g[i]]
<1>4. Counts(log, m, h)
  <2>1. \A i \in 0..(m-1) : g[i] = IF i = 0 THEN 0 ELSE g[i - 1] + Cardinality(log[i])
    BY <1>3 DEF Counts
  <2>2. \A i \in 0..m : h[i] = IF i = 0 THEN 0 ELSE h[i - 1] + Cardinality(log[i])
    BY <2>1, <1>2
  <2> QED BY <2>2 DEF Counts
<1> QED BY <1>4

(* There is only one: otherwise take the first place where two differ.       *)
LEMMA CountUnique ==
  ASSUME NEW log, NEW n \in Nat, NEW m \in Nat, NEW g, NEW h,
         Counts(log, n, g), Counts(log, m, h)
  PROVE  \A i \in 0..n : i \in 0..m => g[i] = h[i]
<1> DEFINE Bad == {i \in 0..n : i \in 0..m /\ g[i] # h[i]}
<1> SUFFICES ASSUME Bad # {} PROVE FALSE
  OBVIOUS
<1>1. PICK k \in Bad : \A j \in Bad : k <= j
  <2>1. Bad \in SUBSET Nat
    OBVIOUS
  <2> QED BY <2>1, LeastNumber
<1>2. /\ \A i \in 0..n : g[i] = IF i = 0 THEN 0 ELSE g[i - 1] + Cardinality(log[i])
      /\ \A i \in 0..m : h[i] = IF i = 0 THEN 0 ELSE h[i - 1] + Cardinality(log[i])
    BY DEF Counts
<1> QED BY <1>1, <1>2

(* The recursive function in NodesRun is that count.                        *)
LEMMA NodesRunCounts ==
  ASSUME NEW log, Len(log) \in Nat
  PROVE  \E g : Counts(log, Len(log), g) /\ NodesRun(log) = g[Len(log)]
<1> DEFINE count == CHOOSE g : g = [i \in 0..Len(log) |->
                       IF i = 0 THEN 0 ELSE g[i - 1] + Cardinality(log[i])]
<1>1. Counts(log, Len(log), count)
  BY CountExists DEF Counts
<1>2. NodesRun(log) = count[Len(log)]
  BY DEF NodesRun
<1> QED BY <1>1, <1>2

(* A superstep adds its nodes.                                              *)
LEMMA NodesRunAppend ==
  ASSUME NEW S, NEW log \in Seq(S), NEW f \in S
  PROVE  NodesRun(Append(log, f)) = NodesRun(log) + Cardinality(f)
<1> DEFINE n == Len(log)
           more == Append(log, f)
<1>1. /\ n \in Nat /\ Len(more) = n + 1 /\ more[n + 1] = f
      /\ \A i \in 1..n : more[i] = log[i]
  OBVIOUS
<1> HIDE DEF n, more
<1>2. PICK g : Counts(log, n, g) /\ NodesRun(log) = g[n]
  BY <1>1, NodesRunCounts DEF n
<1>3. PICK h : Counts(more, n + 1, h) /\ NodesRun(more) = h[n + 1]
  BY <1>1, NodesRunCounts
<1>4. h[n + 1] = h[n] + Cardinality(f)
  BY <1>1, <1>3 DEF Counts
<1>5. Counts(log, n, [i \in 0..n |-> h[i]])
  BY <1>1, <1>3 DEF Counts
<1>6. g[n] = h[n]
  BY <1>1, <1>2, <1>5, CountUnique
<1> QED BY <1>2, <1>3, <1>4, <1>6 DEF more

(* Nothing has run in an empty snapshot.                                    *)
LEMMA NodesRunEmpty == NodesRun(<<>>) = 0
<1>1. Len(<<>>) = 0
  OBVIOUS
<1>2. PICK g : Counts(<<>>, 0, g) /\ NodesRun(<<>>) = g[0]
  BY <1>1, NodesRunCounts
<1> QED BY <1>2 DEF Counts

--------------------------------------------------------------------------------
(* The inductive invariant: the store.                                      *)

(* Identifiers are drawn in order, so that a drawn one is fresh.            *)
IdsDense == DOMAIN by_id = 1..Cardinality(DOMAIN by_id) /\ IsFiniteSet(DOMAIN by_id)

StoreTyped ==
  /\ histories \in [ThreadId -> Seq(Store!Record)]
  /\ by_id \in [DOMAIN by_id -> Store!Record]
  /\ DOMAIN branches \subseteq BranchId
  /\ branches \in [DOMAIN branches -> Store!Branch]

(* A lineage is one chain of stored records.                               *)
Chained(h) ==
  \A i \in 1..Len(h) : Store!Indexed(h[i]) /\ (i > 1 => h[i].parent = h[i - 1].id)

StoreChained ==
  /\ \A t \in ThreadId : Chained(histories[t])
  /\ \A b \in DOMAIN branches : Chained(branches[b].history)

(* What every stored record says of itself and of its parent, which is older. *)
RecordSound(rec) ==
  LET c == rec.content IN
  /\ rec.parent < rec.id
  /\ c.completed <=> c.frontier = {}
  /\ c.superstep = Len(c.log) /\ c.step = NodesRun(c.log)
  /\ run[c.run].pc # "new"
  /\ Continues(rec) => Extends(by_id[rec.parent].content, c)

RecordsSound == \A c \in DOMAIN by_id : by_id[c].id = c /\ RecordSound(by_id[c])

StoreInv == IdsDense /\ StoreTyped /\ StoreChained

--------------------------------------------------------------------------------
(* The inductive invariant: one call r in state s that was asked for cfg.     *)

Fields == {"pc", "result", "log", "superstep", "steps", "frontier", "limit", "source",
           "parent", "resume_node", "boundary", "answer", "saved"}

Typed(s) ==
  /\ DOMAIN s = Fields
  /\ s.log \in Seq(Frontier) /\ s.superstep \in Nat /\ s.steps \in Nat
  /\ s.frontier \in Frontier /\ s.resume_node \in Node \cup {NoNode}
  /\ s.source \in DOMAIN by_id \cup {NoCheckpoint}
  /\ s.parent \in DOMAIN by_id \cup {NoCheckpoint}

Loading == {"load", "pin", "restore", "open", "opened"}
Writing == {"execute", "save", "saved"}

(* The checkpoint is in the lineage the call was given.                     *)
InLineage(cfg, c) ==
  IF cfg.branch = NoBranch
  THEN \E i \in 1..Len(histories[cfg.thread]) : histories[cfg.thread][i].id = c
  ELSE /\ cfg.branch \in DOMAIN branches /\ branches[cfg.branch].thread = cfg.thread
       /\ \E i \in 1..Len(branches[cfg.branch].history) :
            branches[cfg.branch].history[i].id = c

Wrote(r, c) == c \in DOMAIN by_id /\ by_id[c].content.run = r

(* The call's next write continues the checkpoint it names as its parent.    *)
Continuing(r, s, cfg) ==
  s.parent # NoCheckpoint /\ (cfg.kind # "invoke" \/ Wrote(r, s.parent))

(* The call is where its parent was saved, or further on.                   *)
AtParent(s) ==
  s.log = by_id[s.parent].content.log /\ s.frontier = by_id[s.parent].content.frontier

Beyond(s) ==
  LET p == by_id[s.parent].content IN
  /\ IsPrefix(p.log, s.log) /\ Len(p.log) < Len(s.log)
  /\ s.log[Len(p.log) + 1] = p.frontier

(* Another call continued the parent in the same lineage.                   *)
Lost(r, s, cfg) ==
  \E c \in DOMAIN by_id : /\ by_id[c].parent = s.parent /\ by_id[c].content.run # r
                          /\ InLineage(cfg, c)

(* What an application may ask for, of what was stored when it asked.        *)
Called(r, s, cfg) ==
  s.pc # "new" =>
    /\ cfg.kind \in {"invoke", "resume", "replay", "fork"}
    /\ cfg.thread \in ThreadId /\ cfg.branch \in BranchId \cup {NoBranch}
    /\ cfg.target \in DOMAIN by_id \cup {NoCheckpoint} /\ cfg.version \in Version
    /\ cfg.value \in BOOLEAN
    /\ cfg.kind = "fork" => cfg.branch # NoBranch
    /\ cfg.kind = "invoke" => ~ Wrote(r, cfg.target)

(* What the call has written so far: nothing before it executes, nothing       *)
(* after its parent, and always on top of what it read or wrote.             *)
Written(r, s, cfg) ==
  \A c \in DOMAIN by_id : Wrote(r, c) =>
    /\ s.pc \notin Loading \cup {"new"}
    /\ s.pc \in {"execute", "save"} => c <= s.parent
    /\ s.pc = "saved" => c <= s.saved
    /\ cfg.kind # "invoke" => by_id[c].parent = s.source \/ Wrote(r, by_id[c].parent)

(* What the call has read.                                                 *)
Read(r, s, cfg) ==
  /\ s.pc \in Loading => cfg.kind # "invoke"
  /\ s.pc \in Loading \ {"load"} => s.source \in DOMAIN by_id
  /\ s.pc = "restore" /\ cfg.kind = "resume" => InLineage(cfg, s.source)
  /\ s.pc \in {"open", "opened"} =>
       cfg.kind = "fork" /\ s.parent = s.source /\ AtParent(s)
  /\ s.pc = "opened" /\ s.answer = "Ok" => InLineage(cfg, s.source)

(* The counters describe the state, and a resume value waits for its node.     *)
Carried(s, cfg) ==
  /\ s.pc \in {"open", "opened"} \cup Writing =>
       s.superstep = Len(s.log) /\ s.steps = NodesRun(s.log)
  /\ s.pc \in {"open", "opened", "execute"} /\ s.resume_node # NoNode =>
       /\ cfg.value /\ s.source \in DOMAIN by_id
       /\ by_id[s.source].content.interrupt = s.resume_node
       /\ s.frontier = {s.resume_node} /\ s.log = by_id[s.source].content.log

(* How far the call is from its parent, and where its parent is.             *)
Parented(r, s, cfg) ==
  s.pc \in Writing =>
    /\ cfg.kind # "invoke" =>
         s.parent # NoCheckpoint /\ (s.parent = s.source \/ Wrote(r, s.parent))
    /\ Continuing(r, s, cfg) /\ cfg.kind # "replay" => InLineage(cfg, s.parent)
    /\ s.pc = "execute" =>
         /\ Continuing(r, s, cfg) =>
              AtParent(s) \/ (Beyond(s) /\ (s.frontier # {} \/ cfg.kind = "replay"))
         /\ s.frontier = {} /\ cfg.kind # "replay" => Continuing(r, s, cfg)

(* What the call is about to write, or has written.                         *)
Bounded(r, s, cfg) ==
  s.pc \in {"save", "saved"} =>
    /\ cfg.kind # "replay" /\ s.boundary \in Boundary
    /\ s.boundary.run = r /\ s.boundary.log = s.log
    /\ s.boundary.superstep = s.superstep /\ s.boundary.step = s.steps
    /\ s.boundary.completed <=> s.boundary.frontier = {}
    /\ s.boundary.interrupt = NoNode => s.resume_node = NoNode
    /\ Continuing(r, s, cfg) => Extends(by_id[s.parent].content, s.boundary)

(* The store's answer, before the call hears of it.                         *)
Answered(r, s, cfg) ==
  s.pc = "saved" =>
    /\ s.answer = "Ok" => /\ s.saved \in DOMAIN by_id /\ InLineage(cfg, s.saved)
                          /\ by_id[s.saved].content = s.boundary
    /\ s.answer = "Conflict" /\ cfg.kind # "invoke" => Lost(r, s, cfg)

(* What the call has reported.                                             *)
Reported(r, s, cfg) ==
  /\ s.pc # "done" => s.result = "none"
  /\ s.result = "Conflict" /\ cfg.kind # "invoke" => Lost(r, s, cfg)
  /\ s.result = "Completed" /\ cfg.kind # "replay" =>
       \E c \in DOMAIN by_id : /\ by_id[c].content.completed /\ by_id[c].content.log = s.log
                               /\ Wrote(r, c) \/ c = s.source
                               /\ InLineage(cfg, c)
  /\ s.result = "Interrupted" =>
       \E c \in DOMAIN by_id : /\ by_id[c].content.interrupt # NoNode
                               /\ by_id[c].content.log = s.log
                               /\ Wrote(r, c) /\ InLineage(cfg, c)

RunInv(r, s, cfg) ==
  /\ Typed(s)
  /\ Called(r, s, cfg) /\ Written(r, s, cfg) /\ Read(r, s, cfg) /\ Carried(s, cfg)
  /\ Parented(r, s, cfg) /\ Bounded(r, s, cfg) /\ Answered(r, s, cfg)
  /\ Reported(r, s, cfg)

IInv ==
  /\ run = [r \in Run |-> run[r]] /\ config = [r \in Run |-> config[r]]
  /\ StoreInv /\ RecordsSound
  /\ \A r \in Run : RunInv(r, run[r], config[r])

--------------------------------------------------------------------------------
(* Sequences, prefixes and identifiers.                                     *)

(* A prefix, position by position.                                          *)
LEMMA PrefixMeans ==
  ASSUME NEW S, NEW s \in Seq(S), NEW t \in Seq(S)
  PROVE  IsPrefix(s, t) <=> Len(s) <= Len(t) /\ \A i \in 1..Len(s) : s[i] = t[i]
BY DEF IsPrefix

(* The next identifier is fresh and greater than every stored one.           *)
LEMMA NextIdFresh ==
  ASSUME IdsDense
  PROVE  /\ NextId \in Nat \ {0} /\ NextId \notin DOMAIN by_id
         /\ \A c \in DOMAIN by_id : c \in Nat /\ c < NextId /\ c # NoCheckpoint
         /\ DOMAIN by_id = 1..(NextId - 1)
<1>1. Cardinality(DOMAIN by_id) \in Nat
  BY FS_CardinalityType DEF IdsDense
<1> QED BY <1>1 DEF IdsDense, NextId, NoCheckpoint

--------------------------------------------------------------------------------
(* The store only grows.                                                    *)

HistoryGrows(h, g) == Len(h) <= Len(g) /\ \A i \in 1..Len(h) : g[i] = h[i]

StoreGrows ==
  /\ DOMAIN by_id \subseteq DOMAIN by_id'
  /\ \A c \in DOMAIN by_id : by_id'[c] = by_id[c]
  /\ \A t \in ThreadId : HistoryGrows(histories[t], histories'[t])
  /\ \A b \in DOMAIN branches :
       /\ b \in DOMAIN branches' /\ branches'[b].thread = branches[b].thread
       /\ HistoryGrows(branches[b].history, branches'[b].history)

(* Whoever is in a lineage stays there.                                     *)
LEMMA LineageGrows ==
  ASSUME StoreTyped, StoreTyped', StoreGrows, NEW cfg, cfg.thread \in ThreadId,
         NEW c, InLineage(cfg, c)
  PROVE  InLineage(cfg, c)'
<1>1. ASSUME NEW h \in Seq(Store!Record), NEW g \in Seq(Store!Record), HistoryGrows(h, g),
             NEW i \in 1..Len(h), h[i].id = c
      PROVE  \E j \in 1..Len(g) : g[j].id = c
  <2>1. i \in 1..Len(g) /\ g[i] = h[i]
    BY <1>1 DEF HistoryGrows
  <2> QED BY <1>1, <2>1
<1>2. CASE cfg.branch = NoBranch
  <2>1. /\ histories[cfg.thread] \in Seq(Store!Record)
        /\ histories'[cfg.thread] \in Seq(Store!Record)
        /\ HistoryGrows(histories[cfg.thread], histories'[cfg.thread])
    BY DEF StoreTyped, StoreGrows
  <2> QED BY <1>1, <1>2, <2>1 DEF InLineage
<1>3. CASE cfg.branch # NoBranch
  <2> DEFINE b == cfg.branch
  <2>1. b \in DOMAIN branches /\ branches[b].thread = cfg.thread
    BY <1>3 DEF InLineage
  <2>2. b \in DOMAIN branches' /\ branches'[b].thread = branches[b].thread
        /\ HistoryGrows(branches[b].history, branches'[b].history)
    BY <2>1 DEF StoreGrows
  <2>3. branches[b].history \in Seq(Store!Record) /\ branches'[b].history \in Seq(Store!Record)
    BY <2>1, <2>2 DEF StoreTyped, Store!Branch
  <2> QED BY <1>1, <1>3, <2>1, <2>2, <2>3 DEF InLineage
<1> QED BY <1>2, <1>3

(* A record written by another call changes nothing for this one.            *)
LEMMA WroteStable ==
  ASSUME StoreGrows, NEW r,
         \A c \in DOMAIN by_id' \ DOMAIN by_id : by_id'[c].content.run # r
  PROVE  \A c : Wrote(r, c)' <=> Wrote(r, c)
BY DEF StoreGrows, Wrote

(* So a call's invariant outlives the writes of others.                      *)
LEMMA RunInvGrows ==
  ASSUME StoreTyped, StoreTyped', StoreGrows, NEW r, NEW s, NEW cfg, RunInv(r, s, cfg),
         \A c \in DOMAIN by_id' \ DOMAIN by_id : by_id'[c].content.run # r
  PROVE  RunInv(r, s, cfg)'
<1>w. \A c : Wrote(r, c)' <=> Wrote(r, c)
  BY WroteStable
<1>g. /\ DOMAIN by_id \subseteq DOMAIN by_id'
      /\ \A c \in DOMAIN by_id : by_id'[c] = by_id[c]
  BY DEF StoreGrows
<1>o. \A c : c \in DOMAIN by_id' /\ Wrote(r, c)' => c \in DOMAIN by_id /\ Wrote(r, c)
  BY <1>w DEF Wrote
<1>i. ASSUME s.pc # "new", NEW c, InLineage(cfg, c) PROVE InLineage(cfg, c)'
  BY <1>i, LineageGrows DEF RunInv, Called
<1>p. s.parent # NoCheckpoint => s.parent \in DOMAIN by_id
  BY DEF RunInv, Typed
<1>1. Typed(s)'
  BY <1>g DEF RunInv, Typed
<1>2. Called(r, s, cfg)'
  BY <1>g, <1>w DEF RunInv, Called
<1>3. Written(r, s, cfg)'
  BY <1>g, <1>w, <1>o DEF RunInv, Written
<1>c. Continuing(r, s, cfg)' <=> Continuing(r, s, cfg)
  BY <1>w DEF Continuing
<1>a. s.parent \in DOMAIN by_id =>
        (AtParent(s)' <=> AtParent(s)) /\ (Beyond(s)' <=> Beyond(s))
  BY <1>g DEF AtParent, Beyond
<1>4. Read(r, s, cfg)'
  BY <1>g, <1>i, <1>a DEF RunInv, Read, Loading
<1>5. Carried(s, cfg)'
  BY <1>g DEF RunInv, Carried
<1>6. Parented(r, s, cfg)'
  <2> SUFFICES ASSUME s.pc \in Writing PROVE Parented(r, s, cfg)'
    BY DEF Parented
  <2>1. s.pc # "new"
    BY DEF Writing
  <2>2. Continuing(r, s, cfg) => s.parent \in DOMAIN by_id
    BY <1>p DEF Continuing
  <2> QED BY <2>1, <2>2, <1>w, <1>i, <1>c, <1>a DEF RunInv, Parented
<1>7. Bounded(r, s, cfg)'
  <2>1. Continuing(r, s, cfg) => s.parent \in DOMAIN by_id /\ by_id'[s.parent] = by_id[s.parent]
    BY <1>p, <1>g DEF Continuing
  <2> QED BY <2>1, <1>c DEF RunInv, Bounded
<1>l. ASSUME s.pc # "new", Lost(r, s, cfg) PROVE Lost(r, s, cfg)'
  BY <1>l, <1>g, <1>i DEF Lost
<1>8. Answered(r, s, cfg)'
  BY <1>g, <1>i, <1>l DEF RunInv, Answered
<1>9. Reported(r, s, cfg)'
  <2>1. s.pc = "done" \/ s.result = "none"
    BY DEF RunInv, Reported
  <2>2. CASE s.result = "none"
    BY <2>2 DEF Reported
  <2>3. CASE s.pc = "done"
    BY <2>3, <1>g, <1>w, <1>i, <1>l DEF RunInv, Reported
  <2> QED BY <2>1, <2>2, <2>3
<1> QED BY <1>1, <1>2, <1>3, <1>4, <1>5, <1>6, <1>7, <1>8, <1>9 DEF RunInv

--------------------------------------------------------------------------------
(* What a write does to the store.                                          *)

(* The record rec is stored, at the end of the lineage cfg names.            *)
Stores(cfg, rec) ==
  /\ StoreInv' /\ StoreGrows
  /\ DOMAIN by_id' = DOMAIN by_id \cup {rec.id} /\ by_id'[rec.id] = rec
  /\ InLineage(cfg, rec.id)'

(* A lineage that is left alone counts as grown.                              *)
LEMMA ReflexiveGrowth == \A h \in Seq(Store!Record) : HistoryGrows(h, h)
BY DEF HistoryGrows

(* Appending a record that continues the head keeps a chain.                 *)
LEMMA AppendChains ==
  ASSUME StoreTyped, NEW h \in Seq(Store!Record), Chained(h), NEW rec \in Store!Record,
         Store!HeadOf(h) = rec.parent, rec.id \notin DOMAIN by_id,
         by_id' = Store!Put(by_id, rec.id, rec), NEW g, g = Append(h, rec)
  PROVE  /\ g \in Seq(Store!Record) /\ Chained(g)' /\ HistoryGrows(h, g)
         /\ \E i \in 1..Len(g) : g[i].id = rec.id
<1> DEFINE n == Len(h)
<1>1. /\ n \in Nat /\ Len(g) = n + 1 /\ g[n + 1] = rec /\ \A i \in 1..n : g[i] = h[i]
      /\ g \in Seq(Store!Record)
  OBVIOUS
<1>2. rec.id \in DOMAIN by_id' /\ by_id'[rec.id] = rec
  BY DEF Store!Put
<1>3. \A c \in DOMAIN by_id : c \in DOMAIN by_id' /\ by_id'[c] = by_id[c]
  BY DEF Store!Put
<1>4. n > 0 => rec.parent = h[n].id
  BY <1>1 DEF Store!HeadOf, Store!Last
<1> HIDE DEF n
<1>5. ASSUME NEW i \in 1..Len(g)
      PROVE  Store!Indexed(g[i])' /\ (i > 1 => g[i].parent = g[i - 1].id)
  <2>1. CASE i = n + 1
    <3>1. Store!Indexed(g[i])'
      BY <1>1, <1>2, <2>1 DEF Store!Indexed
    <3>2. i > 1 => g[i - 1] = h[n] /\ n > 0
      BY <1>1, <2>1
    <3> QED BY <3>1, <3>2, <1>1, <1>4, <2>1
  <2>2. CASE i \in 1..n
    <3>1. g[i] = h[i] /\ (i > 1 => g[i - 1] = h[i - 1])
      BY <1>1, <2>2
    <3>2. Store!Indexed(h[i]) /\ (i > 1 => h[i].parent = h[i - 1].id)
      BY <2>2 DEF Chained, n
    <3>3. Store!Indexed(h[i])'
      BY <3>2, <1>3 DEF Store!Indexed
    <3> QED BY <3>1, <3>2, <3>3
  <2> QED BY <1>1, <2>1, <2>2
<1>6. Chained(g)'
  BY <1>5 DEF Chained
<1>7. HistoryGrows(h, g) /\ \E i \in 1..Len(g) : g[i].id = rec.id
  BY <1>1 DEF HistoryGrows, n
<1> QED BY <1>1, <1>6, <1>7

(* A chain stays one when a fresh record is indexed.                         *)
LEMMA IndexingKeepsChains ==
  ASSUME NEW rec, rec.id \notin DOMAIN by_id, by_id' = Store!Put(by_id, rec.id, rec),
         NEW h, Chained(h)
  PROVE  Chained(h)'
<1>1. \A c \in DOMAIN by_id : c \in DOMAIN by_id' /\ by_id'[c] = by_id[c]
  BY DEF Store!Put
<1> QED BY <1>1 DEF Chained, Store!Indexed

(* The index after a write.                                                 *)
LEMMA IndexAfterWrite ==
  ASSUME IdsDense, StoreTyped, NEW rec \in Store!Record, rec.id = NextId,
         by_id' = Store!Put(by_id, rec.id, rec)
  PROVE  /\ rec.id \notin DOMAIN by_id
         /\ DOMAIN by_id' = DOMAIN by_id \cup {rec.id} /\ by_id'[rec.id] = rec
         /\ \A c \in DOMAIN by_id : by_id'[c] = by_id[c]
         /\ IdsDense' /\ by_id' \in [DOMAIN by_id' -> Store!Record]
<1>1. /\ rec.id \in Nat \ {0} /\ rec.id \notin DOMAIN by_id /\ DOMAIN by_id = 1..(rec.id - 1)
  BY NextIdFresh
<1>2. /\ DOMAIN by_id' = DOMAIN by_id \cup {rec.id} /\ by_id'[rec.id] = rec
      /\ \A c \in DOMAIN by_id : by_id'[c] = by_id[c]
  BY <1>1 DEF Store!Put
<1>3. DOMAIN by_id' = 1..rec.id
  BY <1>1, <1>2
<1>4. IsFiniteSet(1..rec.id) /\ Cardinality(1..rec.id) = rec.id
  BY <1>1, FS_Interval
<1>5. IdsDense'
  BY <1>3, <1>4 DEF IdsDense
<1>6. by_id' \in [DOMAIN by_id' -> Store!Record]
  BY DEF StoreTyped, Store!Put
<1> QED BY <1>1, <1>2, <1>5, <1>6

(* A save to a thread puts its record at the end of the default lineage.        *)
LEMMA DefaultWrite ==
  ASSUME StoreInv, NEW rec \in Store!Record, rec.id = NextId, Store!SaveAppend(rec),
         NEW cfg, cfg.branch = NoBranch, cfg.thread = rec.thread
  PROVE  Stores(cfg, rec)
<1> DEFINE t == rec.thread
<1>1. t \in ThreadId /\ histories[t] \in Seq(Store!Record) /\ Chained(histories[t])
  BY DEF StoreInv, StoreTyped, StoreChained, Store!Record
<1>2. /\ histories' = [histories EXCEPT ![t] = Append(@, rec)]
      /\ by_id' = Store!Put(by_id, rec.id, rec) /\ branches' = branches
      /\ Store!HeadOf(histories[t]) = rec.parent
  BY DEF Store!SaveAppend, Store!SaveResult
<1>3. /\ rec.id \notin DOMAIN by_id
      /\ DOMAIN by_id' = DOMAIN by_id \cup {rec.id} /\ by_id'[rec.id] = rec
      /\ \A c \in DOMAIN by_id : by_id'[c] = by_id[c]
      /\ IdsDense' /\ by_id' \in [DOMAIN by_id' -> Store!Record]
  BY <1>2, IndexAfterWrite DEF StoreInv
<1>g. PICK g : g = Append(histories[t], rec)
  OBVIOUS
<1>4. /\ g \in Seq(Store!Record) /\ Chained(g)' /\ HistoryGrows(histories[t], g)
      /\ \E i \in 1..Len(g) : g[i].id = rec.id
  <2>1. PICK h : h = histories[t]
    OBVIOUS
  <2>2. /\ StoreTyped /\ h \in Seq(Store!Record) /\ Chained(h) /\ g = Append(h, rec)
        /\ Store!HeadOf(h) = rec.parent
    BY <2>1, <1>1, <1>2, <1>g DEF StoreInv
  <2>3. rec.id \notin DOMAIN by_id /\ by_id' = Store!Put(by_id, rec.id, rec)
    BY <1>2, <1>3
  <2>4. g \in Seq(Store!Record) /\ Chained(g)' /\ HistoryGrows(h, g)
    BY <2>2, <2>3, AppendChains
  <2>5. \E i \in 1..Len(g) : g[i].id = rec.id
    BY <2>2, <2>3, AppendChains
  <2> QED BY <2>1, <2>4, <2>5, Zenon
<1>5. /\ histories' \in [ThreadId -> Seq(Store!Record)] /\ histories'[t] = g
      /\ \A u \in ThreadId : u # t => histories'[u] = histories[u]
  BY <1>1, <1>2, <1>g, <1>4 DEF StoreInv, StoreTyped
<1>6. StoreTyped'
  BY <1>2, <1>3, <1>5 DEF StoreInv, StoreTyped
<1>7. StoreChained'
  <2>1. \A h : Chained(h) => Chained(h)'
    BY <1>2, <1>3, IndexingKeepsChains
  <2>2. ASSUME NEW u \in ThreadId PROVE Chained(histories[u])'
    BY <2>1, <1>4, <1>5 DEF StoreInv, StoreChained
  <2>3. ASSUME NEW b \in DOMAIN branches' PROVE Chained(branches[b].history)'
    BY <2>1, <2>3, <1>2 DEF StoreInv, StoreChained
  <2> QED BY <2>2, <2>3 DEF StoreChained
<1>8. StoreGrows
  <2>1. ASSUME NEW u \in ThreadId PROVE HistoryGrows(histories[u], histories'[u])
    BY <1>4, <1>5, ReflexiveGrowth DEF StoreInv, StoreTyped
  <2>2. \A b \in DOMAIN branches : HistoryGrows(branches[b].history, branches[b].history)
    BY ReflexiveGrowth DEF StoreInv, StoreTyped, Store!Branch
  <2> QED BY <2>1, <2>2, <1>2, <1>3 DEF StoreGrows
<1>9. InLineage(cfg, rec.id)'
  BY <1>4, <1>5 DEF InLineage
<1> QED BY <1>3, <1>6, <1>7, <1>8, <1>9 DEF Stores, StoreInv

(* A save to a branch puts its record at the end of that branch.               *)
LEMMA BranchWrite ==
  ASSUME StoreInv, NEW rec \in Store!Record, rec.id = NextId, NEW cfg,
         Store!SaveBranchAppend(cfg.branch, rec), cfg.branch # NoBranch,
         cfg.thread = rec.thread
  PROVE  Stores(cfg, rec)
<1> DEFINE b == cfg.branch
<1>2. /\ branches' = [branches EXCEPT ![b].history = Append(@, rec)]
      /\ by_id' = Store!Put(by_id, rec.id, rec) /\ histories' = histories
      /\ b \in DOMAIN branches /\ branches[b].thread = rec.thread
      /\ Store!HeadOf(branches[b].history) = rec.parent
  BY DEF Store!SaveBranchAppend, Store!SaveBranchResult, Store!BranchOf
<1> DEFINE h == branches[b].history
<1>1. /\ branches[b] \in Store!Branch /\ h \in Seq(Store!Record) /\ Chained(h)
  BY <1>2 DEF StoreInv, StoreTyped, StoreChained, Store!Branch
<1>3. /\ rec.id \notin DOMAIN by_id
      /\ DOMAIN by_id' = DOMAIN by_id \cup {rec.id} /\ by_id'[rec.id] = rec
      /\ \A c \in DOMAIN by_id : by_id'[c] = by_id[c]
      /\ IdsDense' /\ by_id' \in [DOMAIN by_id' -> Store!Record]
  BY <1>2, IndexAfterWrite DEF StoreInv
<1>g. PICK g : g = Append(h, rec)
  OBVIOUS
<1>4. /\ g \in Seq(Store!Record) /\ Chained(g)' /\ HistoryGrows(h, g)
      /\ \E i \in 1..Len(g) : g[i].id = rec.id
  <2>1. PICK k : k = h
    OBVIOUS
  <2>2. /\ StoreTyped /\ k \in Seq(Store!Record) /\ Chained(k) /\ g = Append(k, rec)
        /\ Store!HeadOf(k) = rec.parent
    BY <2>1, <1>1, <1>2, <1>g DEF StoreInv
  <2>3. rec.id \notin DOMAIN by_id /\ by_id' = Store!Put(by_id, rec.id, rec)
    BY <1>2, <1>3
  <2>4. g \in Seq(Store!Record) /\ Chained(g)' /\ HistoryGrows(k, g)
    BY <2>2, <2>3, AppendChains
  <2>5. \E i \in 1..Len(g) : g[i].id = rec.id
    BY <2>2, <2>3, AppendChains
  <2> QED BY <2>1, <2>4, <2>5, Zenon
<1>5. /\ DOMAIN branches' = DOMAIN branches
      /\ branches'[b].thread = branches[b].thread /\ branches'[b].history = g
      /\ \A d \in DOMAIN branches : d # b => branches'[d] = branches[d]
      /\ branches' \in [DOMAIN branches' -> Store!Branch]
  <2>1. branches \in [DOMAIN branches -> Store!Branch]
    BY DEF StoreInv, StoreTyped
  <2>2. branches' = [branches EXCEPT ![b] = [branches[b] EXCEPT !.history = g]]
    BY <1>2, <1>g
  <2>3. [branches[b] EXCEPT !.history = g] \in Store!Branch
    BY <1>1, <1>4 DEF Store!Branch
  <2>4. /\ [branches[b] EXCEPT !.history = g].thread = branches[b].thread
        /\ [branches[b] EXCEPT !.history = g].history = g
    BY <1>1 DEF Store!Branch
  <2> QED BY <1>2, <2>1, <2>2, <2>3, <2>4
<1> HIDE DEF h
<1>6. StoreTyped'
  BY <1>2, <1>3, <1>5 DEF StoreInv, StoreTyped
<1>7. StoreChained'
  <2>1. \A f : Chained(f) => Chained(f)'
    BY <1>2, <1>3, IndexingKeepsChains
  <2>2. ASSUME NEW u \in ThreadId PROVE Chained(histories[u])'
    BY <2>1, <1>2 DEF StoreInv, StoreChained
  <2>3. ASSUME NEW d \in DOMAIN branches' PROVE Chained(branches[d].history)'
    <3>1. CASE d = b
      BY <3>1, <1>4, <1>5
    <3>2. CASE d # b
      BY <3>2, <2>1, <2>3, <1>5 DEF StoreInv, StoreChained
    <3> QED BY <3>1, <3>2
  <2> QED BY <2>2, <2>3 DEF StoreChained
<1>8. StoreGrows
  <2>1. ASSUME NEW u \in ThreadId PROVE HistoryGrows(histories[u], histories'[u])
    BY <1>2, ReflexiveGrowth DEF StoreInv, StoreTyped
  <2>2. ASSUME NEW d \in DOMAIN branches
        PROVE  HistoryGrows(branches[d].history, branches'[d].history)
               /\ branches'[d].thread = branches[d].thread
    <3>1. CASE d = b
      BY <3>1, <1>4, <1>5 DEF h
    <3>2. CASE d # b
      BY <3>2, <1>5, ReflexiveGrowth DEF StoreInv, StoreTyped, Store!Branch
    <3> QED BY <3>1, <3>2
  <2> QED BY <2>1, <2>2, <1>3, <1>5 DEF StoreGrows
<1>9. InLineage(cfg, rec.id)'
  BY <1>2, <1>4, <1>5 DEF InLineage
<1> QED BY <1>3, <1>6, <1>7, <1>8, <1>9 DEF Stores, StoreInv

(* A branch is opened with its source as its first record.                     *)
LEMMA BranchOpens ==
  ASSUME StoreInv, NEW cfg, cfg.branch \in BranchId, cfg.thread \in ThreadId,
         cfg.branch # NoBranch, NEW source, by_id[source].id = source,
         Store!CreateBranchOpen(cfg.thread, cfg.branch, source)
  PROVE  /\ StoreInv' /\ StoreGrows /\ by_id' = by_id
         /\ InLineage(cfg, source)'
<1> DEFINE b == cfg.branch
           new == [thread |-> cfg.thread, history |-> <<by_id[source]>>]
<1>1. /\ b \notin DOMAIN branches /\ source \in DOMAIN by_id
      /\ branches' = Store!Put(branches, b, new)
      /\ UNCHANGED <<histories, by_id>>
  BY DEF Store!CreateBranchOpen, Store!CreateBranchResult, Store!Get
<1>2. by_id[source] \in Store!Record /\ new \in Store!Branch
  BY <1>1 DEF StoreInv, StoreTyped, Store!Branch
<1>3. Chained(new.history)
  <2>1. Len(new.history) = 1 /\ new.history[1] = by_id[source]
    OBVIOUS
  <2> QED BY <2>1, <1>1 DEF Chained, Store!Indexed
<1>n. new.thread = cfg.thread /\ new.history = <<by_id[source]>>
  OBVIOUS
<1> HIDE DEF new
<1>4. /\ DOMAIN branches' = DOMAIN branches \cup {b} /\ branches'[b] = new
      /\ \A d \in DOMAIN branches : branches'[d] = branches[d]
      /\ branches' \in [DOMAIN branches' -> Store!Branch]
  BY <1>1, <1>2 DEF Store!Put, StoreInv, StoreTyped
<1>5. StoreInv'
  <2>1. StoreTyped'
    BY <1>1, <1>4 DEF StoreInv, StoreTyped
  <2>2. \A h : Chained(h) => Chained(h)'
    BY <1>1 DEF Chained, Store!Indexed
  <2>3. StoreChained'
    BY <1>1, <1>3, <1>4, <2>2 DEF StoreInv, StoreChained
  <2> QED BY <1>1, <2>1, <2>3 DEF StoreInv, IdsDense
<1>6. StoreGrows
  <2>1. \A u \in ThreadId : HistoryGrows(histories[u], histories'[u])
    BY <1>1, ReflexiveGrowth DEF StoreInv, StoreTyped
  <2>2. \A d \in DOMAIN branches : HistoryGrows(branches[d].history, branches[d].history)
    BY ReflexiveGrowth DEF StoreInv, StoreTyped, Store!Branch
  <2> QED BY <2>1, <2>2, <1>1, <1>4 DEF StoreGrows
<1>7. InLineage(cfg, source)'
  <2>1. PICK h : h = <<by_id[source]>>
    OBVIOUS
  <2>2. 1 \in 1..Len(h) /\ h[1].id = source
    BY <2>1
  <2>3. /\ b \in DOMAIN branches' /\ branches'[b].thread = cfg.thread
        /\ branches'[b].history = h
    BY <1>n, <1>4, <2>1
  <2> QED BY <2>2, <2>3 DEF InLineage
<1> QED BY <1>1, <1>5, <1>6, <1>7

--------------------------------------------------------------------------------
(* What a step of one call leaves alone.                                     *)

(* A call that has started has fixed what it was asked for.                  *)
CallsFixed == \A q \in Run : run[q].pc # "new" => run'[q].pc # "new" /\ config'[q] = config[q]

(* Nothing happens to a store that is left alone.                            *)
LEMMA UntouchedStore ==
  ASSUME StoreInv, UNCHANGED <<histories, by_id, branches>>
  PROVE  StoreInv' /\ StoreGrows
<1>1. IdsDense' /\ StoreTyped'
  BY DEF StoreInv, IdsDense, StoreTyped
<1>2. \A h : Chained(h) => Chained(h)'
  BY DEF Chained, Store!Indexed
<1>3. StoreChained'
  BY <1>2 DEF StoreInv, StoreChained
<1>4. \A u \in ThreadId : HistoryGrows(histories[u], histories'[u])
  BY ReflexiveGrowth DEF StoreInv, StoreTyped
<1>5. \A d \in DOMAIN branches : HistoryGrows(branches[d].history, branches[d].history)
  BY ReflexiveGrowth DEF StoreInv, StoreTyped, Store!Branch
<1> QED BY <1>1, <1>3, <1>4, <1>5 DEF StoreInv, StoreGrows

(* The parent of a stored record is stored, unless it has none.              *)
LEMMA ParentStored ==
  ASSUME StoreInv, RecordsSound, NEW c \in DOMAIN by_id, by_id[c].parent # NoCheckpoint
  PROVE  by_id[c].parent \in DOMAIN by_id
<1>1. by_id[c] \in Store!Record /\ by_id[c].parent < c
  BY DEF StoreInv, StoreTyped, RecordsSound, RecordSound
<1>2. by_id[c].parent \in Nat \ {0}
  BY <1>1 DEF Store!Record, CheckpointId, NoCheckpoint
<1>3. c \in Nat /\ DOMAIN by_id = 1..(NextId - 1) /\ c < NextId /\ NextId \in Nat
  BY NextIdFresh DEF StoreInv
<1> QED BY <1>1, <1>2, <1>3

(* What a stored record says stays true.                                     *)
LEMMA RecordStaysSound ==
  ASSUME StoreInv, RecordsSound, StoreGrows, CallsFixed, NEW c \in DOMAIN by_id
  PROVE  by_id'[c].id = c /\ RecordSound(by_id[c])'
<1>1. PICK rec : rec = by_id[c]
  OBVIOUS
<1>2. /\ by_id'[c] = rec /\ rec \in Store!Record /\ rec.id = c
      /\ RecordSound(rec)
  BY <1>1 DEF StoreGrows, StoreInv, StoreTyped, RecordsSound
<1>3. rec.content \in Boundary /\ rec.content.run \in Run
  BY <1>2 DEF Store!Record, Boundary
<1>4. rec.parent # NoCheckpoint =>
        rec.parent \in DOMAIN by_id /\ by_id'[rec.parent] = by_id[rec.parent]
  BY <1>1, ParentStored DEF StoreGrows
<1>5. /\ run[rec.content.run].pc # "new" /\ run'[rec.content.run].pc # "new"
      /\ config'[rec.content.run] = config[rec.content.run]
  BY <1>2, <1>3 DEF RecordSound, CallsFixed
<1>6. /\ Continues(rec)' <=> Continues(rec)
      /\ Continues(rec) => rec.parent # NoCheckpoint
  BY <1>4, <1>5 DEF Continues
<1>7. RecordSound(rec)'
  BY <1>2, <1>4, <1>5, <1>6 DEF RecordSound
<1> QED BY <1>2, <1>7

(* A step that only moves one call, to a state that is sound.                 *)
LEMMA LocalStep ==
  ASSUME IInv, NEW r \in Run, NEW s, NEW cfg, UNCHANGED <<histories, by_id, branches>>,
         run' = [run EXCEPT ![r] = s], config' = [config EXCEPT ![r] = cfg],
         run[r].pc = "new" \/ cfg = config[r], s.pc # "new", RunInv(r, s, cfg)
  PROVE  IInv'
<1>1. /\ \A q \in Run : q # r => run'[q] = run[q] /\ config'[q] = config[q]
      /\ run'[r] = s /\ config'[r] = cfg
      /\ run' = [q \in Run |-> run'[q]] /\ config' = [q \in Run |-> config'[q]]
  BY DEF IInv
<1>2. StoreInv' /\ StoreGrows
  BY UntouchedStore DEF IInv
<1>3. CallsFixed
  BY <1>1 DEF CallsFixed
<1>4. RecordsSound'
  BY <1>2, <1>3, RecordStaysSound DEF IInv, RecordsSound
<1>5. ASSUME NEW q \in Run PROVE RunInv(q, run[q], config[q])'
  <2>1. PICK t, g : t = run'[q] /\ g = config'[q]
    OBVIOUS
  <2>2. RunInv(q, t, g)
    BY <1>1, <2>1 DEF IInv
  <2>3. RunInv(q, t, g)'
    BY <2>2, <1>2, RunInvGrows DEF IInv, StoreInv
  <2> QED BY <2>1, <2>3
<1> QED BY <1>1, <1>2, <1>4, <1>5 DEF IInv

(* The same, for a call that has started.                                     *)
LEMMA OwnStep ==
  ASSUME IInv, NEW r \in Run, NEW s, Become(r, s), Unstored, s.pc # "new",
         RunInv(r, s, config[r])
  PROVE  IInv'
<1>1. PICK cfg : cfg = config[r]
  OBVIOUS
<1>2. config' = [config EXCEPT ![r] = cfg]
  BY <1>1 DEF Unstored, IInv
<1> QED BY <1>1, <1>2, LocalStep DEF Become, Unstored, store

(* A call that has failed, or lost to another, has nothing more to say.        *)
LEMMA EndedSound ==
  ASSUME IInv, NEW r \in Run, run[r].pc # "new",
         NEW result \in {"Failed", "Conflict"},
         result = "Conflict" /\ config[r].kind # "invoke" => Lost(r, run[r], config[r])
  PROVE  RunInv(r, Ended(run[r], result), config[r])
<1> DEFINE s == Ended(run[r], result)
<1>1. RunInv(r, run[r], config[r])
  BY DEF IInv
<1>2. /\ s.pc = "done" /\ s.result = result /\ s.source = run[r].source
      /\ s.parent = run[r].parent
  BY DEF Ended, Fresh
<1>3. Typed(s)
  <2>1. /\ DOMAIN s = Fields /\ s.log = <<>> /\ s.superstep = 0 /\ s.steps = 0
        /\ s.frontier = {} /\ s.resume_node = NoNode
    BY DEF Ended, Fresh, Fields
  <2> HIDE DEF s
  <2> QED BY <2>1, <1>1, <1>2 DEF RunInv, Typed, Frontier
<1> HIDE DEF s
<1>4. Called(r, s, config[r]) /\ Written(r, s, config[r])
  BY <1>1, <1>2 DEF RunInv, Called, Written, Loading
<1>5. /\ Read(r, s, config[r]) /\ Carried(s, config[r]) /\ Parented(r, s, config[r])
      /\ Bounded(r, s, config[r]) /\ Answered(r, s, config[r])
  BY <1>2 DEF Read, Carried, Parented, Bounded, Answered, Loading, Writing
<1>6. Reported(r, s, config[r])
  BY <1>2 DEF Reported, Lost
<1> QED BY <1>3, <1>4, <1>5, <1>6 DEF RunInv, s

(* A call may fail wherever it is.                                            *)
LEMMA FailStep ==
  ASSUME IInv, NEW r \in Run, run[r].pc # "new", Fail(r), Unstored
  PROVE  IInv'
<1>1. PICK s : s = Ended(run[r], "Failed")
  OBVIOUS
<1>2. RunInv(r, s, config[r])
  BY <1>1, EndedSound
<1>3. s.pc # "new"
  BY <1>1 DEF Ended, Fresh
<1> QED BY <1>1, <1>2, <1>3, OwnStep DEF Fail

--------------------------------------------------------------------------------
(* Starting a call, and what it reads.                                        *)

(* A call in the middle of its execution that decides to save.                *)
LEMMA SavingSound ==
  ASSUME NEW r \in Run, NEW s, NEW cfg, NEW f \in Frontier, NEW n \in Node \cup {NoNode},
         Typed(s), s.pc = "execute", s.result = "none",
         Called(r, s, cfg), Written(r, s, cfg), cfg.kind # "replay",
         s.superstep = Len(s.log), s.steps = NodesRun(s.log),
         cfg.kind # "invoke" =>
           s.parent # NoCheckpoint /\ (s.parent = s.source \/ Wrote(r, s.parent)),
         Continuing(r, s, cfg) => /\ InLineage(cfg, s.parent)
                                  /\ Extends(by_id[s.parent].content, BoundaryAt(r, cfg, s, f, n)),
         n = NoNode => s.resume_node = NoNode
  PROVE  RunInv(r, Saving(r, cfg, s, f, n), cfg)
<1> DEFINE b == BoundaryAt(r, cfg, s, f, n)
           t == Saving(r, cfg, s, f, n)
<1>1. cfg.version \in Version
  BY DEF Called
<1>2. /\ b \in Boundary /\ b.run = r /\ b.log = s.log /\ b.superstep = s.superstep
      /\ b.step = s.steps /\ b.completed = (b.frontier = {}) /\ b.interrupt = n
  BY <1>1 DEF BoundaryAt, Boundary, Typed
<1>3. /\ DOMAIN t = Fields /\ t.pc = "save" /\ t.boundary = b
      /\ t.log = s.log /\ t.superstep = s.superstep /\ t.steps = s.steps
      /\ t.frontier = s.frontier /\ t.resume_node = s.resume_node
      /\ t.source = s.source /\ t.parent = s.parent /\ t.result = s.result
  BY DEF Saving, Typed, Fields
<1> HIDE DEF b, t
<1>4. Typed(t) /\ Called(r, t, cfg) /\ Written(r, t, cfg)
  BY <1>3 DEF Typed, Called, Written, Loading
<1>5. Continuing(r, t, cfg) <=> Continuing(r, s, cfg)
  BY <1>3 DEF Continuing
<1>6. Read(r, t, cfg) /\ Carried(t, cfg) /\ Answered(r, t, cfg) /\ Reported(r, t, cfg)
  BY <1>3 DEF Read, Carried, Answered, Reported, Loading, Writing
<1>7. Parented(r, t, cfg)
  BY <1>3, <1>5 DEF Parented
<1>8. Bounded(r, t, cfg)
  BY <1>2, <1>3, <1>5 DEF Bounded, b
<1> QED BY <1>4, <1>6, <1>7, <1>8 DEF RunInv, t

(* The head of a lineage is in it.                                            *)
LEMMA HeadInLineage ==
  ASSUME StoreInv, NEW cfg, cfg.thread \in ThreadId, SelectedHead(cfg) # NoCheckpoint
  PROVE  InLineage(cfg, SelectedHead(cfg)) /\ SelectedHead(cfg) \in DOMAIN by_id
<1>1. ASSUME NEW h \in Seq(Store!Record), Chained(h), Store!HeadOf(h) # NoCheckpoint
      PROVE  /\ Store!HeadOf(h) \in DOMAIN by_id
             /\ \E i \in 1..Len(h) : h[i].id = Store!HeadOf(h)
  <2>1. h # <<>> /\ Store!HeadOf(h) = h[Len(h)].id
    BY <1>1 DEF Store!HeadOf, Store!Last
  <2>2. Len(h) \in 1..Len(h)
    BY <2>1
  <2> QED BY <2>1, <2>2, <1>1 DEF Chained, Store!Indexed
<1>2. CASE cfg.branch = NoBranch
  <2>1. /\ SelectedHead(cfg) = Store!HeadOf(histories[cfg.thread])
        /\ histories[cfg.thread] \in Seq(Store!Record) /\ Chained(histories[cfg.thread])
    BY <1>2 DEF SelectedHead, Store!Latest, StoreInv, StoreTyped, StoreChained
  <2> QED BY <1>1, <1>2, <2>1 DEF InLineage
<1>3. CASE cfg.branch # NoBranch
  <2> DEFINE b == cfg.branch
  <2>1. /\ b \in DOMAIN branches /\ branches[b].thread = cfg.thread
        /\ SelectedHead(cfg) = Store!HeadOf(branches[b].history)
    BY <1>3 DEF SelectedHead, Store!BranchHead, Store!BranchOf
  <2>2. branches[b].history \in Seq(Store!Record) /\ Chained(branches[b].history)
    BY <2>1 DEF StoreInv, StoreTyped, StoreChained, Store!Branch
  <2> QED BY <1>1, <1>3, <2>1, <2>2 DEF InLineage
<1> QED BY <1>2, <1>3

(* What was asked for, when it is asked.                                      *)
LEMMA AskedFields ==
  ASSUME NEW r \in Run, NEW cfg \in Asked, Askable(r, cfg)
  PROVE  /\ cfg.kind \in {"invoke", "resume", "replay", "fork"}
         /\ cfg.thread \in ThreadId /\ cfg.branch \in BranchId \cup {NoBranch}
         /\ cfg.target \in DOMAIN by_id \cup {NoCheckpoint} /\ cfg.version \in Version
         /\ cfg.value \in BOOLEAN
         /\ cfg.kind = "fork" => cfg.branch # NoBranch
BY DEF Asked, Askable

(* A call that has not started has written nothing.                           *)
LEMMA NewHasNotWritten ==
  ASSUME IInv, NEW r \in Run, run[r].pc \in Loading \cup {"new"}
  PROVE  \A c : ~ Wrote(r, c)
BY DEF IInv, RunInv, Written, Wrote

(* A fresh run continues nothing, whatever parent it was told to expect.         *)
LEMMA StartInvokeStep ==
  ASSUME IInv, NEW r \in Run, NEW cfg \in Asked, NEW entry \in Entry,
         StartInvoke(r, cfg, entry)
  PROVE  IInv'
<1> DEFINE s == [Fresh EXCEPT !.pc = "execute", !.frontier = entry,
                              !.limit = StepLimit(0), !.parent = cfg.target]
<1>1. /\ run[r].pc = "new" /\ Askable(r, cfg) /\ cfg.kind = "invoke"
      /\ config' = [config EXCEPT ![r] = cfg]
      /\ run' = [run EXCEPT ![r] = IF entry = {} THEN Saving(r, cfg, s, {}, NoNode) ELSE s]
      /\ UNCHANGED <<histories, by_id, branches>>
  BY DEF StartInvoke, At, Become, store
<1>2. entry \in Frontier /\ {} \in Frontier
  BY GraphAssumption DEF Frontier
<1>3. \A c : ~ Wrote(r, c)
  BY <1>1, NewHasNotWritten
<1>4. /\ DOMAIN s = Fields /\ s.pc = "execute" /\ s.frontier = entry /\ s.parent = cfg.target
      /\ s.log = <<>> /\ s.superstep = 0 /\ s.steps = 0 /\ s.source = NoCheckpoint
      /\ s.resume_node = NoNode /\ s.result = "none"
  BY DEF Fresh, Fields
<1> HIDE DEF s
<1>5. Typed(s) /\ s.superstep = Len(s.log) /\ s.steps = NodesRun(s.log)
  <2>1. cfg.target \in DOMAIN by_id \cup {NoCheckpoint}
    BY <1>1, AskedFields
  <2> QED BY <2>1, <1>2, <1>4, NodesRunEmpty DEF Typed
<1>6. Called(r, s, cfg)
  BY <1>1, <1>3, AskedFields DEF Called
<1>7. Written(r, s, cfg)
  BY <1>3 DEF Written
<1>8. ~ Continuing(r, s, cfg)
  BY <1>1, <1>3 DEF Continuing
<1>9. CASE entry = {}
  <2>1. PICK t : t = Saving(r, cfg, s, {}, NoNode)
    OBVIOUS
  <2>2. RunInv(r, t, cfg)
    BY <2>1, <1>1, <1>2, <1>4, <1>5, <1>6, <1>7, <1>8, SavingSound
  <2>3. t.pc # "new"
    BY <2>1, <1>4 DEF Saving, Fields
  <2> QED BY <2>1, <2>2, <2>3, <1>1, <1>9, LocalStep
<1>10. CASE entry # {}
  <2>1. Read(r, s, cfg) /\ Carried(s, cfg)
    BY <1>4, <1>5 DEF Read, Carried, Loading
  <2>2. Parented(r, s, cfg)
    BY <1>1, <1>4, <1>8, <1>10 DEF Parented
  <2>3. Bounded(r, s, cfg) /\ Answered(r, s, cfg) /\ Reported(r, s, cfg)
    BY <1>4 DEF Bounded, Answered, Reported
  <2>4. RunInv(r, s, cfg)
    BY <2>1, <2>2, <2>3, <1>5, <1>6, <1>7 DEF RunInv
  <2>5. PICK t : t = s
    OBVIOUS
  <2> QED BY <2>4, <2>5, <1>1, <1>4, <1>10, LocalStep
<1> QED BY <1>9, <1>10

(* A resume, replay or fork starts by loading.                                *)
LEMMA StartFromCheckpointStep ==
  ASSUME IInv, NEW r \in Run, NEW cfg \in Asked, StartFromCheckpoint(r, cfg)
  PROVE  IInv'
<1> DEFINE s == [Fresh EXCEPT !.pc = "load"]
<1>1. /\ run[r].pc = "new" /\ Askable(r, cfg) /\ cfg.kind # "invoke"
      /\ config' = [config EXCEPT ![r] = cfg] /\ run' = [run EXCEPT ![r] = s]
      /\ UNCHANGED <<histories, by_id, branches>>
  BY DEF StartFromCheckpoint, At, Become, store
<1>2. \A c : ~ Wrote(r, c)
  BY <1>1, NewHasNotWritten
<1>3. /\ DOMAIN s = Fields /\ s.pc = "load" /\ s.frontier = {} /\ s.parent = NoCheckpoint
      /\ s.log = <<>> /\ s.superstep = 0 /\ s.steps = 0 /\ s.source = NoCheckpoint
      /\ s.resume_node = NoNode /\ s.result = "none"
  BY DEF Fresh, Fields
<1> HIDE DEF s
<1>4. Typed(s)
  BY <1>3 DEF Typed, Frontier
<1>5. Called(r, s, cfg)
  BY <1>1, AskedFields DEF Called
<1>6. Written(r, s, cfg)
  BY <1>2 DEF Written
<1>7. /\ Read(r, s, cfg) /\ Carried(s, cfg) /\ Parented(r, s, cfg) /\ Bounded(r, s, cfg)
      /\ Answered(r, s, cfg) /\ Reported(r, s, cfg)
  BY <1>1, <1>3 DEF Read, Carried, Parented, Bounded, Answered, Reported, Loading, Writing
<1>8. RunInv(r, s, cfg)
  BY <1>4, <1>5, <1>6, <1>7 DEF RunInv
<1>9. PICK t : t = s
  OBVIOUS
<1> QED BY <1>1, <1>3, <1>8, <1>9, LocalStep

(* A call that is still reading, and its invariant.                            *)
LEMMA ReadingSound ==
  ASSUME NEW r, NEW s, NEW cfg, NEW t, RunInv(r, s, cfg), s.pc \in Loading,
         DOMAIN t = Fields, t.pc \in {"pin", "restore"}, t.result = s.result,
         t.log = s.log, t.superstep = s.superstep, t.steps = s.steps,
         t.frontier = s.frontier, t.resume_node = s.resume_node, t.parent = s.parent,
         t.source \in DOMAIN by_id,
         t.pc = "restore" /\ cfg.kind = "resume" => InLineage(cfg, t.source)
  PROVE  RunInv(r, t, cfg)
<1>1. Typed(t) /\ Called(r, t, cfg)
  BY DEF RunInv, Typed, Called, Loading
<1>2. Written(r, t, cfg)
  BY DEF RunInv, Written, Loading
<1>3. Read(r, t, cfg)
  BY DEF RunInv, Read, Loading
<1>4. /\ Carried(t, cfg) /\ Parented(r, t, cfg) /\ Bounded(r, t, cfg) /\ Answered(r, t, cfg)
  BY DEF Carried, Parented, Bounded, Answered, Writing
<1>5. Reported(r, t, cfg)
  BY DEF RunInv, Reported, Loading
<1> QED BY <1>1, <1>2, <1>3, <1>4, <1>5 DEF RunInv

(* The load finds a stored checkpoint, the head of the lineage unless one is named.  *)
LEMMA LoadStep ==
  ASSUME IInv, NEW r \in Run, Load(r)
  PROVE  IInv'
<1> DEFINE cfg == config[r]
           pinned == cfg.kind = "resume" /\ cfg.target # NoCheckpoint
           s == [run[r] EXCEPT !.pc = IF pinned THEN "pin" ELSE "restore",
                               !.source = Loaded(cfg)]
<1>1. run[r].pc = "load" /\ Unstored /\ RunInv(r, run[r], cfg)
  BY DEF Load, At, IInv
<1>2. CASE Loaded(cfg) = NoCheckpoint
  BY <1>1, <1>2, FailStep DEF Load
<1>3. CASE Loaded(cfg) # NoCheckpoint
  <2>1. Become(r, s)
    BY <1>3 DEF Load
  <2>2. cfg.thread \in ThreadId
    BY <1>1 DEF RunInv, Called
  <2>3. Loaded(cfg) \in DOMAIN by_id
    <3>1. CASE cfg.target = NoCheckpoint
      BY <3>1, <1>3, <2>2, HeadInLineage DEF Loaded, IInv
    <3>2. CASE cfg.target # NoCheckpoint
      BY <3>2, <1>3 DEF Loaded, Store!Get
    <3> QED BY <3>1, <3>2
  <2>4. cfg.kind = "resume" /\ ~ pinned => InLineage(cfg, Loaded(cfg))
    BY <1>3, <2>2, HeadInLineage DEF Loaded, IInv
  <2>5. DOMAIN run[r] = Fields
    BY <1>1 DEF RunInv, Typed
  <2>6. /\ DOMAIN s = Fields /\ s.pc = (IF pinned THEN "pin" ELSE "restore")
        /\ s.source = Loaded(cfg) /\ s.log = run[r].log /\ s.superstep = run[r].superstep
        /\ s.steps = run[r].steps /\ s.frontier = run[r].frontier
        /\ s.resume_node = run[r].resume_node /\ s.parent = run[r].parent
        /\ s.result = run[r].result
    BY <2>5 DEF Fields
  <2> HIDE DEF s
  <2>7. PICK t : t = s
    OBVIOUS
  <2>8. RunInv(r, t, config[r]) /\ t.pc # "new"
    BY <1>1, <2>3, <2>4, <2>6, <2>7, ReadingSound DEF Loading
  <2> QED BY <2>1, <2>7, <2>8, <1>1, OwnStep
<1> QED BY <1>2, <1>3

(* A pinned resume goes on only from the head.                                 *)
LEMMA PinStep ==
  ASSUME IInv, NEW r \in Run, Pin(r)
  PROVE  IInv'
<1> DEFINE cfg == config[r]
           s == [run[r] EXCEPT !.pc = "restore"]
<1>1. run[r].pc = "pin" /\ Unstored /\ RunInv(r, run[r], cfg)
  BY DEF Pin, At, IInv
<1>2. CASE SelectedHead(cfg) # run[r].source
  BY <1>1, <1>2, FailStep DEF Pin
<1>3. CASE SelectedHead(cfg) = run[r].source
  <2>1. Become(r, s)
    BY <1>3 DEF Pin
  <2>2. cfg.thread \in ThreadId /\ run[r].source \in DOMAIN by_id /\ DOMAIN run[r] = Fields
    BY <1>1 DEF RunInv, Called, Read, Loading, Typed
  <2>3. run[r].source # NoCheckpoint
    BY <2>2, NextIdFresh DEF IInv, StoreInv
  <2>4. InLineage(cfg, run[r].source)
    BY <1>3, <2>2, <2>3, HeadInLineage DEF IInv
  <2>5. /\ DOMAIN s = Fields /\ s.pc = "restore" /\ s.source = run[r].source
        /\ s.log = run[r].log /\ s.superstep = run[r].superstep
        /\ s.steps = run[r].steps /\ s.frontier = run[r].frontier
        /\ s.resume_node = run[r].resume_node /\ s.parent = run[r].parent
        /\ s.result = run[r].result
    BY <2>2 DEF Fields
  <2> HIDE DEF s
  <2>6. PICK t : t = s
    OBVIOUS
  <2>7. RunInv(r, t, config[r]) /\ t.pc # "new"
    BY <1>1, <2>2, <2>4, <2>5, <2>6, ReadingSound DEF Loading
  <2> QED BY <2>1, <2>6, <2>7, <1>1, OwnStep
<1> QED BY <1>2, <1>3

(* A call that has restored what it read: a fork still has to open its branch.   *)
LEMMA RestoredSound ==
  ASSUME IInv, NEW r \in Run, run[r].pc = "restore", Compatible(config[r], by_id[run[r].source].content),
         config[r].value = (by_id[run[r].source].content.interrupt # NoNode)
  PROVE  LET b == by_id[run[r].source].content IN
         RunInv(r, [run[r] EXCEPT
                      !.pc = IF config[r].kind = "fork" THEN "open" ELSE "execute",
                      !.log = b.log, !.superstep = b.superstep,
                      !.steps = b.step, !.limit = StepLimit(b.step),
                      !.frontier = b.frontier, !.resume_node = b.interrupt,
                      !.parent = run[r].source], config[r])
<1> DEFINE cfg == config[r]
           b == by_id[run[r].source].content
           s == [run[r] EXCEPT
                      !.pc = IF cfg.kind = "fork" THEN "open" ELSE "execute",
                      !.log = b.log, !.superstep = b.superstep,
                      !.steps = b.step, !.limit = StepLimit(b.step),
                      !.frontier = b.frontier, !.resume_node = b.interrupt,
                      !.parent = run[r].source]
<1>1. RunInv(r, run[r], cfg)
  BY DEF IInv
<1>2. /\ run[r].source \in DOMAIN by_id /\ cfg.kind # "invoke" /\ run[r].result = "none"
      /\ DOMAIN run[r] = Fields /\ cfg.kind \in {"resume", "replay", "fork"}
      /\ cfg.kind = "resume" => InLineage(cfg, run[r].source)
  BY <1>1 DEF RunInv, Read, Loading, Typed, Called, Reported
<1>3. by_id[run[r].source] \in Store!Record
  BY <1>2 DEF IInv, StoreInv, StoreTyped
<1>4. /\ b.log \in Seq(Frontier) /\ b.superstep \in Nat /\ b.step \in Nat
      /\ b.frontier \in Frontier /\ b.interrupt \in Node \cup {NoNode}
  BY <1>3 DEF Store!Record, Boundary
<1>5. b.superstep = Len(b.log) /\ b.step = NodesRun(b.log)
  BY <1>2 DEF IInv, RecordsSound, RecordSound
<1>6. b.interrupt # NoNode => b.frontier = {b.interrupt}
  BY DEF Compatible
<1>7. /\ DOMAIN s = Fields /\ s.pc = (IF cfg.kind = "fork" THEN "open" ELSE "execute")
      /\ s.log = b.log /\ s.superstep = b.superstep /\ s.steps = b.step
      /\ s.frontier = b.frontier /\ s.resume_node = b.interrupt
      /\ s.parent = run[r].source /\ s.source = run[r].source /\ s.result = "none"
  BY <1>2 DEF Fields
<1> HIDE DEF s
<1>8. \A c : ~ Wrote(r, c)
  BY NewHasNotWritten DEF Loading
<1>9. Typed(s)
  BY <1>2, <1>4, <1>7 DEF Typed
<1>10. Called(r, s, cfg) /\ Written(r, s, cfg)
  BY <1>1, <1>8 DEF RunInv, Called, Written
<1>11. AtParent(s)
  BY <1>7 DEF AtParent
<1>12. Read(r, s, cfg)
  BY <1>2, <1>7, <1>11 DEF Read, Loading
<1>13. Carried(s, cfg)
  BY <1>2, <1>5, <1>6, <1>7 DEF Carried
<1>14. run[r].source # NoCheckpoint
  BY <1>2, NextIdFresh DEF IInv, StoreInv
<1>15. Parented(r, s, cfg)
  <2>1. Continuing(r, s, cfg)
    BY <1>2, <1>7, <1>14 DEF Continuing
  <2>2. s.pc = "execute" /\ cfg.kind # "replay" => InLineage(cfg, s.parent)
    BY <1>2, <1>7
  <2> QED BY <2>1, <2>2, <1>2, <1>7, <1>11, <1>14 DEF Parented, Writing
<1>16. Bounded(r, s, cfg) /\ Answered(r, s, cfg) /\ Reported(r, s, cfg)
  BY <1>7 DEF Bounded, Answered, Reported
<1> QED BY <1>9, <1>10, <1>12, <1>13, <1>15, <1>16 DEF RunInv, s

(* The checkpoint is taken over, or refused.                                  *)
LEMMA RestoreStep ==
  ASSUME IInv, NEW r \in Run, Restore(r)
  PROVE  IInv'
<1> DEFINE cfg == config[r]
           b == by_id[run[r].source].content
           s == [run[r] EXCEPT
                      !.pc = IF cfg.kind = "fork" THEN "open" ELSE "execute",
                      !.log = b.log, !.superstep = b.superstep,
                      !.steps = b.step, !.limit = StepLimit(b.step),
                      !.frontier = b.frontier, !.resume_node = b.interrupt,
                      !.parent = run[r].source]
<1>1. run[r].pc = "restore" /\ Unstored
  BY DEF Restore, At
<1>2. CASE Fail(r)
  BY <1>1, <1>2, FailStep
<1>3. CASE ~ Fail(r)
  <2>1. Compatible(cfg, b) /\ cfg.value = (b.interrupt # NoNode) /\ Become(r, s)
    BY <1>3 DEF Restore
  <2>2. RunInv(r, s, config[r])
    BY <1>1, <2>1, RestoredSound
  <2>3. s.pc # "new"
    BY DEF IInv, RunInv, Typed, Fields
  <2> HIDE DEF s
  <2>4. PICK t : t = s
    OBVIOUS
  <2> QED BY <2>1, <2>2, <2>3, <2>4, <1>1, OwnStep
<1> QED BY <1>2, <1>3

(* The branch is open, or it is not: the call goes on, or fails.                *)
LEMMA BranchOpenedStep ==
  ASSUME IInv, NEW r \in Run, BranchOpened(r)
  PROVE  IInv'
<1> DEFINE cfg == config[r]
           s == [run[r] EXCEPT !.pc = "execute"]
<1>1. run[r].pc = "opened" /\ Unstored /\ RunInv(r, run[r], cfg)
  BY DEF BranchOpened, At, IInv
<1>2. CASE run[r].answer # "Ok"
  BY <1>1, <1>2, FailStep DEF BranchOpened
<1>3. CASE run[r].answer = "Ok"
  <2>1. Become(r, s)
    BY <1>3 DEF BranchOpened
  <2>2. /\ DOMAIN run[r] = Fields /\ cfg.kind = "fork" /\ run[r].parent = run[r].source
        /\ AtParent(run[r]) /\ run[r].source \in DOMAIN by_id
        /\ InLineage(cfg, run[r].source) /\ run[r].result = "none"
    BY <1>1, <1>3 DEF RunInv, Typed, Read, Loading, Reported
  <2>3. /\ DOMAIN s = Fields /\ s.pc = "execute" /\ s.source = run[r].source
        /\ s.log = run[r].log /\ s.superstep = run[r].superstep
        /\ s.steps = run[r].steps /\ s.frontier = run[r].frontier
        /\ s.resume_node = run[r].resume_node /\ s.parent = run[r].parent
        /\ s.result = run[r].result
    BY <2>2 DEF Fields
  <2> HIDE DEF s
  <2>4. \A c : ~ Wrote(r, c)
    BY <1>1, NewHasNotWritten DEF Loading
  <2>5. Typed(s) /\ Called(r, s, cfg) /\ Written(r, s, cfg) /\ Carried(s, cfg)
    BY <1>1, <2>3, <2>4 DEF RunInv, Typed, Called, Written, Carried, Writing
  <2>6. Read(r, s, cfg) /\ Bounded(r, s, cfg) /\ Answered(r, s, cfg) /\ Reported(r, s, cfg)
    BY <2>2, <2>3 DEF Read, Loading, Bounded, Answered, Reported
  <2>7. AtParent(s) /\ s.parent # NoCheckpoint /\ Continuing(r, s, cfg)
    BY <2>2, <2>3, NextIdFresh DEF AtParent, Continuing, IInv, StoreInv
  <2>8. Parented(r, s, cfg)
    BY <2>2, <2>3, <2>7 DEF Parented
  <2>9. PICK t : t = s
    OBVIOUS
  <2>10. RunInv(r, t, config[r]) /\ t.pc # "new"
    BY <2>3, <2>5, <2>6, <2>8, <2>9 DEF RunInv
  <2> QED BY <2>1, <2>9, <2>10, <1>1, OwnStep
<1> QED BY <1>2, <1>3

--------------------------------------------------------------------------------
(* Executing, and hearing of a save.                                          *)

(* A superstep takes a call beyond its parent.                                *)
LEMMA AppliedBeyond ==
  ASSUME NEW s, Typed(s), NEW t, t.log = Append(s.log, s.frontier), t.parent = s.parent,
         by_id[s.parent].content.log \in Seq(Frontier), AtParent(s) \/ Beyond(s)
  PROVE  Beyond(t)
<1> DEFINE p == by_id[s.parent].content
           n == Len(s.log)
<1>1. /\ s.log \in Seq(Frontier) /\ s.frontier \in Frontier /\ p.log \in Seq(Frontier)
      /\ n \in Nat
  BY DEF Typed
<1>2. /\ Len(t.log) = n + 1 /\ t.log[n + 1] = s.frontier /\ \A i \in 1..n : t.log[i] = s.log[i]
      /\ t.log \in Seq(Frontier)
  BY <1>1
<1>p. \A x, y \in Seq(Frontier) :
        IsPrefix(x, y) <=> Len(x) <= Len(y) /\ \A i \in 1..Len(x) : x[i] = y[i]
  BY PrefixMeans
<1>l. Len(p.log) \in Nat
  BY <1>1
<1> HIDE DEF p, n
<1>3. CASE AtParent(s)
  <2>1. p.log = s.log /\ p.frontier = s.frontier
    BY <1>3 DEF AtParent, p
  <2>2. IsPrefix(p.log, t.log) /\ Len(p.log) = n
    <3>1. Len(p.log) = n /\ n <= Len(t.log)
      BY <2>1, <1>1, <1>2 DEF n
    <3>2. Len(p.log) <= Len(t.log) /\ \A i \in 1..Len(p.log) : p.log[i] = t.log[i]
      BY <3>1, <2>1, <1>2
    <3> QED BY <3>1, <3>2, <1>1, <1>2, <1>p
  <2> QED BY <2>1, <2>2, <1>1, <1>2 DEF Beyond, p
<1>4. CASE Beyond(s)
  <2>1. /\ IsPrefix(p.log, s.log) /\ Len(p.log) < n /\ s.log[Len(p.log) + 1] = p.frontier
    BY <1>4 DEF Beyond, p, n
  <2>2. Len(p.log) \in Nat /\ \A i \in 1..Len(p.log) : p.log[i] = s.log[i]
    BY <2>1, <1>1, <1>l, <1>p
  <2>3. IsPrefix(p.log, t.log)
    <3>1. Len(p.log) <= Len(t.log) /\ \A i \in 1..Len(p.log) : p.log[i] = t.log[i]
      BY <2>1, <2>2, <1>1, <1>2
    <3> QED BY <3>1, <1>1, <1>2, <1>p
  <2>4. t.log[Len(p.log) + 1] = p.frontier /\ Len(p.log) < Len(t.log)
    BY <2>1, <2>2, <1>1, <1>2
  <2> QED BY <2>3, <2>4 DEF Beyond, p
<1> QED BY <1>3, <1>4

(* A checkpoint a call could save now continues its parent.                    *)
LEMMA BoundaryExtends ==
  ASSUME NEW r, NEW s, NEW cfg, NEW f, NEW n,
         \/ Beyond(s)
         \/ AtParent(s) /\ n # NoNode /\ f = s.frontier
  PROVE  Extends(by_id[s.parent].content, BoundaryAt(r, cfg, s, f, n))
<1> DEFINE b == BoundaryAt(r, cfg, s, f, n)
<1>1. b.log = s.log /\ b.frontier = f /\ b.interrupt = n
  BY DEF BoundaryAt
<1> HIDE DEF b
<1>2. CASE AtParent(s) /\ n # NoNode /\ f = s.frontier
  <2>1. IsPrefix(b.log, b.log)
    BY DEF IsPrefix
  <2> QED BY <1>1, <1>2, <2>1 DEF AtParent, Extends, b
<1>3. CASE Beyond(s)
  <2>1. b.log # by_id[s.parent].content.log
    BY <1>1, <1>3 DEF Beyond
  <2> QED BY <1>1, <1>3, <2>1 DEF Beyond, Extends, b
<1> QED BY <1>2, <1>3

(* The parent of a call that continues it is a stored record.                   *)
LEMMA ContinuedParent ==
  ASSUME IInv, NEW r \in Run, Continuing(r, run[r], config[r])
  PROVE  /\ run[r].parent \in DOMAIN by_id
         /\ by_id[run[r].parent] \in Store!Record
         /\ by_id[run[r].parent].content \in Boundary
         /\ RecordSound(by_id[run[r].parent])
<1>1. run[r].parent \in DOMAIN by_id
  BY DEF IInv, RunInv, Typed, Continuing
<1>2. by_id[run[r].parent] \in Store!Record
  BY <1>1 DEF IInv, StoreInv, StoreTyped
<1>3. by_id[run[r].parent].content \in Boundary
  BY <1>2 DEF Store!Record
<1> QED BY <1>1, <1>2, <1>3 DEF IInv, RecordsSound

(* A superstep is committed in memory; the policy decides whether it is saved.    *)
LEMMA SuperstepStep ==
  ASSUME IInv, NEW r \in Run, NEW next \in Frontier, Superstep(r, next)
  PROVE  IInv'
<1> DEFINE cfg == config[r]
           s == Applied(run[r])
           u == [s EXCEPT !.frontier = next]
<1>1. /\ run[r].pc = "execute" /\ run[r].frontier # {} /\ Unstored
      /\ RunInv(r, run[r], cfg)
      /\ Become(r, IF ShouldSave(r, next = {}) THEN Saving(r, cfg, s, next, NoNode) ELSE u)
  BY DEF Superstep, Executing, At, IInv
<1>2. Typed(run[r]) /\ DOMAIN run[r] = Fields /\ run[r].result = "none"
  BY <1>1 DEF RunInv, Typed, Reported
<1>3. Cardinality(run[r].frontier) \in Nat
  <2>1. IsFiniteSet(run[r].frontier)
    BY <1>2, GraphAssumption, FS_Subset DEF Typed, Frontier
  <2> QED BY <2>1, FS_CardinalityType
<1>4. /\ DOMAIN s = Fields /\ s.pc = "execute" /\ s.result = "none"
      /\ s.log = Append(run[r].log, run[r].frontier)
      /\ s.superstep = run[r].superstep + 1
      /\ s.steps = run[r].steps + Cardinality(run[r].frontier)
      /\ s.resume_node = NoNode /\ s.source = run[r].source /\ s.parent = run[r].parent
      /\ s.frontier = run[r].frontier
  BY <1>1, <1>2 DEF Applied, Fields
<1> HIDE DEF s
<1>5. /\ DOMAIN u = Fields /\ u.pc = "execute" /\ u.result = "none" /\ u.log = s.log
      /\ u.superstep = s.superstep /\ u.steps = s.steps /\ u.resume_node = NoNode
      /\ u.source = s.source /\ u.parent = s.parent /\ u.frontier = next
  BY <1>4 DEF Fields
<1> HIDE DEF u
<1>6. Typed(s) /\ Typed(u)
  BY <1>2, <1>3, <1>4, <1>5 DEF Typed
<1>7. s.superstep = Len(s.log) /\ s.steps = NodesRun(s.log)
  <2>1. /\ run[r].superstep = Len(run[r].log) /\ run[r].steps = NodesRun(run[r].log)
        /\ run[r].log \in Seq(Frontier) /\ run[r].frontier \in Frontier
    BY <1>1, <1>2 DEF RunInv, Carried, Writing, Typed
  <2>2. NodesRun(s.log) = NodesRun(run[r].log) + Cardinality(run[r].frontier)
    BY <2>1, <1>4, NodesRunAppend
  <2> QED BY <2>1, <2>2, <1>4
<1>8. /\ Called(r, s, cfg) /\ Written(r, s, cfg) /\ Called(r, u, cfg) /\ Written(r, u, cfg)
  BY <1>1, <1>4, <1>5 DEF RunInv, Called, Written, Loading
<1>9. /\ Continuing(r, s, cfg) <=> Continuing(r, run[r], cfg)
      /\ Continuing(r, u, cfg) <=> Continuing(r, run[r], cfg)
  BY <1>4, <1>5 DEF Continuing
<1>10. Continuing(r, run[r], cfg) => Beyond(s) /\ Beyond(u)
  <2> SUFFICES ASSUME Continuing(r, run[r], cfg) PROVE Beyond(s) /\ Beyond(u)
    OBVIOUS
  <2>1. by_id[run[r].parent].content.log \in Seq(Frontier)
    BY ContinuedParent DEF Boundary
  <2>2. AtParent(run[r]) \/ Beyond(run[r])
    BY <1>1 DEF RunInv, Parented, Writing
  <2>3. Beyond(s)
    BY <2>1, <2>2, <1>2, <1>4, AppliedBeyond
  <2> QED BY <2>3, <1>5 DEF Beyond
<1>11. /\ cfg.kind # "invoke" =>
            s.parent # NoCheckpoint /\ (s.parent = s.source \/ Wrote(r, s.parent))
       /\ Continuing(r, run[r], cfg) /\ cfg.kind # "replay" => InLineage(cfg, s.parent)
  BY <1>1, <1>4 DEF RunInv, Parented, Writing
<1>12. CASE ShouldSave(r, next = {})
  <2>1. cfg.kind # "replay"
    BY <1>12 DEF ShouldSave
  <2>2. Continuing(r, s, cfg) => /\ InLineage(cfg, s.parent)
              /\ Extends(by_id[s.parent].content, BoundaryAt(r, cfg, s, next, NoNode))
    BY <2>1, <1>9, <1>10, <1>11, BoundaryExtends
  <2>3. PICK t : t = Saving(r, cfg, s, next, NoNode)
    OBVIOUS
  <2>4. RunInv(r, t, config[r])
    BY <2>1, <2>2, <2>3, <1>4, <1>6, <1>7, <1>8, <1>11, SavingSound
  <2>5. t.pc # "new"
    BY <2>3, <1>4 DEF Saving, Fields
  <2> QED BY <2>3, <2>4, <2>5, <1>1, <1>12, OwnStep
<1>13. CASE ~ ShouldSave(r, next = {})
  <2>1. next # {} \/ cfg.kind = "replay"
    BY <1>13 DEF ShouldSave
  <2>2. Parented(r, u, cfg)
    BY <2>1, <1>5, <1>9, <1>10, <1>11 DEF Parented
  <2>3. Read(r, u, cfg) /\ Carried(u, cfg)
    BY <1>5, <1>7 DEF Read, Carried, Loading
  <2>4. Bounded(r, u, cfg) /\ Answered(r, u, cfg) /\ Reported(r, u, cfg)
    BY <1>5 DEF Bounded, Answered, Reported
  <2>5. PICK t : t = u
    OBVIOUS
  <2>6. RunInv(r, t, config[r]) /\ t.pc # "new"
    BY <2>2, <2>3, <2>4, <2>5, <1>5, <1>6, <1>8 DEF RunInv
  <2> QED BY <2>5, <2>6, <1>1, <1>13, OwnStep
<1> QED BY <1>12, <1>13

(* A node asks for input: the state before it ran is saved, with the question.     *)
LEMMA InterruptStep ==
  ASSUME IInv, NEW r \in Run, NEW n \in Node, Interrupt(r, n)
  PROVE  IInv'
<1> DEFINE cfg == config[r]
<1>1. run[r].pc = "execute" /\ run[r].frontier = {n} /\ Unstored /\ RunInv(r, run[r], cfg)
  BY DEF Interrupt, Executing, At, IInv
<1>2. CASE cfg.kind = "replay"
  BY <1>1, <1>2, FailStep DEF Interrupt
<1>3. CASE cfg.kind # "replay"
  <2>1. PICK t : t = Saving(r, cfg, run[r], {n}, n)
    OBVIOUS
  <2>2. Become(r, t)
    BY <2>1, <1>3 DEF Interrupt
  <2>3. n # NoNode /\ {n} \in Frontier
    BY GraphAssumption DEF Frontier
  <2>4. /\ Typed(run[r]) /\ run[r].result = "none" /\ Called(r, run[r], cfg)
        /\ Written(r, run[r], cfg) /\ run[r].superstep = Len(run[r].log)
        /\ run[r].steps = NodesRun(run[r].log)
    BY <1>1 DEF RunInv, Reported, Carried, Writing
  <2>5. /\ cfg.kind # "invoke" =>
             run[r].parent # NoCheckpoint
             /\ (run[r].parent = run[r].source \/ Wrote(r, run[r].parent))
        /\ Continuing(r, run[r], cfg) =>
             /\ InLineage(cfg, run[r].parent)
             /\ Extends(by_id[run[r].parent].content, BoundaryAt(r, cfg, run[r], {n}, n))
    <3>1. Continuing(r, run[r], cfg) => AtParent(run[r]) \/ Beyond(run[r])
      BY <1>1 DEF RunInv, Parented, Writing
    <3>2. Continuing(r, run[r], cfg) =>
            Extends(by_id[run[r].parent].content, BoundaryAt(r, cfg, run[r], {n}, n))
      BY <3>1, <1>1, <2>3, BoundaryExtends
    <3> QED BY <3>2, <1>1, <1>3 DEF RunInv, Parented, Writing
  <2>6. RunInv(r, t, config[r])
    BY <2>1, <2>3, <2>4, <2>5, <1>1, <1>3, SavingSound
  <2>7. t.pc # "new"
    BY <2>1, <2>4 DEF Saving, Typed, Fields
  <2> QED BY <2>2, <2>6, <2>7, <1>1, OwnStep
<1> QED BY <1>2, <1>3

(* A call that has started and now reports.                                    *)
LEMMA DoneSound ==
  ASSUME NEW r, NEW s, NEW cfg, NEW t, RunInv(r, s, cfg), s.pc \notin Loading \cup {"new"},
         DOMAIN t = Fields, t.pc = "done", t.log = s.log, t.superstep = s.superstep,
         t.steps = s.steps, t.frontier = s.frontier, t.resume_node = s.resume_node,
         t.source = s.source, t.parent = s.parent, Reported(r, t, cfg)
  PROVE  RunInv(r, t, cfg)
<1>1. Typed(t) /\ Called(r, t, cfg)
  BY DEF RunInv, Typed, Called
<1>2. Written(r, t, cfg)
  BY DEF RunInv, Written, Loading
<1>3. /\ Read(r, t, cfg) /\ Carried(t, cfg) /\ Parented(r, t, cfg) /\ Bounded(r, t, cfg)
      /\ Answered(r, t, cfg)
  BY DEF Read, Carried, Parented, Bounded, Answered, Writing, Loading
<1> QED BY <1>1, <1>2, <1>3 DEF RunInv

(* Nothing is left to execute: the parent is the completed checkpoint.            *)
LEMMA CompleteStep ==
  ASSUME IInv, NEW r \in Run, Complete(r)
  PROVE  IInv'
<1> DEFINE cfg == config[r]
           s == [run[r] EXCEPT !.pc = "done", !.result = "Completed", !.boundary = <<>>]
<1>1. /\ run[r].pc = "execute" /\ run[r].frontier = {} /\ Unstored /\ RunInv(r, run[r], cfg)
      /\ Become(r, s)
  BY DEF Complete, At, End, IInv
<1>2. DOMAIN run[r] = Fields
  BY <1>1 DEF RunInv, Typed
<1>3. /\ DOMAIN s = Fields /\ s.pc = "done" /\ s.result = "Completed" /\ s.log = run[r].log
      /\ s.superstep = run[r].superstep /\ s.steps = run[r].steps
      /\ s.frontier = run[r].frontier /\ s.resume_node = run[r].resume_node
      /\ s.source = run[r].source /\ s.parent = run[r].parent
  BY <1>2 DEF Fields
<1> HIDE DEF s
<1>4. Reported(r, s, cfg)
  <2> SUFFICES ASSUME cfg.kind # "replay"
               PROVE  \E c \in DOMAIN by_id :
                        /\ by_id[c].content.completed /\ by_id[c].content.log = s.log
                        /\ Wrote(r, c) \/ c = s.source
                        /\ InLineage(cfg, c)
    BY <1>3 DEF Reported
  <2>1. /\ Continuing(r, run[r], cfg) /\ AtParent(run[r]) /\ InLineage(cfg, run[r].parent)
    BY <1>1 DEF RunInv, Parented, Writing
  <2>2. run[r].parent \in DOMAIN by_id /\ RecordSound(by_id[run[r].parent])
    BY <2>1, ContinuedParent
  <2>3. by_id[run[r].parent].content.completed
    BY <2>1, <2>2, <1>1 DEF AtParent, RecordSound
  <2>4. Wrote(r, run[r].parent) \/ run[r].parent = run[r].source
    BY <2>1, <1>1 DEF RunInv, Parented, Writing, Continuing
  <2> QED BY <2>1, <2>2, <2>3, <2>4, <1>3 DEF AtParent
<1>5. PICK t : t = s
  OBVIOUS
<1>6. RunInv(r, t, config[r]) /\ t.pc # "new"
  BY <1>1, <1>3, <1>4, <1>5, DoneSound DEF Loading
<1> QED BY <1>1, <1>5, <1>6, OwnStep

(* The call hears of its save: it goes on from there, asks, or has lost.            *)
LEMMA SaveReturnsStep ==
  ASSUME IInv, NEW r \in Run, SaveReturns(r)
  PROVE  IInv'
<1> DEFINE cfg == config[r]
           b == run[r].boundary
<1>1. /\ run[r].pc = "saved" /\ Unstored /\ RunInv(r, run[r], cfg)
  BY DEF SaveReturns, At, IInv
<1>2. DOMAIN run[r] = Fields /\ Typed(run[r])
  BY <1>1 DEF RunInv, Typed
<1>3. CASE run[r].answer = "Conflict"
  <2>1. PICK t : t = Ended(run[r], "Conflict")
    OBVIOUS
  <2>2. Become(r, t)
    BY <2>1, <1>3 DEF SaveReturns
  <2>3. cfg.kind # "invoke" => Lost(r, run[r], cfg)
    BY <1>1, <1>3 DEF RunInv, Answered
  <2>4. RunInv(r, t, config[r])
    BY <2>1, <2>3, <1>1, EndedSound
  <2>5. t.pc # "new"
    BY <2>1 DEF Ended, Fresh
  <2> QED BY <2>2, <2>4, <2>5, <1>1, OwnStep
<1>4. CASE run[r].answer \notin {"Ok", "Conflict"}
  <2>1. Fail(r)
    BY <1>4 DEF SaveReturns
  <2> QED BY <2>1, <1>1, FailStep
<1>5. ASSUME run[r].answer = "Ok"
      PROVE  /\ run[r].saved \in DOMAIN by_id /\ InLineage(cfg, run[r].saved)
             /\ by_id[run[r].saved].content = b /\ b \in Boundary
             /\ b.run = r /\ b.log = run[r].log /\ cfg.kind # "replay"
             /\ b.interrupt = NoNode => run[r].resume_node = NoNode
             /\ Wrote(r, run[r].saved)
  BY <1>1, <1>5 DEF RunInv, Answered, Bounded, Wrote
<1>6. CASE run[r].answer = "Ok" /\ b.interrupt # NoNode
  <2> DEFINE s == [run[r] EXCEPT !.pc = "done", !.result = "Interrupted", !.boundary = <<>>]
  <2>1. Become(r, s)
    BY <1>6 DEF SaveReturns, End
  <2>2. /\ DOMAIN s = Fields /\ s.pc = "done" /\ s.result = "Interrupted"
        /\ s.log = run[r].log
        /\ s.superstep = run[r].superstep /\ s.steps = run[r].steps
        /\ s.frontier = run[r].frontier /\ s.resume_node = run[r].resume_node
        /\ s.source = run[r].source /\ s.parent = run[r].parent
    BY <1>2 DEF Fields
  <2> HIDE DEF s
  <2>3. Reported(r, s, cfg)
    BY <1>5, <1>6, <2>2 DEF Reported
  <2>4. PICK t : t = s
    OBVIOUS
  <2>5. RunInv(r, t, config[r]) /\ t.pc # "new"
    BY <1>1, <2>2, <2>3, <2>4, DoneSound DEF Loading
  <2> QED BY <1>1, <2>1, <2>4, <2>5, OwnStep
<1>7. CASE run[r].answer = "Ok" /\ b.interrupt = NoNode
  <2> DEFINE s == [run[r] EXCEPT !.pc = "execute", !.frontier = b.frontier,
                                 !.parent = run[r].saved]
  <2>1. Become(r, s)
    BY <1>7 DEF SaveReturns
  <2>2. /\ DOMAIN s = Fields /\ s.pc = "execute" /\ s.result = run[r].result
        /\ s.log = run[r].log
        /\ s.superstep = run[r].superstep /\ s.steps = run[r].steps
        /\ s.frontier = b.frontier /\ s.resume_node = run[r].resume_node
        /\ s.source = run[r].source /\ s.parent = run[r].saved
    BY <1>2 DEF Fields
  <2> HIDE DEF s
  <2>3. b.frontier \in Frontier
    BY <1>5, <1>7 DEF Boundary
  <2>4. Typed(s) /\ Called(r, s, cfg)
    BY <1>1, <1>2, <1>5, <1>7, <2>2, <2>3 DEF RunInv, Typed, Called
  <2>5. Written(r, s, cfg)
    BY <1>1, <2>2 DEF RunInv, Written, Loading
  <2>6. Carried(s, cfg)
    BY <1>1, <1>5, <1>7, <2>2 DEF RunInv, Carried, Writing
  <2>7. Read(r, s, cfg) /\ Bounded(r, s, cfg) /\ Answered(r, s, cfg)
    BY <2>2 DEF Read, Bounded, Answered, Loading
  <2>8. Reported(r, s, cfg)
    BY <1>1, <2>2 DEF RunInv, Reported
  <2>9. s.parent # NoCheckpoint
    BY <1>5, <1>7, <2>2, NextIdFresh DEF IInv, StoreInv
  <2>10. Continuing(r, s, cfg) /\ AtParent(s) /\ Wrote(r, s.parent) /\ InLineage(cfg, s.parent)
    BY <1>5, <1>7, <2>2, <2>9 DEF Continuing, AtParent
  <2>11. Parented(r, s, cfg)
    BY <2>2, <2>9, <2>10 DEF Parented
  <2>12. PICK t : t = s
    OBVIOUS
  <2>13. RunInv(r, t, config[r]) /\ t.pc # "new"
    BY <2>2, <2>4, <2>5, <2>6, <2>7, <2>8, <2>11, <2>12 DEF RunInv
  <2> QED BY <1>1, <2>1, <2>12, <2>13, OwnStep
<1> QED BY <1>3, <1>4, <1>6, <1>7 DEF SaveReturns

--------------------------------------------------------------------------------
(* Writing: opening a branch, and saving.                                     *)

(* A step of one call that may add a record of its own to the store.            *)
LEMMA WritingStep ==
  ASSUME IInv, NEW r \in Run, NEW s, NEW cfg, cfg = config[r], run[r].pc # "new",
         s.pc # "new", run' = [run EXCEPT ![r] = s], config' = config,
         StoreInv', StoreGrows,
         \A c \in DOMAIN by_id' \ DOMAIN by_id :
           by_id'[c].content.run = r /\ by_id'[c].id = c /\ RecordSound(by_id[c])',
         RunInv(r, s, cfg)'
  PROVE  IInv'
<1>1. /\ \A q \in Run : q # r => run'[q] = run[q] /\ config'[q] = config[q]
      /\ run'[r] = s /\ config'[r] = cfg
      /\ run' = [q \in Run |-> run'[q]] /\ config' = [q \in Run |-> config'[q]]
  BY DEF IInv
<1>2. CallsFixed
  BY <1>1 DEF CallsFixed
<1>3. RecordsSound'
  <2>1. ASSUME NEW c \in DOMAIN by_id' PROVE by_id'[c].id = c /\ RecordSound(by_id[c])'
    <3>1. CASE c \in DOMAIN by_id
      BY <3>1, <1>2, RecordStaysSound DEF IInv
    <3>2. CASE c \notin DOMAIN by_id
      BY <3>2
    <3> QED BY <3>1, <3>2
  <2> QED BY <2>1 DEF RecordsSound
<1>4. ASSUME NEW q \in Run PROVE RunInv(q, run[q], config[q])'
  <2>1. CASE q = r
    BY <2>1, <1>1
  <2>2. CASE q # r
    <3>1. PICK t, g : t = run[q] /\ g = config[q]
      OBVIOUS
    <3>2. RunInv(q, t, g)
      BY <3>1 DEF IInv
    <3>3. \A c \in DOMAIN by_id' \ DOMAIN by_id : by_id'[c].content.run # q
      BY <2>2
    <3>4. StoreTyped /\ StoreTyped'
      BY DEF IInv, StoreInv
    <3>5. RunInv(q, t, g)'
      BY <3>2, <3>3, <3>4, RunInvGrows
    <3> QED BY <3>1, <3>5, <2>2, <1>1
  <2> QED BY <2>1, <2>2
<1> QED BY <1>1, <1>3, <1>4 DEF IInv

(* A fork that has asked for its branch.                                       *)
LEMMA OpenedSound ==
  ASSUME NEW r, NEW s, NEW cfg, NEW t, RunInv(r, s, cfg)', s.pc = "open",
         DOMAIN t = Fields, t.pc = "opened", t.result = s.result,
         t.log = s.log, t.superstep = s.superstep, t.steps = s.steps,
         t.frontier = s.frontier, t.resume_node = s.resume_node, t.parent = s.parent,
         t.source = s.source, t.answer = "Ok" => InLineage(cfg, t.source)'
  PROVE  RunInv(r, t, cfg)'
<1>1. Typed(t)' /\ Called(r, t, cfg)'
  BY DEF RunInv, Typed, Called
<1>2. Written(r, t, cfg)'
  BY DEF RunInv, Written, Loading
<1>3. AtParent(t)' <=> AtParent(s)'
  BY DEF AtParent
<1>4. Read(r, t, cfg)'
  BY <1>3 DEF RunInv, Read, Loading
<1>5. Carried(t, cfg)'
  BY DEF RunInv, Carried, Writing
<1>6. Parented(r, t, cfg)' /\ Bounded(r, t, cfg)' /\ Answered(r, t, cfg)'
  BY DEF Parented, Bounded, Answered, Writing
<1>7. Reported(r, t, cfg)'
  BY DEF RunInv, Reported
<1> QED BY <1>1, <1>2, <1>4, <1>5, <1>6, <1>7 DEF RunInv

(* A fork opens its branch before anything runs: the source is its first record.   *)
LEMMA OpenBranchStep ==
  ASSUME IInv, NEW r \in Run, OpenBranch(r)
  PROVE  IInv'
<1>0. PICK cfg, s, res : cfg = config[r] /\ s = run[r] /\ res = reply'.result
  OBVIOUS
<1> DEFINE u == [s EXCEPT !.pc = "opened", !.answer = res]
<1>1. /\ s.pc = "open" /\ config' = config /\ run' = [run EXCEPT ![r] = u]
      /\ \/ Store!CreateBranchOpen(cfg.thread, cfg.branch, s.source)
         \/ Store!CreateBranchRefused(cfg.thread, cfg.branch, s.source)
         \/ Store!Fail(s.source)
  BY <1>0 DEF OpenBranch, At, Become, Store!CreateBranch
<1>2. RunInv(r, s, cfg) /\ StoreInv /\ RecordsSound
  BY <1>0 DEF IInv
<1>3. /\ DOMAIN s = Fields /\ s.source \in DOMAIN by_id /\ by_id[s.source].id = s.source
      /\ cfg.thread \in ThreadId /\ cfg.branch \in BranchId /\ cfg.branch # NoBranch
  BY <1>1, <1>2 DEF RunInv, Typed, Read, Called, Loading, RecordsSound
<1>4. StoreInv' /\ StoreGrows /\ by_id' = by_id /\ (res = "Ok" => InLineage(cfg, s.source)')
  <2>1. CASE Store!CreateBranchOpen(cfg.thread, cfg.branch, s.source)
    BY <2>1, <1>2, <1>3, BranchOpens
  <2>2. CASE Store!CreateBranchRefused(cfg.thread, cfg.branch, s.source)
    <3>1. UNCHANGED <<histories, by_id, branches>> /\ res # "Ok"
      BY <2>2, <1>0 DEF Store!CreateBranchRefused, Store!contents, Store!Answer
    <3> QED BY <3>1, <1>2, UntouchedStore
  <2>3. CASE Store!Fail(s.source)
    <3>1. UNCHANGED <<histories, by_id, branches>> /\ res # "Ok"
      BY <2>3, <1>0 DEF Store!Fail, Store!contents, Store!Answer
    <3> QED BY <3>1, <1>2, UntouchedStore
  <2> QED BY <1>1, <2>1, <2>2, <2>3
<1>5. /\ DOMAIN u = Fields /\ u.pc = "opened" /\ u.result = s.result
      /\ u.log = s.log /\ u.superstep = s.superstep /\ u.steps = s.steps
      /\ u.frontier = s.frontier /\ u.resume_node = s.resume_node /\ u.parent = s.parent
      /\ u.source = s.source /\ u.answer = res
  BY <1>3 DEF Fields
<1> HIDE DEF u
<1>6. RunInv(r, s, cfg)'
  BY <1>2, <1>4, RunInvGrows DEF StoreInv
<1>7. RunInv(r, u, cfg)'
  BY <1>1, <1>4, <1>5, <1>6, OpenedSound
<1>8. run[r].pc # "new" /\ u.pc # "new"
  BY <1>0, <1>1, <1>5
<1> QED BY <1>0, <1>1, <1>4, <1>7, <1>8, WritingStep

(* The record a save offers to the store.                                      *)
LEMMA OfferedRecord ==
  ASSUME IInv, NEW r \in Run, run[r].pc = "save", NextId \in CheckpointId
  PROVE  /\ RecordOf(r) \in Store!Record
         /\ RecordOf(r).id = NextId /\ RecordOf(r).thread = config[r].thread
         /\ RecordOf(r).parent = run[r].parent /\ RecordOf(r).content = run[r].boundary
         /\ NextId \notin DOMAIN by_id
<1>1. RunInv(r, run[r], config[r])
  BY DEF IInv
<1>2. run[r].boundary \in Boundary /\ config[r].thread \in ThreadId
  BY <1>1 DEF RunInv, Bounded, Called
<1>3. run[r].parent \in CheckpointId \cup {NoCheckpoint}
  <2>1. run[r].parent \in DOMAIN by_id \cup {NoCheckpoint}
    BY <1>1 DEF RunInv, Typed
  <2>2. DOMAIN by_id = 1..(NextId - 1) /\ NextId \in Nat
    BY NextIdFresh DEF IInv, StoreInv
  <2> QED BY <2>1, <2>2, BoundsAssumption DEF CheckpointId
<1> QED BY <1>2, <1>3, NextIdFresh DEF RecordOf, Store!Record, IInv, StoreInv

(* A save either stores its record at the end of the call's lineage, or stores    *)
(* nothing; only a head that has moved is a conflict.                           *)
LEMMA SaveEffect ==
  ASSUME IInv, NEW r \in Run, Save(r), NEW cfg, cfg = config[r],
         NEW rec, rec = RecordOf(r)
  PROVE  \/ Stores(cfg, rec) /\ reply'.result = "Ok"
         \/ /\ UNCHANGED <<histories, by_id, branches>> /\ reply'.result # "Ok"
            /\ reply'.result = "Conflict" => SelectedHead(cfg) # rec.parent
<1>1. /\ run[r].pc = "save" /\ NextId \in CheckpointId
      /\ StoreSave(r, rec) \/ Store!Fail(NextId)
  BY DEF Save, At
<1>2. /\ rec \in Store!Record /\ rec.id = NextId /\ rec.thread = cfg.thread
      /\ rec.id \notin DOMAIN by_id /\ StoreInv
  BY <1>1, OfferedRecord DEF IInv
<1>3. CASE Store!Fail(NextId)
  BY <1>3 DEF Store!Fail, Store!Answer, Store!contents
<1>4. CASE StoreSave(r, rec) /\ cfg.branch = NoBranch
  <2>1. Store!SaveAppend(rec) \/ Store!SaveNoEffect(rec)
    BY <1>4 DEF StoreSave, Store!Save
  <2>2. CASE Store!SaveAppend(rec)
    <3>1. Stores(cfg, rec)
      BY <2>2, <1>2, <1>4, DefaultWrite
    <3>2. reply'.result = "Ok"
      BY <2>2 DEF Store!SaveAppend, Store!Answer
    <3> QED BY <3>1, <3>2
  <2>3. CASE Store!SaveNoEffect(rec)
    <3>1. UNCHANGED <<histories, by_id, branches>> /\ reply'.result = Store!SaveResult(rec)
          /\ Store!SaveResult(rec) # "Ok"
      BY <2>3, <1>2 DEF Store!SaveNoEffect, Store!Answer, Store!contents, Store!Fresh
    <3>2. Store!SaveResult(rec) = "Conflict" => Store!HeadOf(histories[rec.thread]) # rec.parent
      BY <1>2 DEF Store!SaveResult, Store!Fresh
    <3> QED BY <3>1, <3>2, <1>2, <1>4 DEF SelectedHead, Store!Latest
  <2> QED BY <2>1, <2>2, <2>3
<1>5. CASE StoreSave(r, rec) /\ cfg.branch # NoBranch
  <2>1. Store!SaveBranchAppend(cfg.branch, rec) \/ Store!SaveBranchNoEffect(cfg.branch, rec)
    BY <1>5 DEF StoreSave, Store!SaveBranch
  <2>2. CASE Store!SaveBranchAppend(cfg.branch, rec)
    <3>1. Stores(cfg, rec)
      BY <2>2, <1>2, <1>5, BranchWrite
    <3>2. reply'.result = "Ok"
      BY <2>2 DEF Store!SaveBranchAppend, Store!Answer
    <3> QED BY <3>1, <3>2
  <2>3. CASE Store!SaveBranchNoEffect(cfg.branch, rec)
    <3>1. UNCHANGED <<histories, by_id, branches>>
          /\ reply'.result = Store!SaveBranchResult(cfg.branch, rec)
          /\ Store!SaveBranchResult(cfg.branch, rec) # "Ok"
      BY <2>3, <1>2 DEF Store!SaveBranchNoEffect, Store!Answer, Store!contents, Store!Fresh
    <3>2. Store!SaveBranchResult(cfg.branch, rec) = "Conflict" =>
            /\ Store!BranchOf(rec.thread, cfg.branch)
            /\ Store!HeadOf(branches[cfg.branch].history) # rec.parent
      BY <1>2 DEF Store!SaveBranchResult, Store!Fresh
    <3> QED BY <3>1, <3>2, <1>2, <1>5 DEF SelectedHead, Store!BranchHead
  <2> QED BY <2>1, <2>2, <2>3
<1> QED BY <1>1, <1>3, <1>4, <1>5

(* A call whose lineage has moved past its parent has lost to another: what       *)
(* follows the parent is younger than anything the call itself has written.      *)
LEMMA HeadMoved ==
  ASSUME IInv, NEW r \in Run, run[r].pc = "save", config[r].kind # "invoke",
         SelectedHead(config[r]) # run[r].parent
  PROVE  Lost(r, run[r], config[r])
<1>1. PICK cfg, s : cfg = config[r] /\ s = run[r]
  OBVIOUS
<1>2. RunInv(r, s, cfg) /\ StoreInv /\ RecordsSound
  BY <1>1 DEF IInv
<1>3. InLineage(cfg, s.parent)
  BY <1>1, <1>2 DEF RunInv, Parented, Bounded, Continuing, Writing
<1>4. cfg.thread \in ThreadId
  BY <1>1, <1>2 DEF RunInv, Called
<1>5. ASSUME NEW h \in Seq(Store!Record), Chained(h), Store!HeadOf(h) # s.parent,
             NEW i \in 1..Len(h), h[i].id = s.parent
      PROVE  \E j \in 1..Len(h) : /\ h[j].id \in DOMAIN by_id
                                  /\ by_id[h[j].id].parent = s.parent
                                  /\ by_id[h[j].id].content.run # r
  <2>1. h # <<>> /\ Store!HeadOf(h) = h[Len(h)].id /\ Len(h) \in Nat
    BY DEF Store!HeadOf, Store!Last
  <2>2. i + 1 \in 1..Len(h) /\ i + 1 > 1 /\ (i + 1) - 1 = i
    BY <1>5, <2>1
  <2>3. Store!Indexed(h[i + 1]) /\ h[i + 1].parent = s.parent
    BY <1>5, <2>2 DEF Chained
  <2> DEFINE c == h[i + 1].id
  <2>4. c \in DOMAIN by_id /\ by_id[c].parent = s.parent /\ by_id[c].id = c
    BY <2>3 DEF Store!Indexed
  <2>5. s.parent < c
    BY <2>4, <1>2 DEF RecordsSound, RecordSound
  <2>6. c \in Nat /\ s.parent \in Nat
    <3>1. s.parent \in DOMAIN by_id \cup {NoCheckpoint}
      BY <1>2 DEF RunInv, Typed
    <3> QED BY <3>1, <2>4, <1>2, NextIdFresh DEF StoreInv, NoCheckpoint
  <2>7. ~ Wrote(r, c)
    <3>1. Wrote(r, c) => c <= s.parent
      BY <2>4, <1>1, <1>2 DEF RunInv, Written
    <3> QED BY <3>1, <2>5, <2>6
  <2> QED BY <2>2, <2>4, <2>7 DEF Wrote
<1>6. CASE cfg.branch = NoBranch
  <2>1. PICK h : h = histories[cfg.thread]
    OBVIOUS
  <2>2. h \in Seq(Store!Record) /\ Chained(h) /\ Store!HeadOf(h) # s.parent
    BY <2>1, <1>1, <1>2, <1>4, <1>6 DEF StoreInv, StoreTyped, StoreChained, SelectedHead, Store!Latest
  <2>3. PICK i \in 1..Len(h) : h[i].id = s.parent
    BY <2>1, <1>3, <1>6 DEF InLineage
  <2>4. PICK j \in 1..Len(h) : /\ h[j].id \in DOMAIN by_id /\ by_id[h[j].id].parent = s.parent
                               /\ by_id[h[j].id].content.run # r
    BY <2>2, <2>3, <1>5
  <2>5. InLineage(cfg, h[j].id)
    BY <2>1, <1>6 DEF InLineage
  <2> QED BY <2>4, <2>5, <1>1 DEF Lost
<1>7. CASE cfg.branch # NoBranch
  <2>1. PICK h : h = branches[cfg.branch].history
    OBVIOUS
  <2>2. cfg.branch \in DOMAIN branches /\ branches[cfg.branch].thread = cfg.thread
    BY <1>3, <1>7 DEF InLineage
  <2>3. h \in Seq(Store!Record) /\ Chained(h)
    BY <2>1, <2>2, <1>2 DEF StoreInv, StoreTyped, StoreChained, Store!Branch
  <2>4. Store!HeadOf(h) # s.parent
    BY <2>1, <2>2, <1>1, <1>7 DEF SelectedHead, Store!BranchHead, Store!BranchOf
  <2>5. PICK i \in 1..Len(h) : h[i].id = s.parent
    BY <2>1, <1>3, <1>7 DEF InLineage
  <2>6. PICK j \in 1..Len(h) : /\ h[j].id \in DOMAIN by_id /\ by_id[h[j].id].parent = s.parent
                               /\ by_id[h[j].id].content.run # r
    BY <2>3, <2>4, <2>5, <1>5
  <2>7. InLineage(cfg, h[j].id)
    BY <2>1, <2>2, <1>7 DEF InLineage
  <2> QED BY <2>6, <2>7, <1>1 DEF Lost
<1> QED BY <1>6, <1>7

(* The call's state once the store has decided, if nothing was stored.           *)
LEMMA RefusedSound ==
  ASSUME NEW r, NEW s, NEW cfg, NEW t, RunInv(r, s, cfg), IdsDense, s.pc = "save",
         DOMAIN t = Fields, t.pc = "saved", t.result = s.result, t.log = s.log,
         t.superstep = s.superstep, t.steps = s.steps, t.frontier = s.frontier,
         t.resume_node = s.resume_node, t.parent = s.parent, t.source = s.source,
         t.boundary = s.boundary, t.saved = NextId, t.answer # "Ok",
         t.answer = "Conflict" /\ cfg.kind # "invoke" => Lost(r, s, cfg)
  PROVE  RunInv(r, t, cfg)
<1>1. Typed(t) /\ Called(r, t, cfg)
  BY DEF RunInv, Typed, Called
<1>2. Written(r, t, cfg)
  <2>1. \A c \in DOMAIN by_id : c <= NextId
    BY NextIdFresh
  <2> QED BY <2>1 DEF RunInv, Written, Loading
<1>3. Read(r, t, cfg) /\ Carried(t, cfg)
  BY DEF RunInv, Read, Carried, Loading, Writing
<1>4. Continuing(r, t, cfg) <=> Continuing(r, s, cfg)
  BY DEF Continuing
<1>5. Parented(r, t, cfg) /\ Bounded(r, t, cfg)
  BY <1>4 DEF RunInv, Parented, Bounded, Writing
<1>6. Answered(r, t, cfg)
  BY DEF Answered, Lost
<1>7. Reported(r, t, cfg)
  BY DEF RunInv, Reported
<1> QED BY <1>1, <1>2, <1>3, <1>5, <1>6, <1>7 DEF RunInv

(* And if its record was.                                                       *)
LEMMA StoredSound ==
  ASSUME NEW r, NEW s, NEW cfg, NEW t, NEW rec, RunInv(r, s, cfg), StoreInv, s.pc = "save",
         Stores(cfg, rec), rec.id = NextId, rec.parent = s.parent, rec.content = s.boundary,
         DOMAIN t = Fields, t.pc = "saved", t.result = s.result, t.log = s.log,
         t.superstep = s.superstep, t.steps = s.steps, t.frontier = s.frontier,
         t.resume_node = s.resume_node, t.parent = s.parent, t.source = s.source,
         t.boundary = s.boundary, t.saved = rec.id, t.answer = "Ok"
  PROVE  RunInv(r, t, cfg)'
<1>1. /\ DOMAIN by_id' = DOMAIN by_id \cup {rec.id} /\ by_id'[rec.id] = rec
      /\ \A c \in DOMAIN by_id : by_id'[c] = by_id[c]
      /\ InLineage(cfg, rec.id)' /\ StoreGrows /\ StoreTyped /\ StoreTyped'
  BY DEF Stores, StoreGrows, StoreInv
<1>2. /\ \A c \in DOMAIN by_id : c \in Nat /\ c < rec.id /\ c # NoCheckpoint
      /\ rec.id \in Nat \ {0} /\ rec.id \notin DOMAIN by_id
  BY NextIdFresh DEF StoreInv
<1>3. \A c : Wrote(r, c) => Wrote(r, c)'
  BY <1>1 DEF Wrote
<1>4. \A c \in DOMAIN by_id \cup {NoCheckpoint} : Wrote(r, c)' <=> Wrote(r, c)
  BY <1>1, <1>2 DEF Wrote, NoCheckpoint
<1>5. s.parent \in DOMAIN by_id \cup {NoCheckpoint}
  BY DEF RunInv, Typed
<1>6. Typed(t)'
  BY <1>1 DEF RunInv, Typed
<1>7. Called(r, t, cfg)'
  BY <1>1, <1>4 DEF RunInv, Called
<1>8. Written(r, t, cfg)'
  <2> SUFFICES ASSUME NEW c \in DOMAIN by_id', Wrote(r, c)'
               PROVE  /\ c <= t.saved
                      /\ cfg.kind # "invoke" =>
                           by_id'[c].parent = t.source \/ Wrote(r, by_id[c].parent)'
    BY DEF Written, Loading
  <2>1. CASE c = rec.id
    <3>1. cfg.kind # "invoke" => s.parent = s.source \/ Wrote(r, s.parent)
      BY DEF RunInv, Parented, Writing
    <3> QED BY <2>1, <3>1, <1>1, <1>2, <1>4, <1>5
  <2>2. CASE c \in DOMAIN by_id
    <3>1. Wrote(r, c)
      BY <2>2, <1>4
    <3>2. cfg.kind # "invoke" => by_id[c].parent = s.source \/ Wrote(r, by_id[c].parent)
      BY <2>2, <3>1 DEF RunInv, Written
    <3>3. by_id'[c].parent = by_id[c].parent /\ c <= rec.id
      BY <2>2, <1>1, <1>2
    <3>4. cfg.kind # "invoke" => by_id[c].parent = s.source \/ Wrote(r, by_id[c].parent)'
      BY <2>2, <3>2, <3>3, <1>1 DEF Wrote
    <3> QED BY <3>3, <3>4
  <2> QED BY <2>1, <2>2, <1>1
<1>9. Read(r, t, cfg)' /\ Carried(t, cfg)'
  BY DEF RunInv, Read, Carried, Loading, Writing
<1>10. /\ Continuing(r, t, cfg)' <=> Continuing(r, s, cfg)
       /\ Continuing(r, s, cfg) => by_id'[s.parent] = by_id[s.parent]
  BY <1>1, <1>4, <1>5 DEF Continuing
<1>11. Parented(r, t, cfg)'
  <2>1. cfg.thread \in ThreadId
    BY DEF RunInv, Called
  <2>2. \A c : InLineage(cfg, c) => InLineage(cfg, c)'
    BY <2>1, <1>1, LineageGrows
  <2>3. /\ cfg.kind # "invoke" =>
             s.parent # NoCheckpoint /\ (s.parent = s.source \/ Wrote(r, s.parent))
        /\ Continuing(r, s, cfg) /\ cfg.kind # "replay" => InLineage(cfg, s.parent)
    BY DEF RunInv, Parented, Writing
  <2> QED BY <2>2, <2>3, <1>3, <1>10 DEF Parented
<1>12. Bounded(r, t, cfg)'
  BY <1>10 DEF RunInv, Bounded
<1>13. Answered(r, t, cfg)'
  BY <1>1 DEF Answered
<1>14. Reported(r, t, cfg)'
  BY DEF RunInv, Reported
<1> QED BY <1>6, <1>7, <1>8, <1>9, <1>11, <1>12, <1>13, <1>14 DEF RunInv

(* What a new record says of itself and its parent.                             *)
LEMMA NewRecordSound ==
  ASSUME IInv, NEW r \in Run, NEW s, NEW cfg, s = run[r], cfg = config[r], s.pc = "save",
         NEW rec, Stores(cfg, rec), rec.id = NextId, rec.parent = s.parent,
         rec.content = s.boundary, config' = config, run'[r].pc # "new"
  PROVE  RecordSound(rec)'
<1>1. RunInv(r, s, cfg)
  BY DEF IInv
<1>2. /\ s.boundary.run = r
      /\ s.boundary.completed <=> s.boundary.frontier = {}
      /\ s.boundary.superstep = Len(s.boundary.log)
      /\ s.boundary.step = NodesRun(s.boundary.log)
      /\ Continuing(r, s, cfg) => Extends(by_id[s.parent].content, s.boundary)
  BY <1>1 DEF RunInv, Bounded, Carried, Writing
<1>3. s.parent \in DOMAIN by_id \cup {NoCheckpoint}
  BY <1>1 DEF RunInv, Typed
<1>4. rec.parent < rec.id
  BY <1>3, NextIdFresh DEF IInv, StoreInv, NoCheckpoint
<1>5. \A c \in DOMAIN by_id : by_id'[c] = by_id[c]
  BY DEF Stores, StoreGrows
<1>6. Continues(rec)' => Extends(by_id'[rec.parent].content, rec.content)
  <2> SUFFICES ASSUME Continues(rec)' PROVE Extends(by_id'[rec.parent].content, rec.content)
    OBVIOUS
  <2>1. s.parent \in DOMAIN by_id /\ by_id'[s.parent] = by_id[s.parent]
    BY <1>3, <1>5 DEF Continues
  <2>2. Continuing(r, s, cfg)
    BY <2>1, <1>2 DEF Continues, Continuing, Wrote
  <2> QED BY <2>1, <2>2, <1>2
<1> QED BY <1>2, <1>4, <1>6 DEF RecordSound

(* A save: the record enters the store, or it does not, before the call knows.      *)
LEMMA SaveStep ==
  ASSUME IInv, NEW r \in Run, Save(r)
  PROVE  IInv'
<1>0. PICK cfg, s, res, rec : /\ cfg = config[r] /\ s = run[r] /\ res = reply'.result
                              /\ rec = RecordOf(r)
  OBVIOUS
<1>n. PICK id : id = NextId
  OBVIOUS
<1> DEFINE u == [s EXCEPT !.pc = "saved", !.answer = res, !.saved = id]
<1>1. s.pc = "save" /\ NextId \in CheckpointId /\ config' = config /\ run' = [run EXCEPT ![r] = u]
  BY <1>0, <1>n DEF Save, At, Become
<1>2. RunInv(r, s, cfg) /\ StoreInv
  BY <1>0 DEF IInv
<1>3. /\ rec.id = NextId /\ rec.parent = s.parent /\ rec.content = s.boundary
      /\ DOMAIN s = Fields
  BY <1>0, <1>1, <1>2, OfferedRecord DEF RunInv, Typed
<1>4. /\ DOMAIN u = Fields /\ u.pc = "saved" /\ u.result = s.result /\ u.log = s.log
      /\ u.superstep = s.superstep /\ u.steps = s.steps /\ u.frontier = s.frontier
      /\ u.resume_node = s.resume_node /\ u.parent = s.parent /\ u.source = s.source
      /\ u.boundary = s.boundary /\ u.saved = id /\ u.answer = res
  BY <1>3 DEF Fields
<1> HIDE DEF u
<1>5. run[r].pc # "new" /\ u.pc # "new" /\ run'[r] = u
  BY <1>0, <1>1, <1>4 DEF IInv
<1>6. CASE Stores(cfg, rec) /\ res = "Ok"
  <2>1. RunInv(r, u, cfg)'
    BY <1>n, <1>1, <1>2, <1>3, <1>4, <1>6, StoredSound
  <2>2. RecordSound(rec)'
    BY <1>0, <1>1, <1>3, <1>5, <1>6, NewRecordSound
  <2>3. /\ DOMAIN by_id' = DOMAIN by_id \cup {rec.id} /\ by_id'[rec.id] = rec
        /\ StoreInv' /\ StoreGrows
    BY <1>6 DEF Stores
  <2>4. rec.content.run = r
    BY <1>1, <1>2, <1>3 DEF RunInv, Bounded
  <2>5. \A c \in DOMAIN by_id' \ DOMAIN by_id :
          by_id'[c].content.run = r /\ by_id'[c].id = c /\ RecordSound(by_id[c])'
    BY <2>2, <2>3, <2>4
  <2> QED BY <2>1, <2>3, <2>5, <1>0, <1>1, <1>5, WritingStep
<1>7. CASE /\ UNCHANGED <<histories, by_id, branches>> /\ res # "Ok"
           /\ res = "Conflict" => SelectedHead(cfg) # rec.parent
  <2>1. res = "Conflict" /\ cfg.kind # "invoke" => Lost(r, s, cfg)
    BY <1>0, <1>1, <1>3, <1>7, HeadMoved
  <2>2. RunInv(r, u, cfg)
    BY <2>1, <1>n, <1>1, <1>2, <1>4, <1>7, RefusedSound DEF StoreInv
  <2>3. StoreInv' /\ StoreGrows
    BY <1>2, <1>7, UntouchedStore
  <2>4. RunInv(r, u, cfg)'
    BY <2>2, <2>3, <1>2, <1>7, RunInvGrows DEF StoreInv
  <2> QED BY <2>3, <2>4, <1>0, <1>1, <1>5, <1>7, WritingStep
<1> QED BY <1>0, <1>6, <1>7, SaveEffect

--------------------------------------------------------------------------------
(* The invariant is inductive.                                                 *)

(* The process dies: every call in progress ends, and the store keeps everything.  *)
LEMMA CrashStep ==
  ASSUME IInv, Crash
  PROVE  IInv'
<1>1. /\ run' = [r \in Run |-> IF Live(r) THEN Ended(run[r], "Failed") ELSE run[r]]
      /\ config' = config /\ UNCHANGED <<histories, by_id, branches>>
  BY DEF Crash, Unstored, store
<1>2. StoreInv' /\ StoreGrows
  BY <1>1, UntouchedStore DEF IInv
<1>3. ASSUME NEW r \in Run
      PROVE  /\ run[r].pc # "new" => run'[r].pc # "new"
             /\ RunInv(r, run'[r], config[r])
  <2>1. CASE Live(r)
    <3>1. run'[r] = Ended(run[r], "Failed") /\ run[r].pc # "new"
      BY <1>1, <2>1 DEF Live
    <3>2. Ended(run[r], "Failed").pc = "done"
      BY DEF Ended, Fresh
    <3>3. RunInv(r, Ended(run[r], "Failed"), config[r])
      BY <3>1, EndedSound
    <3> QED BY <3>1, <3>2, <3>3
  <2>2. CASE ~ Live(r)
    BY <1>1, <2>2 DEF IInv
  <2> QED BY <2>1, <2>2
<1>4. CallsFixed
  BY <1>1, <1>3 DEF CallsFixed
<1>5. RecordsSound'
  BY <1>1, <1>2, <1>4, RecordStaysSound DEF IInv, RecordsSound
<1>6. ASSUME NEW r \in Run PROVE RunInv(r, run[r], config[r])'
  <2>1. PICK t, g : t = run'[r] /\ g = config[r]
    OBVIOUS
  <2>2. RunInv(r, t, g)
    BY <1>3, <2>1
  <2>3. RunInv(r, t, g)'
    BY <2>2, <1>1, <1>2, RunInvGrows DEF IInv, StoreInv
  <2> QED BY <2>1, <2>3, <1>1
<1>7. run' = [r \in Run |-> run'[r]] /\ config' = [r \in Run |-> config'[r]]
  BY <1>1 DEF IInv
<1> QED BY <1>2, <1>5, <1>6, <1>7 DEF IInv

(* Steps that change nothing.                                                   *)
LEMMA StutterStep ==
  ASSUME IInv, UNCHANGED vars
  PROVE  IInv'
<1>1. UNCHANGED <<histories, by_id, branches>> /\ run' = run /\ config' = config
  BY DEF vars
<1>2. StoreInv' /\ StoreGrows
  BY <1>1, UntouchedStore DEF IInv
<1>3. RecordsSound'
  BY <1>1, <1>2, RecordStaysSound DEF IInv, RecordsSound, CallsFixed
<1>4. ASSUME NEW r \in Run PROVE RunInv(r, run[r], config[r])'
  <2>1. PICK t, g : t = run[r] /\ g = config[r]
    OBVIOUS
  <2>2. RunInv(r, t, g)'
    BY <2>1, <1>1, <1>2, RunInvGrows DEF IInv, StoreInv
  <2> QED BY <2>1, <2>2, <1>1
<1> QED BY <1>1, <1>2, <1>3, <1>4 DEF IInv

(* Nothing is stored and no call has been made.                                   *)
LEMMA InitSound == Init => IInv
<1> SUFFICES ASSUME Init PROVE IInv
  OBVIOUS
<1>1. /\ histories = [t \in ThreadId |-> <<>>] /\ DOMAIN by_id = {} /\ DOMAIN branches = {}
      /\ by_id = [c \in {} |-> NoCheckpoint] /\ branches = [c \in {} |-> NoCheckpoint]
      /\ config = [r \in Run |-> <<>>] /\ run = [r \in Run |-> Fresh]
  BY DEF Init, Store!Init, Store!EmptyMap
<1>2. IdsDense
  <2>1. IsFiniteSet({}) /\ Cardinality({}) = 0
    BY FS_EmptySet
  <2> QED BY <1>1, <2>1 DEF IdsDense
<1>3. StoreTyped /\ StoreChained
  BY <1>1 DEF StoreTyped, StoreChained, Chained
<1>4. RecordsSound
  BY <1>1 DEF RecordsSound
<1>5. ASSUME NEW r \in Run PROVE RunInv(r, run[r], config[r])
  <2>1. run[r] = Fresh /\ \A c : ~ Wrote(r, c)
    BY <1>1 DEF Wrote
  <2>2. /\ DOMAIN Fresh = Fields /\ Fresh.pc = "new" /\ Fresh.result = "none"
        /\ Fresh.log = <<>> /\ Fresh.superstep = 0 /\ Fresh.steps = 0 /\ Fresh.frontier = {}
        /\ Fresh.source = NoCheckpoint /\ Fresh.parent = NoCheckpoint
        /\ Fresh.resume_node = NoNode
    BY DEF Fresh, Fields
  <2> HIDE DEF Fresh
  <2>3. Typed(Fresh)
    BY <2>2 DEF Typed, Frontier
  <2>4. Called(r, Fresh, config[r]) /\ Written(r, Fresh, config[r])
    BY <2>1, <2>2 DEF Called, Written
  <2>5. /\ Read(r, Fresh, config[r]) /\ Carried(Fresh, config[r])
        /\ Parented(r, Fresh, config[r]) /\ Bounded(r, Fresh, config[r])
        /\ Answered(r, Fresh, config[r]) /\ Reported(r, Fresh, config[r])
    BY <2>2 DEF Read, Carried, Parented, Bounded, Answered, Reported, Loading, Writing
  <2> QED BY <2>1, <2>3, <2>4, <2>5 DEF RunInv
<1>6. run = [r \in Run |-> run[r]] /\ config = [r \in Run |-> config[r]]
  BY <1>1
<1> QED BY <1>2, <1>3, <1>4, <1>5, <1>6 DEF IInv, StoreInv

(* Every action keeps the invariant.                                             *)
LEMMA NextSound == IInv /\ [Next]_vars => IInv'
<1> SUFFICES ASSUME IInv, [Next]_vars PROVE IInv'
  OBVIOUS
<1>1. ASSUME NEW r \in Run, Start(r) PROVE IInv'
  BY <1>1, StartFromCheckpointStep, StartInvokeStep DEF Start
<1>2. ASSUME NEW r \in Run, Step(r) PROVE IInv'
  <2>1. CASE Load(r)
    BY <2>1, LoadStep
  <2>2. CASE Pin(r)
    BY <2>2, PinStep
  <2>3. CASE Restore(r)
    BY <2>3, RestoreStep
  <2>4. CASE OpenBranch(r)
    BY <2>4, OpenBranchStep
  <2>5. CASE BranchOpened(r)
    BY <2>5, BranchOpenedStep
  <2>6. CASE BudgetExceeded(r)
    BY <2>6, FailStep DEF BudgetExceeded, Executing, At
  <2>7. CASE \E next \in Frontier : Superstep(r, next)
    BY <2>7, SuperstepStep
  <2>8. CASE \E n \in Node : Interrupt(r, n)
    BY <2>8, InterruptStep
  <2>9. CASE SuperstepFails(r)
    BY <2>9, FailStep DEF SuperstepFails, Executing, At
  <2>10. CASE Complete(r)
    BY <2>10, CompleteStep
  <2>11. CASE Save(r)
    BY <2>11, SaveStep
  <2>12. CASE SaveReturns(r)
    BY <2>12, SaveReturnsStep
  <2> QED BY <1>2, <2>1, <2>2, <2>3, <2>4, <2>5, <2>6, <2>7, <2>8, <2>9, <2>10, <2>11, <2>12
          DEF Step
<1>3. ASSUME NEW r \in Run, Stop(r) PROVE IInv'
  BY <1>3, FailStep DEF Stop, Live
<1>4. ASSUME NEW r \in Run, LoadFails(r) PROVE IInv'
  BY <1>4, FailStep DEF LoadFails, At
<1>5. CASE Crash
  BY <1>5, CrashStep
<1>6. CASE UNCHANGED vars
  BY <1>6, StutterStep
<1> QED BY <1>1, <1>2, <1>3, <1>4, <1>5, <1>6 DEF Next, Quiet

--------------------------------------------------------------------------------
(* The theorems.                                                              *)

(* Every reachable state of concurrent invoke, resume, replay and fork calls     *)
(* satisfies the invariant: what is stored, and what each call knows of it.      *)
THEOREM Invariance == Spec => []IInv
<1>1. Init => IInv
  BY InitSound
<1>2. IInv /\ [Next]_vars => IInv'
  BY NextSound
<1> QED BY <1>1, <1>2, PTL DEF Spec

(* Whatever calls crash, are cancelled or race, along a lineage no superstep is   *)
(* lost or repeated, and the counters execute_internal saves are cumulative:      *)
(* superstep counts the supersteps of the snapshot and step the nodes they ran.   *)
THEOREM LineageContinuityHolds == Spec => []LineageContinuity
<1>1. IInv => LineageContinuity
  <2> SUFFICES ASSUME IInv, NEW c \in DOMAIN by_id
               PROVE  LET rec == by_id[c] IN
                      /\ Continues(rec) => Extends(by_id[rec.parent].content, rec.content)
                      /\ rec.content.superstep = Len(rec.content.log)
                      /\ rec.content.step = NodesRun(rec.content.log)
    BY DEF LineageContinuity, Stored
  <2> QED BY DEF IInv, RecordsSound, RecordSound
<1> QED BY <1>1, Invariance, PTL

(* A checkpoint that is in a lineage is one of its records.                      *)
LEMMA LineageHolds ==
  ASSUME IInv, NEW r \in Run, run[r].pc # "new", NEW c \in DOMAIN by_id,
         InLineage(config[r], c)
  PROVE  InLineageOf(r, by_id[c])
<1>1. config[r].thread \in ThreadId
  BY DEF IInv, RunInv, Called
<1>2. ASSUME NEW h, Chained(h), h \in Seq(Store!Record), NEW i \in 1..Len(h), h[i].id = c
      PROVE  by_id[c] \in ToSet(h)
  <2>1. h[i] = by_id[c]
    BY <1>2 DEF Chained, Store!Indexed
  <2>2. i \in DOMAIN h
    BY <1>2
  <2> QED BY <2>1, <2>2 DEF ToSet
<1>3. CASE config[r].branch = NoBranch
  <2>1. PICK h : h = histories[config[r].thread]
    OBVIOUS
  <2>2. h \in Seq(Store!Record) /\ Chained(h)
    BY <2>1, <1>1 DEF IInv, StoreInv, StoreTyped, StoreChained
  <2>3. PICK i \in 1..Len(h) : h[i].id = c
    BY <2>1, <1>3 DEF InLineage
  <2>4. by_id[c] \in ToSet(h)
    BY <1>2, <2>2, <2>3
  <2> QED BY <2>1, <2>4, <1>3 DEF InLineageOf
<1>4. CASE config[r].branch # NoBranch
  <2>0. config[r].branch \in DOMAIN branches
    BY <1>4 DEF InLineage
  <2>1. PICK h : h = branches[config[r].branch].history
    OBVIOUS
  <2>2. h \in Seq(Store!Record) /\ Chained(h)
    BY <2>0, <2>1 DEF IInv, StoreInv, StoreTyped, StoreChained, Store!Branch
  <2>3. PICK i \in 1..Len(h) : h[i].id = c
    BY <2>1, <1>4 DEF InLineage
  <2>4. by_id[c] \in ToSet(h)
    BY <1>2, <2>2, <2>3
  <2> QED BY <2>0, <2>1, <2>4, <1>4 DEF InLineageOf
<1> QED BY <1>3, <1>4

(* A result is reported only by a call that was made.                            *)
LEMMA ReportsWereCalled ==
  ASSUME IInv, NEW r \in Run, run[r].result # "none"
  PROVE  run[r].pc # "new"
BY DEF IInv, RunInv, Reported

(* With no lock between its load and its saves, a resume, replay or fork writes    *)
(* only on top of what it restored or of its own last write, and is told of a     *)
(* conflict only if another call has continued that checkpoint in its lineage.    *)
THEOREM WritesContinueWhatWasReadHolds == Spec => []WritesContinueWhatWasRead
<1>1. IInv => WritesContinueWhatWasRead
  <2> SUFFICES ASSUME IInv PROVE WritesContinueWhatWasRead
    OBVIOUS
  <2>1. ASSUME NEW c \in DOMAIN by_id, config[by_id[c].content.run].kind # "invoke"
        PROVE  LET rec == by_id[c]
                   r == rec.content.run
               IN  rec.parent = run[r].source \/ by_id[rec.parent].content.run = r
    <3>1. by_id[c] \in Store!Record
      BY DEF IInv, StoreInv, StoreTyped
    <3>2. by_id[c].content.run \in Run
      BY <3>1 DEF Store!Record, Boundary
    <3>3. PICK r \in Run : r = by_id[c].content.run
      BY <3>2
    <3>4. Written(r, run[r], config[r]) /\ Wrote(r, c)
      BY <3>3 DEF IInv, RunInv, Wrote
    <3> QED BY <2>1, <3>3, <3>4 DEF Written, Wrote
  <2>2. ASSUME NEW r \in Run, run[r].result = "Conflict", config[r].kind # "invoke"
        PROVE  \E rec \in Stored :
                 /\ rec.parent = run[r].parent /\ rec.content.run # r
                 /\ InLineageOf(r, rec)
    <3>1. Lost(r, run[r], config[r])
      BY <2>2 DEF IInv, RunInv, Reported
    <3>2. PICK c \in DOMAIN by_id : /\ by_id[c].parent = run[r].parent
                                    /\ by_id[c].content.run # r /\ InLineage(config[r], c)
      BY <3>1 DEF Lost
    <3>3. InLineageOf(r, by_id[c])
      BY <3>2, <2>2, LineageHolds, ReportsWereCalled
    <3> QED BY <3>2, <3>3 DEF Stored
  <2> QED BY <2>1, <2>2 DEF WritesContinueWhatWasRead, Stored
<1> QED BY <1>1, Invariance, PTL

(* What a call reports is durable: the final state of a completed call is in a     *)
(* completed checkpoint of its lineage, and an interrupted call's state in its    *)
(* own interrupt checkpoint.                                                     *)
THEOREM ReportedOutcomeIsDurableHolds == Spec => []ReportedOutcomeIsDurable
<1>1. IInv => ReportedOutcomeIsDurable
  <2> SUFFICES ASSUME IInv, NEW r \in Run
      PROVE  /\ run[r].result = "Completed" /\ config[r].kind # "replay" =>
                  \E rec \in Stored :
                    /\ rec.content.completed /\ rec.content.log = run[r].log
                    /\ rec.content.run = r \/ rec.id = run[r].source
                    /\ InLineageOf(r, rec)
             /\ run[r].result = "Interrupted" =>
                  \E rec \in Stored :
                    /\ rec.content.interrupt # NoNode /\ rec.content.log = run[r].log
                    /\ rec.content.run = r /\ InLineageOf(r, rec)
    BY DEF ReportedOutcomeIsDurable
  <2>1. Reported(r, run[r], config[r]) /\ \A c \in DOMAIN by_id : by_id[c].id = c
    BY DEF IInv, RunInv, RecordsSound
  <2>2. \A c \in DOMAIN by_id : by_id[c] \in Stored
    BY DEF Stored
  <2>3. ASSUME run[r].result = "Completed", config[r].kind # "replay"
        PROVE  \E rec \in Stored :
                    /\ rec.content.completed /\ rec.content.log = run[r].log
                    /\ rec.content.run = r \/ rec.id = run[r].source
                    /\ InLineageOf(r, rec)
    <3>1. PICK c \in DOMAIN by_id :
            /\ by_id[c].content.completed /\ by_id[c].content.log = run[r].log
            /\ Wrote(r, c) \/ c = run[r].source
            /\ InLineage(config[r], c)
      BY <2>1, <2>3 DEF Reported
    <3>2. InLineageOf(r, by_id[c])
      BY <3>1, <2>3, LineageHolds, ReportsWereCalled
    <3> QED BY <3>1, <3>2, <2>1, <2>2 DEF Wrote
  <2>4. ASSUME run[r].result = "Interrupted"
        PROVE  \E rec \in Stored :
                    /\ rec.content.interrupt # NoNode /\ rec.content.log = run[r].log
                    /\ rec.content.run = r /\ InLineageOf(r, rec)
    <3>1. PICK c \in DOMAIN by_id :
            /\ by_id[c].content.interrupt # NoNode /\ by_id[c].content.log = run[r].log
            /\ Wrote(r, c) /\ InLineage(config[r], c)
      BY <2>1, <2>4 DEF Reported
    <3>2. InLineageOf(r, by_id[c])
      BY <3>1, <2>4, LineageHolds, ReportsWereCalled
    <3> QED BY <3>1, <3>2, <2>2 DEF Wrote
  <2> QED BY <2>3, <2>4
<1> QED BY <1>1, Invariance, PTL

(* The value given to a resume waits only for the node that asked for it, and     *)
(* only until the call commits something.                                       *)
THEOREM ResumeValueReachesItsNodeHolds == Spec => []ResumeValueReachesItsNode
<1>1. IInv => ResumeValueReachesItsNode
  BY DEF IInv, RunInv, Carried, ResumeValueReachesItsNode, At
<1> QED BY <1>1, Invariance, PTL

(* What a save changes, and who makes it.                                        *)
LEMMA SaveOwnsLineage ==
  ASSUME IInv, NEW r \in Run, Save(r)
  PROVE  OwnLineageStep
<1> DEFINE cfg == config[r]
           rec == RecordOf(r)
<1>1. /\ run[r].pc = "save" /\ NextId \in CheckpointId
      /\ StoreSave(r, rec) \/ Store!Fail(NextId)
      /\ run' = [run EXCEPT ![r] = [run[r] EXCEPT !.pc = "saved", !.answer = reply'.result,
                                                  !.saved = NextId]]
  BY DEF Save, At, Become
<1>2. RunInv(r, run[r], cfg) /\ rec.thread = cfg.thread
  BY <1>1, OfferedRecord DEF IInv
<1>3. /\ cfg.kind \in {"invoke", "resume", "fork"} /\ (cfg.kind = "fork" => cfg.branch # NoBranch)
      /\ "pc" \in DOMAIN run[r]
  BY <1>1, <1>2 DEF RunInv, Called, Bounded, Typed, Fields
<1>4. run'[r] # run[r]
  <2>1. run'[r].pc = "saved"
    BY <1>1, <1>3 DEF IInv
  <2> QED BY <2>1, <1>1
<1> HIDE DEF rec
<1>5. CASE histories' = histories /\ branches' = branches
  BY <1>5 DEF OwnLineageStep
<1>6. CASE Store!SaveAppend(rec) /\ cfg.branch = NoBranch
  <2>1. histories' = [histories EXCEPT ![cfg.thread] = Append(@, rec)] /\ branches' = branches
    BY <1>2, <1>6 DEF Store!SaveAppend
  <2>2. \A t \in ThreadId : histories'[t] # histories[t] => t = cfg.thread
    BY <2>1 DEF IInv, StoreInv, StoreTyped
  <2> QED BY <2>1, <2>2, <1>3, <1>4, <1>6 DEF OwnLineageStep
<1>7. CASE Store!SaveBranchAppend(cfg.branch, rec)
  <2>1. /\ histories' = histories /\ cfg.branch \in DOMAIN branches
        /\ branches[cfg.branch].thread = cfg.thread
        /\ branches' = [branches EXCEPT ![cfg.branch].history = Append(@, rec)]
    BY <1>2, <1>7 DEF Store!SaveBranchAppend, Store!SaveBranchResult, Store!BranchOf
  <2>2. branches[cfg.branch] \in Store!Branch
    BY <2>1 DEF IInv, StoreInv, StoreTyped
  <2>3. DOMAIN branches' = DOMAIN branches /\ branches'[cfg.branch].thread = cfg.thread
    BY <2>1, <2>2 DEF Store!Branch
  <2>4. \A b \in DOMAIN branches : b # cfg.branch => branches'[b] = branches[b]
    BY <2>1
  <2>5. \A b \in DOMAIN branches' :
          ~ (b \in DOMAIN branches /\ branches'[b] = branches[b]) => b = cfg.branch
    BY <2>3, <2>4
  <2> QED BY <2>1, <2>3, <2>5, <1>3, <1>4 DEF OwnLineageStep
<1> QED BY <1>1, <1>5, <1>6, <1>7
        DEF StoreSave, Store!Save, Store!SaveNoEffect, Store!SaveBranch,
            Store!SaveBranchNoEffect, Store!Fail, Store!contents

(* What opening a branch changes, and who opens it.                              *)
LEMMA OpenOwnsLineage ==
  ASSUME IInv, NEW r \in Run, OpenBranch(r)
  PROVE  OwnLineageStep
<1> DEFINE cfg == config[r]
           new == [thread |-> cfg.thread, history |-> <<by_id[run[r].source]>>]
<1>1. /\ run[r].pc = "open"
      /\ \/ Store!CreateBranch(cfg.thread, cfg.branch, run[r].source)
         \/ Store!Fail(run[r].source)
      /\ run' = [run EXCEPT ![r] = [run[r] EXCEPT !.pc = "opened", !.answer = reply'.result]]
  BY DEF OpenBranch, At, Become
<1>2. cfg.kind = "fork" /\ "pc" \in DOMAIN run[r]
  BY <1>1 DEF IInv, RunInv, Read, Typed, Fields
<1>3. run'[r] # run[r]
  <2>1. run'[r].pc = "opened"
    BY <1>1, <1>2 DEF IInv
  <2> QED BY <2>1, <1>1
<1>4. CASE histories' = histories /\ branches' = branches
  BY <1>4 DEF OwnLineageStep
<1>5. CASE Store!CreateBranchOpen(cfg.thread, cfg.branch, run[r].source)
  <2>1. histories' = histories /\ branches' = Store!Put(branches, cfg.branch, new)
    BY <1>5 DEF Store!CreateBranchOpen
  <2>2. new.thread = cfg.thread
    OBVIOUS
  <2> HIDE DEF new
  <2>3. /\ branches'[cfg.branch].thread = cfg.thread
        /\ \A b \in DOMAIN branches' :
             ~ (b \in DOMAIN branches /\ branches'[b] = branches[b]) => b = cfg.branch
    BY <2>1, <2>2 DEF Store!Put
  <2> QED BY <2>1, <2>3, <1>2, <1>3 DEF OwnLineageStep
<1> QED BY <1>1, <1>4, <1>5
        DEF Store!CreateBranch, Store!CreateBranchRefused, Store!Fail, Store!contents

(* No step of any call changes a lineage other than the one its call was given:    *)
(* the default lineage of a thread is written by an invoke or a resume on that     *)
(* thread that names no branch, a branch by a call that names it, and a replay    *)
(* writes nothing.                                                              *)
THEOREM OwnLineageOnlyHolds == Spec => OwnLineageOnly
<1>1. ASSUME IInv, [Next]_vars PROVE [OwnLineageStep]_vars
  <2>1. ASSUME UNCHANGED <<histories, branches>> PROVE OwnLineageStep
    BY <2>1 DEF OwnLineageStep
  <2>2. ASSUME NEW r \in Run, Start(r) PROVE OwnLineageStep
    BY <2>1, <2>2 DEF Start, StartFromCheckpoint, StartInvoke, store
  <2>3. ASSUME NEW r \in Run, Step(r) PROVE OwnLineageStep
    <3>1. CASE Save(r)
      BY <3>1, <1>1, SaveOwnsLineage
    <3>2. CASE OpenBranch(r)
      BY <3>2, <1>1, OpenOwnsLineage
    <3>3. CASE ~ Save(r) /\ ~ OpenBranch(r)
      BY <2>1, <2>3, <3>3 DEF Step, Load, Pin, Restore, BranchOpened, BudgetExceeded, Superstep,
                   Interrupt, SuperstepFails, Complete, SaveReturns, Unstored, store
    <3> QED BY <3>1, <3>2, <3>3
  <2>4. ASSUME NEW r \in Run, Stop(r) \/ LoadFails(r) PROVE OwnLineageStep
    BY <2>1, <2>4 DEF Stop, LoadFails, Unstored, store
  <2>5. CASE Crash
    BY <2>1, <2>5 DEF Crash, Unstored, store
  <2>6. CASE UNCHANGED vars
    BY <2>6
  <2> QED BY <1>1, <2>2, <2>3, <2>4, <2>5, <2>6 DEF Next, Quiet
<1> QED BY <1>1, Invariance, PTL DEF Spec, OwnLineageOnly
================================================================================
