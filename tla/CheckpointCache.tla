--------------------------- MODULE CheckpointCache ---------------------------
(***************************************************************************)
(* RecordCheckpointer (crates/group-agent-core/src/checkpoint.rs): typed   *)
(* checkpoints over a record store, with a cache of decoded checkpoints    *)
(* that holds them weakly. Tasks load and save through one adapter; the    *)
(* store call, the lookup, the decoding and the insertion of one load are  *)
(* separate steps, so two loads of one checkpoint may overlap, and the     *)
(* last handle of a checkpoint may be dropped in between.                  *)
(*                                                                         *)
(* An object is one Arc<Checkpoint>. It is alive while a task holds it, as *)
(* a returned handle, in a list it is collecting, or just decoded. The     *)
(* store is the append-only log of CheckpointStore; Lies lets it break its *)
(* contract and return another content for a record it has served.         *)
(***************************************************************************)
EXTENDS Naturals, Sequences, FiniteSets, Functions

CONSTANTS Tasks,        \* callers that share the adapter
          Ids,          \* checkpoint identifiers
          Copies,       \* tells apart the objects made of one checkpoint
          CleanupFloor, \* 64 in the code
          Lies,         \* whether a store call may return other content
          None

ASSUME CacheAssumption ==
    /\ CleanupFloor \in Nat \ {0} /\ None \notin Ids \X Copies
    /\ Lies \subseteq BOOLEAN

Schemas == {"current", "foreign"}
Contents == {"saved", "other"}

\* A record, reduced to what the adapter compares and validates.
CheckpointRecord == [id : Ids, schema : Schemas, content : Contents]

\* The identities of Arc<Checkpoint>: <<id, copy>>.
Objects == Ids \X Copies

VARIABLES log,       \* the records of the thread, oldest first
          entries,   \* decoded.entries: id -> [record, weak]
          until,     \* decoded.insertions_until_cleanup
          survived,  \* entries that survived the last cleanup (history)
          pc,        \* what each task is doing
          todo,      \* records it has still to decode
          got,       \* objects it has collected for this call
          fresh,     \* the object it has decoded and not yet cached, or None
          handles,   \* objects it was given and has not dropped
          lied,      \* ids a load was given other content for (history)
          conflicts  \* ids a task was told conflict (history)

call == <<pc, todo, got, fresh>>
caching == <<log, entries, until, survived, call, handles, lied, conflicts>>

CacheInit ==
    /\ log = <<>> /\ entries = <<>> /\ until = CleanupFloor /\ survived = 0
    /\ pc = [t \in Tasks |-> "idle"] /\ todo = [t \in Tasks |-> <<>>]
    /\ got = [t \in Tasks |-> {}] /\ fresh = [t \in Tasks |-> None]
    /\ handles = [t \in Tasks |-> {}]
    /\ lied = {} /\ conflicts = {}

-----------------------------------------------------------------------------
(* Reference counts.                                                       *)

\* strong_count() > 0.
Strong(o) == \E t \in Tasks : o \in handles[t] \cup got[t] \cup {fresh[t]}

\* An allocation that neither an Arc nor a Weak refers to.
Free(o) == ~Strong(o) /\ \A id \in DOMAIN entries : entries[id].weak # o

\* What Arc::new may return for a checkpoint: Copies bounds the live ones.
Allocatable(id) == {o \in Objects : o[1] = id /\ Free(o)}

-----------------------------------------------------------------------------
(* Store calls. They run before the cache is looked at, outside its lock.  *)

Logged == {log[i].id : i \in DOMAIN log}

Lie(record) == [record EXCEPT !.content = "other"]

Serve(t, records, step) ==
    /\ pc' = [pc EXCEPT ![t] = step]
    /\ todo' = [todo EXCEPT ![t] = records]
    /\ lied' = lied \cup {r.id : r \in {x \in Range(records) : x.content = "other"}}
    /\ UNCHANGED <<entries, until, survived, got, fresh, handles, conflicts>>

\* The store answers a save with a record other than the one it was sent, which
\* fails the save before the cache is looked at.
AnsweredOther ==
    TRUE \in Lies /\ UNCHANGED <<entries, until, survived, call, handles, lied, conflicts>>

\* save and save_branch: the record is encoded and appended, or it is there
\* already (a retry). A request that cannot be encoded, and one the store
\* refuses, changes nothing.
Save(t) ==
    /\ pc[t] = "idle"
    /\ \E id \in Ids :
         LET record == [id |-> id, schema |-> "current", content |-> "saved"]
         IN  /\ \/ id \notin Logged /\ log' = Append(log, record)
                \/ record \in Range(log) /\ UNCHANGED log
             /\ Serve(t, <<record>>, "saving") \/ AnsweredOther

\* Another process, or a save whose caller has dropped its future, appends; its
\* codec may write another schema.
OtherWriter ==
    /\ \E id \in Ids \ Logged, schema \in Schemas :
         log' = Append(log, [id |-> id, schema |-> schema, content |-> "saved"])
    /\ UNCHANGED <<entries, until, survived, call, handles, lied, conflicts>>

\* latest, get and branch_head: one record. history and branch_history: all.
Load(t) ==
    /\ pc[t] = "idle" /\ log # <<>>
    /\ \E lie \in Lies :
         LET shown == [i \in DOMAIN log |-> IF lie THEN Lie(log[i]) ELSE log[i]]
         IN  \/ \E i \in DOMAIN log : Serve(t, <<shown[i]>>, "loading")
             \/ Serve(t, shown, "loading")
    /\ UNCHANGED log

-----------------------------------------------------------------------------
(* Decoding one record: cached(), from_record(), cache().                  *)

\* The call ends with an error: what it has collected is dropped.
Fail(t) ==
    /\ pc' = [pc EXCEPT ![t] = "idle"] /\ todo' = [todo EXCEPT ![t] = <<>>]
    /\ got' = [got EXCEPT ![t] = {}] /\ fresh' = [fresh EXCEPT ![t] = None]
    /\ UNCHANGED handles

\* One record is done: the next one, or the call returns its checkpoints.
Collect(t, o) ==
    /\ todo' = [todo EXCEPT ![t] = Tail(@)] /\ fresh' = [fresh EXCEPT ![t] = None]
    /\ IF Len(todo[t]) = 1
       THEN /\ pc' = [pc EXCEPT ![t] = "idle"]
            /\ got' = [got EXCEPT ![t] = {}]
            /\ handles' = [handles EXCEPT ![t] = @ \cup got[t] \cup {o}]
       ELSE /\ pc' = [pc EXCEPT ![t] = "loading"]
            /\ got' = [got EXCEPT ![t] = @ \cup {o}]
            /\ UNCHANGED handles

\* The store has returned content different from the cached record's.
Conflicts(entry, record) == entry.record # record

\* cached(): an entry with other content is a conflict even if its checkpoint
\* has expired; an expired entry with the same content is a miss.
Cached(t) ==
    /\ pc[t] \in {"saving", "loading"}
    /\ LET record == Head(todo[t])
       IN  IF record.id \notin DOMAIN entries
           THEN pc' = [pc EXCEPT ![t] = "missed"] /\ UNCHANGED <<todo, got, fresh, handles, conflicts>>
           ELSE LET entry == entries[record.id]
                IN  IF Conflicts(entry, record)
                    THEN Fail(t) /\ conflicts' = conflicts \cup {record.id}
                    ELSE /\ UNCHANGED conflicts
                         /\ IF Strong(entry.weak) THEN Collect(t, entry.weak)
                            ELSE pc' = [pc EXCEPT ![t] = "missed"]
                                 /\ UNCHANGED <<todo, got, fresh, handles>>
    /\ UNCHANGED <<log, entries, until, survived, lied>>

\* Checkpoint::from_record, or into_checkpoint for a record just saved: a new
\* Arc, unless the record is of a schema, encoding or format the codec does
\* not read.
Decode(t) ==
    /\ pc[t] = "missed"
    /\ LET record == Head(todo[t])
       IN  \/ /\ record.schema # "current"
              /\ Fail(t)
           \/ /\ record.schema = "current" /\ Allocatable(record.id) # {}
              /\ fresh' = [fresh EXCEPT ![t] = CHOOSE o \in Allocatable(record.id) : TRUE]
              /\ pc' = [pc EXCEPT ![t] = "decoded"]
              /\ UNCHANGED <<todo, got, handles>>
    /\ UNCHANGED <<log, entries, until, survived, lied, conflicts>>

Survivors == {id \in DOMAIN entries : Strong(entries[id].weak)}

\* max(n, 64).
AtLeastFloor(n) == IF n < CleanupFloor THEN CleanupFloor ELSE n

\* Mutant: the budget is the number of survivors, which may be none.
BudgetWithoutFloor(n) == n

\* The insertions until the next scan.
Budget(n) == AtLeastFloor(n)

\* remove_expired(): every so many insertions the expired entries go. The
\* entries that stay:
Kept == IF until - 1 > 0 THEN DOMAIN entries ELSE Survivors

RemoveExpired ==
    IF until - 1 > 0
    THEN until' = until - 1 /\ UNCHANGED survived
    ELSE until' = Budget(Cardinality(Survivors)) /\ survived' = Cardinality(Survivors)

Insert(kept, record, o) ==
    entries' = [id \in kept \cup {record.id} |->
                   IF id = record.id THEN [record |-> record, weak |-> o] ELSE entries[id]]

\* Mutant: an entry that is there is replaced, alive or not.
ReusableNever(kept, record) == FALSE

\* The entry has the record and its checkpoint is alive.
Reusable(kept, record) == record.id \in kept /\ Strong(entries[record.id].weak)

\* cache(): vacant or expired, the new checkpoint goes in; a checkpoint another
\* task has put there in the meantime wins; other content is a conflict.
Cache(t) ==
    /\ pc[t] = "decoded"
    /\ RemoveExpired
    /\ LET record == Head(todo[t])
       IN  \/ /\ record.id \in Kept /\ Conflicts(entries[record.id], record)
              /\ entries' = [id \in Kept |-> entries[id]]
              /\ Fail(t) /\ conflicts' = conflicts \cup {record.id}
           \/ /\ record.id \in Kept => ~Conflicts(entries[record.id], record)
              /\ IF Reusable(Kept, record)
                 THEN /\ entries' = [id \in Kept |-> entries[id]]
                      /\ Collect(t, entries[record.id].weak)
                 ELSE Insert(Kept, record, fresh[t]) /\ Collect(t, fresh[t])
              /\ UNCHANGED conflicts
    /\ UNCHANGED <<log, lied>>

\* A caller drops a handle.
Drop(t) ==
    /\ \E o \in handles[t] : handles' = [handles EXCEPT ![t] = @ \ {o}]
    /\ UNCHANGED <<log, entries, until, survived, call, lied, conflicts>>

CacheNext ==
    \/ OtherWriter
    \/ \E t \in Tasks : Save(t) \/ Load(t) \/ Cached(t) \/ Decode(t) \/ Cache(t) \/ Drop(t)

CacheSpec == CacheInit /\ [][CacheNext]_caching

-----------------------------------------------------------------------------
Entry == [record : CheckpointRecord, weak : Objects]

TypeOK ==
    /\ log \in Seq(CheckpointRecord)
    /\ DOMAIN entries \subseteq Ids /\ \A id \in DOMAIN entries : entries[id] \in Entry
    /\ until \in Nat /\ survived \in Nat
    /\ pc \in [Tasks -> {"idle", "saving", "loading", "missed", "decoded"}]
    /\ todo \in [Tasks -> Seq(CheckpointRecord)] /\ \A t \in Tasks : pc[t] # "idle" => todo[t] # <<>>
    /\ fresh \in [Tasks -> Objects \cup {None}]
    /\ \A t \in Tasks : pc[t] = "decoded" => fresh[t] # None
    /\ got \in [Tasks -> SUBSET Objects] /\ handles \in [Tasks -> SUBSET Objects]

(* Callers share checkpoints: two handles of one checkpoint are one        *)
(* object, whichever calls returned them, whatever loads overlapped and    *)
(* expired in between, and even if the store has served another content    *)
(* for it (the doc of RecordCheckpointer).                                 *)
HandlesShared ==
    \A t, u \in Tasks : \A o \in handles[t] \cup got[t], p \in handles[u] \cup got[u] :
        o[1] = p[1] => o = p

(* A conflict is never reported of a checkpoint the store has served       *)
(* faithfully: not for a retried save, nor for a load that races it, nor   *)
(* after the cache has forgotten and reloaded the checkpoint.              *)
ConflictIsReal ==
    conflicts \subseteq lied

(* The cache is never seen: callers share what they would have shared, and   *)
(* are refused only what the store got wrong.                              *)
CacheIsFaithful == HandlesShared /\ ConflictIsReal

(* The cache does not leak: expired entries never number more than one     *)
(* scan budget, so the cache holds at most the survivors of the last       *)
(* cleanup and max(64, survivors) more; and the countdown, decremented     *)
(* before it is compared, never passes below zero.                         *)
GarbageBounded ==
    /\ until >= 1
    /\ Cardinality(DOMAIN entries) + until <= survived + AtLeastFloor(survived) + 1
=============================================================================
