# A TLA+ verification of Group

Group is a Rust workspace for building agents as typed graphs. Its core compiles
graphs, runs them in supersteps and, when asked to, records a checkpoint at every
boundary, so that a run can be resumed, replayed or forked later, by another
process if need be. Around the core are stores, a tool runtime, model adapters,
an MCP client and prebuilt agents. This directory models these parts, checks them
with TLC on small instances and proves results about the two checkpoint stores,
the checkpoint cache, durable calls, the graph runtime, the tool runtime, the
prebuilt agents and the MCP session with TLAPS for every instance.

Paths are relative to the repository; `runtime.rs` without a path is
`crates/group-agent-core/src/runtime.rs`.

## 1. The system

### Components

| Component | State it keeps | Operations | Hard behaviours |
|---|---|---|---|
| Checkpoint store contract and `InMemoryCheckpointStore` (`group-agent-core/src/checkpoint_store.rs`) | per thread a history, an index by identifier, the branch of each record, the branches | `save`, `save_branch`, `create_branch`, `latest`, `get`, `history`, `branch_head`, `branch_history` | writers race on one head; a write is repeated after its answer was lost; branches share a source record |
| SQLite store (`group-agent-checkpoint-sqlite`) | four tables, a write lock | the same, as transactions of several statements | crash, fault or dropped future between two statements; lock timeouts; triggers that constrain statement order |
| `RecordCheckpointer` (`checkpoint.rs`) | a weak cache of decoded checkpoints, a cleanup countdown | save and load through a codec | overlapping loads of one checkpoint; entries that expire meanwhile; a store that contradicts itself |
| Durable calls (`runtime.rs`: `invoke`, `resume`, `replay`, `fork`) | per call: state, frontier, counters, parent checkpoint | load, pin, restore, open a branch, execute, save | no lock between load and save; a save whose future was dropped may still be durable; crash and restart |
| Graph runtime (`runtime.rs`: `execute_internal`, `execute_node`, `ActiveControl`) | frontier, pending node futures, state, counters, deadlines | start nodes, collect results, apply, route, save, stop | nodes of a frontier return in any order; cancellation and deadlines arrive at any point; a node may never return |
| Graph builder, compiler and subgraphs (`graph.rs`, `edge.rs`, `transition.rs`, `path.rs`) | a draft; a flat table of nodes, entries and exits | builder calls, `compile`, `normalize_frontier` | mounts next to other items; nested and empty subgraphs; saved frontiers resolved by a later run |
| Tool runtime (`group-agent-tool`) | running calls of a batch, results by position | execute one call or a batch | concurrency limit, calls that run alone, fail-fast, per-call timeouts |
| Prebuilt agent, sequences, branches (`group-agent-prebuilt`) | transcript, rounds, stage, pending approval | model, approval, tool, hand-off and selector nodes | approvals across processes; limits compared in several places; states only some codecs accept |
| Agent event streams (`group-agent-prebuilt/src/stream.rs`) | buffered events, the invocation, its error | poll, drop | events, error and end in one order |
| Event broadcast (`group-agent-observability-tokio`) | bounded ring, one cursor per subscriber | emit, subscribe, receive | slow subscribers lose events |
| Model facade, collector, structured output (`group-agent-model`) | partial response | accept stream events, validate, finish | events out of order, truncated streams, deltas shown before validation |
| Chat adapters (`group-agent-genai`) | framing and decoding state | frame bytes, decode chunks, map genai events | reads that end anywhere; a provider that repeats, contradicts or stops |
| MCP session (`group-agent-mcp`) | session state, child process, shutdown completion, tool sets | connect, discover, call, shut down | concurrent and abandoned shutdowns, wakeups, death of the child |

### How they interact

A call (`invoke`, `resume`, `replay`, `fork`) selects a checkpoint through the
`Checkpointer`, which decodes a record it got from the store, and then runs
`execute_internal`. The loop polls the node futures of one frontier, applies all
their updates in compiled order, asks the routers for the next frontier, follows
mounts and exits until it holds nodes, and hands a boundary to the checkpointer,
which saves a record with the checkpoint it continues as its parent. The store's
compare-and-set on that parent is the only synchronisation between calls, in one
process or in several. Events go synchronously to an `EventSink`: an agent's pull
stream, a broadcast, or both. Prebuilt agents are graphs whose nodes call the
model and the tool runtime; tools may be those of an MCP session.

### What makes each component correct

* Store: every lineage is one chain of parents; no update is lost; a stored
  write may be repeated; nothing stored changes.
* SQLite store: it is that store, whichever transactions fail half way; its
  readers' consistency checks and its triggers never reject its own data.
* Cache: nobody can tell that it is there, but for sharing; it does not leak.
* Durable calls: along a lineage no superstep is lost or repeated; what a call
  reports is what a later call finds; a call writes its own lineage and ends.
* Graph runtime: the result of a parallel superstep does not depend on who
  returns first; a superstep is applied entirely or not at all; nothing is applied
  after a stop; progress waits for durability; a run with a timeout ends.
* Compiler: a flattened graph runs as the nested declarations read; whatever the
  routers answer, a frontier can be run and, if saved, resolved again.
* Tool runtime: a call that must not overlap runs alone; every call gets one
  result, in its own position, that tells what happened to it; a fail-fast batch
  starts nothing after a failure and drains what it started.
* Agents: tools run only as approved; what was saved can be continued; a lineage
  is one conversation; internal errors are unreachable.
* Streams: a completed response is what the provider sent; a failure has a cause;
  every watcher sees the events in order, knows what it missed, and learns the end.
* MCP session: one shutdown result, true for everyone; nobody sleeps for ever; no
  child is left; no tool is shadowed.

## 2. The modules

| Module | Models |
|---|---|
| `LineageLog` | abstract: what a store promises, as append-only logs of identifiers |
| `CheckpointStore` | the contract, as `InMemoryCheckpointStore` implements it; one step per call, which runs under one mutex |
| `SqliteStore` | the SQLite store, statement by statement |
| `CheckpointCache` | `RecordCheckpointer`: loads and saves around the weak cache |
| `DurableRuns` | concurrent calls over one `CheckpointStore` (by `INSTANCE`) |
| `GraphRuntime` | one run of `execute_internal`, node by node |
| `StateGraph` | the builder, `compile` and flattening, as operators |
| `NestedGraph` | abstract: how a run goes through nested declared graphs |
| `SubgraphRuns` | runs of a compiled graph: frontiers, scopes, routers, restarts |
| `ToolBatch` | a batch of tool calls, `execute_batch_items` and `execute_prepared` |
| `AgentTurns` | the state, nodes and validation all prebuilt agents share, as operators |
| `AgentPlan`, `SequencePlan`, `BranchPlan` | the graphs of the three kinds of agent: nodes, routes, codecs, outcomes |
| `AgentRuns` | calls on agents of these kinds over one durable thread |
| `EventStreams` | the pull stream of an invocation and the broadcast, as actions to compose |
| `ModelStream` | stream events, the collector, the structured-output wrapper, as operators |
| `OpenAiChat`, `GenaiStream` | the two adapters: framing and decoding, as operators |
| `StreamedTurn` | one streamed agent invocation, composed of the four above |
| `McpSession` | one MCP session, its callers and its child process |
| `CheckpointStoreProofs`, `DurableRunsProofs`, `GraphRuntimeProofs`, `ToolBatchProofs`, `AgentRunsProofs`, `SubgraphRunsProofs` | the theorems, each about the module it is named after |
| `RecordStoreProofs` | the theorems about `SqliteStore` and about `CheckpointCache` |
| `ServiceProofs` | the theorems about `McpSession` and about `StreamedTurn` |
| `MC...` | values of the constants for TLC |

`SqliteStore` implements `CheckpointStore`, which implements `LineageLog`.
`DurableRuns` composes calls with `CheckpointStore`; what it shows therefore holds
over the SQLite store as well. `GraphRuntime` opens up what is a single step
(`Superstep`, `Interrupt`, `SuperstepFails`) in `DurableRuns`; `SubgraphRuns` opens
up its routing and implements `NestedGraph`. `AgentRuns` gives the nodes, states
and routes that these modules leave open, over the same life of a call.

**CheckpointStore.** `histories`, `by_id`, `record_branches` and `branches` are the
fields of `InMemoryState`. `Save`, `SaveBranch` and `CreateBranch` are the three
writes. Each has a `...Result` operator that gives the answer of the code's early
returns in their order, an action for the write that changes the store and one
for every other answer. `reply` is the answer a caller got; `Fail` is a storage
failure (for this store, a poisoned lock). A record keeps its identifier, thread
and parent, and everything else is an opaque `Content`; two records are the same
write exactly when they are equal.

**SqliteStore.** `db` holds the committed tables and `txn` the one
`BEGIN IMMEDIATE` transaction SQLite admits, with its own copy of the tables.
`LookupAnswers` and `LookupContinues` are the queries and early returns,
`Execute` one statement, `Commit` the end. `StatementFails` and `Dropped` roll back
between any two statements, the second without an answer (a dropped future or the
death of the process); `Busy` is a writer that does not get the lock: it has
executed no statement, so the tables stay as they are by SQLite's own locking,
which is assumed and not tested. The readers are the operators `HistoryRows`, `BranchRows` and `HeadRow`; a query with an
`ORDER BY sequence` is `Picked`: the rows it selects, in table order.
The refinement mapping (`HistoriesOf`, `IndexOf`, `RecordBranchesOf`,
`BranchesOf`, `ReplyOf`) is made of them, so that what is compared with
`CheckpointStore` is what the store's own queries return. `ConstraintHolds` is the content of the
constraints and triggers in the migrations.

**CheckpointCache.** An object stands for one `Arc<Checkpoint>`; it is alive while a
task holds it as a handle, in a list it is collecting, or just decoded. A load is
the store call, `Cached` (lookup), `Decode` and `Cache` (insertion, with the scan
for expired entries), each a step; `Drop` is a caller dropping a handle. `Lies` lets
the store return other content for a checkpoint it has served, and answer a save
with a record other than the one sent (`AnsweredOther`), which fails the save.

**DurableRuns.** A call moves through `load`, `pin`, `restore`, `open`, `opened`,
`execute`, `save`, `saved`. Where the code awaits the store there are two steps:
the store's, and the call learning of it; `Stop` (cancellation or deadline) and
`Crash` may come between them. The application's state is the sequence of
supersteps committed to it, so that loss, repetition and reordering are visible.
New checkpoint identifiers are drawn in order, as fresh UUIDs are unique.

**GraphRuntime.** `pc` names the places of the loop in `execute_internal`.
`config` is the checkpoint mode and policy of the run and whether it starts
afresh or from a checkpoint. Which nodes fail, interrupt or return, and what the
routers select, is left free. A check of the run's control together with the
straight-line code up to the next await is one step: a cancellation within it
counts as arriving after it. `events` is what the sink sees, restricted to nodes,
state updates, checkpoints and the end of the run.

**StateGraph, SubgraphRuns.** A draft is made call by call (`AddNode`,
`AddSubgraph`, `AddEdge`, `AddTargets`); `Accepts` is the conjunction of what
`compile` validates, in its order, and `Flatten` numbers the items of a graph and
its mounts as `FlatBuilder` does. `CoScheduled` is what the work list of
`validate_subgraph_frontiers` has queued when it is empty: the least set of pairs
that holds those of the fan-outs and, with a pair, those it brings together.
`Library` is the programs that build the graphs, level by level; a program mounts
only graphs that were compiled from an earlier level (`LibraryAssumption`), as
`add_subgraph` takes a `CompiledGraph`. A run then alternates `Superstep` with the steps
of `normalize_frontier` (`EnterSubgraph`, `ExitSubgraph`), one item at a time;
`Restart` starts another run from a saved frontier. `open` is the scopes whose
start an observer has been told of and whose end it has not. A router's answer is
kept until it has been used, as the refinement of `NestedGraph` needs to know
which of the declared choices was taken.

**ToolBatch.** The variables are those of `execute_batch_items`
(`running`, `exclusive_running`, `stop_scheduling`, `next`, `results`,
`observer_failures`). Nothing is spawned, so a call that is scheduled begins
(`Begin`) only when its future is first polled, which may be after another call
has returned and even after a fail-fast batch has stopped scheduling: such a call
still runs and is reported with its real outcome. `Await` includes the `continue`
of the outer loop when nothing runs, so that a spinning loop would be visible as a
batch that never ends. A sink may refuse any event.

**AgentTurns, the plans, AgentRuns.** A transcript is a sequence of messages; an
assistant message keeps the identifiers of its calls. `AgentState` is that with
the rounds, the usage entries and the stop reason. Each plan gives, for its kind
of agent, the nodes, what each may return, which update applies, the routes, the
saved phase and whether a codec restores it. A batch that names a call identifier
twice is refused by the tool runtime, and a transcript in which one repeats is
refused by the staged codecs; both are in the model, as models choose the
identifiers. `AgentRuns` selects by kind and runs
`invoke`, `resume`, `replay` and `fork` with their saves over one thread and its
fork. `granted` and `effects` are histories: what an application approved, and
what tools that need approval were run for.

**EventStreams, ModelStream, OpenAiChat, GenaiStream, StreamedTurn.** The provider
sends bytes, or genai its events; `Framer`, `Decoder`, `ChatStreamCollector` and
the structured-output wrapper are state records with one operator per method.
`StreamedTurn` composes them below a model node that emits its events to the pull
stream and to the broadcast. A byte is a field of a line or one of the two line
ends. `ReceiveChunk` hands over any number of bytes up to `MaxChunk`, so reads end
everywhere; the connection may be lost at any point.

**McpSession.** The session, the guard of the child, the rmcp service, the two
cleanup tasks, the completion slot with its epoch of `notify_waiters` calls, and
each caller's place in `wait` are variables. Discovery reads pages until the
server gives no cursor and may be interrupted by a shutdown. A name is a sequence of
words and a prefix is put in front of it, with nothing to mark where it ends: a
tool that the server itself called by the prefixed name of another collides with
it. rmcp and the
operating system are external: the service answers, fails or ends; a child can be
killed, dies by itself, or refuses its signal.

Operators whose name extends that of a definition right below them
(`SaveResultHeadFirst` above `SaveResult`), or that are introduced by a comment as
mutants of one, are deliberately wrong variants: putting one in place of the
definition makes TLC refute a property. They are part of no specification.

## 3. What the runs check

`cd tla; tlc -workers 2 -config X.cfg M` for the cfg and module of each row.

| Run | Instance | States | Properties |
|---|---|---|---|
| `checkpoint_store` | 2 threads, 2 branches, 3 identifiers, 2 contents | 2,275 (symmetric) | `LineagesChained`, `RetryAccepted`, `ImplementsLineageLog` |
| `sqlite_store` | 2 threads, 2 branches, 3 identifiers | 94,610 (symmetric) | `ReadsAgree`, `ConstraintsNeverFire`, `ImplementsCheckpointStore` |
| `sqlite_reuse` | 2 threads, 1 branch, 2 identifiers | - | the first finding |
| `checkpoint_cache` | 2 tasks, 2 checkpoints, a floor of 2, a store that may lie | 2,325,396 (symmetric) | `CacheIsFaithful`, `GarbageBounded` |
| `durable_runs` | a fresh call raced by resumes, a fork or a replay, or two writers under both policies and with and without a version; a graph with a loop and a parallel step | 275,859 | `LineageContinuity`, `WritesContinueWhatWasRead`, `ReportedOutcomeIsDurable`, `ResumeValueReachesItsNode`, `OwnLineageOnly`, `CallsEnd` |
| `graph_runtime` | 3 nodes, any routing, every mode, both timeouts | 112,894 | `DeterministicCommit`, `RunIsAccounted`, `DurableBeforeProgress`, `HaltTakesEffect`, `TimedRunEnds` |
| `subgraph_runs` | 728 builder programs: two nodes and a mount under every combination of 5 x 4 x 4 transitions and two entries, over four children up to depth three, and the faults `compile` looks for | 35,872 | `FrontiersRunnable`, `ScopesNest`, `ImplementsNestedGraph`, `LoopsBounded` |
| `subgraph_loop` | the programs whose loop holds only empty mounts | - | the second finding |
| `tool_batch` | up to 3 calls of every kind, limits 0 to 2 | 301,500 | `OverlapAllowed`, `ReportMatchesFacts`, `FailFastStops`, `BatchEnds` |
| `agent_runs` | six deployments of plain, sequential and branching agents, two racing tasks; batches of one call, or of one identifier twice | 324,484 | `EffectsApproved`, `SavedStatesUsable`, `InternalErrorsNeverFire`, `ConversationContinues` |
| `streamed_turn` | 36 exchanges, sound and faulty, on both adapters, every cut of the bytes, one subscriber | 80,776 | `ResponseIsWhatWasSent`, `DeltasAddUp`, `FailureIsDeserved`, `StreamIsFaithful`, `LossIsExact`, `WatchingEnds` |
| `mcp_session` | 2 callers, one of which discovers, 2 pages, 3 tools, of which one is named like another with the prefix, 2 policies | 569,913 | `ShutdownResultIsTrue`, `SnapshotComplete`, `SessionComesToRest` |

The properties, each explained where it is defined:

* `LineagesChained`: lineages are chains, no update is lost in them
  (`SingleSuccessor`), and the indexes hold exactly their records. `RetryAccepted`:
  a stored write is acknowledged at any later time.
* `ReadsAgree`: the head is the last of the history; a branch read never reports
  corruption of what the store wrote; a write does so only for an identifier stored
  under another thread.
* `CacheIsFaithful`: two handles of one checkpoint are one object, and a conflict
  is reported only of a checkpoint the store has lied about. `GarbageBounded`:
  expired entries never exceed one scan budget, and the countdown does not wrap.
* `LineageContinuity`: a checkpoint's state is its parent's followed by the
  frontier the parent saved. `WritesContinueWhatWasRead`,
  `ReportedOutcomeIsDurable`, `ResumeValueReachesItsNode` (once),
  `OwnLineageOnly`, `CallsEnd`.
* `DeterministicCommit`: committed supersteps are whole frontiers merged in
  compiled order. `RunIsAccounted`: step numbers are consecutive, saved counters
  match what was committed, and a run has one terminal event, at its end.
  `DurableBeforeProgress`, `HaltTakesEffect`, `TimedRunEnds`.
* `FrontiersRunnable`: no mount survives `normalize_frontier`, and a saved
  frontier resolves to the items the run went on with. `ScopesNest`: starts and
  ends of subgraphs nest as the observer sees them. `LoopsBounded`: runs end.
* `OverlapAllowed`, `ReportMatchesFacts`, `FailFastStops`, `BatchEnds`.
* `EffectsApproved`: tools that need approval run only for the batch, stage and
  transcript an application approved. `SavedStatesUsable`: whatever is saved can
  be restored by an agent of its version and continued. `ConversationContinues`:
  a checkpoint has the version of the one before it and, for every agent that can
  load it, continues its transcripts stage by stage. `InternalErrorsNeverFire`.
* `ResponseIsWhatWasSent`: a completed round is what was sent up to the end
  marker. `DeltasAddUp`: at every moment the deltas shown to the caller add up to
  what has been collected, and a structured response is the one that was
  validated. `FailureIsDeserved`: a round fails only if the network did wrong or
  for what the whole script says of it, measured by a reference that reads the
  frames whole. The reference counts as reasons the refusals that are the
  machinery's own and not the provider's fault: the decoder lets a usage snapshot
  pass that lowers a counter, contradicts the total known so far or changes the
  token details (which the adapter attaches by default), and the collector refuses
  it (`Cumulative`); the collector has its own bounds on text, call indexes and the
  arguments of a call (`FitsCollector`). What the property excludes is a failure
  that depends on where the bytes were cut, on line ends, on the queue or on the
  order in which the layers meet the events.
  `StreamIsFaithful`, `LossIsExact`, `WatchingEnds`.
* `ShutdownResultIsTrue`, `SnapshotComplete`, `SessionComesToRest` (waiters are
  answered and the child is gone).

### Bounds

Three identifiers are enough for a root, its successor and a record that
conflicts with either, or for a source and two branch records; two threads and two
branches are the least at which a record can be looked for in the wrong one. Three
copies of a checkpoint are the least at which an expired object, a live one and a
fresh one coexist; a floor of 2 makes scans happen while entries are alive
(`Copies` bounds the live objects of one checkpoint; two tasks need no more). In
`DurableRuns` three calls are the least at which one call is overtaken by another
while both continue a third. `MaxSteps` is small so that budgets are hit; the step
counters of resumed calls go beyond it. `MaxCheckpoint` caps the identifiers a run
of TLC may draw; it exceeds what `MaxSteps` and the number of calls allow, so no
behaviour is cut off by it. `StartSteps` in `GraphRuntime` is the step count of the
checkpoint a run restarts from; `MaxRestarts` bounds the restarts in
`SubgraphRuns`. Three tool calls are the least at which one that must run alone
waits behind one and holds back another. The limits of the agents are 1 and 2, so
that they are met before and after a tool round; two identifiers, alone or one
twice in a batch (`Batches`), are the least at which one can repeat within a
message, across messages, or not at all; the number of calls in a
deployment bounds how often a thread is continued. In `StreamedTurn` each limit
is met by some exchange and exceeded by another: an SSE event of one line too many
(`MaxSseEvent`), fragments and call indexes (`MaxToolCalls`), the arguments of all
calls (`MaxArguments`), reasoning (`MaxReasoning`), signatures (`MaxSignature`), the
text of a response on either path (`MaxText`) and of a structured one (`MaxOutput`).
The collector's limits on an index and on one call (`MaxIndex`, `MaxCallArgs`) are
tighter than the decoder's, so that some exchanges are refused by the collector
alone; usage is told twice with details added, repeated and changed, with a total
that falls behind and with a counter that decreases. `Requested` is 3, which tokio rounds up to a
ring of 4 while more events are sent; `GraphOpening` and `GraphClosing` are the
events of the graph around the round. `MaxPages` and `MaxTools` of 2 let a
discovery reach and exceed both.
Symmetry is used for interchangeable threads, branches, identifiers, contents and
tasks, and only in runs without liveness.

### Fairness

`DurableRuns!FairSpec` gives each call weak fairness of its own next step: a task
that can run is polled, and the store answers or fails. `GraphRuntime!FairSpec`
gives weak fairness to the runtime's own steps and to the passing of the run
deadline, and none to nodes, store or canceller: `tokio::select!` in
`execute_node` and `await_run_boundary` waits for the deadline beside each of
them. A node that blocks its thread without awaiting is outside the model; it
would stop the runtime's task too. `ToolBatch!FairSpec` is the same for a batch: it
is polled and time passes, but no tool need return. `SubgraphRuns!FairSpec` is
weak fairness of the run's steps, with no assumption about what routers select.
`StreamedTurn!FairSpec` assumes that the caller polls its stream or drops it, that
the provider sends, ends or loses the connection, that subscribers poll, and that
the application drops its broadcast in the end.
`McpSession!FairSpec` assumes that spawned tasks and polled callers run, that time
passes, that a closing service ends, and that a killed process dies; not that the
child exits by itself or that a signal is accepted.

### Findings

1. `save_branch` of the SQLite store, given an identifier that is stored on the
   same branch under another thread, reports corrupt tables (`BranchOwnership`),
   although the tables are sound. The contract
   (`crates/group-agent-core/src/checkpoint.rs:599`,
   `docs/design/durable-execution.md:143`) asks for an idempotency conflict, and the
   in-memory store returns one. `sqlite_reuse` shows the calls that lead there;
   `ReadsAgree` shows that it is the only way to get a corruption report from
   sound tables.
2. `ARCHITECTURE.md:129` says that loops are bounded by `max_steps`. A loop whose
   items are all mounts of empty subgraphs is followed within `normalize_frontier`
   (`runtime.rs:909`), which runs no node, counts no step and checks neither
   cancellation nor deadline. `compile` accepts such a graph, and `subgraph_loop`
   shows a run of it that never ends. `docs/design/core-runtime.md:79`, which says
   that `max_steps` bounds real node executions, is right. With a node in the loop
   every run ends.

## 4. What is proved

`tlapm CheckpointStoreProofs.tla` checks, for any sets of threads, branches,
identifiers and contents, of any size, assuming only that `NoCheckpoint` is not an
identifier (`NoCheckpointAssumption` of `CheckpointStore`):

* `TypeCorrect`: `Spec => []TypeOK`.
* `LineagesAreChains`: `LineagesChained`.
* `NoLostUpdate`: `SingleSuccessor`, a part of `LineagesChained`.
* `RetryIsAccepted`: `RetryAccepted`.
* `StoreIsAppendOnly`: no step changes what is stored (`AppendOnly`).
* `Refinement`: `ImplementsLineageLog`.

All rest on one inductive invariant, `IInv`. The lineage properties are not
inductive by themselves. That appending to one lineage leaves the others chains
needs every stored record to be reached through the index (`IndexComplete`) and
under its own identifier. `SingleSuccessor` needs in addition that identifiers are
distinct within a lineage (`DistinctIds`) and that a parent is stored before its
child (`ParentStored`); the first record of a branch is shared with the lineage it
was opened on, so its parent must be known to lie outside the branch
(`SourceParentOutside`). `BranchRecordsStored` ties the branch index to the
records. The proof goes by operation: `SaveEffect`, `SaveBranchEffect` and
`CreateBranchEffect` say what each write changes, `SavePreserves`,
`SaveBranchPreserves` and `CreateBranchPreserves` that each conjunct survives
that change, and `NextLineage` combines them. `StepRefines` maps every step to
one of `LineageLog` or a stutter, with `StoredIds` relating the index to the
abstract notion of being stored.

`tlapm RecordStoreProofs.tla` checks, about `CheckpointCache`, for any tasks, checkpoints, copies and
cleanup floor of at least one, and for a store that may or may not lie
(`CacheAssumption`):

* `CacheIsTransparent`: `CacheIsFaithful`.
* `CacheIsBounded`: `GarbageBounded`.

`HandlesShared` is inductive only with its reason, `HeldIsCached`: what a caller
holds is what its entry refers to. `ScanKeepsMap` and `InsertKeepsMap` are the two
halves of the argument: a scan removes, and `cache` overwrites, only entries whose
object nobody holds. `ConflictIsReal` follows from `RecordsBacked` (every record
of an entry or a call is in the log, or its checkpoint has been lied about) and
`LogHonest` (the log holds one record of a checkpoint). The bound needs only that
the map is finite: an insertion costs one of the countdown, and a scan leaves the
survivors.

`tlapm ToolBatchProofs.tla` checks, for batches and limits of any size:

* `BatchTypeCorrect`: `Spec => []TypeOK`.
* `OverlapIsAllowed`: `OverlapAllowed`.
* `ReportIsFactual`: `ReportMatchesFacts`.
* `FailFastIsFinal`: `FailFastStops`.

Its `IInv` says what the scheduler's flags stand for: `ExclusiveFlag`
(`exclusive_running` holds exactly while a call that must not overlap runs, alone),
`StopFlag` (`stop_scheduling` holds exactly when a fail-fast batch has a failed
call), `Scheduled` (every call before `next` runs or has a result) and `Facts` (a
result agrees with the call's events, and only a running call has begun without
one). One lemma per group of actions preserves it; the four ways a call returns
share `CollectedStep`.

`tlapm RecordStoreProofs.tla` also checks, about `SqliteStore`, for any threads, branches,
identifiers and contents (`NoCheckpointAssumption` of `SqliteStore`):

* `ReadsAgreeHolds`: `ReadsAgree`.
* `ConstraintsNeverFireHolds`: `ConstraintsNeverFire`.
* `ImplementsCheckpointStoreHolds`: `ImplementsCheckpointStore`, the refinement;
  with `Refinement` above, the SQLite store implements `LineageLog` too.

Its `Inv` has two parts. The committed tables are `Sound`: the heads, which the
compare-and-set reads, are the last rows of what the history queries select, a
branch's rows are one chain that ends at its head and starts at a source outside
the branch, and a membership row is of a stored record of its thread. The
transaction is `Working`: its copy is the committed tables with the statements
run so far, and what its lookups found holds of the committed tables. Only a
commit changes those, and SQLite admits one writer, so the second part survives
every step of everybody else. The constraints hold at each statement because the
copy is known exactly; the refinement compares, for each kind of write, the
queries over the new tables with the abstract step (a query selects the old rows
and, last, the new one).

`tlapm DurableRunsProofs.tla` checks, for any calls, threads, branches, routers,
policies and budgets, over a finite set of nodes (`GraphAssumption`, and
`BoundsAssumption` for the two caps):

* `LineageContinuityHolds`: `LineageContinuity`.
* `WritesContinueWhatWasReadHolds`: `WritesContinueWhatWasRead`.
* `ReportedOutcomeIsDurableHolds`: `ReportedOutcomeIsDurable`.
* `ResumeValueReachesItsNodeHolds`: `ResumeValueReachesItsNode`.
* `OwnLineageOnlyHolds`: the action property `OwnLineageOnly`.

A call knows the store only through what it has read, and no lock keeps that
current. What makes its writes right is that the store only grows, so `IInv`
relates every call, wherever it is, to records that can no longer change: where
its parent is, whether it is exactly there (`AtParent`) or further on (`Beyond`),
and what it is about to write or was told (`Bounded`, `Answered`). A step of one
call keeps its own part; `RunInvGrows` keeps everybody else's. That a conflict
means a loss to another call rests on identifiers increasing along a lineage.

`tlapm GraphRuntimeProofs.tla` checks, for any finite set of nodes, numbered as
compiled, any budget and any step count a run starts from (`RuntimeAssumption`):

* `DeterministicCommitHolds`: `DeterministicCommit`.
* `RunIsAccountedHolds`: `RunIsAccounted`.
* `DurableBeforeProgressHolds`: `DurableBeforeProgress`.
* `HaltTakesEffectHolds`: the action property `HaltTakesEffect`.

Inside a superstep counters, sink and state disagree on purpose: nodes are
announced before they are counted, a parallel frontier is counted before it is
applied and a single node after. `Inv` says by how much they disagree at every
place of the loop (`Counters`), which starts still lack a completion and under
which number they will get it (`Pending`), and what the last checkpoint says of
the frontier at hand (`Saved`).

`tlapm ServiceProofs.tla` checks, about `McpSession`, for any callers, any server
and any limits (`McpAssumption`, and `NilAssumption`: an absent value is none of
the present ones):

* `ShutdownResultIsTrueHolds`: `ShutdownResultIsTrue`.
* `SnapshotCompleteHolds`: `SnapshotComplete`.

A result is true because of who owns the child: its guard passes from `connect` to
the lifecycle to the cleanup and is given up nowhere else, so a cleanup that found
no guard found no child, and one that gave its guard up has reaped the child. A
tool set is complete because a traversal is mapped only if its names are distinct
and combined only with a set that shares none.

`tlapm AgentRunsProofs.tla` checks, for any fleet of the three kinds of agent, any
calls and any decisions, where batches are sequences of call identifiers, openings
and handoffs are sequences of messages (`CallListsAssumption`,
`OpeningsAssumption`, `HandoffsAssumption`), and an agent has a limit of at least
one for each of its stages (`DeploymentsAssumption`; `AgentConfig::new` refuses
zero):

* `EffectsApprovedHolds`: `EffectsApproved`.
* `ConversationContinuesHolds`: `ConversationContinues`.
* `InternalErrorsNeverFireHolds`: `InternalErrorsNeverFire`.
* `SavedStatesUsableHolds`: `SavedStatesUsable`.

`Inv` says of every running call that an approval it still carries was granted for
the batch it would run (`Backed`), and that its state continues the checkpoint it
would be saved on top of (`Continues`). The first holds because the value is gone
when the state changes, the second because a state only changes by an update that
extends a transcript (`ApplyTyped`, and one lemma per kind of update of a sequence
or a branch). Neither is inductive without the states and nodes being of the
agent's own graph (`CallTyped`, and `Checkpoint` for what is saved), which a load
by another agent inherits from the equality of graph versions (`VersionDecides`).
`NodeFacts` collects what the runtime relies on in each kind of graph.

The last two need to know which transcripts are valid, and rest on a second
invariant, `Usable` (`UsableHolds`). `Fits` relates a state to the node that is to
run: what the transcript ends with, how many rounds it has had, which stages are
there. `Budget` says how many steps are still needed from a node, against the
budget the constructors compute. `Sound` says that a stage can be restored unless
an identifier repeats; that exception is real, since nothing but the codec looks
for a repetition across messages. `EveryNodePlays` is the heart: a node that is
given such a state returns nothing the runtime, the routers or `apply` would
refuse, and what it leaves is such a state for the next node. `FitsOther` and
`RestorableOther` carry this over to the other agents of the same version, and
`StepsSuffice` shows that a new call has the steps it needs wherever it starts.

About `StreamedTurn`, it checks, for every script of a provider, every way the
network may cut it, any number of subscribers and a ring of any size
(`GraphEventsAssumption`, `CapacityAssumption`: rounding up to a power of two
gives a number, and `ScriptsAssumption`: frames have data or are comments, with one
kind of line end, and text is a sequence):

* `StreamIsFaithfulHolds`: `StreamIsFaithful`.
* `LossIsExactHolds`: `LossIsExact`.
* `DeltasAddUpHolds`: `DeltasAddUp`.

Whatever the model node makes of the provider's answer reaches the watchers by one
step (`DriveIsPoll`), so that both are about the channel and the ring. `Faithful`
adds that a dropped stream is over. `RingInv` adds why an end is final: a running
invocation can still send, and who has heard the end has outlived every sender
(`Closed`). The count of `LossIsExact` is a recursive function; `PositionAppend`
shows that one more item advances it by that item and changes nothing before.

`TurnInv` is the invariant of `DeltasAddUp`. That deltas can be put together at all
needs that text stays text on its way: from the bytes of the wire through framer,
decoder and queue, or through the queue of the genai stream (`Source`; one lemma per
record and operator, `PushByteFrames`, `PushDataDecodes`, `MapGood`). The node shows
what it collects in the same step (`NodeInv`, `NodeStep`, and `CollectAdds`: what an
event adds to a collector is its text or its arguments). The wrapper has a collector
of its own; `Synced` says that it holds what the node's holds, or one end more while
that end is withheld, and that it closes only on a response it has validated, so
that the node's response is that one (`DeliverStep`). `FlattenMore` gives what one
more piece does to a concatenation, from the recursive definition of `FlattenSeq`.

`tlapm SubgraphRunsProofs.tla` checks, for every library of graphs that mount one
another to any depth (`LibraryAssumption`), every graph of it that `compile`
accepts, every answer of its routers, any budget and any number of restarts:

* `FrontiersRunnableHolds`: `FrontiersRunnable`, which implies the `debug_assert!`
  of `normalize_frontier` (`runtime.rs:914`).
* `ScopesNestHolds`: `ScopesNest`.
* `ImplementsNestedGraphHolds`: `ImplementsNestedGraph`, the refinement of
  `NestedGraph`.
* `CompiledWellFormed`: `compile` keeps what a run relies on.

`compile` looks at pairs of items, a run has frontiers of any width, and a graph may
come from graphs compiled long before; the argument has to bring these together.
`WellFormed` is what a run relies on: transitions stay in their graph (`Confined`),
a mounted graph has one exit (`Exited`), a path names one node (`Named`), and there
is a relation between nodes of one graph (`Beside`) that holds every two items a
fan-out selects and is closed under what the routers of a pair select. `RunInv`
says that the members of a frontier are pairwise so related, in increasing order,
that the open scopes are those around it, and that what is saved are the paths of
such a frontier. It is inductive over any well-formed graph (`RunStep`, one lemma
per action): a router's answer for each member of a frontier is again pairwise
related (`Selected`), and mounts are never related to anything, so that one which
is selected is alone.

That every compiled graph is well-formed is shown by induction over the levels of
the library (`LibraryGood`). The builder's calls keep a draft good (`BuildGood`),
and `CompiledWellFormed` takes a good, accepted draft to a well-formed graph.
`LayoutIs` says where flattening puts the items of a draft and of its children, and
`EveryPart` that there is nothing else. The relation of the compiled graph
(`MayMeet`) is what the search over pairs has found in the draft, together with the
relations of the mounted graphs, renumbered; the two never mix, because a
transition does not leave its graph.

The refinement also needs to know that the flattened graph says what the declared
graphs say. `Mirrors` states this of every item, in the draft that the mounts around
it lead to (`DraftAt`): the item is one of that draft, and its transition has the
kind and selects the items the draft names; entering a mount leads to what the
child's START edge names. It is shown along the same induction over mounts
(`CompiledMirrors`), and since a run changes neither draft nor graph it holds
throughout. `StepNests` then takes each action to a step of `NestedGraph` or to a
stutter, from `RunInv` and `Mirrors` together: `RunInv` gives that a mount is active
alone and in which scope, `Mirrors` what may follow. A superstep of several nodes is
the case with content: each router answers for itself, and what is active next is
the union of what each node's own draft entry allows (`SuperstepLeads`, `NodesTogether`).

Only model-checked: `ResponseIsWhatWasSent` and `FailureIsDeserved` of
`StreamedTurn`, which compare two ways of reading the same bytes. Liveness (`CallsEnd`,
`TimedRunEnds`, `BatchEnds`, `LoopsBounded`, `WatchingEnds`, `SessionComesToRest`)
stays with TLC, as the proof system has no support for fairness. So does what a
recursive definition over data computes in general (`OpenAiChat`, `ModelStream`):
the provers cannot instantiate an induction theorem. Where a proof needs something
of a recursive function (`NodesRun` of `DurableRuns`, `Order` of `GraphRuntime`,
`Picked` of `SqliteStore`, the fragments of a `Choice` in `OpenAiChat`, the
concatenation `FlattenSeq`, and `Build`, `ChildBase` and `DraftAt` of `StateGraph`),
it argues by the least index at which the claim would fail.

## 5. What is not modelled

* Encoding: column encoding, the codec's formats, JSON schemas and their
  compiler, request and response conversion of the chat adapters, the mapping of
  MCP schemas and results (`mapping.rs`). These are stateless conversions; where
  they can fail, the models let them fail. Whether a text satisfies a schema is a
  parameter (`ValidOutput`).
* Upgrading databases written by older migrations, connection pooling, and
  SQLite's own durability, which is taken for granted.
* The tool registry, builders of configurations, ids and errors beyond their
  kind: built once, sequentially, and immutable afterwards.
* The additional event types of the durable, sequence and branch streams; the
  machine that carries them is the one in `EventStreams`.
* Complete (not streamed) model requests beyond their result.
* Of the streams: negative counters of genai (a mapping error, counters here are
  natural numbers), and conflicting extensions of tool-call deltas, which neither
  streamed path attaches.
* A replay of a graph in `SubgraphRuns`: `Restart` always saves as a resume or a
  fork does, which gives more frontiers to restart from than the code has.
* Examples, binaries for tests, and everything under `docs/`.

## 6. Plan

Done: the stores with their proofs and the SQLite refinement, the cache, durable
calls, the runtime, tool batches and the MCP session with theirs, agents with the
proofs of approval, continuity and usability, streams with those of the watchers,
adapters, compilation and subgraphs with theirs. Worth doing next:

1. A composition of `AgentRuns` with `ToolBatch`, so that a batch stopped by
   fail-fast is visible in the conversation.
2. The upgrade of SQLite databases from the first migrations.
