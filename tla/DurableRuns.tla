------------------------------ MODULE DurableRuns ------------------------------
(***************************************************************************)
(* Durable graph execution: concurrent invoke, resume, replay and fork     *)
(* calls over one checkpoint store                                         *)
(* (crates/group-agent-core/src/runtime.rs, with the store of              *)
(* CheckpointStore).                                                       *)
(*                                                                         *)
(* Every call is a process that loads, restores, executes supersteps and   *)
(* saves checkpoints.  A store operation takes effect in one step, and the *)
(* call learns its outcome in a later one; in between the call may be      *)
(* cancelled or time out, so that a write can be durable although its call *)
(* failed.  A crash ends every call and leaves the store.  No lock is held *)
(* between two store operations of a call.                                 *)
(*                                                                         *)
(* Abstracted: the state of a run is the sequence of the supersteps it     *)
(* committed (log), each the set of nodes that ran: a snapshot is that     *)
(* sequence.  A frontier is sorted by node index and has no duplicates, so *)
(* it is a set.  A superstep is one step here; its nodes are the subject   *)
(* of GraphRuntime.                                                        *)
(***************************************************************************)
EXTENDS Naturals, FiniteSets, SequencesExt

CONSTANTS
  Run,            \* calls; each is made at most once
  Applications,   \* what is called together: call -> [kinds, policies, versions]
  Policy,         \* checkpoint policies in use
  ThreadId, BranchId, NoBranch,
  Node, NoNode,
  Interruptible,  \* nodes that may ask for outside input
  Entry,          \* the frontiers a fresh run may start from
  Route,          \* frontier -> the frontiers its routers may select
  Version,        \* versions of the compiled graphs in use
  NoVersion,      \* a graph or checkpoint without a version
  MaxSteps,       \* max_steps of every call
  MaxCheckpoint   \* bound: identifiers the calls may draw

ASSUME BoundsAssumption == MaxSteps \in Nat /\ MaxCheckpoint \in Nat

ASSUME GraphAssumption ==
  /\ IsFiniteSet(Node) /\ NoNode \notin Node /\ Entry \subseteq SUBSET Node

NoCheckpoint == 0
CheckpointId == 1..MaxCheckpoint
Frontier == SUBSET Node

(* What a checkpoint record holds beyond its lineage.                      *)
Boundary ==
  [run : Run, version : Version, log : Seq(Frontier), superstep : Nat,
   step : Nat, frontier : Frontier, completed : BOOLEAN,
   interrupt : Node \cup {NoNode}]

VARIABLES
  histories, by_id, record_branches, branches, reply,   \* the store
  config,    \* call -> what the application asked for
  run        \* call -> its state

store == <<histories, by_id, record_branches, branches, reply>>
vars == <<histories, by_id, record_branches, branches, reply, config, run>>

Store == INSTANCE CheckpointStore WITH Content <- Boundary

(* target is the exact checkpoint of a resume, replay or fork (NoCheckpoint:  *)
(* the latest of the lineage), or the expected parent of a fresh run.  An     *)
(* identifier is known once it is stored.                                    *)
Asked ==
  [kind : {"invoke", "resume", "replay", "fork"}, thread : ThreadId,
   branch : BranchId \cup {NoBranch}, target : DOMAIN by_id \cup {NoCheckpoint},
   policy : Policy, value : BOOLEAN, version : Version]

Fits(app, r, cfg) ==
  cfg.kind \in app[r].kinds /\ cfg.policy \in app[r].policies /\ cfg.version \in app[r].versions

(* The calls an application can make: fork and replay name their source, and  *)
(* a fork its new branch.                                                    *)
Askable(r, cfg) ==
  /\ \E app \in Applications :
       Fits(app, r, cfg) /\ \A q \in Run : run[q].pc # "new" => Fits(app, q, config[q])
  /\ cfg.kind \in {"replay", "fork"} => cfg.target # NoCheckpoint
  /\ cfg.kind = "fork" => cfg.branch # NoBranch
  /\ cfg.kind = "replay" => cfg.branch = NoBranch
  /\ cfg.kind = "invoke" => ~ cfg.value

Fresh ==
  [pc |-> "new", result |-> "none", log |-> <<>>, superstep |-> 0, steps |-> 0,
   frontier |-> {}, limit |-> 0, source |-> NoCheckpoint,
   parent |-> NoCheckpoint, resume_node |-> NoNode, boundary |-> <<>>,
   answer |-> "none", saved |-> NoCheckpoint]

Init ==
  /\ Store!Init
  /\ config = [r \in Run |-> <<>>]
  /\ run = [r \in Run |-> Fresh]

--------------------------------------------------------------------------------
(* Helpers.                                                                *)

At(r, label) == run[r].pc = label

Live(r) == run[r].pc \notin {"new", "done"}

Become(r, s) == run' = [run EXCEPT ![r] = s]

End(r, result) ==
  Become(r, [run[r] EXCEPT !.pc = "done", !.result = result, !.boundary = <<>>])

(* An error drops the run's state; only a lineage conflict is told apart.   *)
Ended(s, result) ==
  [Fresh EXCEPT !.pc = "done", !.result = result, !.source = s.source,
                !.parent = s.parent]

Fail(r) == Become(r, Ended(run[r], "Failed"))

Unstored == UNCHANGED <<store, config>>

(* The call's budget is added to the steps its checkpoint already counts.   *)
StepLimit(steps) == steps + MaxSteps

(* Mutant of ShouldSave: a finished run has nothing left to save.             *)
ShouldSaveUnfinished(r, completed) == config[r].kind # "replay" /\ ~ completed

(* should_save of the enabled and of the read-only checkpoint modes.        *)
ShouldSave(r, completed) ==
  /\ config[r].kind # "replay"
  /\ config[r].policy = "EverySuperstep" \/ completed

(* CheckpointId::next: an identifier no record has.  An identifier whose save  *)
(* failed is forgotten by everyone, so drawing it again draws a fresh one.    *)
NextId == Cardinality(DOMAIN by_id) + 1

(* What a save at this state of the run writes.                            *)
BoundaryAt(r, cfg, s, frontier, interrupt) ==
  [run |-> r, version |-> cfg.version, log |-> s.log,
   superstep |-> s.superstep, step |-> s.steps, frontier |-> frontier,
   completed |-> frontier = {}, interrupt |-> interrupt]

Saving(r, cfg, s, frontier, interrupt) ==
  [s EXCEPT !.pc = "save",
            !.boundary = BoundaryAt(r, cfg, s, frontier, interrupt)]

--------------------------------------------------------------------------------
(* Loading a checkpoint: resume_with_state_initializer, replay, fork.       *)

(* invoke_internal: a fresh run executes its entry frontier; with nothing to  *)
(* execute it still saves a completed checkpoint, under either policy.       *)
StartInvoke(r, cfg, entry) ==
  LET s == [Fresh EXCEPT !.pc = "execute", !.frontier = entry,
                         !.limit = StepLimit(0), !.parent = cfg.target]
  IN
  /\ At(r, "new") /\ Askable(r, cfg) /\ cfg.kind = "invoke"
  /\ config' = [config EXCEPT ![r] = cfg]
  /\ Become(r, IF entry = {} THEN Saving(r, cfg, s, {}, NoNode) ELSE s)
  /\ UNCHANGED store

StartFromCheckpoint(r, cfg) ==
  /\ At(r, "new") /\ Askable(r, cfg) /\ cfg.kind # "invoke"
  /\ config' = [config EXCEPT ![r] = cfg]
  /\ Become(r, [Fresh EXCEPT !.pc = "load"])
  /\ UNCHANGED store

(* The head a resume follows: its branch's when it names one.              *)
SelectedHead(cfg) ==
  IF cfg.branch = NoBranch THEN Store!Latest(cfg.thread)
  ELSE Store!BranchHead(cfg.thread, cfg.branch)

(* What the load finds: get for an exact target, the head otherwise.        *)
Loaded(cfg) ==
  IF cfg.target = NoCheckpoint THEN SelectedHead(cfg)
  ELSE IF Store!Get(cfg.thread, cfg.target) THEN cfg.target
  ELSE NoCheckpoint

(* Mutant of Load: the call waits until there is a checkpoint to load.         *)
LoadWaits(r) ==
  /\ At(r, "load") /\ Loaded(config[r]) # NoCheckpoint
  /\ Become(r, [run[r] EXCEPT !.pc = "restore", !.source = Loaded(config[r])])
  /\ Unstored

Load(r) ==
  LET cfg == config[r]
      pinned == cfg.kind = "resume" /\ cfg.target # NoCheckpoint
  IN
  /\ At(r, "load")
  /\ IF Loaded(cfg) = NoCheckpoint
     THEN Fail(r)
     ELSE Become(r, [run[r] EXCEPT !.pc = IF pinned THEN "pin" ELSE "restore",
                                   !.source = Loaded(cfg)])
  /\ Unstored

(* A resume of an exact checkpoint reads the head again: continuing history  *)
(* from the middle is refused.                                             *)
Pin(r) ==
  /\ At(r, "pin")
  /\ IF SelectedHead(config[r]) # run[r].source
     THEN Fail(r)
     ELSE Become(r, [run[r] EXCEPT !.pc = "restore"])
  /\ Unstored

(* validate_and_resolve_checkpoint_frontier, for records this runtime wrote:  *)
(* equal versions, and completion, frontier and interrupt that agree.        *)
Compatible(cfg, b) ==
  /\ b.version # NoVersion /\ b.version = cfg.version
  /\ b.completed <=> b.frontier = {}
  /\ b.interrupt # NoNode => b.frontier = {b.interrupt}

(* Validation, the resume value, restore and the initializer, all in memory. *)
Restore(r) ==
  LET cfg == config[r]
      b == by_id[run[r].source].content
  IN
  /\ At(r, "restore")
  /\ \/ /\ ~ Compatible(cfg, b)
        /\ Fail(r)
     \/ /\ Compatible(cfg, b) /\ cfg.value # (b.interrupt # NoNode)
        /\ Fail(r)
     \/ /\ Compatible(cfg, b) /\ cfg.value = (b.interrupt # NoNode)
        /\ Become(r, [run[r] EXCEPT
                        !.pc = IF cfg.kind = "fork" THEN "open" ELSE "execute",
                        !.log = b.log, !.superstep = b.superstep,
                        !.steps = b.step, !.limit = StepLimit(b.step),
                        !.frontier = b.frontier, !.resume_node = b.interrupt,
                        !.parent = run[r].source])
     \/ /\ Compatible(cfg, b)
        /\ Fail(r)
  /\ Unstored

(* fork: the branch is created before anything runs.                        *)
OpenBranch(r) ==
  LET cfg == config[r] IN
  /\ At(r, "open")
  /\ \/ Store!CreateBranch(cfg.thread, cfg.branch, run[r].source)
     \/ Store!Fail(run[r].source)
  /\ Become(r, [run[r] EXCEPT !.pc = "opened", !.answer = reply'.result])
  /\ UNCHANGED config

BranchOpened(r) ==
  /\ At(r, "opened")
  /\ IF run[r].answer = "Ok"
     THEN Become(r, [run[r] EXCEPT !.pc = "execute"])
     ELSE Fail(r)
  /\ Unstored

--------------------------------------------------------------------------------
(* Executing: the loop of execute_internal.                                 *)

Executing(r) == At(r, "execute") /\ run[r].frontier # {}

(* A frontier runs as a whole or not at all.                                *)
WithinBudget(s) == Cardinality(s.frontier) <= s.limit - s.steps

BudgetExceeded(r) ==
  /\ Executing(r) /\ ~ WithinBudget(run[r])
  /\ Fail(r)
  /\ Unstored

(* Mutants of Applied: the updates are dropped, or the resume value stays with   *)
(* the run.                                                                  *)
AppliedDropped(s) ==
  [s EXCEPT !.superstep = @ + 1, !.steps = @ + Cardinality(s.frontier),
            !.resume_node = NoNode]

AppliedKeepsValue(s) ==
  [s EXCEPT !.log = Append(@, s.frontier), !.superstep = @ + 1,
            !.steps = @ + Cardinality(s.frontier)]

(* The state after the frontier's updates are applied.                      *)
Applied(s) ==
  [s EXCEPT !.log = Append(@, s.frontier), !.superstep = @ + 1,
            !.steps = @ + Cardinality(s.frontier), !.resume_node = NoNode]

(* Every node returned an update, the updates were applied and the routers    *)
(* selected the next frontier, which is saved if the policy says so.         *)
Superstep(r, next) ==
  LET s == Applied(run[r]) IN
  /\ Executing(r) /\ WithinBudget(run[r])
  /\ next \in Route[run[r].frontier]
  /\ Become(r, IF ShouldSave(r, next = {})
               THEN Saving(r, config[r], s, next, NoNode)
               ELSE [s EXCEPT !.frontier = next])
  /\ Unstored

(* A single node asks for outside input: the state as it was before the node  *)
(* is saved whatever the policy; a replay cannot.                           *)
Interrupt(r, n) ==
  /\ Executing(r) /\ WithinBudget(run[r])
  /\ n \in Interruptible /\ run[r].frontier = {n}
  /\ IF config[r].kind = "replay"
     THEN Fail(r)
     ELSE Become(r, Saving(r, config[r], run[r], {n}, n))
  /\ Unstored

(* A node, an update or a router fails, or one of several nodes asks for      *)
(* outside input: nothing of the superstep is saved.                        *)
SuperstepFails(r) ==
  /\ Executing(r) /\ WithinBudget(run[r])
  /\ Fail(r)
  /\ Unstored

Complete(r) ==
  /\ At(r, "execute") /\ run[r].frontier = {}
  /\ End(r, "Completed")
  /\ Unstored

--------------------------------------------------------------------------------
(* Saving: EnabledCheckpoint::save under await_run_boundary.                *)

(* Mutant of RecordOf: the parent is always the checkpoint the call started from. *)
RecordOfFirstParent(r) ==
  [id |-> NextId, thread |-> config[r].thread, parent |-> run[r].source,
   content |-> run[r].boundary]

RecordOf(r) ==
  [id |-> NextId, thread |-> config[r].thread, parent |-> run[r].parent,
   content |-> run[r].boundary]

(* Mutant of StoreSave: a branch is saved to the default lineage.             *)
StoreSaveDefault(r, rec) == Store!Save(rec)

StoreSave(r, rec) ==
  IF config[r].branch = NoBranch THEN Store!Save(rec)
  ELSE Store!SaveBranch(config[r].branch, rec)

(* The store decides; the call has not heard yet.                           *)
Save(r) ==
  /\ At(r, "save") /\ NextId \in CheckpointId
  /\ StoreSave(r, RecordOf(r)) \/ Store!Fail(NextId)
  /\ Become(r, [run[r] EXCEPT !.pc = "saved", !.answer = reply'.result,
                              !.saved = NextId])
  /\ UNCHANGED config

SaveReturns(r) ==
  LET b == run[r].boundary IN
  /\ At(r, "saved")
  /\ \/ /\ run[r].answer = "Conflict"
        /\ Become(r, Ended(run[r], "Conflict"))
     \/ /\ run[r].answer \notin {"Ok", "Conflict"}
        /\ Fail(r)
     \/ /\ run[r].answer = "Ok" /\ b.interrupt # NoNode
        /\ End(r, "Interrupted")
     \/ /\ run[r].answer = "Ok" /\ b.interrupt = NoNode
        /\ Become(r, [run[r] EXCEPT !.pc = "execute", !.frontier = b.frontier,
                                   !.parent = run[r].saved])
  /\ Unstored

--------------------------------------------------------------------------------
(* Cancellation and the run deadline are observed at every await and between  *)
(* every two of them; an operation the store already performed stays.        *)
Stop(r) == Live(r) /\ Fail(r) /\ Unstored

(* The store cannot be read.                                               *)
LoadFails(r) ==
  /\ At(r, "load") \/ At(r, "pin")
  /\ Fail(r)
  /\ Unstored

(* The process dies: every call ends, the store stays.                      *)
Crash ==
  /\ \E r \in Run : Live(r)
  /\ run' = [r \in Run |-> IF Live(r) THEN Ended(run[r], "Failed") ELSE run[r]]
  /\ Unstored

(* What the call does by itself, given that its nodes and the store return.  *)
Step(r) ==
  \/ Load(r) \/ Pin(r) \/ Restore(r) \/ OpenBranch(r) \/ BranchOpened(r)
  \/ BudgetExceeded(r) \/ (\E next \in Frontier : Superstep(r, next))
  \/ (\E n \in Node : Interrupt(r, n)) \/ SuperstepFails(r) \/ Complete(r)
  \/ Save(r) \/ SaveReturns(r)

Start(r) ==
  /\ At(r, "new")
  /\ \E cfg \in Asked :
       StartFromCheckpoint(r, cfg) \/ \E entry \in Entry : StartInvoke(r, cfg, entry)

(* Nothing is in progress; the application need not make another call.       *)
Quiet == (\A r \in Run : ~ Live(r)) /\ UNCHANGED vars

Next ==
  \/ \E r \in Run : Start(r) \/ Step(r) \/ Stop(r) \/ LoadFails(r)
  \/ Crash
  \/ Quiet

Spec == Init /\ [][Next]_vars

(* A call that has started keeps being polled: nodes are assumed to return    *)
(* and the store to answer.                                                *)
Fairness == \A r \in Run : WF_vars(Step(r))

FairSpec == Spec /\ Fairness

--------------------------------------------------------------------------------
(* Properties.                                                             *)

Stored == {by_id[c] : c \in DOMAIN by_id}

(* The nodes that ran in the supersteps of a snapshot.                      *)
NodesRun(log) ==
  LET count[i \in 0..Len(log)] ==
        IF i = 0 THEN 0 ELSE count[i - 1] + Cardinality(log[i])
  IN  count[Len(log)]

(* The checkpoint's call continued its parent, rather than starting afresh    *)
(* on top of it.                                                            *)
Continues(rec) ==
  /\ rec.parent # NoCheckpoint
  /\ \/ config[rec.content.run].kind # "invoke"
     \/ by_id[rec.parent].content.run = rec.content.run

(* A checkpoint's snapshot is its parent's, followed first by the parent's    *)
(* saved frontier; only an interrupt adds none, and it asks again.           *)
Extends(p, c) ==
  /\ IsPrefix(p.log, c.log)
  /\ IF c.log = p.log
     THEN c.interrupt # NoNode /\ c.frontier = p.frontier
     ELSE c.log[Len(p.log) + 1] = p.frontier

(* Along a lineage no superstep is lost or repeated, whatever calls crashed,  *)
(* were cancelled or raced in between, and the counters execute_internal      *)
(* saves are cumulative over every call of it, resumed, forked or             *)
(* interrupted: superstep counts the committed supersteps of the snapshot     *)
(* and step the nodes that ran in them.                                      *)
LineageContinuity ==
  \A rec \in Stored :
    /\ Continues(rec) => Extends(by_id[rec.parent].content, rec.content)
    /\ rec.content.superstep = Len(rec.content.log)
    /\ rec.content.step = NodesRun(rec.content.log)

(* The lineage of a call holds this record.                                 *)
InLineageOf(r, rec) ==
  IF config[r].branch = NoBranch
  THEN rec \in ToSet(histories[config[r].thread])
  ELSE /\ config[r].branch \in DOMAIN branches
       /\ rec \in ToSet(branches[config[r].branch].history)

(* With no lock between load and save, a call that restored a checkpoint       *)
(* writes only on top of it or of its own last write; and it is told of a     *)
(* conflict only if another call has continued that same checkpoint in the    *)
(* same lineage.                                                            *)
WritesContinueWhatWasRead ==
  /\ \A rec \in Stored :
       LET r == rec.content.run IN
       config[r].kind # "invoke" =>
         rec.parent = run[r].source \/ by_id[rec.parent].content.run = r
  /\ \A r \in Run :
       run[r].result = "Conflict" /\ config[r].kind # "invoke" =>
         \E rec \in Stored :
           /\ rec.parent = run[r].parent /\ rec.content.run # r
           /\ InLineageOf(r, rec)

(* What a call reports is what a later resume will find: a completed call's   *)
(* final state is in a completed checkpoint of its lineage, an interrupted    *)
(* call's state in its own interrupt checkpoint.                             *)
ReportedOutcomeIsDurable ==
  \A r \in Run :
    /\ run[r].result = "Completed" /\ config[r].kind # "replay" =>
         \E rec \in Stored :
           /\ rec.content.completed /\ rec.content.log = run[r].log
           /\ rec.content.run = r \/ rec.id = run[r].source
           /\ InLineageOf(r, rec)
    /\ run[r].result = "Interrupted" =>
         \E rec \in Stored :
           /\ rec.content.interrupt # NoNode /\ rec.content.log = run[r].log
           /\ rec.content.run = r /\ InLineageOf(r, rec)

(* The value given to a resume reaches only the node that asked for it, and   *)
(* only before that call commits anything.                                  *)
ResumeValueReachesItsNode ==
  \A r \in Run : At(r, "execute") /\ run[r].resume_node # NoNode =>
    LET b == by_id[run[r].source].content IN
    /\ config[r].value
    /\ b.interrupt = run[r].resume_node
    /\ run[r].frontier = {run[r].resume_node} /\ run[r].log = b.log

(* A step may change only the lineage its call was given: the default         *)
(* lineage of a thread is written by a call on that thread that names no      *)
(* branch, a branch by a call that names it, and a replay writes nothing.     *)
OwnLineageStep ==
  /\ \A t \in ThreadId : histories'[t] # histories[t] =>
       \E r \in Run : /\ run'[r] # run[r] /\ config[r].kind \in {"invoke", "resume"}
                      /\ config[r].thread = t /\ config[r].branch = NoBranch
  /\ \A b \in DOMAIN branches' :
       ~ (b \in DOMAIN branches /\ branches'[b] = branches[b]) =>
       \E r \in Run : /\ run'[r] # run[r] /\ config[r].kind # "replay"
                      /\ config[r].thread = branches'[b].thread
                      /\ config[r].branch = b

OwnLineageOnly == [][OwnLineageStep]_vars

(* Every call ends: max_steps bounds a cyclic graph, and no call waits for     *)
(* another one.  (Each call is made once.)                                  *)
CallsEnd == <>[](\A r \in Run : ~ Live(r))
================================================================================
