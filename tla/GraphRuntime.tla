------------------------------ MODULE GraphRuntime ------------------------------
(***************************************************************************)
(* One graph run, node by node: execute_internal and execute_node of       *)
(* crates/group-agent-core/src/runtime.rs.                                 *)
(*                                                                         *)
(* The nodes of a frontier run concurrently on the state committed before  *)
(* them; their updates are applied together once all have returned, and    *)
(* the routers then select the next frontier.  Cancellation and the two    *)
(* deadlines arrive at any time and take effect at the next check; a save  *)
(* may be performed by the store although the run stops waiting for it.    *)
(*                                                                         *)
(* A check of the run's control and the straight-line code behind it are   *)
(* one step: a cancellation in between counts as arriving after the step.  *)
(*                                                                         *)
(* Abstracted: nodes are their compiled indices, the state is the sequence *)
(* of batches applied to it, an update is its node.  Of the events, those  *)
(* of nodes, state, checkpoints and the end of the run are kept.  Stops    *)
(* (Cancelled, RunTimedOut) are one result; so are the node errors.        *)
(***************************************************************************)
EXTENDS Naturals, FiniteSets, SequencesExt

CONSTANTS
  Node,            \* compiled node indices
  Interruptible,   \* nodes that may ask for outside input
  MaxSteps,        \* the run's budget
  StartSteps,      \* steps counted by the checkpoint the run started from
  RunTimeout,      \* the run has a deadline
  NodeTimeout      \* nodes have a deadline

ASSUME RuntimeAssumption ==
  /\ Node \subseteq Nat /\ IsFiniteSet(Node) /\ Interruptible \subseteq Node
  /\ MaxSteps \in Nat /\ StartSteps \in Nat

VARIABLES
  config,      \* [mode, policy, fresh]: checkpointing, and an invoke or a restart
  pc,          \* where the run is in the loop
  frontier,    \* the nodes of this superstep
  next,        \* the frontier the routers have selected so far
  at,          \* position in the frontier of the per-node loops
  running,     \* nodes whose future is being polled
  returned,    \* nodes that returned an update, in that order
  late,        \* running nodes whose deadline has passed
  state,       \* the batches applied to the state
  steps, superstep,
  asking,      \* {n}: the checkpoint being saved is n's interrupt
  durable,     \* checkpoints the store holds: [state, frontier, step, ...]
  cancelled,   \* the token has been cancelled
  expired,     \* the run deadline has passed
  events,      \* what the event sink has seen
  result       \* "none" while the run executes

control == <<cancelled, expired>>
vars == <<config, pc, frontier, next, at, running, returned, late, state, steps,
          superstep, asking, durable, cancelled, expired, events, result>>

--------------------------------------------------------------------------------
(* The frontier in compiled order.                                          *)
Order(f) ==
  CHOOSE s \in [1..Cardinality(f) -> f] : \A i, j \in DOMAIN s : i < j => s[i] < s[j]

Parallel == Cardinality(frontier) > 1

(* The run's configurations: invoke without and with checkpointing, replay, and   *)
(* resume or fork.                                                          *)
Policies == {"EverySuperstep", "FinalOnly"}

Configs ==
  {[mode |-> "disabled", policy |-> "FinalOnly", fresh |-> TRUE],
   [mode |-> "replay", policy |-> "FinalOnly", fresh |-> FALSE]}
  \cup [mode : {"enabled"}, policy : Policies, fresh : BOOLEAN]

FirstStep == IF config.fresh THEN 0 ELSE StartSteps

StepLimit == FirstStep + MaxSteps

(* Mutants of Halted: a run with a deadline ignores its token, or the reverse.  *)
HaltedByDeadline == IF RunTimeout THEN expired ELSE cancelled

HaltedByToken == cancelled

(* control.check, but for a node's own deadline.                            *)
Halted == cancelled \/ expired

Event(kind, node, step) == [kind |-> kind, node |-> node, step |-> step]
RunEvent(kind) == Event(kind, 0, steps)
Emit(e) == events' = Append(events, e)

(* Leaving the loop with an error: pending node futures are dropped.        *)
FailAfter(emitted, reason) ==
  /\ pc' = "done" /\ result' = reason
  /\ running' = {} /\ late' = {}
  /\ events' = events \o emitted \o <<RunEvent("RunFailed")>>
  /\ UNCHANGED <<frontier, next, at, returned, state, steps, superstep, asking,
                 durable, control, config>>

Fail(reason) == FailAfter(<<>>, reason)

(* Mutant of ShouldSave: the policy is ignored.                               *)
ShouldSaveFinal(completed) == config.mode = "enabled" /\ completed

ShouldSave(completed) ==
  config.mode = "enabled" /\ (config.policy = "EverySuperstep" \/ completed)

(* A fresh run whose entry is empty saves its completed state first.         *)
Init ==
  /\ config \in Configs
  /\ frontier \in SUBSET Node
  /\ pc = IF config.fresh /\ frontier = {} /\ ShouldSave(TRUE) THEN "save" ELSE "loop"
  /\ next = {} /\ at = 1 /\ running = {} /\ returned = <<>> /\ late = {}
  /\ state = <<>> /\ steps = FirstStep /\ superstep = 0
  /\ asking = {} /\ durable = <<>>
  /\ cancelled = FALSE /\ expired = FALSE
  /\ events = <<>> /\ result = "none"

--------------------------------------------------------------------------------
(* The environment.                                                        *)

Cancel ==
  /\ ~ cancelled /\ pc # "done"
  /\ cancelled' = TRUE
  /\ UNCHANGED <<pc, frontier, next, at, running, returned, late, state, steps,
                 superstep, asking, durable, expired, events, result, config>>

RunDeadline ==
  /\ RunTimeout /\ ~ expired /\ pc # "done"
  /\ expired' = TRUE
  /\ UNCHANGED <<pc, frontier, next, at, running, returned, late, state, steps,
                 superstep, asking, durable, cancelled, events, result, config>>

NodeDeadline(n) ==
  /\ NodeTimeout /\ n \in running \ late
  /\ late' = late \cup {n}
  /\ UNCHANGED <<pc, frontier, next, at, running, returned, state, steps,
                 superstep, asking, durable, control, events, result, config>>

--------------------------------------------------------------------------------
(* The top of the loop.                                                    *)

LoopBegins ==
  /\ pc = "loop" /\ frontier # {} /\ ~ Halted
  /\ Cardinality(frontier) <= StepLimit - steps
  /\ superstep' = superstep + 1
  /\ pc' = "start" /\ at' = 1 /\ returned' = <<>>
  /\ UNCHANGED <<frontier, next, running, late, state, steps, asking, durable,
                 control, events, result, config>>

BudgetExceeded ==
  /\ pc = "loop" /\ frontier # {} /\ ~ Halted
  /\ Cardinality(frontier) > StepLimit - steps
  /\ Fail("MaxStepsExceeded")

RunCompletes ==
  /\ pc = "loop" /\ frontier = {} /\ ~ Halted
  /\ pc' = "done" /\ result' = "Completed"
  /\ Emit(RunEvent("RunCompleted"))
  /\ UNCHANGED <<frontier, next, at, running, returned, late, state, steps,
                 superstep, asking, durable, control, config>>

(* Nodes start in frontier order, each after a check; a parallel frontier     *)
(* counts its steps once all have started.                                  *)
StartNode ==
  LET n == Order(frontier)[at]
      last == at = Cardinality(frontier)
  IN
  /\ pc = "start" /\ ~ Halted
  /\ Emit(Event("NodeStarted", n, steps + at))
  /\ at' = at + 1
  /\ pc' = IF last THEN "run" ELSE "start"
  /\ running' = running \cup {n}
  /\ steps' = IF last /\ Parallel THEN steps + Cardinality(frontier) ELSE steps
  /\ UNCHANGED <<frontier, next, returned, late, state, superstep, asking,
                 durable, control, result, config>>

--------------------------------------------------------------------------------
(* Nodes.  execute_node prefers cancellation and deadlines to the node's own    *)
(* result, and the first error of any node drops the others.                 *)

Base == IF Parallel THEN steps - Cardinality(frontier) ELSE steps

(* The step number of a node: its place in the frontier.                    *)
StepOf(n) == Base + CHOOSE i \in 1..Cardinality(frontier) : Order(frontier)[i] = n

MayReturn(n) == pc = "run" /\ n \in running \ late /\ ~ Halted

NodeUpdates(n) ==
  /\ MayReturn(n)
  /\ returned' = Append(returned, n)
  /\ running' = running \ {n}
  /\ Emit(Event("NodeCompleted", n, StepOf(n)))
  /\ pc' = IF running' = {} THEN "apply" ELSE "run"
  /\ UNCHANGED <<frontier, next, at, late, state, steps, superstep, asking,
                 durable, control, result, config>>

NodeFails(n) == MayReturn(n) /\ Fail("NodeFailed")

(* A node's deadline is checked right after it starts and whenever it is polled.  *)
(* If the run deadline has passed as well, the earlier of the two is reported.    *)
NodeTimesOut(n) ==
  /\ \/ pc = "run"
     \/ pc = "start" /\ at > 1 /\ n = Order(frontier)[at - 1]
  /\ n \in running \cap late /\ ~ cancelled
  /\ Fail("NodeTimedOut")

(* interrupt_error: only a single node of a run that may save can interrupt.   *)
InterruptRefused == Parallel \/ config.mode # "enabled"

(* Mutant of CommittedSuperstep: the superstep in progress counts.             *)
BegunSuperstep == superstep

(* The superstep an interrupted run reports and saves.                        *)
CommittedSuperstep == superstep - 1

NodeInterrupts(n) ==
  /\ MayReturn(n) /\ n \in Interruptible
  /\ IF InterruptRefused
     THEN FailAfter(<<Event("NodeInterrupted", n, StepOf(n))>>, "InterruptRefused")
     ELSE /\ asking' = {n} /\ next' = {n} /\ running' = {} /\ pc' = "save"
          /\ superstep' = CommittedSuperstep
          /\ Emit(Event("NodeInterrupted", n, StepOf(n)))
          /\ UNCHANGED <<frontier, at, returned, late, state, steps, durable,
                         control, result, config>>

--------------------------------------------------------------------------------
(* The barrier: every node has returned.                                    *)

(* Mutant of Batch: the order in which the nodes returned.                    *)
BatchAsReturned == returned

(* The batch is in frontier order, not in the order the nodes returned.       *)
Batch == Order(frontier)

Apply ==
  /\ pc = "apply" /\ ~ Halted
  /\ state' = Append(state, Batch)
  /\ steps' = IF Parallel THEN steps ELSE steps + 1
  /\ pc' = "announce" /\ at' = 1
  /\ UNCHANGED <<frontier, next, running, returned, late, superstep, asking,
                 durable, control, events, result, config>>

ApplyFails == pc = "apply" /\ ~ Halted /\ Fail("StateUpdateFailed")

(* StateUpdated is emitted before the check that follows it.                *)
Announce ==
  /\ pc = "announce"
  /\ Emit(Event("StateUpdated", Order(frontier)[at],
                steps - Cardinality(frontier) + at))
  /\ at' = at + 1
  /\ pc' = IF at = Cardinality(frontier) THEN "route" ELSE "announce"
  /\ next' = {}
  /\ UNCHANGED <<frontier, running, returned, late, state, steps, superstep,
                 asking, durable, control, result, config>>

(* All routers of the frontier; sorting and deduplicating their targets        *)
(* makes them a set, empty when every router selects the end.                *)
Routed(targets) ==
  /\ pc = "route" /\ ~ Halted
  /\ next' = targets
  /\ pc' = IF ShouldSave(targets = {}) THEN "save" ELSE "boundary"
  /\ UNCHANGED <<frontier, at, running, returned, late, state, steps, superstep,
                 asking, durable, control, events, result, config>>

RouteFails == pc = "route" /\ ~ Halted /\ Fail("RouteFailed")

--------------------------------------------------------------------------------
(* Saving, under await_run_boundary.                                        *)

StoreCommits ==
  /\ pc = "save"
  /\ durable' = Append(durable,
       [state |-> state, frontier |-> next, step |-> steps,
        superstep |-> superstep, asking |-> asking])
  /\ pc' = "stored"
  /\ UNCHANGED <<frontier, next, at, running, returned, late, state, steps,
                 superstep, asking, control, events, result, config>>

SaveFails == pc = "save" /\ ~ Halted /\ Fail("CheckpointSaveFailed")

SaveReturns ==
  /\ pc = "stored" /\ ~ Halted
  /\ Emit(RunEvent("CheckpointSaved"))
  /\ pc' = IF asking = {} THEN "boundary" ELSE "suspend"
  /\ UNCHANGED <<frontier, next, at, running, returned, late, state, steps,
                 superstep, asking, durable, control, result, config>>

Suspend ==
  /\ pc = "suspend" /\ ~ Halted
  /\ pc' = "done" /\ result' = "Interrupted"
  /\ Emit(RunEvent("RunInterrupted"))
  /\ UNCHANGED <<frontier, next, at, running, returned, late, state, steps,
                 superstep, asking, durable, control, config>>

NextSuperstep ==
  /\ pc = "boundary" /\ ~ Halted
  /\ frontier' = next /\ next' = {}
  /\ pc' = "loop"
  /\ UNCHANGED <<at, running, returned, late, state, steps, superstep, asking,
                 durable, control, events, result, config>>

(* A check finds the run cancelled or out of time.  Between the check before   *)
(* the updates are applied and the first StateUpdated there is none.          *)
Stop ==
  /\ Halted /\ pc # "done"
  /\ ~ (pc = "announce" /\ at = 1)
  /\ Fail("Stopped")

Done == pc = "done" /\ UNCHANGED vars

NodeReturns(n) == NodeUpdates(n) \/ NodeFails(n) \/ NodeInterrupts(n)

(* What the runtime does by itself, its nodes and the store apart.           *)
RuntimeStep ==
  \/ LoopBegins \/ BudgetExceeded \/ RunCompletes \/ StartNode
  \/ (\E n \in Node : NodeTimesOut(n)) \/ Apply \/ ApplyFails \/ Announce
  \/ (\E targets \in SUBSET Node : Routed(targets)) \/ RouteFails
  \/ SaveReturns \/ Suspend \/ NextSuperstep \/ Stop

Next ==
  \/ RuntimeStep
  \/ \E n \in Node : NodeReturns(n) \/ NodeDeadline(n)
  \/ StoreCommits \/ SaveFails
  \/ Cancel \/ RunDeadline
  \/ Done

Spec == Init /\ [][Next]_vars

(* The executor polls the run; time passes.  Nothing is assumed of nodes, of   *)
(* the store or of whoever may cancel.                                      *)
Fairness == WF_vars(RuntimeStep) /\ WF_vars(RunDeadline)

FairSpec == Spec /\ Fairness

--------------------------------------------------------------------------------
(* Properties.                                                             *)

(* Whatever order the nodes of a parallel frontier return in, their updates     *)
(* are applied in compiled order, once each, in one batch.                    *)
MergeIsDeterministic ==
  \A i \in DOMAIN state :
    \A j, k \in DOMAIN state[i] : j < k => state[i][j] < state[i][k]

(* An update is applied only when every node that started in its superstep has  *)
(* completed: for each batch the sink saw all its nodes complete, with the      *)
(* step numbers they started under, before it saw any of them applied.         *)
AllOrNothing ==
  \A i \in DOMAIN events : events[i].kind = "StateUpdated" =>
    \A k \in DOMAIN events :
      events[k].kind = "NodeStarted" /\ k < i =>
        \E j \in 1..(i - 1) : /\ events[j].kind = "NodeCompleted"
                              /\ events[j].node = events[k].node
                              /\ events[j].step = events[k].step

(* The nodes the sink has seen start, by the place of the event.                *)
Started(i) == {k \in 1..i : events[k].kind = "NodeStarted"}

(* Node executions are numbered consecutively from the checkpoint's step,       *)
(* across single and parallel supersteps, and never beyond the budget.         *)
StepNumbersConsecutive ==
  /\ Cardinality(Started(Len(events))) <= MaxSteps
  /\ \A i \in Started(Len(events)) : events[i].step = FirstStep + Cardinality(Started(i))

(* The last event, and only the last, says how the run ended, and it agrees      *)
(* with what the caller is told.                                            *)
Terminal == {"RunCompleted", "RunInterrupted", "RunFailed"}

OneTerminalEvent ==
  /\ \A i \in DOMAIN events : events[i].kind \in Terminal => i = Len(events)
  /\ pc = "done" <=> events # <<>> /\ Last(events).kind \in Terminal
  /\ result = "Completed" <=> events # <<>> /\ Last(events).kind = "RunCompleted"
  /\ result = "Interrupted" <=> events # <<>> /\ Last(events).kind = "RunInterrupted"

(* Under EverySuperstep no node starts before the superstep that led to it is    *)
(* durable; under either policy a run that reports completion has a durable      *)
(* completed checkpoint of its state, unless it restarted from one.            *)
DurableBeforeProgress ==
  config.mode = "enabled" =>
    /\ config.policy = "EverySuperstep" /\ pc \in {"loop", "start", "run"} /\ state # <<>>
         => durable # <<>> /\ Last(durable).state = state
            /\ Last(durable).frontier = frontier
    /\ result = "Completed" /\ (state # <<>> \/ config.fresh)
         => durable # <<>> /\ Last(durable).state = state
            /\ Last(durable).frontier = {}

(* The updates applied to a state: the places in its batches.                  *)
Updates(s) == UNION {{i} \X (1..Len(s[i])) : i \in 1..Len(s)}

(* The counters of a checkpoint describe its state, also for an interrupt, which  *)
(* takes back the superstep it began.                                         *)
CheckpointCounters ==
  \A i \in DOMAIN durable :
    LET c == durable[i] IN
    /\ c.superstep = Len(c.state)
    /\ c.step = FirstStep + Cardinality(Updates(c.state))
    /\ c.asking # {} => c.frontier = c.asking

(* A superstep commits all its updates or none, in an order that does not depend  *)
(* on which node returned first.                                              *)
DeterministicCommit == MergeIsDeterministic /\ AllOrNothing

(* What the sink, the store and the caller are told adds up: every execution is    *)
(* numbered once, every checkpoint's counters describe its state, and the one      *)
(* terminal event is the outcome.                                             *)
RunIsAccounted == StepNumbersConsecutive /\ CheckpointCounters /\ OneTerminalEvent

(* Once the token is cancelled or the run deadline has passed, no node starts,     *)
(* nothing is applied to the state, and the run reports neither completion nor     *)
(* suspension.                                                               *)
HaltedStep ==
  cancelled \/ expired =>
    /\ state' = state
    /\ \A i \in DOMAIN events' \ DOMAIN events : events'[i].kind # "NodeStarted"
    /\ result' \in {result, "Stopped", "NodeTimedOut"}

HaltTakesEffect == [][HaltedStep]_vars

(* With a run timeout a run ends, even if a node's future never completes and the  *)
(* store never answers: execute_node and await_run_boundary wait for the deadline   *)
(* as well.  (A node that blocks its thread is outside the model.)                 *)
TimedRunEnds == RunTimeout => <>(pc = "done")
================================================================================
