------------------------------- MODULE ToolBatch -------------------------------
(***************************************************************************)
(* A batch of tool calls: execute_batch_items and execute_prepared of      *)
(* crates/group-agent-tool/src/runtime.rs.                                 *)
(*                                                                         *)
(* All calls are validated first; the valid ones are then scheduled in     *)
(* input order, at most limit at a time, a call that must not overlap      *)
(* alone.  Nothing is spawned: a scheduled call begins when its future is  *)
(* first polled, perhaps after another one has returned.  Under FailFast   *)
(* the first failure stops the scheduling and the scheduled calls are      *)
(* drained.  The caller may drop the batch while it waits.                 *)
(*                                                                         *)
(* Abstracted: a call is valid or not (identifier, tool, arguments and     *)
(* side-effect policy), a result is its kind, and the event sinks together *)
(* accept an event or do not.  A single call is a batch of one.            *)
(***************************************************************************)
EXTENDS Naturals, FiniteSets, Sequences

CONSTANTS
  MaxItems,    \* bound: calls in a batch
  MaxLimit     \* bound: max_concurrency

ASSUME BatchAssumption == MaxItems \in Nat /\ MaxLimit \in Nat

VARIABLES
  config,      \* [items, unique, limit, policy]: what the caller asked for
  pc,          \* where execute_batch_items is
  next,        \* the next call to prepare, then to schedule
  running,     \* calls whose future is in the FuturesUnordered
  exclusive,   \* exclusive_running
  stop,        \* stop_scheduling
  results,     \* call -> result, or "none"
  seen,        \* call -> its events, as the first sink sees them
  observer,    \* calls with a terminal observer failure
  answer       \* what the caller gets

vars == <<config, pc, next, running, exclusive, stop, results, seen, observer,
          answer>>

Item == [valid : BOOLEAN, exclusive : BOOLEAN, timed : BOOLEAN]

Config ==
  [items : UNION {[1..n -> Item] : n \in 0..MaxItems}, unique : BOOLEAN,
   limit : 0..MaxLimit, policy : {"CollectAll", "FailFast"}]

items == config.items
Calls == DOMAIN items

Init ==
  /\ config \in Config
  /\ ~ config.unique => Cardinality(Calls) > 1
  /\ pc = "validate" /\ next = 1
  /\ running = {} /\ exclusive = FALSE /\ stop = FALSE
  /\ results = [i \in Calls |-> "none"]
  /\ seen = [i \in Calls |-> <<>>]
  /\ observer = {}
  /\ answer = "none"

--------------------------------------------------------------------------------
(* Validation, without an await.                                           *)

Refuse ==
  /\ pc = "validate" /\ (config.limit = 0 \/ ~ config.unique)
  /\ pc' = "done"
  /\ answer' = IF config.limit = 0 THEN "ZeroConcurrency" ELSE "DuplicateToolCallId"
  /\ UNCHANGED <<config, next, running, exclusive, stop, results, seen, observer>>

Accept ==
  /\ pc = "validate" /\ config.limit # 0 /\ config.unique
  /\ pc' = "prepare"
  /\ UNCHANGED <<config, next, running, exclusive, stop, results, seen, observer,
                 answer>>

(* A call's result, with the event it emits; the sinks may fail on it, which   *)
(* is noted and changes nothing else.                                       *)
Settle(i, result, event) ==
  /\ results' = [results EXCEPT ![i] = result]
  /\ seen' = [seen EXCEPT ![i] = Append(@, event)]
  /\ observer' \in {observer, observer \cup {i}}

PrepareValid ==
  /\ pc = "prepare" /\ next \in Calls /\ items[next].valid
  /\ next' = next + 1
  /\ UNCHANGED <<config, pc, running, exclusive, stop, results, seen, observer,
                 answer>>

PrepareInvalid ==
  /\ pc = "prepare" /\ next \in Calls /\ ~ items[next].valid
  /\ next' = next + 1
  /\ Settle(next, "Invalid", "ExecutionFailed")
  /\ UNCHANGED <<config, pc, running, exclusive, stop, answer>>

MarkNotStarted ==
  results' = [i \in Calls |-> IF results[i] = "none" THEN "NotStarted" ELSE results[i]]

(* One invalid call keeps a fail-fast batch from starting any.               *)
Prepared ==
  /\ pc = "prepare" /\ next \notin Calls
  /\ IF config.policy = "FailFast" /\ \E i \in Calls : results[i] # "none"
     THEN /\ MarkNotStarted
          /\ pc' = "done" /\ answer' = "Report" /\ next' = next
     ELSE /\ pc' = "schedule" /\ next' = 1
          /\ UNCHANGED <<results, answer>>
  /\ UNCHANGED <<config, running, exclusive, stop, seen, observer>>

--------------------------------------------------------------------------------
(* The scheduling loop, without an await.                                   *)

MaySchedule ==
  /\ ~ stop /\ next \in Calls /\ ~ exclusive
  /\ Cardinality(running) < config.limit

Skip ==
  /\ pc = "schedule" /\ MaySchedule /\ results[next] # "none"
  /\ next' = next + 1
  /\ UNCHANGED <<config, pc, running, exclusive, stop, results, seen, observer,
                 answer>>

(* Mutant of MayStart: a call that must not overlap does not wait.             *)
MayStartAnyTime == TRUE

(* A call that must not overlap waits until nothing runs.                    *)
MayStart == items[next].exclusive => running = {}

Schedule ==
  /\ pc = "schedule" /\ MaySchedule /\ results[next] = "none" /\ MayStart
  /\ running' = running \cup {next}
  /\ exclusive' = items[next].exclusive
  /\ next' = next + 1
  /\ UNCHANGED <<config, pc, stop, results, seen, observer, answer>>

(* The inner loop is left: its condition fails, or a call has to wait.        *)
Break == MaySchedule => results[next] = "none" /\ ~ MayStart

(* If nothing runs although calls are left, the outer loop goes round again.   *)
Await ==
  /\ pc = "schedule" /\ Break
  /\ running = {} => ~ stop /\ next \in Calls
  /\ pc' = IF running = {} THEN "schedule" ELSE "poll"
  /\ UNCHANGED <<config, next, running, exclusive, stop, results, seen, observer,
                 answer>>

(* Mutant of Finish: a stopped batch is not drained.                          *)
FinishUndrained ==
  /\ pc = "schedule" /\ Break
  /\ stop \/ (running = {} /\ next \notin Calls)
  /\ IF stop THEN MarkNotStarted ELSE UNCHANGED results
  /\ pc' = "done" /\ answer' = "Report"
  /\ UNCHANGED <<config, next, running, exclusive, stop, seen, observer>>

Finish ==
  /\ pc = "schedule" /\ Break /\ running = {}
  /\ stop \/ next \notin Calls
  /\ IF stop THEN MarkNotStarted ELSE UNCHANGED results
  /\ pc' = "done" /\ answer' = "Report"
  /\ UNCHANGED <<config, next, running, exclusive, stop, seen, observer>>

--------------------------------------------------------------------------------
(* Polling: the batch waits for the first of its calls to return.            *)

Begun(i) == i \in running /\ seen[i] # <<>>

Begin(i) ==
  /\ pc = "poll" /\ i \in running /\ ~ Begun(i)
  /\ seen' = [seen EXCEPT ![i] = Append(@, "ExecutionStarted")]
  /\ UNCHANGED <<config, pc, next, running, exclusive, stop, results, observer,
                 answer>>

(* Mutants of Collected: only a tool's own error stops the batch, or the call   *)
(* that ran alone still blocks the others.                                  *)
CollectedToolErrors(i, result) ==
  /\ running' = running \ {i}
  /\ exclusive' = FALSE
  /\ stop' = (stop \/ (result = "Failed" /\ config.policy = "FailFast"))
  /\ pc' = "schedule"
  /\ UNCHANGED <<config, next, answer>>

CollectedStillExclusive(i, result) ==
  /\ running' = running \ {i}
  /\ stop' = (stop \/ (result # "Completed" /\ config.policy = "FailFast"))
  /\ pc' = "schedule"
  /\ UNCHANGED <<config, next, exclusive, answer>>

(* The future of a call returns and the loop notes its result.               *)
Collected(i, result) ==
  /\ running' = running \ {i}
  /\ exclusive' = FALSE
  /\ stop' = (stop \/ (result # "Completed" /\ config.policy = "FailFast"))
  /\ pc' = "schedule"
  /\ UNCHANGED <<config, next, answer>>

(* A sink refuses ExecutionStarted: the tool is not called.                  *)
BeginRefused(i) ==
  /\ pc = "poll" /\ i \in running /\ ~ Begun(i)
  /\ seen' = [seen EXCEPT ![i] = Append(@, "ExecutionStarted")]
  /\ results' = [results EXCEPT ![i] = "ObserverFailed"]
  /\ Collected(i, "ObserverFailed")
  /\ UNCHANGED observer

Complete(i) ==
  /\ pc = "poll" /\ Begun(i)
  /\ Settle(i, "Completed", "ExecutionCompleted")
  /\ Collected(i, "Completed")

ToolFails(i) ==
  /\ pc = "poll" /\ Begun(i)
  /\ Settle(i, "Failed", "ExecutionFailed")
  /\ Collected(i, "Failed")

TimeOut(i) ==
  /\ pc = "poll" /\ Begun(i) /\ items[i].timed
  /\ Settle(i, "TimedOut", "ExecutionTimedOut")
  /\ Collected(i, "TimedOut")

(* The caller drops the batch, and with it the futures of its calls.          *)
Drop ==
  /\ pc = "poll"
  /\ pc' = "dropped" /\ running' = {}
  /\ UNCHANGED <<config, next, exclusive, stop, results, seen, observer, answer>>

Ended == pc \in {"done", "dropped"}

Quiet == Ended /\ UNCHANGED vars

(* What the batch does by itself once it is polled.                          *)
BatchStep ==
  \/ Refuse \/ Accept \/ PrepareValid \/ PrepareInvalid \/ Prepared
  \/ Skip \/ Schedule \/ Await \/ Finish
  \/ \E i \in Calls : Begin(i) \/ BeginRefused(i)

Next ==
  \/ BatchStep
  \/ \E i \in Calls : Complete(i) \/ ToolFails(i) \/ TimeOut(i)
  \/ Drop
  \/ Quiet

Spec == Init /\ [][Next]_vars

(* The caller polls the batch and time passes; no tool need ever return.      *)
Fairness == WF_vars(BatchStep) /\ WF_vars(\E i \in Calls : TimeOut(i))

FairSpec == Spec /\ Fairness

--------------------------------------------------------------------------------
(* Properties.                                                             *)

Results == {"none", "Completed", "Failed", "TimedOut", "Invalid",
            "ObserverFailed", "NotStarted"}

ToolEvent == {"ExecutionStarted", "ExecutionCompleted", "ExecutionFailed",
              "ExecutionTimedOut"}

TypeOK ==
  /\ config \in Config
  /\ pc \in {"validate", "prepare", "schedule", "poll", "done", "dropped"}
  /\ next \in Nat \ {0}
  /\ running \subseteq Calls /\ observer \subseteq Calls
  /\ exclusive \in BOOLEAN /\ stop \in BOOLEAN
  /\ results \in [Calls -> Results]
  /\ seen \in [Calls -> Seq(ToolEvent)]

(* Scheduled calls are within max_concurrency, and one whose tool does not     *)
(* allow overlap is scheduled alone, whatever returned or failed before.      *)
OverlapAllowed ==
  /\ Cardinality(running) <= config.limit
  /\ \A i \in running : items[i].exclusive => running = {i}

(* The events of a call that ended with this result.                        *)
EventsOf(result) ==
  CASE result = "Completed" -> <<"ExecutionStarted", "ExecutionCompleted">>
    [] result = "Failed" -> <<"ExecutionStarted", "ExecutionFailed">>
    [] result = "TimedOut" -> <<"ExecutionStarted", "ExecutionTimedOut">>
    [] result = "Invalid" -> <<"ExecutionFailed">>
    [] result = "ObserverFailed" -> <<"ExecutionStarted">>
    [] OTHER -> <<>>

Failures == {"Failed", "TimedOut", "Invalid", "ObserverFailed"}

(* A report has a result for every call, in its position, and each agrees       *)
(* with the events the call emitted: a call that began is drained to its real     *)
(* outcome, and one is reported as not started only if it never began and some    *)
(* other call made a fail-fast batch stop.                                    *)
ReportMatchesFacts ==
  answer = "Report" => \A i \in Calls :
    /\ results[i] # "none" /\ seen[i] = EventsOf(results[i])
    /\ results[i] = "NotStarted" =>
         config.policy = "FailFast" /\ \E j \in Calls : results[j] \in Failures

(* Once a fail-fast batch has a failed call, it schedules no other.            *)
FailFastStep ==
  config.policy = "FailFast" /\ (\E i \in Calls : results[i] \in Failures)
    => running' \subseteq running

FailFastStops == [][FailFastStep]_vars

(* A batch whose calls all have a timeout ends, although no tool ever returns:   *)
(* the scheduling loop neither spins nor waits for a call it has not scheduled.  *)
BatchEnds == (\A i \in Calls : items[i].timed) => <>Ended
================================================================================
