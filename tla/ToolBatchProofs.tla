---------------------------- MODULE ToolBatchProofs ----------------------------
(***************************************************************************)
(* Theorems about ToolBatch, for batches and limits of any size.           *)
(*                                                                         *)
(* IInv is inductive.  OverlapAllowed needs to know what exclusive_running *)
(* stands for (ExclusiveFlag); ReportMatchesFacts needs to know where a    *)
(* call without a result can be (Scheduled), what it has emitted (Facts),  *)
(* and what stop_scheduling stands for (StopFlag).                         *)
(***************************************************************************)
EXTENDS ToolBatch, FiniteSetTheorems, SequenceTheorems, TLAPS

Active == pc \in {"schedule", "poll"}

(* While nothing is scheduled nothing runs; afterwards every call before next  *)
(* runs or has a result, and no other has been scheduled.                     *)
Scheduled ==
  /\ ~ Active => running = {}
  /\ \A i \in running : i < next /\ results[i] = "none"
  /\ Active => \A i \in Calls : i < next => i \in running \/ results[i] # "none"

(* exclusive_running holds exactly while a call that must not overlap runs,    *)
(* and then it is alone.                                                     *)
ExclusiveFlag ==
  /\ \A i \in running : items[i].exclusive => exclusive
  /\ exclusive /\ Active => \E i \in Calls : running = {i}

WithinLimit == IsFiniteSet(running) /\ Cardinality(running) <= config.limit

(* A result agrees with the call's events, and only a running call has begun   *)
(* without a result.  Before the scheduling, only invalid calls have one.       *)
Facts ==
  /\ \A i \in Calls : results[i] # "none" => seen[i] = EventsOf(results[i])
  /\ \A i \in Calls : results[i] = "none" =>
       \/ seen[i] = <<>>
       \/ seen[i] = <<"ExecutionStarted">> /\ pc \in {"schedule", "poll", "dropped"}
  /\ Active => \A i \in Calls : results[i] = "none" /\ seen[i] # <<>> => i \in running
  /\ pc # "done" => \A i \in Calls : results[i] # "NotStarted"
  /\ pc \in {"validate", "prepare"} =>
       \A i \in Calls : results[i] # "none" => i < next /\ results[i] = "Invalid"

(* stop_scheduling is set exactly when a fail-fast batch has a failed call.    *)
StopFlag ==
  /\ stop => config.policy = "FailFast" /\ \E j \in Calls : results[j] \in Failures
  /\ Active /\ config.policy = "FailFast" /\ (\E j \in Calls : results[j] \in Failures)
       => stop
  /\ pc \in {"validate", "prepare"} => ~ stop /\ ~ exclusive

(* A limit of zero is refused.                                              *)
Limited == pc \in {"prepare", "schedule", "poll"} => config.limit # 0

Reported == answer = "Report" => pc = "done"

IInv ==
  /\ TypeOK /\ Scheduled /\ ExclusiveFlag /\ WithinLimit /\ Facts /\ StopFlag
  /\ Limited /\ Reported /\ ReportMatchesFacts
--------------------------------------------------------------------------------
(* Facts used by every step.                                               *)

LEMMA CallsType ==
  ASSUME config \in Config
  PROVE  /\ \E n \in Nat : Calls = 1..n /\ items \in [1..n -> Item]
         /\ config.limit \in Nat
         /\ \A i \in Calls : /\ items[i].exclusive \in BOOLEAN
                             /\ items[i].valid \in BOOLEAN
<1>1. PICK n \in 0..MaxItems : items \in [1..n -> Item]
  BY DEF Config, items
<1>2. n \in Nat /\ config.limit \in Nat
  BY BatchAssumption DEF Config
<1>3. Calls = 1..n
  BY <1>1 DEF Calls
<1> QED BY <1>1, <1>2, <1>3 DEF Item

LEMMA RunningBounds ==
  ASSUME NEW S, IsFiniteSet(S), NEW x
  PROVE  /\ Cardinality(S) \in Nat
         /\ IsFiniteSet(S \cup {x}) /\ Cardinality(S \cup {x}) <= Cardinality(S) + 1
         /\ IsFiniteSet(S \ {x}) /\ Cardinality(S \ {x}) <= Cardinality(S)
<1>1. Cardinality(S) \in Nat
  BY FS_CardinalityType
<1>2. /\ IsFiniteSet(S \cup {x})
      /\ Cardinality(S \cup {x}) = IF x \in S THEN Cardinality(S) ELSE Cardinality(S) + 1
  BY FS_AddElement
<1>3. /\ IsFiniteSet(S \ {x})
      /\ Cardinality(S \ {x}) = IF x \in S THEN Cardinality(S) - 1 ELSE Cardinality(S)
  BY FS_RemoveElement
<1> QED BY <1>1, <1>2, <1>3

LEMMA EmptyBounds == IsFiniteSet({}) /\ Cardinality({}) = 0
BY FS_EmptySet

LEMMA InitInv == Init => IInv
<1> SUFFICES ASSUME Init PROVE IInv
  OBVIOUS
<1>1. TypeOK
  <2>1. results \in [Calls -> Results]
    BY DEF Init, Results
  <2>2. seen \in [Calls -> Seq(ToolEvent)]
    BY DEF Init
  <2>3. exclusive \in BOOLEAN /\ stop \in BOOLEAN
    BY Zenon DEF Init
  <2>4. next \in Nat \ {0}
    BY DEF Init
  <2>5. /\ running \subseteq Calls /\ observer \subseteq Calls /\ config \in Config
        /\ pc \in {"validate", "prepare", "schedule", "poll", "done", "dropped"}
    BY DEF Init
  <2> QED BY <2>1, <2>2, <2>3, <2>4, <2>5 DEF TypeOK
<1>2. config.limit \in Nat
  BY <1>1, CallsType DEF TypeOK
<1>3. WithinLimit
  BY <1>2, EmptyBounds DEF Init, WithinLimit
<1>4. Scheduled /\ ExclusiveFlag /\ StopFlag /\ Limited /\ Reported /\ ReportMatchesFacts
  BY DEF Init, Scheduled, ExclusiveFlag, StopFlag, Limited, Reported, ReportMatchesFacts, Active
<1>5. Facts
  BY DEF Init, Facts, Active
<1> QED BY <1>1, <1>3, <1>4, <1>5 DEF IInv

(* The steps that leave the results, the events and the running calls alone.  *)
LEMMA QuietSteps ==
  ASSUME IInv, Refuse \/ Accept \/ PrepareValid \/ Skip \/ Await \/ UNCHANGED vars
  PROVE  IInv'
<1> USE DEF IInv, Calls, items
<1>1. /\ config' = config /\ running' = running /\ results' = results /\ seen' = seen
      /\ observer' = observer /\ exclusive' = exclusive /\ stop' = stop
  BY DEF Refuse, Accept, PrepareValid, Skip, Await, vars
<1>2. /\ next \in Nat \ {0} /\ next' \in {next, next + 1}
      /\ \A i \in Calls : i \in Nat
  BY CallsType DEF Refuse, Accept, PrepareValid, Skip, Await, vars, TypeOK
<1>3. TypeOK'
  BY <1>1, <1>2 DEF TypeOK, Refuse, Accept, PrepareValid, Skip, Await, vars
<1>4. Scheduled'
  <2>1. \A i \in Calls : i < next => i < next'
    BY <1>2
  <2>2. \A i \in running : i < next' /\ results[i] = "none"
    BY <1>2, <2>1 DEF Scheduled, TypeOK
  <2>3. CASE next' = next
    BY <1>1, <2>3 DEF Scheduled, Active, Refuse, Accept, PrepareValid, Skip, Await, vars
  <2>4. CASE next' = next + 1 /\ PrepareValid
    BY <1>1, <2>2, <2>4 DEF Scheduled, Active, PrepareValid
  <2>5. CASE next' = next + 1 /\ Skip
    <3>1. \A i \in Calls : i < next + 1 => i < next \/ i = next
      BY <1>2
    <3> QED BY <1>1, <2>2, <2>5, <3>1 DEF Scheduled, Active, Skip
  <2> QED BY <1>2, <2>3, <2>4, <2>5 DEF Refuse, Accept, PrepareValid, Skip, Await, vars
<1>5. ExclusiveFlag' /\ WithinLimit'
  BY <1>1 DEF ExclusiveFlag, WithinLimit, Scheduled, Active, Refuse, Accept,
              PrepareValid, Skip, Await, vars
<1>6. Facts'
  <2>1. \A i \in Calls : i < next => i < next'
    BY <1>2
  <2> QED
    BY <1>1, <2>1 DEF Facts, Active, Refuse, Accept, PrepareValid, Skip, Await, vars
<1>7. StopFlag' /\ Limited' /\ Reported' /\ ReportMatchesFacts'
  BY <1>1 DEF StopFlag, Limited, Reported, ReportMatchesFacts, Active, Refuse, Accept,
              PrepareValid, Skip, Await, vars
<1> QED BY <1>3, <1>4, <1>5, <1>6, <1>7

--------------------------------------------------------------------------------
(* The steps that settle a call.                                            *)

(* An invalid call.                                                        *)
LEMMA PrepareInvalidStep ==
  ASSUME IInv, PrepareInvalid
  PROVE  IInv'
<1> USE DEF IInv, Calls, items
<1>1. /\ pc = "prepare" /\ pc' = pc /\ next \in Calls /\ next' = next + 1
      /\ results' = [results EXCEPT ![next] = "Invalid"]
      /\ seen' = [seen EXCEPT ![next] = Append(@, "ExecutionFailed")]
      /\ observer' \in {observer, observer \cup {next}}
      /\ config' = config /\ running' = running /\ exclusive' = exclusive
      /\ stop' = stop /\ answer' = answer
  BY DEF PrepareInvalid, Settle
<1>2. next \in Nat \ {0} /\ \A i \in Calls : i \in Nat
  BY CallsType DEF TypeOK
<1>3. TypeOK'
  <2>1. results' \in [Calls -> Results]
    BY <1>1 DEF TypeOK, Results
  <2>2. seen' \in [Calls -> Seq(ToolEvent)]
    <3>1. Append(seen[next], "ExecutionFailed") \in Seq(ToolEvent)
      BY <1>1, AppendProperties DEF TypeOK, ToolEvent
    <3> QED BY <1>1, <3>1 DEF TypeOK
  <2> QED BY <1>1, <1>2, <2>1, <2>2 DEF TypeOK
<1>4. /\ results[next] = "none" /\ seen[next] = <<>>
  BY <1>1, <1>2 DEF Facts
<1>5. Scheduled' /\ ExclusiveFlag' /\ WithinLimit' /\ StopFlag' /\ Limited' /\ Reported' /\ ReportMatchesFacts'
  BY <1>1 DEF Scheduled, ExclusiveFlag, WithinLimit, StopFlag, Limited, Reported,
              ReportMatchesFacts, Active
<1>6. Facts'
  <2>1. seen'[next] = EventsOf("Invalid") /\ results'[next] = "Invalid"
    BY <1>1, <1>4 DEF TypeOK, EventsOf
  <2>2. \A i \in Calls : i # next => results'[i] = results[i] /\ seen'[i] = seen[i]
    BY <1>1 DEF TypeOK
  <2>3. next < next' /\ \A i \in Calls : i < next => i < next'
    BY <1>1, <1>2
  <2> QED BY <1>1, <2>1, <2>2, <2>3 DEF Facts, Active
<1> QED BY <1>3, <1>5, <1>6

(* Every call that has no result is reported as not started.                *)
LEMMA MarkNotStartedType ==
  ASSUME TypeOK, MarkNotStarted, config' = config
  PROVE  /\ results' \in [Calls -> Results]
         /\ \A i \in Calls :
              results'[i] = IF results[i] = "none" THEN "NotStarted" ELSE results[i]
BY DEF MarkNotStarted, TypeOK, Results

LEMMA PreparedStep ==
  ASSUME IInv, Prepared
  PROVE  IInv'
<1> USE DEF IInv, Calls, items
<1>1. /\ pc = "prepare" /\ next \notin Calls /\ config' = config /\ running' = running
      /\ exclusive' = exclusive /\ stop' = stop /\ seen' = seen /\ observer' = observer
  BY DEF Prepared
<1>2. next \in Nat \ {0} /\ \A i \in Calls : i \in Nat /\ i > 0
  BY CallsType DEF TypeOK
<1>3. CASE config.policy = "FailFast" /\ \E i \in Calls : results[i] # "none"
  <2>1. MarkNotStarted /\ pc' = "done" /\ answer' = "Report" /\ next' = next
    BY <1>3 DEF Prepared
  <2>2. /\ results' \in [Calls -> Results]
        /\ \A i \in Calls :
             results'[i] = IF results[i] = "none" THEN "NotStarted" ELSE results[i]
    BY <1>1, <2>1, MarkNotStartedType
  <2>3. TypeOK'
    BY <1>1, <2>1, <2>2 DEF TypeOK
  <2>4. PICK j \in Calls : results[j] # "none"
    BY <1>3
  <2>5. results[j] = "Invalid" /\ results'[j] \in Failures
    BY <1>1, <2>2, <2>4 DEF Facts, Failures
  <2>6. \A i \in Calls : results'[i] # "none" /\ seen'[i] = EventsOf(results'[i])
    BY <1>1, <2>2 DEF Facts, EventsOf
  <2>7. ReportMatchesFacts'
    BY <1>1, <1>3, <2>5, <2>6 DEF ReportMatchesFacts
  <2>8. Facts'
    BY <2>1, <2>6, <1>1 DEF Facts, Active
  <2> QED
    BY <1>1, <2>1, <2>3, <2>7, <2>8 DEF Scheduled, ExclusiveFlag, WithinLimit,
       StopFlag, Limited, Reported, Active
<1>4. CASE ~ (config.policy = "FailFast" /\ \E i \in Calls : results[i] # "none")
  <2>1. pc' = "schedule" /\ next' = 1 /\ results' = results /\ answer' = answer
    BY <1>4 DEF Prepared
  <2>2. TypeOK'
    BY <1>1, <2>1 DEF TypeOK
  <2>3. config.limit # 0
    BY <1>1 DEF Limited
  <2> QED
    BY <1>1, <1>2, <1>4, <2>1, <2>2, <2>3 DEF Scheduled, ExclusiveFlag, WithinLimit,
       Facts, StopFlag, Limited, Reported, ReportMatchesFacts, Active, Failures
<1> QED BY <1>3, <1>4

LEMMA FinishStep ==
  ASSUME IInv, Finish
  PROVE  IInv'
<1> USE DEF IInv, Calls, items
<1>1. /\ pc = "schedule" /\ pc' = "done" /\ running = {} /\ answer' = "Report"
      /\ stop \/ next \notin Calls
      /\ config' = config /\ running' = running /\ exclusive' = exclusive
      /\ next' = next /\ stop' = stop /\ seen' = seen /\ observer' = observer
  BY DEF Finish
<1>2. CASE stop
  <2>1. /\ results' \in [Calls -> Results]
        /\ \A i \in Calls :
             results'[i] = IF results[i] = "none" THEN "NotStarted" ELSE results[i]
    BY <1>1, <1>2, MarkNotStartedType DEF Finish
  <2>2. PICK j \in Calls : results[j] \in Failures
    BY <1>2 DEF StopFlag
  <2>3. config.policy = "FailFast" /\ results'[j] \in Failures
    BY <1>2, <2>1, <2>2 DEF StopFlag, Failures
  <2>4. \A i \in Calls : results'[i] # "none" /\ seen'[i] = EventsOf(results'[i])
    BY <1>1, <2>1 DEF Facts, EventsOf, Active
  <2>5. TypeOK'
    BY <1>1, <2>1 DEF TypeOK
  <2>6. ReportMatchesFacts' /\ StopFlag'
    BY <1>1, <2>3, <2>4 DEF ReportMatchesFacts, StopFlag, Active
  <2>7. Facts'
    BY <1>1, <2>4 DEF Facts, Active
  <2> QED
    BY <1>1, <2>5, <2>6, <2>7 DEF Scheduled, ExclusiveFlag, WithinLimit, Limited,
       Reported, Active
<1>3. CASE ~ stop
  <2>1. results' = results /\ next \notin Calls
    BY <1>1, <1>3 DEF Finish
  <2>2. \A i \in Calls : i < next
    <3>1. PICK n \in Nat : Calls = 1..n
      BY CallsType DEF TypeOK
    <3> HIDE DEF Calls
    <3> QED BY <2>1, <3>1 DEF TypeOK
  <2>3. \A i \in Calls : results[i] # "none" /\ results[i] # "NotStarted"
    BY <1>1, <2>2 DEF Scheduled, Facts, Active
  <2>4. ReportMatchesFacts'
    BY <1>1, <2>1, <2>3 DEF ReportMatchesFacts, Facts
  <2>5. Facts'
    BY <1>1, <2>1, <2>3 DEF Facts, Active
  <2> QED
    BY <1>1, <2>1, <2>4, <2>5 DEF TypeOK, Scheduled, ExclusiveFlag, WithinLimit,
       StopFlag, Limited, Reported, Active
<1> QED BY <1>2, <1>3

LEMMA ScheduleStep ==
  ASSUME IInv, Schedule
  PROVE  IInv'
<1> USE DEF IInv, Calls, items
<1>1. /\ pc = "schedule" /\ pc' = pc /\ next \in Calls /\ results[next] = "none"
      /\ ~ stop /\ ~ exclusive /\ Cardinality(running) < config.limit
      /\ items[next].exclusive => running = {}
      /\ running' = running \cup {next} /\ exclusive' = items[next].exclusive
      /\ next' = next + 1 /\ config' = config /\ stop' = stop /\ results' = results
      /\ seen' = seen /\ observer' = observer /\ answer' = answer
  BY DEF Schedule, MaySchedule, MayStart
<1>2. next \in Nat \ {0} /\ (\A i \in Calls : i \in Nat) /\ config.limit \in Nat
  BY CallsType DEF TypeOK
<1>3. TypeOK'
  <2>1. exclusive' \in BOOLEAN
    BY <1>1, CallsType DEF TypeOK
  <2> QED BY <1>1, <1>2, <2>1 DEF TypeOK
<1>4. Scheduled'
  <2>1. \A i \in Calls : i < next + 1 <=> i < next \/ i = next
    BY <1>2
  <2> QED BY <1>1, <2>1 DEF Scheduled, Active, TypeOK
<1>5. ExclusiveFlag'
  <2>1. \A i \in running : ~ items[i].exclusive
    BY <1>1 DEF ExclusiveFlag
  <2> QED BY <1>1, <2>1 DEF ExclusiveFlag, Active
<1>6. WithinLimit'
  <2>1. /\ Cardinality(running) \in Nat
        /\ IsFiniteSet(running \cup {next})
        /\ Cardinality(running \cup {next}) <= Cardinality(running) + 1
    BY RunningBounds DEF WithinLimit
  <2>2. Cardinality(running \cup {next}) \in Nat
    BY <2>1, FS_CardinalityType
  <2> QED BY <1>1, <1>2, <2>1, <2>2 DEF WithinLimit
<1>7. Facts' /\ StopFlag' /\ Limited' /\ Reported' /\ ReportMatchesFacts'
  BY <1>1 DEF Facts, StopFlag, Limited, Reported, ReportMatchesFacts, Active
<1> QED BY <1>3, <1>4, <1>5, <1>6, <1>7

LEMMA BeginStep ==
  ASSUME IInv, NEW i \in Calls, Begin(i)
  PROVE  IInv'
<1> USE DEF IInv, Calls, items
<1>1. /\ pc = "poll" /\ pc' = pc /\ i \in running /\ seen[i] = <<>>
      /\ seen' = [seen EXCEPT ![i] = Append(@, "ExecutionStarted")]
      /\ config' = config /\ running' = running /\ exclusive' = exclusive
      /\ next' = next /\ stop' = stop /\ results' = results
      /\ observer' = observer /\ answer' = answer
  BY DEF Begin, Begun
<1>2. seen' \in [Calls -> Seq(ToolEvent)]
  <2>1. Append(seen[i], "ExecutionStarted") \in Seq(ToolEvent)
    BY <1>1, AppendProperties DEF TypeOK, ToolEvent
  <2> QED BY <1>1, <2>1 DEF TypeOK
<1>3. TypeOK'
  BY <1>1, <1>2 DEF TypeOK
<1>4. /\ seen'[i] = <<"ExecutionStarted">> /\ results[i] = "none"
      /\ \A j \in Calls : j # i => seen'[j] = seen[j]
  BY <1>1 DEF TypeOK, Scheduled
<1>5. Facts'
  BY <1>1, <1>4 DEF Facts, Active
<1>6. /\ Scheduled' /\ ExclusiveFlag' /\ WithinLimit' /\ StopFlag' /\ Limited' /\ Reported'
      /\ ReportMatchesFacts'
  BY <1>1 DEF Scheduled, ExclusiveFlag, WithinLimit, StopFlag, Limited, Reported,
              ReportMatchesFacts, Active
<1> QED BY <1>3, <1>5, <1>6

(* The future of a call returns, with a result whose events it has emitted.   *)
LEMMA CollectedStep ==
  ASSUME IInv, NEW i \in Calls, NEW r \in Failures \cup {"Completed"}, r # "Invalid",
         pc = "poll", i \in running, Collected(i, r),
         results' = [results EXCEPT ![i] = r],
         seen' \in [Calls -> Seq(ToolEvent)], seen'[i] = EventsOf(r),
         \A j \in Calls : j # i => seen'[j] = seen[j],
         observer' \subseteq Calls
  PROVE  IInv'
<1> USE DEF IInv, Calls, items
<1>1. /\ pc' = "schedule" /\ running' = running \ {i} /\ exclusive' = FALSE
      /\ stop' = (stop \/ (r # "Completed" /\ config.policy = "FailFast"))
      /\ config' = config /\ next' = next /\ answer' = answer
  BY DEF Collected
<1>2. /\ results' \in [Calls -> Results] /\ results'[i] = r
      /\ \A j \in Calls : j # i => results'[j] = results[j]
  BY DEF TypeOK, Results, Failures
<1>3. TypeOK'
  <2>1. exclusive' \in BOOLEAN /\ stop' \in BOOLEAN
    BY <1>1, Zenon DEF TypeOK
  <2> QED BY <1>1, <1>2, <2>1 DEF TypeOK
<1>4. r # "none" /\ r # "NotStarted" /\ answer # "Report"
  BY DEF Failures, Reported
<1>5. Scheduled'
  BY <1>1, <1>2, <1>4 DEF Scheduled, Active, TypeOK
<1>6. ExclusiveFlag'
  <2>1. \A j \in running' : ~ items[j].exclusive
    BY <1>1 DEF ExclusiveFlag, Active
  <2> QED BY <1>1, <2>1 DEF ExclusiveFlag
<1>7. WithinLimit'
  <2>1. /\ Cardinality(running) \in Nat /\ config.limit \in Nat
        /\ IsFiniteSet(running \ {i})
        /\ Cardinality(running \ {i}) <= Cardinality(running)
    BY RunningBounds, CallsType DEF WithinLimit, TypeOK
  <2>2. Cardinality(running \ {i}) \in Nat
    BY <2>1, FS_CardinalityType
  <2> QED BY <1>1, <2>1, <2>2 DEF WithinLimit
<1>8. Facts'
  <2>1. \A j \in Calls : results'[j] # "none" => seen'[j] = EventsOf(results'[j])
    BY <1>2 DEF Facts
  <2>2. \A j \in Calls : results'[j] = "none" =>
          /\ seen'[j] = <<>> \/ seen'[j] = <<"ExecutionStarted">>
          /\ seen'[j] # <<>> => j \in running'
    BY <1>1, <1>2, <1>4 DEF Facts, Active
  <2> QED BY <1>1, <1>2, <1>4, <2>1, <2>2 DEF Facts, Active
<1>9. StopFlag'
  <2>1. r \in Failures <=> r # "Completed"
    BY DEF Failures
  <2>2. stop' <=> stop \/ (r # "Completed" /\ config.policy = "FailFast")
    BY <1>1
  <2>3. stop' => /\ config.policy = "FailFast"
                 /\ \E j \in Calls : results'[j] \in Failures
    <3>1. CASE stop
      <4>1. PICK j \in Calls : results[j] \in Failures
        BY <3>1 DEF StopFlag
      <4>2. j # i
        BY <4>1 DEF Scheduled, Failures
      <4> QED BY <1>2, <3>1, <4>1, <4>2 DEF StopFlag
    <3>2. CASE r # "Completed" /\ config.policy = "FailFast"
      BY <1>2, <2>1, <3>2
    <3> QED BY <2>2, <3>1, <3>2
  <2>4. config.policy = "FailFast" /\ (\E j \in Calls : results'[j] \in Failures)
          => stop'
    BY <1>2, <2>1, <2>2 DEF StopFlag, Active
  <2> QED BY <1>1, <2>3, <2>4 DEF StopFlag, Active
<1>10. Limited' /\ Reported' /\ ReportMatchesFacts'
  BY <1>1, <1>4 DEF Limited, Reported, ReportMatchesFacts
<1> QED BY <1>3, <1>5, <1>6, <1>7, <1>8, <1>9, <1>10

(* A call that has begun has emitted ExecutionStarted and nothing else.        *)
LEMMA BegunSeen ==
  ASSUME IInv, NEW i \in Calls, pc = "poll", Begun(i)
  PROVE  i \in running /\ seen[i] = <<"ExecutionStarted">>
BY DEF IInv, Begun, Scheduled, Facts

(* What Settle does to the events of a call that has begun.                    *)
LEMMA SettledEvents ==
  ASSUME IInv, NEW i \in Calls, pc = "poll", Begun(i), NEW e \in ToolEvent,
         NEW r, Settle(i, r, e)
  PROVE  /\ results' = [results EXCEPT ![i] = r]
         /\ seen' \in [Calls -> Seq(ToolEvent)]
         /\ seen'[i] = <<"ExecutionStarted", e>>
         /\ \A j \in Calls : j # i => seen'[j] = seen[j]
         /\ observer' \subseteq Calls
<1>1. seen[i] = <<"ExecutionStarted">> /\ seen \in [Calls -> Seq(ToolEvent)]
  BY BegunSeen DEF IInv, TypeOK
<1>2. /\ seen' = [seen EXCEPT ![i] = Append(@, e)]
      /\ observer' \in {observer, observer \cup {i}}
      /\ results' = [results EXCEPT ![i] = r]
  BY DEF Settle
<1>3. Append(seen[i], e) \in Seq(ToolEvent)
  BY <1>1, AppendProperties
<1>4. Append(seen[i], e) = <<"ExecutionStarted", e>>
  <2>1. <<"ExecutionStarted">> \in Seq(ToolEvent) /\ Len(<<"ExecutionStarted">>) = 1
    BY DEF ToolEvent
  <2>2. /\ Len(Append(<<"ExecutionStarted">>, e)) = 2
        /\ Append(<<"ExecutionStarted">>, e)[1] = "ExecutionStarted"
        /\ Append(<<"ExecutionStarted">>, e)[2] = e
        /\ Append(<<"ExecutionStarted">>, e) \in Seq(ToolEvent)
    BY <2>1, AppendProperties
  <2>3. <<"ExecutionStarted", e>> \in Seq(ToolEvent)
    BY DEF ToolEvent
  <2> DEFINE a == Append(<<"ExecutionStarted">>, e)
             b == <<"ExecutionStarted", e>>
  <2>4. Len(b) = 2 /\ b[1] = "ExecutionStarted" /\ b[2] = e
    OBVIOUS
  <2>5. Len(a) = Len(b) /\ a \in Seq(ToolEvent) /\ b \in Seq(ToolEvent)
    BY <2>2, <2>3, <2>4
  <2>6. \A j \in 1..Len(a) : a[j] = b[j]
    BY <2>2, <2>4
  <2>7. a = b
    <3> HIDE DEF a, b
    <3> QED BY <2>5, <2>6, SeqEqual
  <2> QED BY <1>1, <2>7
<1>5. seen' \in [Calls -> Seq(ToolEvent)] /\ seen'[i] = Append(seen[i], e)
  BY <1>1, <1>2, <1>3
<1> QED BY <1>1, <1>2, <1>4, <1>5 DEF IInv, TypeOK

LEMMA CallReturns ==
  ASSUME IInv, NEW i \in Calls,
         Complete(i) \/ ToolFails(i) \/ TimeOut(i) \/ BeginRefused(i)
  PROVE  IInv'
<1>1. CASE Complete(i)
  <2>1. /\ pc = "poll" /\ Begun(i) /\ Collected(i, "Completed")
        /\ Settle(i, "Completed", "ExecutionCompleted")
    BY <1>1 DEF Complete
  <2>2. EventsOf("Completed") = <<"ExecutionStarted", "ExecutionCompleted">>
    BY DEF EventsOf
  <2>3. "ExecutionCompleted" \in ToolEvent
    BY DEF ToolEvent
  <2> QED BY <2>1, <2>2, <2>3, BegunSeen, SettledEvents, CollectedStep
<1>2. CASE ToolFails(i)
  <2>1. /\ pc = "poll" /\ Begun(i) /\ Collected(i, "Failed")
        /\ Settle(i, "Failed", "ExecutionFailed")
    BY <1>2 DEF ToolFails
  <2>2. EventsOf("Failed") = <<"ExecutionStarted", "ExecutionFailed">>
    BY DEF EventsOf
  <2>3. "ExecutionFailed" \in ToolEvent /\ "Failed" \in Failures
    BY DEF ToolEvent, Failures
  <2> QED BY <2>1, <2>2, <2>3, BegunSeen, SettledEvents, CollectedStep
<1>3. CASE TimeOut(i)
  <2>1. /\ pc = "poll" /\ Begun(i) /\ Collected(i, "TimedOut")
        /\ Settle(i, "TimedOut", "ExecutionTimedOut")
    BY <1>3 DEF TimeOut
  <2>2. EventsOf("TimedOut") = <<"ExecutionStarted", "ExecutionTimedOut">>
    BY DEF EventsOf
  <2>3. "ExecutionTimedOut" \in ToolEvent /\ "TimedOut" \in Failures
    BY DEF ToolEvent, Failures
  <2> QED BY <2>1, <2>2, <2>3, BegunSeen, SettledEvents, CollectedStep
<1>4. CASE BeginRefused(i)
  <2>1. /\ pc = "poll" /\ i \in running /\ seen[i] = <<>>
        /\ Collected(i, "ObserverFailed")
        /\ seen' = [seen EXCEPT ![i] = Append(@, "ExecutionStarted")]
        /\ results' = [results EXCEPT ![i] = "ObserverFailed"]
        /\ observer' = observer
    BY <1>4 DEF BeginRefused, Begun
  <2>2. seen \in [Calls -> Seq(ToolEvent)] /\ observer' \subseteq Calls
    BY <2>1 DEF IInv, TypeOK
  <2>3. Append(seen[i], "ExecutionStarted") \in Seq(ToolEvent)
    BY <2>2, AppendProperties DEF ToolEvent
  <2>4. /\ seen' \in [Calls -> Seq(ToolEvent)]
        /\ seen'[i] = Append(seen[i], "ExecutionStarted")
        /\ \A j \in Calls : j # i => seen'[j] = seen[j]
    BY <2>1, <2>2, <2>3
  <2>5. seen'[i] = EventsOf("ObserverFailed")
    BY <2>1, <2>4 DEF EventsOf
  <2>6. "ObserverFailed" \in Failures
    BY DEF Failures
  <2> QED BY <2>1, <2>2, <2>4, <2>5, <2>6, CollectedStep
<1> QED BY <1>1, <1>2, <1>3, <1>4

LEMMA DropStep ==
  ASSUME IInv, Drop
  PROVE  IInv'
<1> USE DEF IInv, Calls, items
<1>1. /\ pc = "poll" /\ pc' = "dropped" /\ running' = {}
      /\ config' = config /\ exclusive' = exclusive /\ next' = next
      /\ stop' = stop /\ results' = results /\ seen' = seen
      /\ observer' = observer /\ answer' = answer
  BY DEF Drop
<1>2. config.limit \in Nat
  BY CallsType DEF TypeOK
<1>3. WithinLimit'
  BY <1>1, <1>2, EmptyBounds DEF WithinLimit
<1>4. TypeOK' /\ Scheduled' /\ ExclusiveFlag'
  BY <1>1 DEF TypeOK, Scheduled, ExclusiveFlag, Active
<1>5. Facts' /\ StopFlag' /\ Limited' /\ Reported' /\ ReportMatchesFacts'
  BY <1>1 DEF Facts, StopFlag, Limited, Reported, ReportMatchesFacts, Active
<1> QED BY <1>3, <1>4, <1>5

LEMMA NextInv == IInv /\ [Next]_vars => IInv'
<1> SUFFICES ASSUME IInv, [Next]_vars PROVE IInv'
  OBVIOUS
<1>1. CASE Refuse \/ Accept \/ PrepareValid \/ Skip \/ Await \/ Quiet \/ UNCHANGED vars
  BY <1>1, QuietSteps DEF Quiet
<1>2. CASE PrepareInvalid
  BY <1>2, PrepareInvalidStep
<1>3. CASE Prepared
  BY <1>3, PreparedStep
<1>4. CASE Schedule
  BY <1>4, ScheduleStep
<1>5. CASE Finish
  BY <1>5, FinishStep
<1>6. CASE \E i \in Calls : Begin(i)
  BY <1>6, BeginStep
<1>7. CASE \E i \in Calls : Complete(i) \/ ToolFails(i) \/ TimeOut(i) \/ BeginRefused(i)
  BY <1>7, CallReturns
<1>8. CASE Drop
  BY <1>8, DropStep
<1> QED
  BY <1>1, <1>2, <1>3, <1>4, <1>5, <1>6, <1>7, <1>8 DEF Next, BatchStep

--------------------------------------------------------------------------------
(* The theorems.                                                           *)

(* IInv holds in every state of every batch.                                *)
THEOREM BatchInvariant == Spec => []IInv
BY InitInv, NextInv, PTL DEF Spec

(* The scheduler of execute_batch_items keeps its variables well typed.       *)
THEOREM BatchTypeCorrect == Spec => []TypeOK
<1>1. IInv => TypeOK
  BY DEF IInv
<1> QED BY <1>1, BatchInvariant, PTL

(* However many calls a batch has and in whatever order they return, the        *)
(* scheduler keeps to max_concurrency and runs a call that must not overlap      *)
(* alone.                                                                   *)
THEOREM OverlapIsAllowed == Spec => []OverlapAllowed
<1>1. IInv => OverlapAllowed
  <2> SUFFICES ASSUME IInv PROVE OverlapAllowed
    OBVIOUS
  <2>1. Cardinality(running) <= config.limit
    BY DEF IInv, WithinLimit
  <2>2. ASSUME NEW i \in running, items[i].exclusive
        PROVE  running = {i}
    <3>1. exclusive /\ Active
      BY <2>2 DEF IInv, ExclusiveFlag, Scheduled
    <3>2. PICK j \in Calls : running = {j}
      BY <3>1 DEF IInv, ExclusiveFlag
    <3> QED BY <2>2, <3>2
  <2> QED BY <2>1, <2>2 DEF OverlapAllowed
<1> QED BY <1>1, BatchInvariant, PTL

(* A report has a result for every call, and every result tells what happened     *)
(* to the call: none that began is reported as not started.                      *)
THEOREM ReportIsFactual == Spec => []ReportMatchesFacts
<1>1. IInv => ReportMatchesFacts
  BY DEF IInv
<1> QED BY <1>1, BatchInvariant, PTL

(* After the first failure a fail-fast batch schedules nothing.                 *)
THEOREM FailFastIsFinal == Spec => FailFastStops
<1>1. IInv /\ [Next]_vars => [FailFastStep]_vars
  <2> SUFFICES ASSUME IInv, Next,
                      config.policy = "FailFast", \E i \in Calls : results[i] \in Failures
               PROVE  running' \subseteq running
    BY DEF FailFastStep
  <2>1. ~ Schedule
    BY DEF IInv, StopFlag, Active, Schedule, MaySchedule
  <2>2. CASE \E i \in Calls : Complete(i) \/ ToolFails(i) \/ TimeOut(i) \/ BeginRefused(i)
    BY <2>2 DEF Complete, ToolFails, TimeOut, BeginRefused, Collected
  <2>3. CASE \/ Refuse \/ Accept \/ PrepareValid \/ PrepareInvalid \/ Prepared \/ Skip
             \/ Await \/ Finish \/ Drop \/ Quiet \/ \E i \in Calls : Begin(i)
    BY <2>3 DEF Refuse, Accept, PrepareValid, PrepareInvalid, Prepared, Skip, Await,
                Finish, Drop, Quiet, Begin, vars
  <2> QED BY <2>1, <2>2, <2>3 DEF Next, BatchStep
<1> QED BY <1>1, BatchInvariant, PTL DEF Spec, FailFastStops
================================================================================
