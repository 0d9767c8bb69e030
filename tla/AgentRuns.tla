------------------------------- MODULE AgentRuns -------------------------------
(***************************************************************************)
(* Durable runs of the prebuilt agents: the agents of one fleet (tool-     *)
(* calling agents, sequences or branches that share a thread) are invoked, *)
(* resumed, replayed and forked by concurrent calls, with tools that wait  *)
(* for an approval (the entry points of crates/group-agent-prebuilt/src/   *)
(* {agent,outcome}.rs and of {sequence,branch}/{mod,durable,               *)
(* durable_outcome}.rs).                                                   *)
(*                                                                         *)
(* The graph a call executes is AgentPlan, SequencePlan or BranchPlan.     *)
(* The core runtime is taken at the grain DurableRuns justifies: a call    *)
(* loads its checkpoint in one step, runs one node in one step and saves   *)
(* in one step, and it may end between any two of them (an error of the    *)
(* store, cancellation, a crash).  A lineage is the sequence of its        *)
(* checkpoints: the thread's own, and one forked from it.                  *)
(***************************************************************************)
EXTENDS BranchPlan

CONSTANTS
  Call,           \* tasks of the application; each makes one call at a time
  Kinds,          \* task -> the kinds of call it makes
  Deployments,    \* the agents that share a thread (fleet), their checkpointer
                  \* (store: "record" encodes checkpoints, "memory" does not)
                  \* and the bound on the calls made (calls)
  Openings,       \* transcripts an application starts from
  Decisions       \* what an application may answer a request with

ASSUME OpeningsAssumption == Openings \subseteq Seq(Message)

(* AgentConfig::new refuses a limit of zero rounds; a sequence has two stages  *)
(* and a branch three.                                                     *)
ASSUME DeploymentsAssumption ==
  \A d \in Deployments :
    /\ d.store \in {"record", "memory"}
    /\ \A agent \in d.fleet :
         /\ agent.kind \in {"agent", "sequence", "branch"}
         /\ agent.limits \in Seq(Nat \ {0})
         /\ Len(agent.limits) = CASE agent.kind = "agent" -> 1
                                  [] agent.kind = "sequence" -> 2
                                  [] OTHER -> 3

Policies == {"EverySuperstep", "FinalOnly"}
Lines == {"main", "fork"}
Entry == ModelOf(1)
NoRequest == [stage |-> 0, calls |-> <<>>]

VARIABLES
  fleet,      \* the agents in use
  store,      \* the checkpointer in use
  lines,      \* lineage -> its checkpoints
  calls,      \* call -> its state
  left,       \* calls the bound still allows
  granted,    \* history: batches an application approved
  effects     \* history: batches that wait for approval and reached their tools

vars == <<fleet, store, lines, calls, left, granted, effects>>

Idle(result) == [pc |-> "idle", result |-> result]

Init ==
  /\ \E d \in Deployments : 
       fleet = d.fleet /\ store = d.store /\ left = d.calls
  /\ lines = [l \in Lines |-> <<>>]
  /\ calls = [c \in Call |-> Idle("none")]
  /\ granted = {}
  /\ effects = {}

--------------------------------------------------------------------------------
(* The graph behind an agent.                                              *)

Staged(agent) == agent.kind # "agent"

Version(agent) ==
  CASE agent.kind = "agent" -> AgentVersion(agent)
    [] agent.kind = "sequence" -> SequenceVersion(agent)
    [] OTHER -> BranchVersion(agent)

Steps(agent) ==
  CASE agent.kind = "agent" -> AgentSteps(agent)
    [] agent.kind = "sequence" -> SequenceSteps(agent)
    [] OTHER -> BranchSteps(agent)

NewState(agent, messages) ==
  CASE agent.kind = "agent" -> NewAgentState(messages)
    [] agent.kind = "sequence" -> NewSequence(messages)
    [] OTHER -> NewBranch(messages)

StageOf(agent, s, i) ==
  CASE agent.kind = "agent" -> s
    [] agent.kind = "sequence" -> SequenceStage(s, i)
    [] OTHER -> BranchStage(s, i)

NodeOutcomes(agent, s, node, value) ==
  CASE agent.kind = "agent" -> AgentNode(agent, s, node, value)
    [] agent.kind = "sequence" -> SequenceNode(agent, s, node, value)
    [] OTHER -> BranchNode(agent, s, node, value)

StateCanApply(agent, s, u) ==
  CASE agent.kind = "agent" -> CanApply(s, u)
    [] agent.kind = "sequence" -> SequenceCanApply(s, u)
    [] OTHER -> BranchCanApply(s, u)

StateApply(agent, s, u) ==
  CASE agent.kind = "agent" -> Apply(s, u)
    [] agent.kind = "sequence" -> SequenceApply(s, u)
    [] OTHER -> BranchApply(s, u)

RouteOf(agent, node, s) ==
  CASE agent.kind = "agent" -> AgentRoute(agent, node, s)
    [] agent.kind = "sequence" -> SequenceRoute(node, s)
    [] OTHER -> BranchRoute(node, s)

Restorable(agent, s) ==
  CASE agent.kind = "agent" -> TRUE
    [] agent.kind = "sequence" -> SequenceRestorable(s)
    [] OTHER -> BranchRestorable(s)

OutcomeExists(agent, s) ==
  CASE agent.kind = "agent" -> AgentOutcome(s)
    [] agent.kind = "sequence" -> SequenceOutcome(agent, s)
    [] OTHER -> BranchOutcome(agent, s)

--------------------------------------------------------------------------------
(* Entry points.                                                           *)

(* An outcome or an error the application is meant to handle is "returned"; the *)
(* two kinds of error the code holds to be impossible are told apart.         *)
Ended(result) ==
  Idle(IF result \in {"internal", "overrun"} THEN result ELSE "returned")

End(c, result) == calls' = [calls EXCEPT ![c] = Ended(result)]

(* A run that reached the end is converted to its outcome.                   *)
Finish(c, agent, s) ==
  End(c, IF OutcomeExists(agent, s) THEN "Completed" ELSE "internal")

(* A call is made; the bound is the model's.                                *)
Start(c, op) ==
  /\ calls[c].pc = "idle"
  /\ op \in Kinds[c]
  /\ left > 0
  /\ left' = left - 1

Running(op, agent, line, policy, s, node, value, parent) ==
  [pc |-> "run", op |-> op, agent |-> agent, line |-> line,
   policy |-> policy,
   state |-> s, node |-> node, value |-> value, request |-> NoRequest,
   steps |-> Steps(agent), parent |-> parent]

(* A plain invocation cannot wait for an approval: a staged agent says so at   *)
(* once, the tool-calling agent when it comes to it.                         *)
PlainAccepted(agent) == Staged(agent) => TRUE \notin ToSet(agent.approval)

(* invoke and invoke_with_checkpoint, for a thread the application holds to    *)
(* be new.                                                                 *)
Invoke(c, agent, op, messages, policy) ==
  LET accepted ==
        /\ Staged(agent) => Admit(messages)
        /\ op = "plain" => PlainAccepted(agent)
        /\ op = "invoke" /\ Staged(agent) => policy = "EverySuperstep"
  IN
  /\ Start(c, op)
  /\ IF accepted
     THEN calls' = [calls EXCEPT ![c] =
                      Running(op, agent, "main", policy, NewState(agent, messages),
                              Entry, NoValue, 0)]
     ELSE End(c, "refused")
  /\ UNCHANGED <<fleet, store, lines, granted, effects>>

Refuse(c) == End(c, "refused") /\ UNCHANGED granted

(* What every load checks: the version, and a value exactly when the           *)
(* checkpoint waits for one.                                               *)
Loadable(agent, cp, value) ==
  /\ cp.version = Version(agent)
  /\ (cp.request # NoRequest) = (value # NoValue)
  /\ Restorable(agent, cp.state)

(* An approval is for the batch of the stage it names, as the checkpoint it    *)
(* is for shows it.                                                        *)
Grant(agent, cp, value) ==
  IF value.decision = "Approve" /\ StageOf(agent, cp.state, value.stage) # NoStage
  THEN granted' = granted \cup
         {[stage |-> value.stage,
           messages |-> StageOf(agent, cp.state, value.stage).messages]}
  ELSE UNCHANGED granted

(* A completed checkpoint is converted without running a node.               *)
Continue(c, op, agent, line, policy, cp, value, parent) ==
  IF cp.node = END
  THEN Finish(c, agent, cp.state)
  ELSE calls' = [calls EXCEPT ![c] =
                   Running(op, agent, line, policy, cp.state, cp.node, value, parent)]

(* resume continues the head of a lineage.  A pin must be that head; a staged  *)
(* agent takes a decision only with a pin.                                  *)
PinSuffices(agent, line, pin, value) ==
  /\ pin # 0 => pin = Len(lines[line])
  /\ Staged(agent) /\ value # NoValue => pin # 0

Resume(c, agent, line, pin, policy, value) ==
  LET at == IF pin = 0 THEN Len(lines[line]) ELSE pin
      cp == lines[line][at]
  IN
  /\ Start(c, "resume")
  /\ lines[line] # <<>> /\ pin <= Len(lines[line])
  /\ IF PinSuffices(agent, line, pin, value) /\ Loadable(agent, cp, value)
     THEN /\ Continue(c, "resume", agent, line, policy, cp, value, at)
          /\ Grant(agent, cp, value)
     ELSE Refuse(c)
  /\ UNCHANGED <<fleet, store, lines, effects>>

(* replay runs a checkpoint of the past again and writes nothing.            *)
Replay(c, agent, line, at, value) ==
  LET cp == lines[line][at] IN
  /\ Start(c, "replay")
  /\ at \in DOMAIN lines[line]
  /\ IF Loadable(agent, cp, value)
     THEN /\ Continue(c, "replay", agent, line, "FinalOnly", cp, value, at)
          /\ Grant(agent, cp, value)
     ELSE Refuse(c)
  /\ UNCHANGED <<fleet, store, lines, effects>>

(* fork opens a lineage at a checkpoint of the past and continues there; the   *)
(* lineage stays when the run fails.                                       *)
Fork(c, agent, at, policy, value) ==
  LET cp == lines["main"][at] IN
  /\ Start(c, "fork")
  /\ at \in DOMAIN lines["main"]
  /\ IF Loadable(agent, cp, value) /\ lines["fork"] = <<>>
     THEN /\ lines' = [lines EXCEPT !["fork"] = SubSeq(lines["main"], 1, at)]
          /\ Continue(c, "fork", agent, "fork", policy, cp, value, at)
          /\ Grant(agent, cp, value)
     ELSE Refuse(c) /\ UNCHANGED lines
  /\ UNCHANGED <<fleet, store, effects>>

--------------------------------------------------------------------------------
(* Running.                                                                *)

Saves(call, node) ==
  /\ call.op \notin {"plain", "replay"}
  /\ call.policy = "EverySuperstep" \/ node = END

(* A decision is for the first node of its call only.                        *)
AfterNode(call, s, node) ==
  [call EXCEPT !.state = s, !.node = node, !.steps = @ - 1, !.value = NoValue,
               !.pc = IF Saves(call, node) THEN "save" ELSE "run"]

(* The step budget is checked before the node runs.                           *)
Outcomes(call) ==
  IF call.steps = 0 THEN {Failed("internal", <<>>)}
  ELSE NodeOutcomes(call.agent, call.state, call.node, call.value)

(* The update is applied and the router selects the next node.                *)
AfterUpdate(call, u) ==
  LET s == StateApply(call.agent, call.state, u)
      node == RouteOf(call.agent, call.node, s)
  IN IF ~ StateCanApply(call.agent, call.state, u) THEN Ended("internal")
     ELSE IF node = NoRoute THEN Ended("internal")
     ELSE AfterNode(call, s, node)

(* A request for outside input is saved, where the call saves at all.          *)
AfterInterrupt(call, request) ==
  IF call.op \in {"plain", "replay"} THEN Ended("refused")
  ELSE [call EXCEPT !.pc = "save", !.request = request]

(* One superstep.                                                           *)
RunNode(c, outcome) ==
  LET call == calls[c]
      stage == call.node[2]
  IN
  /\ effects' =
       IF outcome.ran # <<>> /\ call.agent.approval[stage]
       THEN effects \cup
              {[stage |-> stage,
                messages |-> StageOf(call.agent, call.state, stage).messages]}
       ELSE effects
  /\ calls' = [calls EXCEPT ![c] =
                 CASE outcome.tag = "fail" -> Ended(outcome.why)
                   [] outcome.tag = "interrupt" -> AfterInterrupt(call, outcome.request)
                   [] OTHER -> AfterUpdate(call, outcome.update)]
  /\ UNCHANGED <<fleet, store, left, lines, granted>>

(* A run that does not save its end.                                        *)
Complete(c) ==
  /\ calls[c].pc = "run" /\ calls[c].node = END
  /\ Finish(c, calls[c].agent, calls[c].state)
  /\ UNCHANGED <<fleet, store, left, lines, granted, effects>>

CheckpointOf(call) ==
  [version |-> Version(call.agent), state |-> call.state, node |-> call.node,
   request |-> call.request]

(* Mutant of ExtendsHead: the save goes on top of whatever the head is.         *)
ExtendsHeadAny(call) == TRUE

(* The store accepts a checkpoint whose parent is still the head.             *)
ExtendsHead(call) == Len(lines[call.line]) = call.parent

(* Mutant of Encodes: a snapshot is encoded as it is.                          *)
EncodesAny(call) == TRUE

(* encode_snapshot of the staged codecs refuses what restore would refuse.    *)
Encodes(call) == store = "record" => Restorable(call.agent, call.state)

Save(c) ==
  LET call == calls[c] IN
  /\ call.pc = "save"
  /\ IF Encodes(call) /\ ExtendsHead(call)
     THEN /\ lines' = [lines EXCEPT ![call.line] = Append(@, CheckpointOf(call))]
          /\ IF call.request # NoRequest THEN End(c, "Interrupted")
             ELSE IF call.node = END THEN Finish(c, call.agent, call.state)
             ELSE calls' = [calls EXCEPT ![c].pc = "run", ![c].parent = @ + 1]
     ELSE /\ End(c, IF Encodes(call) THEN "conflict" ELSE "codec")
          /\ UNCHANGED lines
  /\ UNCHANGED <<fleet, store, left, granted, effects>>

(* The call is cancelled or its process ends; what it saved stays.            *)
Abandon(c) ==
  /\ calls[c].pc # "idle"
  /\ End(c, "dropped")
  /\ UNCHANGED <<fleet, store, left, lines, granted, effects>>

(* Values of the agent's own type and of another.  A tool-calling agent's      *)
(* decision names no stage.                                                *)
ValuesOf(agent) ==
  [stage : DOMAIN agent.limits, decision : Decisions]
    \cup {NoValue, [stage |-> 1, decision |-> "Mistyped"]}

(* resume and fork of a staged agent override the policy.                     *)
PoliciesOf(agent) == IF Staged(agent) THEN {"EverySuperstep"} ELSE Policies

Next ==
  \E c \in Call :
    \/ \E agent \in fleet :
         \/ \E op \in {"invoke", "plain"}, m \in Openings, p \in Policies :
              Invoke(c, agent, op, m, p)
         \/ \E l \in Lines, p \in PoliciesOf(agent), v \in ValuesOf(agent) :
              \E pin \in 0..Len(lines[l]) : Resume(c, agent, l, pin, p, v)
         \/ \E l \in Lines, v \in ValuesOf(agent) :
              \E at \in 1..Len(lines[l]) : Replay(c, agent, l, at, v)
         \/ \E p \in PoliciesOf(agent), v \in ValuesOf(agent) :
              \E at \in 1..Len(lines["main"]) : Fork(c, agent, at, p, v)
    \/ /\ calls[c].pc = "run" /\ calls[c].node # END
       /\ \E o \in Outcomes(calls[c]) : RunNode(c, o)
    \/ Complete(c)
    \/ Save(c)
    \/ Abandon(c)

Spec == Init /\ [][Next]_vars

--------------------------------------------------------------------------------
(* Properties.                                                             *)

(* Tools that wait for approval run only for a batch an application approved:  *)
(* the same stage and the same transcript up to the batch, whichever calls     *)
(* raced, were replayed, forked or dropped in between (Decide, and the value's *)
(* one use in AfterNode).                                                   *)
EffectsApproved == effects \subseteq granted

RepeatsCall(messages) ==
  \/ \E i, j \in DOMAIN messages :
       i < j /\ CallsOf(messages[i]) \cap CallsOf(messages[j]) # {}
  \/ \E i \in DOMAIN messages :
       IsAssistant(messages[i]) /\ ~ IsInjective(messages[i].calls)

StagesRepeatCall(agent, s) ==
  \E i \in DOMAIN agent.limits :
    /\ StageOf(agent, s, i) # NoStage
    /\ RepeatsCall(StageOf(agent, s, i).messages)

(* Whatever is saved can be continued: an agent of the same graph version      *)
(* restores the checkpoint, its node finds the state it expects (no internal    *)
(* error of active, guard or the tool node), and a completed one has an         *)
(* outcome.  The one exception is a model that used a call identifier twice:    *)
(* the staged codecs refuse to save that, a checkpointer without a codec        *)
(* keeps it.  (Stated of the newest checkpoint: a lineage only grows.)        *)
SavedStatesUsable ==
  \A l \in {k \in Lines : lines[k] # <<>>} : \A agent \in fleet :
    LET cp == Last(lines[l]) IN
    cp.version = Version(agent) =>
      \/ /\ Restorable(agent, cp.state)
         /\ IF cp.node = END THEN OutcomeExists(agent, cp.state)
            ELSE \A o \in NodeOutcomes(agent, cp.state, cp.node, NoValue) :
                   ~ (o.tag = "fail" /\ o.why = "internal")
      \/ StagesRepeatCall(agent, cp.state) /\ (Staged(agent) => store = "memory")

MixedLimits == \E a, b \in fleet : a.limits # b.limits

(* No call ends in an internal error: routers, apply, active, the step budget   *)
(* and the conversion of the result agree about every reachable state.  Rounds  *)
(* beyond a limit are met only where agents with different limits share a        *)
(* thread, since the limit is no part of the tool-calling agent's version.       *)
InternalErrorsNeverFire ==
  \A c \in Call :
    calls[c].pc = "idle" =>
      /\ calls[c].result # "internal"
      /\ calls[c].result = "overrun" => MixedLimits

(* A lineage is one conversation: every checkpoint continues the transcripts of  *)
(* the one before it, stage by stage, however many calls raced to write it, and  *)
(* for every agent that can load it.                                         *)
ConversationContinues ==
  \A l \in {k \in Lines : Len(lines[k]) > 1} :
  \A agent \in {a \in fleet : Version(a) = Last(lines[l]).version} :
    LET previous == lines[l][Len(lines[l]) - 1] IN
    /\ previous.version = Version(agent)
    /\ \A i \in DOMAIN agent.limits :
         LET before == StageOf(agent, previous.state, i)
             after == StageOf(agent, Last(lines[l]).state, i)
         IN before # NoStage => /\ after # NoStage
                                /\ IsPrefix(before.messages, after.messages)
================================================================================
