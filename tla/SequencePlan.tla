------------------------------ MODULE SequencePlan ------------------------------
(***************************************************************************)
(* Two agents in sequence as one graph: the first stage's turns, a handoff *)
(* of its final answer, the second stage's turns                           *)
(* (crates/group-agent-prebuilt/src/sequence/{mod,nodes,state,codec,       *)
(* outcome,durable}.rs).  Stages are numbered from 1.                      *)
(***************************************************************************)
EXTENDS AgentPlan

CONSTANTS
  Handoffs        \* the transcripts a handoff mapper or branch selector returns

ASSUME HandoffsAssumption == Handoffs \subseteq Seq(Message)

NoStage == [none |-> TRUE]

HandoffNode == <<"handoff", 0>>

(* compile: the version names the stages with their limits and approvals.     *)
SequenceVersion(agent) ==
  <<"sequence", agent.limits, agent.approval, agent.contract>>

SequenceSteps(agent) == 2 * (agent.limits[1] + agent.limits[2]) + 1

NewSequence(messages) ==
  [first |-> NewAgentState(messages), second |-> NoStage, stopped |-> FALSE]

SequenceStage(s, i) == IF i = 1 THEN s.first ELSE s.second

(* guard: saved rounds against the stage's own limit.                        *)
StageWithinLimit(saved, limit) ==
  /\ saved.rounds <= limit
  /\ UsageIsAligned(saved)
  /\ saved.stop = "MaxRounds" => saved.rounds = limit

SequenceGuard(agent, s) ==
  \A i \in 1..2 : SequenceStage(s, i) # NoStage =>
    StageWithinLimit(SequenceStage(s, i), agent.limits[i])

(* active, past the phase: the stage has not stopped and it is this node's    *)
(* turn.                                                                   *)
StageTurn(saved, limit, tools) ==
  /\ saved.stop = NoStop
  /\ IF tools THEN PendingCalls(saved) # <<>> /\ saved.rounds # 0
     ELSE PendingCalls(saved) = <<>> /\ saved.rounds < limit

SequenceActive(agent, s, i, tools) ==
  /\ SequenceGuard(agent, s)
  /\ ~ s.stopped
  /\ i = 1 => s.second = NoStage
  /\ i = 2 => s.second # NoStage /\ s.first.stop = "FinalAnswer"
  /\ StageTurn(SequenceStage(s, i), agent.limits[i], tools)

(* An update of one stage.                                                  *)
StageUpdate(i, outcome) ==
  IF outcome.tag = "update"
  THEN [outcome EXCEPT !.update = [kind |-> "stage", index |-> i, update |-> @]]
  ELSE outcome

(* Handoff::run: the mapper fails, or returns messages that are admitted or   *)
(* not.                                                                    *)
HandoffRun(agent, s) ==
  IF ~ SequenceGuard(agent, s) \/ s.second # NoStage \/ s.first.stop # "FinalAnswer"
  THEN {Failed("internal", <<>>)}
  ELSE {Failed("external", <<>>)} \cup
       {Committed([kind |-> "handoff", messages |-> m], <<>>) :
          m \in {h \in Handoffs : Admit(h)}}

SequenceNode(agent, s, node, value) ==
  LET i == node[2]
      tools == node = ToolsOf(i)
      saved == SequenceStage(s, i)
  IN
  IF node = HandoffNode THEN HandoffRun(agent, s)
  ELSE IF ~ SequenceActive(agent, s, i, tools) THEN {Failed("internal", <<>>)}
  ELSE {StageUpdate(i, o) : o \in
          IF ~ tools THEN ModelNode(saved)
          ELSE IF agent.approval[i]
               THEN ApprovalToolNode(saved, agent.limits[i], i, value)
          ELSE ToolNode(saved, agent.limits[i])}

(* SequenceState::apply                                                     *)
SequenceCanApply(s, u) ==
  /\ ~ s.stopped
  /\ IF u.kind = "handoff"
     THEN s.first.stop = "FinalAnswer" /\ s.second = NoStage
     ELSE /\ IF u.index = 1 THEN s.second = NoStage ELSE s.second # NoStage
          /\ CanApply(SequenceStage(s, u.index), u.update)

(* A stage out of rounds stops the whole plan; a final answer only the last.  *)
StageStops(s, last) == s.stop = "MaxRounds" \/ (s.stop = "FinalAnswer" /\ last)

SequenceApply(s, u) ==
  IF u.kind = "handoff" THEN [s EXCEPT !.second = NewAgentState(u.messages)]
  ELSE LET after == Apply(SequenceStage(s, u.index), u.update)
           stopped == StageStops(after, u.index = 2)
       IN IF u.index = 1 THEN [s EXCEPT !.first = after, !.stopped = stopped]
          ELSE [s EXCEPT !.second = after, !.stopped = stopped]

SequenceRoute(node, s) ==
  LET i == node[2] IN
  CASE node = HandoffNode -> ModelOf(2)
    [] node = ModelOf(i) ->
         IF SequenceStage(s, i) = NoStage THEN NoRoute
         ELSE IF SequenceStage(s, i).stop # "FinalAnswer" THEN ToolsOf(i)
         ELSE IF i = 1 THEN HandoffNode ELSE END
    [] OTHER -> IF s.stopped THEN END ELSE ModelOf(i)

(* The phase a snapshot records, and what restore makes of it.               *)
SequencePhase(s) ==
  IF s.stopped THEN "Stopped" ELSE IF s.second # NoStage THEN "Second" ELSE "First"

SequenceRestorable(s) ==
  /\ ValidStage(s.first)
  /\ s.second # NoStage => ValidStage(s.second)
  /\ CASE SequencePhase(s) = "First" -> s.second = NoStage /\ s.first.stop # "MaxRounds"
       [] SequencePhase(s) = "Second" ->
            s.first.stop = "FinalAnswer" /\ s.second # NoStage /\ s.second.stop = NoStop
       [] OTHER -> IF s.second # NoStage
                   THEN s.first.stop = "FinalAnswer" /\ s.second.stop # NoStop
                   ELSE s.first.stop = "MaxRounds"

(* SequenceOutcome::from_state                                              *)
SequenceOutcome(agent, s) ==
  /\ SequenceGuard(agent, s)
  /\ s.stopped
  /\ AgentOutcome(s.first)
  /\ s.second # NoStage => AgentOutcome(s.second)
================================================================================
