------------------------------- MODULE BranchPlan -------------------------------
(***************************************************************************)
(* A first agent whose final answer selects one of two others, or none, as *)
(* one graph (crates/group-agent-prebuilt/src/branch/{mod,nodes,state,     *)
(* codec,outcome,durable}.rs).  Stages are numbered from 1: the first      *)
(* agent, B and C.                                                         *)
(***************************************************************************)
EXTENDS SequencePlan

SelectNode == <<"select", 0>>

NoSelection == "none"

(* BranchTarget::index                                                      *)
TargetIndex(target) == CASE target = "B" -> 2 [] target = "C" -> 3 [] OTHER -> 0

BranchVersion(agent) ==
  <<"branch", agent.limits, agent.approval, agent.contract>>

BranchSteps(agent) ==
  2 * (agent.limits[1] + (IF agent.limits[2] > agent.limits[3] THEN agent.limits[2]
                          ELSE agent.limits[3])) + 1

NewBranch(messages) ==
  [first |-> NewAgentState(messages), downstream |-> NoStage,
   stopped |-> FALSE, selection |-> NoSelection]

BranchStage(s, i) ==
  CASE i = 1 -> s.first
    [] i # 1 /\ TargetIndex(s.selection) = i -> s.downstream
    [] OTHER -> NoStage

BranchGuard(agent, s) ==
  \A i \in 1..3 : BranchStage(s, i) # NoStage =>
    StageWithinLimit(BranchStage(s, i), agent.limits[i])

BranchActive(agent, s, i, tools) ==
  /\ BranchGuard(agent, s)
  /\ ~ s.stopped
  /\ i = 1 => s.selection = NoSelection
  /\ i # 1 => /\ TargetIndex(s.selection) = i
              /\ s.downstream # NoStage
              /\ s.first.stop = "FinalAnswer"
  /\ StageTurn(BranchStage(s, i), agent.limits[i], tools)

(* Select::run: the selector panics or fails, or selects a stage and its      *)
(* messages, which are admitted or not, or completes.                       *)
SelectRun(agent, s) ==
  IF \/ ~ BranchGuard(agent, s) \/ s.stopped
     \/ s.selection # NoSelection \/ s.downstream # NoStage
     \/ s.first.stop # "FinalAnswer"
  THEN {Failed("internal", <<>>)}
  ELSE {Failed("external", <<>>),
        Committed([kind |-> "select", target |-> "Complete", messages |-> <<>>], <<>>)}
       \cup {Committed(u, <<>>) :
               u \in [kind : {"select"}, target : {"B", "C"},
                      messages : {h \in Handoffs : Admit(h)}]}

BranchNode(agent, s, node, value) ==
  LET i == node[2]
      tools == node = ToolsOf(i)
      saved == BranchStage(s, i)
  IN
  IF node = SelectNode THEN SelectRun(agent, s)
  ELSE IF ~ BranchActive(agent, s, i, tools) THEN {Failed("internal", <<>>)}
  ELSE {StageUpdate(i, o) : o \in
          IF ~ tools THEN ModelNode(saved)
          ELSE IF agent.approval[i]
               THEN ApprovalToolNode(saved, agent.limits[i], i, value)
          ELSE ToolNode(saved, agent.limits[i])}

(* BranchState::apply                                                       *)
BranchCanApply(s, u) ==
  /\ ~ s.stopped
  /\ IF u.kind = "select"
     THEN /\ s.first.stop = "FinalAnswer"
          /\ s.selection = NoSelection /\ s.downstream = NoStage
          /\ u.target # "Complete" => Admit(u.messages)
     ELSE /\ \/ u.index = 1 /\ s.selection = NoSelection
             \/ u.index # 1 /\ TargetIndex(s.selection) = u.index
                /\ s.downstream # NoStage
          /\ CanApply(BranchStage(s, u.index), u.update)

BranchApply(s, u) ==
  IF u.kind = "select"
  THEN [s EXCEPT !.selection = u.target,
                 !.downstream = IF u.target = "Complete" THEN @
                                ELSE NewAgentState(u.messages),
                 !.stopped = u.target = "Complete"]
  ELSE LET after == Apply(BranchStage(s, u.index), u.update)
           stopped == StageStops(after, u.index # 1)
       IN IF u.index = 1 THEN [s EXCEPT !.first = after, !.stopped = stopped]
          ELSE [s EXCEPT !.downstream = after, !.stopped = stopped]

BranchRoute(node, s) ==
  LET i == node[2] IN
  CASE node = SelectNode ->
         CASE s.selection \in {"B", "C"} -> ModelOf(TargetIndex(s.selection))
           [] s.selection = "Complete" -> END
           [] OTHER -> NoRoute
    [] node = ModelOf(i) ->
         IF BranchStage(s, i) = NoStage THEN NoRoute
         ELSE IF BranchStage(s, i).stop # "FinalAnswer" THEN ToolsOf(i)
         ELSE IF i = 1 THEN SelectNode ELSE END
    [] OTHER -> IF s.stopped THEN END ELSE ModelOf(i)

BranchPhase(s) ==
  IF s.stopped THEN "Stopped"
  ELSE IF s.downstream # NoStage THEN "Selected" ELSE "First"

BranchRestorable(s) ==
  LET phase == BranchPhase(s)
      chosen == s.selection \in {"B", "C"}
      answered == s.first.stop = "FinalAnswer"
  IN
  /\ ValidStage(s.first)
  /\ s.downstream # NoStage => ValidStage(s.downstream)
  /\ \/ /\ phase = "First" /\ s.selection = NoSelection
        /\ s.downstream = NoStage /\ s.first.stop # "MaxRounds"
     \/ /\ phase = "Selected" /\ chosen /\ answered
        /\ s.downstream # NoStage /\ s.downstream.stop = NoStop
     \/ /\ phase = "Stopped" /\ s.selection = NoSelection
        /\ s.downstream = NoStage /\ s.first.stop = "MaxRounds"
     \/ /\ phase = "Stopped" /\ s.selection = "Complete"
        /\ s.downstream = NoStage /\ answered
     \/ /\ phase = "Stopped" /\ chosen /\ answered
        /\ s.downstream # NoStage /\ s.downstream.stop # NoStop

(* BranchOutcome::from_state                                                *)
BranchOutcome(agent, s) ==
  /\ BranchGuard(agent, s)
  /\ s.stopped
  /\ AgentOutcome(s.first)
  /\ s.downstream # NoStage => AgentOutcome(s.downstream)
================================================================================
