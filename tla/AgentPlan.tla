------------------------------- MODULE AgentPlan -------------------------------
(***************************************************************************)
(* The tool-calling agent as a graph: model and tools in turns             *)
(* (crates/group-agent-prebuilt/src/{agent,structured_output}.rs).         *)
(*                                                                         *)
(* An agent is a record: kind, limits (max_rounds of each stage), approval *)
(* (which stages ask before their tools run) and contract (the identity of *)
(* its output contract, or "none").                                        *)
(***************************************************************************)
EXTENDS AgentTurns

END == <<"END", 0>>
ModelOf(i) == <<"model", i>>
ToolsOf(i) == <<"tools", i>>

(* The graph version of compile_agent_graph: the round limit is no part of it. *)
AgentVersion(agent) == <<"agent", agent.approval[1], agent.contract>>

(* new_inner: the step budget of one call.                                  *)
AgentSteps(agent) == 2 * agent.limits[1]

AgentNode(agent, s, node, value) ==
  IF node = ModelOf(1) THEN ModelNode(s)
  ELSE IF agent.approval[1] THEN ApprovalToolNode(s, agent.limits[1], 1, value)
  ELSE ToolNode(s, agent.limits[1])

NoRoute == <<"error", 0>>

RouteAfterModel(s) ==
  IF ~ HasTurn(s) THEN NoRoute
  ELSE IF PendingCalls(s) = <<>> THEN END ELSE ToolsOf(1)

(* tools_route_target: the stop reason must agree with the round limit.      *)
RouteAfterTools(s, limit) ==
  IF \/ s.rounds = 0 \/ ~ UsageIsAligned(s) \/ s.messages = <<>>
     \/ ~ IsTool(Last(s.messages))
  THEN NoRoute
  ELSE IF s.stop = "MaxRounds" /\ s.rounds = limit THEN END
  ELSE IF s.stop = NoStop /\ s.rounds < limit THEN ModelOf(1)
  ELSE NoRoute

AgentRoute(agent, node, s) ==
  IF node = ModelOf(1) THEN RouteAfterModel(s)
  ELSE RouteAfterTools(s, agent.limits[1])

(* from_completed_state expects a stop reason.                              *)
AgentOutcome(s) == s.stop # NoStop
================================================================================
