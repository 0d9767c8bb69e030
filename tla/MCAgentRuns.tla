------------------------------ MODULE MCAgentRuns ------------------------------
(* Instances of AgentRuns for TLC: a tool-calling agent that asks before its    *)
(* tools run; two without approval and with different limits, next to one with   *)
(* approval; a sequence and a branch whose stages ask.                           *)
EXTENDS AgentRuns, TLC

CONSTANTS a, b, c1, c2

Agent(kind, limits, approval) ==
  [kind |-> kind, limits |-> limits, approval |-> approval, contract |-> "none"]

Deploy(agents, checkpointer, n) ==
  [fleet |-> agents, store |-> checkpointer, calls |-> n]

SmallDeployments ==
  {Deploy({Agent("agent", <<2>>, <<TRUE>>)}, "record", 3),
   Deploy({Agent("agent", <<2>>, <<FALSE>>), Agent("agent", <<1>>, <<FALSE>>),
           Agent("agent", <<1>>, <<TRUE>>)}, "record", 2),
   Deploy({Agent("sequence", <<1, 1>>, <<TRUE, TRUE>>)}, "record", 3),
   Deploy({Agent("sequence", <<2, 1>>, <<FALSE, FALSE>>)}, "record", 2),
   Deploy({Agent("sequence", <<2, 1>>, <<TRUE, FALSE>>)}, "memory", 2),
   Deploy({Agent("branch", <<1, 1, 1>>, <<TRUE, TRUE, FALSE>>)}, "record", 3)}

Batches == {<<a>>, <<b>>, <<a, a>>}
Question == <<User>>
Unanswered == <<User, Assistant(<<a>>)>>
SmallOpenings == {Question, Unanswered}
SmallHandoffs == {Question, Unanswered}

(* One task starts the thread and resumes it, the other races it.                *)
TaskKinds ==
  (c1 :> {"plain", "invoke", "resume"}) @@ (c2 :> {"resume", "replay", "fork"})
================================================================================
