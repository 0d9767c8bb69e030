------------------------------ MODULE AgentTurns ------------------------------
(***************************************************************************)
(* One agent's conversation: its private state, the updates that commit a  *)
(* model turn or a batch of tool results, the model and the tool node, and *)
(* the checks a transcript must pass                                       *)
(* (crates/group-agent-prebuilt/src/{state,agent_nodes,snapshot}.rs, the   *)
(* transcript checks of sequence/state.rs and group-agent-model's          *)
(* request.rs).                                                            *)
(*                                                                         *)
(* Operators only: the graphs of AgentPlan, SequencePlan and BranchPlan    *)
(* are built from them and AgentRuns runs those.  Abstracted: the text of  *)
(* a message, the arguments of a call and the content of a result; a call  *)
(* is its identifier, a result says whether the tool ran or was rejected,  *)
(* and token usage is the number of rounds it was recorded for.  A final   *)
(* answer meets its output contract: the model facade refuses any other    *)
(* before the answer is committed.                                         *)
(***************************************************************************)
EXTENDS Naturals, FiniteSets, SequencesExt

CONSTANTS
  CallId,         \* identifiers of tool calls
  CallLists       \* the batches of calls (sequences of identifiers) a model asks for

ASSUME CallListsAssumption == CallLists \subseteq Seq(CallId)

User == [role |-> "user"]
Assistant(calls) == [role |-> "assistant", calls |-> calls]
ToolMessage(id, how) == [role |-> "tool", id |-> id, how |-> how]

(* User stands for a system message too: no check tells the two apart.        *)
Message ==
  {User} \cup [role : {"assistant"}, calls : Seq(CallId)]
         \cup [role : {"tool"}, id : CallId, how : {"ran", "rejected"}]

IsTool(m) == m.role = "tool"
IsAssistant(m) == m.role = "assistant"

NoStop == "None"

(* AgentState::new                                                         *)
NewAgentState(messages) ==
  [messages |-> messages, rounds |-> 0, usage |-> 0, stop |-> NoStop]

UsageIsAligned(s) == s.usage = s.rounds

(* The calls of the last message, when an assistant wrote it.               *)
HasTurn(s) == s.messages # <<>> /\ IsAssistant(Last(s.messages))
PendingCalls(s) == IF HasTurn(s) THEN Last(s.messages).calls ELSE <<>>

--------------------------------------------------------------------------------
(* AgentState::apply.                                                      *)

ModelCompleted(calls) == [kind |-> "model", calls |-> calls]
ToolsCompleted(results, reached) ==
  [kind |-> "tools", results |-> results, reached |-> reached]

CanApplyModel(s) == s.stop = NoStop /\ UsageIsAligned(s)

ApplyModel(s, calls) ==
  [messages |-> Append(s.messages, Assistant(calls)),
   rounds |-> s.rounds + 1, usage |-> s.usage + 1,
   stop |-> IF calls = <<>> THEN "FinalAnswer" ELSE NoStop]

(* The whole batch is validated before the state changes.                   *)
CanApplyTools(s, results) ==
  /\ s.stop = NoStop
  /\ s.rounds # 0 /\ UsageIsAligned(s)
  /\ PendingCalls(s) # <<>>
  /\ [i \in DOMAIN results |-> results[i].id] = PendingCalls(s)

ApplyTools(s, results, reached) ==
  [s EXCEPT !.messages = @ \o results,
            !.stop = IF reached THEN "MaxRounds" ELSE @]

CanApply(s, u) ==
  CASE u.kind = "model" -> CanApplyModel(s)
    [] u.kind = "tools" -> CanApplyTools(s, u.results)
    [] OTHER -> FALSE

Apply(s, u) ==
  IF u.kind = "model" THEN ApplyModel(s, u.calls)
  ELSE ApplyTools(s, u.results, u.reached)

--------------------------------------------------------------------------------
(* Transcripts.                                                            *)

CallsOf(m) == IF IsAssistant(m) THEN ToSet(m.calls) ELSE {}

CallsBefore(messages, i) == UNION {CallsOf(messages[j]) : j \in 1..(i - 1)}

(* ChatRequest::validate: call identifiers are not used twice, and a result  *)
(* answers an earlier call that has no result yet.                         *)
ValidRequest(messages) ==
  /\ messages # <<>>
  /\ \A i \in DOMAIN messages :
       /\ IsAssistant(messages[i]) =>
            /\ IsInjective(messages[i].calls)
            /\ CallsOf(messages[i]) \cap CallsBefore(messages, i) = {}
       /\ IsTool(messages[i]) =>
            /\ messages[i].id \in CallsBefore(messages, i)
            /\ \A j \in 1..(i - 1) :
                 IsTool(messages[j]) => messages[j].id # messages[i].id

(* Calls before message i that no message before i answered.                *)
OpenBefore(messages, i) ==
  CallsBefore(messages, i)
    \ {messages[j].id : j \in {k \in 1..(i - 1) : IsTool(messages[k])}}

(* validate_transcript: a batch is answered before anyone speaks again; only *)
(* the last message may still be waiting for its results.                  *)
ValidTranscript(messages, allow_pending) ==
  /\ ValidRequest(messages)
  /\ \A i \in DOMAIN messages :
       ~ IsTool(messages[i]) => OpenBefore(messages, i) = {}
  /\ OpenBefore(messages, Len(messages) + 1) # {} =>
       allow_pending /\ IsAssistant(Last(messages))

Admit(messages) == ValidTranscript(messages, FALSE)

(* valid_stage: what a saved stage must look like to be restored.           *)
ValidStage(s) ==
  /\ UsageIsAligned(s)
  /\ ValidTranscript(s.messages, TRUE)
  /\ IF s.rounds = 0
     THEN s.stop = NoStop /\ Admit(s.messages)
     ELSE CASE s.stop = "FinalAnswer" -> HasTurn(s) /\ PendingCalls(s) = <<>>
            [] s.stop = "MaxRounds" -> IsTool(Last(s.messages))
            [] OTHER -> IsTool(Last(s.messages)) \/ PendingCalls(s) # <<>>

--------------------------------------------------------------------------------
(* The nodes.  The outcome of a node is an update, a request for outside     *)
(* input or an error; ran holds the calls that were handed to their tools.   *)

Committed(update, ran) == [tag |-> "update", update |-> update, ran |-> ran]
Interrupted(stage, calls) ==
  [tag |-> "interrupt", request |-> [stage |-> stage, calls |-> calls], ran |-> <<>>]
Failed(why, ran) == [tag |-> "fail", why |-> why, ran |-> ran]

NoValue == [stage |-> 0, decision |-> "None"]

(* ModelNode::run: the request is refused when the transcript is invalid;    *)
(* otherwise the provider fails, answers, or asks for tools.                *)
ModelNode(s) ==
  {Failed("external", <<>>)} \cup
    IF ValidRequest(s.messages)
    THEN {Committed(ModelCompleted(calls), <<>>) : calls \in CallLists \cup {<<>>}}
    ELSE {}

Results(calls, how) == [i \in DOMAIN calls |-> ToolMessage(calls[i], how)]

(* Mutant of ReachedMaxRounds: the limit is noticed one round late.           *)
ReachedMaxRoundsLate(s, limit) == s.rounds = limit + 1

ReachedMaxRounds(s, limit) == s.rounds = limit

(* execute_pending: a batch that names a call twice is refused before any tool  *)
(* runs; one in which a tool fails commits nothing, although its tools ran.  *)
ExecutePending(s, limit) ==
  IF ~ IsInjective(PendingCalls(s)) THEN {Failed("external", <<>>)}
  ELSE {Failed("external", PendingCalls(s)),
        Committed(ToolsCompleted(Results(PendingCalls(s), "ran"),
                                 ReachedMaxRounds(s, limit)),
                  PendingCalls(s))}

RejectedUpdate(s, limit) ==
  {Committed(ToolsCompleted(Results(PendingCalls(s), "rejected"),
                            ReachedMaxRounds(s, limit)), <<>>)}

(* validated_pending_calls                                                  *)
ToolNodeFault(s, limit) ==
  IF PendingCalls(s) = <<>> THEN "internal"
  ELSE IF s.rounds > limit THEN "overrun"
  ELSE "none"

(* The plain tool node.                                                     *)
ToolNode(s, limit) ==
  IF ToolNodeFault(s, limit) # "none"
  THEN {Failed(ToolNodeFault(s, limit), <<>>)}
  ELSE ExecutePending(s, limit)

(* Mutant of Decide: any stage's decision will do.                            *)
DecideAnyStage(s, limit, stage, value) ==
  CASE value.decision = "Approve" -> ExecutePending(s, limit)
    [] value.decision = "Reject" -> RejectedUpdate(s, limit)
    [] OTHER -> {Failed("decision", <<>>)}

(* What a decision does: the wrong type or another stage's decision fails     *)
(* before any tool is called.                                              *)
Decide(s, limit, stage, value) ==
  IF value.decision \notin {"Approve", "Reject"} \/ value.stage # stage
  THEN {Failed("decision", <<>>)}
  ELSE IF value.decision = "Approve" THEN ExecutePending(s, limit)
  ELSE RejectedUpdate(s, limit)

(* The tool node that asks first: without a decision it interrupts.          *)
ApprovalToolNode(s, limit, stage, value) ==
  IF ToolNodeFault(s, limit) # "none"
  THEN {Failed(ToolNodeFault(s, limit), <<>>)}
  ELSE IF value = NoValue THEN {Interrupted(stage, PendingCalls(s))}
  ELSE Decide(s, limit, stage, value)
================================================================================
