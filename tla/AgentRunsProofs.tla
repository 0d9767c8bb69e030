---------------------------- MODULE AgentRunsProofs ----------------------------
(***************************************************************************)
(* Proofs about AgentRuns, for every fleet of tool-calling agents,         *)
(* sequences and branches and every number of concurrent calls: tools that *)
(* wait for an approval run only for the batch that was approved, a        *)
(* lineage is one conversation, no call ends in an internal error, and     *)
(* whatever is saved can be continued.                                     *)
(*                                                                         *)
(* The argument.  A call that carries an approval was granted it for the   *)
(* state it loaded, and the value is gone when that state changes, so it   *)
(* names the batch its tools would run (Backed).  A call's state continues *)
(* the checkpoint it would be saved on top of (Continues), so a save that  *)
(* extends the head extends the conversation.  Both need the states and    *)
(* the nodes to be of the agent's graph (Typed), which a load inherits     *)
(* from the equality of graph versions.                                    *)
(*                                                                         *)
(* On top of these, Usable: a state is one its node expects (Fits), the    *)
(* steps left suffice (Budget), and a transcript can be restored unless    *)
(* the model used a call identifier twice (Sound).  A node that plays such *)
(* a state cannot fail internally and leaves another such state; and what  *)
(* one agent saves fits every other agent of the same graph version,       *)
(* because a version decides all of an agent, but for the limit of a plain *)
(* one.                                                                    *)
(***************************************************************************)
EXTENDS AgentRuns, SequenceTheorems, TLAPS

--------------------------------------------------------------------------------
(* Types.                                                                     *)

Stage ==
  [messages : Seq(Message), rounds : Nat, usage : Nat,
   stop : {"None", "FinalAnswer", "MaxRounds"}]

SequenceStates == [first : Stage, second : Stage \cup {NoStage}, stopped : BOOLEAN]

BranchStates ==
  [first : Stage, downstream : Stage \cup {NoStage}, stopped : BOOLEAN,
   selection : {"none", "B", "C", "Complete"}]

StatesOf(agent) ==
  CASE agent.kind = "agent" -> Stage
    [] agent.kind = "sequence" -> SequenceStates
    [] OTHER -> BranchStates

NodesOf(agent) ==
  CASE agent.kind = "agent" -> {ModelOf(1), ToolsOf(1), END}
    [] agent.kind = "sequence" ->
         {ModelOf(1), ToolsOf(1), ModelOf(2), ToolsOf(2), HandoffNode, END}
    [] OTHER -> {ModelOf(1), ToolsOf(1), ModelOf(2), ToolsOf(2), ModelOf(3), ToolsOf(3),
                 SelectNode, END}

StageUpdates ==
  [kind : {"model"}, calls : Seq(CallId)]
    \cup [kind : {"tools"}, results : Seq(Message), reached : BOOLEAN]

Requests == [stage : {0, 1, 2, 3}, calls : Seq(CallId)]

(* The transcript n goes on where m ends.                                       *)
Longer(m, n) ==
  /\ m \in Seq(Message) /\ n \in Seq(Message)
  /\ Len(m) <= Len(n) /\ \A i \in 1..Len(m) : m[i] = n[i]

LongerStage(x, y) == x # NoStage => y # NoStage /\ Longer(x.messages, y.messages)

(* The state t continues the transcripts of s.                                  *)
StateContinues(agent, s, t) ==
  CASE agent.kind = "agent" -> LongerStage(s, t)
    [] agent.kind = "sequence" ->
         LongerStage(s.first, t.first) /\ LongerStage(s.second, t.second)
    [] OTHER -> /\ LongerStage(s.first, t.first)
                /\ s.downstream # NoStage => t.selection = s.selection
                /\ LongerStage(s.downstream, t.downstream)

--------------------------------------------------------------------------------
(* Transcripts.                                                                *)

LEMMA NoStageIsNone == NoStage \notin Stage
BY DEF NoStage, Stage

LEMMA LongerSelf ==
  ASSUME NEW m \in Seq(Message)
  PROVE  Longer(m, m)
BY DEF Longer

LEMMA LongerTrans ==
  ASSUME NEW m, NEW n, NEW q, Longer(m, n), Longer(n, q)
  PROVE  Longer(m, q)
<1>1. Len(m) \in Nat /\ Len(n) \in Nat /\ Len(q) \in Nat
  BY DEF Longer
<1> QED BY <1>1 DEF Longer

LEMMA LongerAppended ==
  ASSUME NEW m \in Seq(Message), NEW n \in Seq(Message)
  PROVE  Longer(m, m \o n) /\ m \o n \in Seq(Message)
<1>1. m \o n \in Seq(Message) /\ Len(m \o n) = Len(m) + Len(n)
  OBVIOUS
<1>2. \A i \in 1..Len(m) : (m \o n)[i] = m[i]
  OBVIOUS
<1>3. Len(m) \in Nat /\ Len(n) \in Nat
  OBVIOUS
<1> QED BY <1>1, <1>2, <1>3 DEF Longer

LEMMA LongerIsPrefix ==
  ASSUME NEW m, NEW n, Longer(m, n)
  PROVE  IsPrefix(m, n)
<1>1. m \in Seq(Message) /\ n \in Seq(Message) /\ Len(m) <= Len(n)
      /\ \A i \in 1..Len(m) : m[i] = n[i]
  BY DEF Longer
<1>2. Len(m) \in Nat /\ Len(n) \in Nat
  BY <1>1
<1>3. SubSeq(m, 1, Len(m)) = [i \in 1..Len(m) |-> m[i]]
      /\ SubSeq(n, 1, Len(m)) = [i \in 1..Len(m) |-> n[i]]
  BY <1>1, <1>2 DEF SubSeq
<1> QED BY <1>1, <1>3 DEF IsPrefix

(* The calls that wait for their results are the last message's.                   *)
LEMMA PendingTyped ==
  ASSUME NEW s \in Stage
  PROVE  PendingCalls(s) \in Seq(CallId)
<1>1. s.messages \in Seq(Message)
  BY DEF Stage
<1>2. CASE HasTurn(s)
  <2>1. PICK m : m = Last(s.messages)
    OBVIOUS
  <2>2. m \in Message /\ m.role = "assistant"
    BY <1>1, <1>2, <2>1 DEF HasTurn, Last, IsAssistant
  <2>3. m.calls \in Seq(CallId)
    BY <2>2 DEF Message, User
  <2> QED BY <1>2, <2>1, <2>3 DEF PendingCalls
<1>3. CASE ~ HasTurn(s)
  BY <1>3 DEF PendingCalls
<1> QED BY <1>2, <1>3

LEMMA ResultsTyped ==
  ASSUME NEW batch \in Seq(CallId), NEW how \in {"ran", "rejected"}
  PROVE  Results(batch, how) \in Seq(Message)
<1>1. \A i \in DOMAIN batch : ToolMessage(batch[i], how) \in Message
  BY DEF ToolMessage, Message
<1>2. DOMAIN batch = 1..Len(batch) /\ Len(batch) \in Nat
  OBVIOUS
<1>3. Results(batch, how) = [i \in 1..Len(batch) |-> ToolMessage(batch[i], how)]
  BY <1>2 DEF Results
<1> HIDE DEF Message, ToolMessage
<1> QED BY <1>1, <1>2, <1>3

(* AgentState::apply extends the transcript.                                      *)
LEMMA ApplyTyped ==
  ASSUME NEW s \in Stage, NEW u \in StageUpdates
  PROVE  Apply(s, u) \in Stage /\ Longer(s.messages, Apply(s, u).messages)
<1>1. s.messages \in Seq(Message) /\ s.rounds \in Nat /\ s.usage \in Nat
      /\ s.stop \in {"None", "FinalAnswer", "MaxRounds"}
  BY DEF Stage
<1>2. CASE u.kind = "model"
  <2>1. u.calls \in Seq(CallId)
    BY <1>2 DEF StageUpdates
  <2>2. PICK m : m = Assistant(u.calls)
    OBVIOUS
  <2>3. m \in Message
    BY <2>1, <2>2 DEF Assistant, Message
  <2>4. Append(s.messages, m) \in Seq(Message) /\ Longer(s.messages, Append(s.messages, m))
    BY <1>1, <2>3 DEF Longer
  <2>5. PICK n \in Seq(Message) : n = Append(s.messages, m)
    BY <2>4
  <2>6. /\ Apply(s, u) = [messages |-> n, rounds |-> s.rounds + 1, usage |-> s.usage + 1,
                          stop |-> IF u.calls = <<>> THEN "FinalAnswer" ELSE NoStop]
    BY <1>2, <2>2, <2>5 DEF Apply, ApplyModel
  <2>7. Apply(s, u) \in Stage
    BY <1>1, <2>5, <2>6 DEF Stage, NoStop
  <2> QED BY <2>4, <2>5, <2>6, <2>7
<1>3. CASE u.kind # "model"
  <2>1. u.results \in Seq(Message)
    BY <1>3 DEF StageUpdates
  <2>2. PICK n : n = s.messages \o u.results
    OBVIOUS
  <2>3. n \in Seq(Message) /\ Longer(s.messages, n)
    BY <1>1, <2>1, <2>2, LongerAppended
  <2>4. /\ Apply(s, u).messages = n
        /\ Apply(s, u) = [messages |-> n, rounds |-> s.rounds, usage |-> s.usage,
                          stop |-> IF u.reached THEN "MaxRounds" ELSE s.stop]
    BY <1>3, <2>2 DEF Apply, ApplyTools, Stage
  <2>5. Apply(s, u) \in Stage
    BY <1>1, <2>3, <2>4 DEF Stage
  <2> QED BY <2>3, <2>4, <2>5
<1> QED BY <1>2, <1>3

--------------------------------------------------------------------------------
(* The nodes of a stage.                                                        *)

(* What the outcome of a stage's node is: an update of its state, a request or an     *)
(* error.                                                                       *)
Outcome(o) ==
  /\ o.tag \in {"update", "interrupt", "fail"}
  /\ o.tag = "interrupt" => o.request \in Requests
  /\ o.tag = "update" => /\ o.update \in StageUpdates
                         /\ o = [tag |-> "update", update |-> o.update, ran |-> o.ran]

LEMMA ModelNodeFacts ==
  ASSUME NEW s \in Stage, NEW o \in ModelNode(s)
  PROVE  Outcome(o) /\ o.ran = <<>>
<1>1. CASE o = Failed("external", <<>>)
  BY <1>1 DEF Failed, Outcome
<1>2. CASE o # Failed("external", <<>>)
  <2>1. PICK batch \in CallLists \cup {<<>>} : o = Committed(ModelCompleted(batch), <<>>)
    BY <1>2 DEF ModelNode
  <2>2. batch \in Seq(CallId)
    <3>1. <<>> \in Seq(CallId)
      OBVIOUS
    <3> QED BY <3>1, CallListsAssumption, Zenon
  <2>3. ModelCompleted(batch) \in StageUpdates
    BY <2>2 DEF ModelCompleted, StageUpdates
  <2> HIDE DEF StageUpdates
  <2> QED BY <2>1, <2>3 DEF Committed, Outcome
<1> QED BY <1>1, <1>2

LEMMA ToolsUpdateTyped ==
  ASSUME NEW s \in Stage, NEW how \in {"ran", "rejected"}, NEW limit
  PROVE  ToolsCompleted(Results(PendingCalls(s), how), ReachedMaxRounds(s, limit)) \in StageUpdates
<1>1. PICK r \in Seq(Message) : r = Results(PendingCalls(s), how)
  BY PendingTyped, ResultsTyped
<1>2. ReachedMaxRounds(s, limit) \in BOOLEAN
  BY DEF ReachedMaxRounds
<1> QED BY <1>1, <1>2 DEF ToolsCompleted, StageUpdates

LEMMA ExecuteFacts ==
  ASSUME NEW s \in Stage, NEW limit, NEW o \in ExecutePending(s, limit)
  PROVE  Outcome(o)
<1>1. CASE \E ran : o = Failed("external", ran)
  BY <1>1 DEF Failed, Outcome
<1>2. CASE ~ \E ran : o = Failed("external", ran)
  <2>1. PICK u : u = ToolsCompleted(Results(PendingCalls(s), "ran"), ReachedMaxRounds(s, limit))
    OBVIOUS
  <2>2. u \in StageUpdates
    BY <2>1, ToolsUpdateTyped
  <2>3. o = Committed(u, PendingCalls(s))
    BY <1>2, <2>1 DEF ExecutePending
  <2> QED BY <2>2, <2>3 DEF Committed, Outcome
<1> QED BY <1>1, <1>2

LEMMA ToolNodeFacts ==
  ASSUME NEW s \in Stage, NEW limit, NEW o \in ToolNode(s, limit)
  PROVE  Outcome(o)
<1>1. CASE o \in ExecutePending(s, limit)
  BY <1>1, ExecuteFacts
<1>2. CASE o \notin ExecutePending(s, limit)
  BY <1>2 DEF ToolNode, Failed, Outcome
<1> QED BY <1>1, <1>2

(* The tool node that asks runs its tools only for its own stage's approval.          *)
LEMMA ApprovalFacts ==
  ASSUME NEW s \in Stage, NEW limit, NEW stage \in {1, 2, 3}, NEW value,
         NEW o \in ApprovalToolNode(s, limit, stage, value)
  PROVE  /\ Outcome(o)
         /\ o.ran # <<>> => value.decision = "Approve" /\ value.stage = stage
<1>1. CASE /\ o \in ExecutePending(s, limit)
           /\ value.decision = "Approve" /\ value.stage = stage
  BY <1>1, ExecuteFacts
<1>2. CASE o \in RejectedUpdate(s, limit)
  <2>1. PICK u : u = ToolsCompleted(Results(PendingCalls(s), "rejected"),
                                    ReachedMaxRounds(s, limit))
    OBVIOUS
  <2>2. u \in StageUpdates
    BY <2>1, ToolsUpdateTyped
  <2>3. o = Committed(u, <<>>)
    BY <1>2, <2>1 DEF RejectedUpdate
  <2> QED BY <2>2, <2>3 DEF Committed, Outcome
<1>3. CASE o = Interrupted(stage, PendingCalls(s))
  <2>1. PICK q \in Seq(CallId) : q = PendingCalls(s)
    BY PendingTyped
  <2> QED BY <1>3, <2>1 DEF Interrupted, Outcome, Requests
<1>4. CASE \E why : o = Failed(why, <<>>)
  BY <1>4 DEF Failed, Outcome
<1>5. \/ o = Failed(ToolNodeFault(s, limit), <<>>)
      \/ o = Interrupted(stage, PendingCalls(s))
      \/ o \in Decide(s, limit, stage, value)
  BY DEF ApprovalToolNode
<1>6. ASSUME o \in Decide(s, limit, stage, value)
      PROVE  \/ o = Failed("decision", <<>>)
             \/ /\ o \in ExecutePending(s, limit)
                /\ value.decision = "Approve" /\ value.stage = stage
             \/ o \in RejectedUpdate(s, limit)
  BY <1>6 DEF Decide
<1> QED BY <1>1, <1>2, <1>3, <1>4, <1>5, <1>6

(* A stage's update in a plan of several stages.                                   *)
Wraps(i, p, o) ==
  /\ o.tag = p.tag /\ o.ran = p.ran /\ o.tag \in {"update", "interrupt", "fail"}
  /\ o.tag = "interrupt" => o.request \in Requests
  /\ o.tag = "update" =>
       \E u \in StageUpdates : o.update = [kind |-> "stage", index |-> i, update |-> u]

LEMMA StageUpdateFacts ==
  ASSUME NEW i, NEW p, Outcome(p), NEW o, o = StageUpdate(i, p)
  PROVE  Wraps(i, p, o)
<1>1. CASE p.tag = "update"
  <2>1. PICK u, ran :
          /\ u \in StageUpdates /\ u = p.update /\ ran = p.ran
          /\ p = [tag |-> "update", update |-> u, ran |-> ran]
    BY <1>1 DEF Outcome
  <2>2. o = [tag |-> "update", update |-> [kind |-> "stage", index |-> i, update |-> u],
             ran |-> ran]
    BY <2>1 DEF StageUpdate
  <2> QED BY <2>1, <2>2 DEF Wraps
<1>2. CASE p.tag # "update"
  BY <1>2 DEF StageUpdate, Outcome, Wraps
<1> QED BY <1>1, <1>2

--------------------------------------------------------------------------------
(* The nodes of a graph.                                                        *)

(* What the runtime relies on: tools that wait for approval run for the approval of   *)
(* the node's own stage, and an update that can be applied continues the state.       *)
NodeOutcome(agent, s, node, value, o) ==
  /\ o.tag \in {"update", "interrupt", "fail"}
  /\ o.tag = "interrupt" => o.request \in Requests
  /\ o.ran # <<>> /\ agent.approval[node[2]] =>
       /\ value.decision = "Approve" /\ value.stage = node[2]
       /\ StageOf(agent, s, node[2]) # NoStage
  /\ o.tag = "update" /\ StateCanApply(agent, s, o.update) =>
       /\ StateApply(agent, s, o.update) \in StatesOf(agent)
       /\ StateContinues(agent, s, StateApply(agent, s, o.update))

LEMMA AgentNodeFacts ==
  ASSUME NEW agent, agent.kind = "agent", NEW s \in StatesOf(agent), NEW value,
         NEW node \in NodesOf(agent) \ {END}, NEW o \in NodeOutcomes(agent, s, node, value)
  PROVE  NodeOutcome(agent, s, node, value, o)
<1>1. s \in Stage /\ node[2] = 1 /\ StageOf(agent, s, node[2]) = s
  BY DEF StatesOf, NodesOf, StageOf, ModelOf, ToolsOf, END
<1>2. s # NoStage
  BY <1>1, NoStageIsNone
<1>3. o \in AgentNode(agent, s, node, value)
  BY DEF NodeOutcomes
<1>4. /\ Outcome(o)
      /\ o.ran # <<>> /\ agent.approval[1] => value.decision = "Approve" /\ value.stage = 1
  <2>1. CASE node = ModelOf(1)
    BY <1>1, <1>3, <2>1, ModelNodeFacts DEF AgentNode
  <2>2. CASE node # ModelOf(1) /\ agent.approval[1]
    <3>1. o \in ApprovalToolNode(s, agent.limits[1], 1, value)
      BY <1>3, <2>2 DEF AgentNode
    <3> QED BY <1>1, <3>1, ApprovalFacts
  <2>3. CASE node # ModelOf(1) /\ ~ agent.approval[1]
    <3>1. o \in ToolNode(s, agent.limits[1])
      BY <1>3, <2>3 DEF AgentNode
    <3> QED BY <1>1, <2>3, <3>1, ToolNodeFacts
  <2> QED BY <2>1, <2>2, <2>3
<1>5. ASSUME o.tag = "update"
      PROVE  /\ StateApply(agent, s, o.update) \in StatesOf(agent)
             /\ StateContinues(agent, s, StateApply(agent, s, o.update))
  <2>1. PICK u \in StageUpdates : u = o.update
    BY <1>4, <1>5 DEF Outcome
  <2>2. PICK t : t = Apply(s, u)
    OBVIOUS
  <2>3. t \in Stage /\ Longer(s.messages, t.messages)
    BY <1>1, <2>2, ApplyTyped
  <2>4. t # NoStage
    BY <2>3, NoStageIsNone
  <2>5. StateApply(agent, s, o.update) = t
    BY <2>1, <2>2 DEF StateApply
  <2>6. t \in StatesOf(agent)
    BY <2>3 DEF StatesOf
  <2>7. StateContinues(agent, s, t)
    BY <2>3, <2>4 DEF StateContinues, LongerStage
  <2> QED BY <2>5, <2>6, <2>7
<1> QED BY <1>1, <1>2, <1>4, <1>5 DEF NodeOutcome, Outcome

(* The outcome of a node of stage i in a sequence or a branch.                     *)
StageOutcome(i, approval, value, o) ==
  /\ o.tag \in {"update", "interrupt", "fail"}
  /\ o.tag = "interrupt" => o.request \in Requests
  /\ o.ran # <<>> /\ approval => value.decision = "Approve" /\ value.stage = i
  /\ o.tag = "update" =>
       \E u \in StageUpdates : o.update = [kind |-> "stage", index |-> i, update |-> u]

StageNode(saved, i, tools, approval, limit, value) ==
  IF ~ tools THEN ModelNode(saved)
  ELSE IF approval THEN ApprovalToolNode(saved, limit, i, value)
  ELSE ToolNode(saved, limit)

LEMMA StageNodeFacts ==
  ASSUME NEW saved \in Stage, NEW i \in {1, 2, 3}, NEW tools, NEW approval, NEW limit,
         NEW value, NEW p \in StageNode(saved, i, tools, approval, limit, value),
         NEW o, o = StageUpdate(i, p)
  PROVE  StageOutcome(i, approval, value, o)
<1>2. /\ Outcome(p)
      /\ p.ran # <<>> /\ approval => value.decision = "Approve" /\ value.stage = i
  <2>1. CASE ~ tools
    <3>1. p \in ModelNode(saved)
      BY <2>1 DEF StageNode
    <3> QED BY <3>1, ModelNodeFacts
  <2>2. CASE tools /\ approval
    <3>1. p \in ApprovalToolNode(saved, limit, i, value)
      BY <2>2 DEF StageNode
    <3> QED BY <3>1, ApprovalFacts
  <2>3. CASE tools /\ ~ approval
    <3>1. p \in ToolNode(saved, limit)
      BY <2>3 DEF StageNode
    <3> QED BY <2>3, <3>1, ToolNodeFacts
  <2> QED BY <2>1, <2>2, <2>3
<1>3. Wraps(i, p, o)
  BY <1>2, StageUpdateFacts, Zenon
<1>4. o.ran # <<>> /\ approval => value.decision = "Approve" /\ value.stage = i
  BY <1>2, <1>3, Zenon DEF Wraps
<1> QED BY <1>3, <1>4, Zenon DEF StageOutcome, Wraps

LEMMA SequenceOutcomes ==
  ASSUME NEW agent, NEW s \in SequenceStates, NEW value,
         NEW node \in {ModelOf(1), ToolsOf(1), ModelOf(2), ToolsOf(2), HandoffNode},
         NEW o \in SequenceNode(agent, s, node, value)
  PROVE  \/ o.tag = "fail" /\ o.ran = <<>>
         \/ /\ o.tag = "update" /\ o.ran = <<>>
            /\ \E m \in Seq(Message) : o.update = [kind |-> "handoff", messages |-> m]
         \/ /\ node[2] \in {1, 2}
            /\ SequenceStage(s, node[2]) # NoStage
            /\ StageOutcome(node[2], agent.approval[node[2]], value, o)
<1>1. CASE node = HandoffNode
  <2>1. o \in HandoffRun(agent, s)
    BY <1>1 DEF SequenceNode
  <2>2. CASE \E why : o = Failed(why, <<>>)
    BY <2>2 DEF Failed
  <2>3. CASE ~ \E why : o = Failed(why, <<>>)
    <3>1. PICK m \in Handoffs : o = Committed([kind |-> "handoff", messages |-> m], <<>>)
      BY <2>1, <2>3 DEF HandoffRun
    <3>2. m \in Seq(Message)
      BY HandoffsAssumption
    <3> QED BY <3>1, <3>2 DEF Committed
  <2> QED BY <2>2, <2>3
<1>2. CASE node # HandoffNode
  <2>1. PICK i \in {1, 2} : i = node[2]
    BY <1>2 DEF ModelOf, ToolsOf
  <2>2. PICK tools : tools = (node = ToolsOf(i))
    OBVIOUS
  <2>3. PICK saved : saved = SequenceStage(s, i)
    OBVIOUS
  <2>4. CASE SequenceActive(agent, s, i, tools)
    <3>1. saved \in Stage
      BY <2>1, <2>3, <2>4 DEF SequenceActive, SequenceStage, SequenceStates
    <3>2. PICK p \in StageNode(saved, i, tools, agent.approval[i], agent.limits[i], value) :
            o = StageUpdate(i, p)
      BY <1>2, <2>1, <2>2, <2>3, <2>4 DEF SequenceNode, StageNode
    <3>3. StageOutcome(i, agent.approval[i], value, o)
      <4>1. i \in {1, 2, 3}
        OBVIOUS
      <4>2. PICK approval, limit : approval = agent.approval[i] /\ limit = agent.limits[i]
        OBVIOUS
      <4> QED BY <3>1, <3>2, <4>1, <4>2, StageNodeFacts
    <3>4. saved # NoStage
      BY <3>1, NoStageIsNone
    <3> QED BY <2>1, <2>3, <3>3, <3>4
  <2>5. CASE ~ SequenceActive(agent, s, i, tools)
    <3>1. o = Failed("internal", <<>>)
      BY <1>2, <2>1, <2>2, <2>5 DEF SequenceNode
    <3> QED BY <3>1 DEF Failed
  <2> QED BY <2>4, <2>5
<1> QED BY <1>1, <1>2

(* SequenceState::apply                                                          *)
LEMMA HandoffApplied ==
  ASSUME NEW s \in SequenceStates, NEW m \in Seq(Message),
         NEW u, u = [kind |-> "handoff", messages |-> m], SequenceCanApply(s, u),
         NEW t, t = SequenceApply(s, u)
  PROVE  /\ t \in SequenceStates
         /\ LongerStage(s.first, t.first) /\ LongerStage(s.second, t.second)
<1>1. PICK new : new = NewAgentState(m)
  OBVIOUS
<1>2. new \in Stage
  BY <1>1 DEF NewAgentState, Stage, NoStop
<1>3. s.second = NoStage
  BY DEF SequenceCanApply
<1>4. t = [first |-> s.first, second |-> new, stopped |-> s.stopped]
  BY <1>1 DEF SequenceApply, SequenceStates
<1>5. s.first \in Stage /\ s.stopped \in BOOLEAN
  BY DEF SequenceStates
<1>6. t.first = s.first /\ s.first.messages \in Seq(Message)
  BY <1>4, <1>5 DEF Stage
<1>7. LongerStage(s.first, t.first)
  BY <1>6, LongerSelf DEF LongerStage
<1>8. t \in SequenceStates
  BY <1>2, <1>4, <1>5 DEF SequenceStates
<1> QED BY <1>3, <1>7, <1>8 DEF LongerStage

LEMMA SequenceStageApplied ==
  ASSUME NEW s \in SequenceStates, NEW i \in {1, 2}, NEW v \in StageUpdates,
         NEW u, u = [kind |-> "stage", index |-> i, update |-> v], SequenceCanApply(s, u),
         NEW t, t = SequenceApply(s, u)
  PROVE  /\ t \in SequenceStates
         /\ LongerStage(s.first, t.first) /\ LongerStage(s.second, t.second)
<1>1. PICK saved : saved = SequenceStage(s, i)
  OBVIOUS
<1>2. s.first \in Stage /\ s.second \in Stage \cup {NoStage} /\ s.stopped \in BOOLEAN
  BY DEF SequenceStates
<1>3. saved \in Stage /\ (i = 1 => saved = s.first /\ s.second = NoStage)
      /\ (i = 2 => saved = s.second)
  BY <1>1, <1>2 DEF SequenceCanApply, SequenceStage
<1>4. PICK after : after = Apply(saved, v)
  OBVIOUS
<1>5. after \in Stage /\ Longer(saved.messages, after.messages)
  BY <1>3, <1>4, ApplyTyped
<1>6. after # NoStage
  BY <1>5, NoStageIsNone
<1>7. PICK stopped \in BOOLEAN : stopped = StageStops(after, i = 2)
  BY DEF StageStops
<1>8. CASE i = 1
  <2>1. t = [first |-> after, second |-> s.second, stopped |-> stopped]
    BY <1>1, <1>4, <1>7, <1>8 DEF SequenceApply, SequenceStates, StageStops
  <2>2. t \in SequenceStates
    BY <1>2, <1>5, <1>7, <2>1 DEF SequenceStates
  <2> QED BY <1>3, <1>5, <1>6, <1>8, <2>1, <2>2 DEF LongerStage
<1>9. CASE i = 2
  <2>1. u.kind # "handoff" /\ u.index # 1 /\ u.index = i /\ u.update = v
    BY <1>9
  <2>2. t = [s EXCEPT !.second = after, !.stopped = stopped]
    BY <1>1, <1>4, <1>7, <2>1, Zenon DEF SequenceApply
  <2>3. t = [first |-> s.first, second |-> after, stopped |-> stopped]
    BY <2>2 DEF SequenceStates
  <2>4. t \in SequenceStates
    BY <1>2, <1>5, <1>7, <2>3 DEF SequenceStates
  <2>5. Longer(s.first.messages, s.first.messages)
    BY <1>2, LongerSelf DEF Stage
  <2> QED BY <1>3, <1>5, <1>6, <1>9, <2>3, <2>4, <2>5 DEF LongerStage
<1> QED BY <1>8, <1>9

LEMMA SequenceNodeFacts ==
  ASSUME NEW agent, agent.kind = "sequence", NEW s \in StatesOf(agent), NEW value,
         NEW node \in NodesOf(agent) \ {END}, NEW o \in NodeOutcomes(agent, s, node, value)
  PROVE  NodeOutcome(agent, s, node, value, o)
<1>1. s \in SequenceStates
      /\ node \in {ModelOf(1), ToolsOf(1), ModelOf(2), ToolsOf(2), HandoffNode}
      /\ o \in SequenceNode(agent, s, node, value)
  BY DEF StatesOf, NodesOf, NodeOutcomes
<1>2. PICK i : i = node[2]
  OBVIOUS
<1>3. /\ StageOf(agent, s, i) = SequenceStage(s, i)
      /\ \A u : /\ StateCanApply(agent, s, u) = SequenceCanApply(s, u)
                /\ StateApply(agent, s, u) = SequenceApply(s, u)
  BY DEF StageOf, StateCanApply, StateApply
<1>4. \A t \in SequenceStates :
        /\ t \in StatesOf(agent)
        /\ LongerStage(s.first, t.first) /\ LongerStage(s.second, t.second)
             => StateContinues(agent, s, t)
  BY DEF StatesOf, StateContinues
<1>5. ASSUME NEW u, o.update = u, SequenceCanApply(s, u),
             \/ \E m \in Seq(Message) : u = [kind |-> "handoff", messages |-> m]
             \/ /\ i \in {1, 2}
                /\ \E v \in StageUpdates : u = [kind |-> "stage", index |-> i, update |-> v]
      PROVE  /\ StateApply(agent, s, o.update) \in StatesOf(agent)
             /\ StateContinues(agent, s, StateApply(agent, s, o.update))
  <2>1. PICK t : t = SequenceApply(s, u)
    OBVIOUS
  <2>2. /\ t \in SequenceStates
        /\ LongerStage(s.first, t.first) /\ LongerStage(s.second, t.second)
    <3>1. CASE \E m \in Seq(Message) : u = [kind |-> "handoff", messages |-> m]
      BY <1>1, <1>5, <2>1, <3>1, HandoffApplied
    <3>2. CASE /\ i \in {1, 2}
               /\ \E v \in StageUpdates : u = [kind |-> "stage", index |-> i, update |-> v]
      BY <1>1, <1>5, <2>1, <3>2, SequenceStageApplied
    <3> QED BY <1>5, <3>1, <3>2
  <2> QED BY <1>3, <1>4, <1>5, <2>1, <2>2
<1>6. CASE o.tag = "fail" /\ o.ran = <<>>
  BY <1>6 DEF NodeOutcome
<1>7. CASE /\ o.tag = "update" /\ o.ran = <<>>
           /\ \E m \in Seq(Message) : o.update = [kind |-> "handoff", messages |-> m]
  BY <1>3, <1>5, <1>7 DEF NodeOutcome
<1>8. CASE /\ i \in {1, 2}
           /\ SequenceStage(s, i) # NoStage
           /\ StageOutcome(i, agent.approval[i], value, o)
  BY <1>2, <1>3, <1>5, <1>8 DEF NodeOutcome, StageOutcome
<1>9. \/ o.tag = "fail" /\ o.ran = <<>>
      \/ /\ o.tag = "update" /\ o.ran = <<>>
         /\ \E m \in Seq(Message) : o.update = [kind |-> "handoff", messages |-> m]
      \/ /\ i \in {1, 2}
         /\ SequenceStage(s, i) # NoStage
         /\ StageOutcome(i, agent.approval[i], value, o)
  BY <1>1, <1>2, SequenceOutcomes
<1> QED BY <1>6, <1>7, <1>8, <1>9

LEMMA BranchOutcomes ==
  ASSUME NEW agent, NEW s \in BranchStates, NEW value,
         NEW node \in {ModelOf(1), ToolsOf(1), ModelOf(2), ToolsOf(2),
                       ModelOf(3), ToolsOf(3), SelectNode},
         NEW o \in BranchNode(agent, s, node, value)
  PROVE  \/ o.tag = "fail" /\ o.ran = <<>>
         \/ /\ o.tag = "update" /\ o.ran = <<>>
            /\ \E t \in {"B", "C", "Complete"}, m \in Seq(Message) :
                 o.update = [kind |-> "select", target |-> t, messages |-> m]
         \/ /\ node[2] \in {1, 2, 3}
            /\ BranchStage(s, node[2]) # NoStage
            /\ StageOutcome(node[2], agent.approval[node[2]], value, o)
<1>1. CASE node = SelectNode
  <2>1. o \in SelectRun(agent, s)
    BY <1>1 DEF BranchNode
  <2>2. CASE \E why : o = Failed(why, <<>>)
    BY <2>2 DEF Failed
  <2>3. CASE ~ \E why : o = Failed(why, <<>>)
    <3>1. PICK t \in {"B", "C", "Complete"}, m \in Handoffs \cup {<<>>} :
            o = Committed([kind |-> "select", target |-> t, messages |-> m], <<>>)
      <4>1. \/ o = Committed([kind |-> "select", target |-> "Complete", messages |-> <<>>],
                             <<>>)
            \/ \E u \in [kind : {"select"}, target : {"B", "C"},
                         messages : {h \in Handoffs : Admit(h)}] : o = Committed(u, <<>>)
        BY <2>1, <2>3 DEF SelectRun
      <4>2. CASE o = Committed([kind |-> "select", target |-> "Complete", messages |-> <<>>],
                               <<>>)
        BY <4>2
      <4>3. ASSUME NEW u \in [kind : {"select"}, target : {"B", "C"},
                              messages : {h \in Handoffs : Admit(h)}],
                   o = Committed(u, <<>>)
            PROVE  \E t \in {"B", "C", "Complete"}, m \in Handoffs \cup {<<>>} :
                     o = Committed([kind |-> "select", target |-> t, messages |-> m], <<>>)
        <5>1. u = [kind |-> "select", target |-> u.target, messages |-> u.messages]
              /\ u.target \in {"B", "C", "Complete"} /\ u.messages \in Handoffs
          OBVIOUS
        <5> QED BY <4>3, <5>1, Zenon
      <4> QED BY <4>1, <4>2, <4>3
    <3>2. m \in Seq(Message)
      <4>1. <<>> \in Seq(Message)
        OBVIOUS
      <4> QED BY <4>1, HandoffsAssumption, Zenon
    <3> QED BY <3>1, <3>2 DEF Committed
  <2> QED BY <2>2, <2>3
<1>2. CASE node # SelectNode
  <2>1. PICK i \in {1, 2, 3} : i = node[2]
    BY <1>2 DEF ModelOf, ToolsOf
  <2>2. PICK tools : tools = (node = ToolsOf(i))
    OBVIOUS
  <2>3. PICK saved : saved = BranchStage(s, i)
    OBVIOUS
  <2>4. CASE BranchActive(agent, s, i, tools)
    <3>1. saved \in Stage
      BY <2>1, <2>3, <2>4 DEF BranchActive, BranchStage, BranchStates
    <3>2. PICK p \in StageNode(saved, i, tools, agent.approval[i], agent.limits[i], value) :
            o = StageUpdate(i, p)
      BY <1>2, <2>1, <2>2, <2>3, <2>4 DEF BranchNode, StageNode
    <3>3. StageOutcome(i, agent.approval[i], value, o)
      <4>1. PICK approval, limit : approval = agent.approval[i] /\ limit = agent.limits[i]
        OBVIOUS
      <4> QED BY <3>1, <3>2, <4>1, StageNodeFacts
    <3>4. saved # NoStage
      BY <3>1, NoStageIsNone
    <3> QED BY <2>1, <2>3, <3>3, <3>4
  <2>5. CASE ~ BranchActive(agent, s, i, tools)
    <3>1. o = Failed("internal", <<>>)
      BY <1>2, <2>1, <2>2, <2>5 DEF BranchNode
    <3> QED BY <3>1 DEF Failed
  <2> QED BY <2>4, <2>5
<1> QED BY <1>1, <1>2

(* The transcripts of a branch go on.                                              *)
BranchContinues(s, t) ==
  /\ LongerStage(s.first, t.first)
  /\ s.downstream # NoStage => t.selection = s.selection
  /\ LongerStage(s.downstream, t.downstream)

LEMMA BranchTyped ==
  ASSUME NEW first \in Stage, NEW down \in Stage \cup {NoStage}, NEW stopped \in BOOLEAN,
         NEW selection \in {"none", "B", "C", "Complete"}
  PROVE  [first |-> first, downstream |-> down, stopped |-> stopped,
          selection |-> selection] \in BranchStates
BY DEF BranchStates

(* BranchState::apply                                                            *)
LEMMA SelectApplied ==
  ASSUME NEW s \in BranchStates, NEW target \in {"B", "C", "Complete"}, NEW m \in Seq(Message),
         NEW u, u = [kind |-> "select", target |-> target, messages |-> m],
         BranchCanApply(s, u), NEW t, t = BranchApply(s, u)
  PROVE  t \in BranchStates /\ BranchContinues(s, t)
<1>1. PICK new : new = NewAgentState(m)
  OBVIOUS
<1>2. new \in Stage
  BY <1>1 DEF NewAgentState, Stage, NoStop
<1>3. s.downstream = NoStage
  BY DEF BranchCanApply
<1>4. PICK down \in Stage \cup {NoStage} :
        down = IF target = "Complete" THEN s.downstream ELSE new
  BY <1>2, <1>3
<1>5. PICK stopped \in BOOLEAN : stopped = (target = "Complete")
  OBVIOUS
<1>6. u.kind = "select" /\ u.target = target /\ u.messages = m
  OBVIOUS
<1>7. t = [s EXCEPT !.selection = target, !.downstream = down, !.stopped = stopped]
  BY <1>1, <1>4, <1>5, <1>6, Zenon DEF BranchApply
<1>8. t = [first |-> s.first, downstream |-> down, stopped |-> stopped, selection |-> target]
  BY <1>7 DEF BranchStates
<1>9. s.first \in Stage
  BY DEF BranchStates
<1>10. t.first = s.first /\ s.first.messages \in Seq(Message)
  BY <1>8, <1>9 DEF Stage
<1>11. LongerStage(s.first, t.first)
  BY <1>10, LongerSelf DEF LongerStage
<1>12. t \in BranchStates
  <2>1. target \in {"none", "B", "C", "Complete"}
    OBVIOUS
  <2> QED BY <1>8, <1>9, <2>1, BranchTyped
<1> QED BY <1>3, <1>11, <1>12 DEF LongerStage, BranchContinues

LEMMA BranchStageApplied ==
  ASSUME NEW s \in BranchStates, NEW i \in {1, 2, 3}, NEW v \in StageUpdates,
         NEW u, u = [kind |-> "stage", index |-> i, update |-> v], BranchCanApply(s, u),
         NEW t, t = BranchApply(s, u)
  PROVE  t \in BranchStates /\ BranchContinues(s, t)
<1>1. PICK saved : saved = BranchStage(s, i)
  OBVIOUS
<1>2. /\ s.first \in Stage /\ s.downstream \in Stage \cup {NoStage} /\ s.stopped \in BOOLEAN
      /\ s.selection \in {"none", "B", "C", "Complete"}
  BY DEF BranchStates
<1>3. u.kind = "stage" /\ u.kind # "select" /\ u.index = i /\ u.update = v
  OBVIOUS
<1>4. /\ saved \in Stage /\ (i = 1 => saved = s.first)
      /\ i # 1 => saved = s.downstream /\ s.downstream # NoStage
  BY <1>1, <1>2, <1>3 DEF BranchCanApply, BranchStage
<1>5. PICK after : after = Apply(saved, v)
  OBVIOUS
<1>6. after \in Stage /\ Longer(saved.messages, after.messages)
  BY <1>4, <1>5, ApplyTyped
<1>7. after # NoStage
  BY <1>6, NoStageIsNone
<1>8. PICK stopped \in BOOLEAN : stopped = StageStops(after, i # 1)
  BY DEF StageStops
<1>9. CASE i = 1
  <2>1. t = [s EXCEPT !.first = after, !.stopped = stopped]
    BY <1>1, <1>3, <1>5, <1>8, <1>9, Zenon DEF BranchApply
  <2>2. t = [first |-> after, downstream |-> s.downstream, stopped |-> stopped,
             selection |-> s.selection]
    BY <2>1 DEF BranchStates
  <2>3. t \in BranchStates
    BY <1>2, <1>6, <1>8, <2>2 DEF BranchStates
  <2>4. s.downstream # NoStage => Longer(s.downstream.messages, s.downstream.messages)
    BY <1>2, LongerSelf DEF Stage
  <2> QED BY <1>4, <1>6, <1>7, <1>9, <2>2, <2>3, <2>4 DEF LongerStage, BranchContinues
<1>10. CASE i # 1
  <2>1. t = [s EXCEPT !.downstream = after, !.stopped = stopped]
    BY <1>1, <1>3, <1>5, <1>8, <1>10, Zenon DEF BranchApply
  <2>2. t = [first |-> s.first, downstream |-> after, stopped |-> stopped,
             selection |-> s.selection]
    BY <2>1 DEF BranchStates
  <2>3. t \in BranchStates
    BY <1>2, <1>6, <1>8, <2>2 DEF BranchStates
  <2>4. Longer(s.first.messages, s.first.messages)
    BY <1>2, LongerSelf DEF Stage
  <2> QED BY <1>4, <1>6, <1>7, <1>10, <2>2, <2>3, <2>4 DEF LongerStage, BranchContinues
<1> QED BY <1>9, <1>10

LEMMA BranchNodeFacts ==
  ASSUME NEW agent, agent.kind \notin {"agent", "sequence"}, NEW s \in StatesOf(agent),
         NEW value, NEW node \in NodesOf(agent) \ {END},
         NEW o \in NodeOutcomes(agent, s, node, value)
  PROVE  NodeOutcome(agent, s, node, value, o)
<1>1. s \in BranchStates
      /\ node \in {ModelOf(1), ToolsOf(1), ModelOf(2), ToolsOf(2), ModelOf(3), ToolsOf(3),
                   SelectNode}
      /\ o \in BranchNode(agent, s, node, value)
  BY DEF StatesOf, NodesOf, NodeOutcomes
<1>2. PICK i : i = node[2]
  OBVIOUS
<1>3. /\ StageOf(agent, s, i) = BranchStage(s, i)
      /\ \A u : /\ StateCanApply(agent, s, u) = BranchCanApply(s, u)
                /\ StateApply(agent, s, u) = BranchApply(s, u)
  BY DEF StageOf, StateCanApply, StateApply
<1>4. \A t \in BranchStates :
        /\ t \in StatesOf(agent)
        /\ BranchContinues(s, t) => StateContinues(agent, s, t)
  BY DEF StatesOf, StateContinues, BranchContinues
<1>5. ASSUME NEW u, o.update = u, BranchCanApply(s, u),
             \/ \E t \in {"B", "C", "Complete"}, m \in Seq(Message) :
                  u = [kind |-> "select", target |-> t, messages |-> m]
             \/ /\ i \in {1, 2, 3}
                /\ \E v \in StageUpdates : u = [kind |-> "stage", index |-> i, update |-> v]
      PROVE  /\ StateApply(agent, s, o.update) \in StatesOf(agent)
             /\ StateContinues(agent, s, StateApply(agent, s, o.update))
  <2>1. PICK t : t = BranchApply(s, u)
    OBVIOUS
  <2>2. t \in BranchStates /\ BranchContinues(s, t)
    <3>1. CASE \E g \in {"B", "C", "Complete"}, m \in Seq(Message) :
                 u = [kind |-> "select", target |-> g, messages |-> m]
      BY <1>1, <1>5, <2>1, <3>1, SelectApplied
    <3>2. CASE /\ i \in {1, 2, 3}
               /\ \E v \in StageUpdates : u = [kind |-> "stage", index |-> i, update |-> v]
      BY <1>1, <1>5, <2>1, <3>2, BranchStageApplied
    <3> QED BY <1>5, <3>1, <3>2
  <2> QED BY <1>3, <1>4, <1>5, <2>1, <2>2
<1>6. CASE o.tag = "fail" /\ o.ran = <<>>
  BY <1>6 DEF NodeOutcome
<1>7. CASE /\ o.tag = "update" /\ o.ran = <<>>
           /\ \E t \in {"B", "C", "Complete"}, m \in Seq(Message) :
                o.update = [kind |-> "select", target |-> t, messages |-> m]
  BY <1>3, <1>5, <1>7 DEF NodeOutcome
<1>8. CASE /\ i \in {1, 2, 3}
           /\ BranchStage(s, i) # NoStage
           /\ StageOutcome(i, agent.approval[i], value, o)
  BY <1>2, <1>3, <1>5, <1>8 DEF NodeOutcome, StageOutcome
<1>9. \/ o.tag = "fail" /\ o.ran = <<>>
      \/ /\ o.tag = "update" /\ o.ran = <<>>
         /\ \E t \in {"B", "C", "Complete"}, m \in Seq(Message) :
              o.update = [kind |-> "select", target |-> t, messages |-> m]
      \/ /\ i \in {1, 2, 3}
         /\ BranchStage(s, i) # NoStage
         /\ StageOutcome(i, agent.approval[i], value, o)
  BY <1>1, <1>2, BranchOutcomes
<1> QED BY <1>6, <1>7, <1>8, <1>9

LEMMA NodeFacts ==
  ASSUME NEW agent, NEW s \in StatesOf(agent), NEW value, NEW node \in NodesOf(agent) \ {END},
         NEW o \in NodeOutcomes(agent, s, node, value)
  PROVE  NodeOutcome(agent, s, node, value, o)
BY AgentNodeFacts, SequenceNodeFacts, BranchNodeFacts

(* A router names a node of the graph or none.                                     *)
LEMMA RouteTyped ==
  ASSUME NEW agent, NEW s \in StatesOf(agent), NEW node \in NodesOf(agent) \ {END}
  PROVE  RouteOf(agent, node, s) \in NodesOf(agent) \cup {NoRoute}
<1>1. CASE agent.kind = "agent"
  <2>1. RouteOf(agent, node, s) = AgentRoute(agent, node, s)
    BY <1>1 DEF RouteOf
  <2>2. AgentRoute(agent, node, s) \in {ModelOf(1), ToolsOf(1), END, NoRoute}
    BY DEF AgentRoute, RouteAfterModel, RouteAfterTools
  <2> QED BY <1>1, <2>1, <2>2 DEF NodesOf
<1>2. CASE agent.kind = "sequence"
  <2>1. RouteOf(agent, node, s) = SequenceRoute(node, s)
    BY <1>2 DEF RouteOf
  <2>2. node \in {ModelOf(1), ToolsOf(1), ModelOf(2), ToolsOf(2), HandoffNode}
    BY <1>2 DEF NodesOf
  <2>3. SequenceRoute(node, s) \in
          {ModelOf(1), ToolsOf(1), ModelOf(2), ToolsOf(2), HandoffNode, END, NoRoute}
    BY <2>2 DEF SequenceRoute, ModelOf, ToolsOf, HandoffNode
  <2> QED BY <1>2, <2>1, <2>3 DEF NodesOf
<1>3. CASE agent.kind \notin {"agent", "sequence"}
  <2>1. RouteOf(agent, node, s) = BranchRoute(node, s)
    BY <1>3 DEF RouteOf
  <2>2. node \in {ModelOf(1), ToolsOf(1), ModelOf(2), ToolsOf(2), ModelOf(3), ToolsOf(3),
                  SelectNode}
    BY <1>3 DEF NodesOf
  <2>3. BranchRoute(node, s) \in
          {ModelOf(1), ToolsOf(1), ModelOf(2), ToolsOf(2), ModelOf(3), ToolsOf(3),
           SelectNode, END, NoRoute}
    <3>1. CASE node = SelectNode
      BY <3>1 DEF BranchRoute, SelectNode, ModelOf, TargetIndex
    <3>2. CASE node # SelectNode
      BY <2>2, <3>2 DEF BranchRoute, ModelOf, ToolsOf, SelectNode
    <3> QED BY <3>1, <3>2
  <2> QED BY <1>3, <2>1, <2>3 DEF NodesOf
<1> QED BY <1>1, <1>2, <1>3

--------------------------------------------------------------------------------
(* Agents of one graph version have the same states and nodes.                        *)
LEMMA VersionDecidesKind ==
  ASSUME NEW a, NEW b, Version(a) = Version(b)
  PROVE  /\ (a.kind = "agent") = (b.kind = "agent")
         /\ (a.kind = "sequence") = (b.kind = "sequence")
<1>1. \A x : x.kind = "agent" => Version(x)[1] = "agent"
  BY DEF Version, AgentVersion
<1>2. \A x : x.kind = "sequence" => Version(x)[1] = "sequence"
  BY DEF Version, SequenceVersion
<1>3. \A x : x.kind \notin {"agent", "sequence"} => Version(x)[1] = "branch"
  BY DEF Version, BranchVersion
<1> QED BY <1>1, <1>2, <1>3

LEMMA VersionDecides ==
  ASSUME NEW a, NEW b, Version(a) = Version(b)
  PROVE  /\ StatesOf(a) = StatesOf(b) /\ NodesOf(a) = NodesOf(b)
         /\ \A s, t : StateContinues(a, s, t) => StateContinues(b, s, t)
<1>1. /\ (a.kind = "agent") = (b.kind = "agent")
      /\ (a.kind = "sequence") = (b.kind = "sequence")
  BY VersionDecidesKind
<1>2. StatesOf(a) = StatesOf(b)
  BY <1>1, Zenon DEF StatesOf
<1>3. NodesOf(a) = NodesOf(b)
  BY <1>1, Zenon DEF NodesOf
<1>4. \A s, t : StateContinues(a, s, t) => StateContinues(b, s, t)
  BY <1>1 DEF StateContinues
<1> QED BY <1>2, <1>3, <1>4

LEMMA LongerStageSelf ==
  ASSUME NEW x \in Stage \cup {NoStage}
  PROVE  LongerStage(x, x)
BY LongerSelf DEF LongerStage, Stage

LEMMA LongerStageTrans ==
  ASSUME NEW x, NEW y, NEW z, LongerStage(x, y), LongerStage(y, z)
  PROVE  LongerStage(x, z)
BY LongerTrans DEF LongerStage

LEMMA ContinuesSelf ==
  ASSUME NEW agent, NEW s \in StatesOf(agent)
  PROVE  StateContinues(agent, s, s)
<1>1. CASE agent.kind = "agent"
  BY <1>1, LongerStageSelf DEF StatesOf, StateContinues
<1>2. CASE agent.kind = "sequence"
  BY <1>2, LongerStageSelf DEF StatesOf, StateContinues, SequenceStates
<1>3. CASE agent.kind \notin {"agent", "sequence"}
  BY <1>3, LongerStageSelf DEF StatesOf, StateContinues, BranchStates
<1> QED BY <1>1, <1>2, <1>3

LEMMA ContinuesTrans ==
  ASSUME NEW agent, NEW s, NEW t, NEW w,
         StateContinues(agent, s, t), StateContinues(agent, t, w)
  PROVE  StateContinues(agent, s, w)
<1>1. CASE agent.kind = "agent"
  BY <1>1, LongerStageTrans DEF StateContinues
<1>2. CASE agent.kind = "sequence"
  BY <1>2, LongerStageTrans DEF StateContinues
<1>3. CASE agent.kind \notin {"agent", "sequence"}
  <2>1. LongerStage(s.first, w.first) /\ LongerStage(s.downstream, w.downstream)
    BY <1>3, LongerStageTrans DEF StateContinues
  <2>2. s.downstream # NoStage => t.downstream # NoStage
    BY <1>3 DEF StateContinues, LongerStage
  <2>3. s.downstream # NoStage => w.selection = s.selection
    BY <1>3, <2>2 DEF StateContinues
  <2> QED BY <1>3, <2>1, <2>3 DEF StateContinues
<1> QED BY <1>1, <1>2, <1>3

(* What StateContinues says of each stage.                                          *)
LEMMA ContinuesStages ==
  ASSUME NEW agent, NEW s, NEW t, StateContinues(agent, s, t), NEW i
  PROVE  LongerStage(StageOf(agent, s, i), StageOf(agent, t, i))
<1>1. CASE agent.kind = "agent"
  BY <1>1 DEF StateContinues, StageOf
<1>2. CASE agent.kind = "sequence"
  BY <1>2 DEF StateContinues, StageOf, SequenceStage
<1>3. CASE agent.kind \notin {"agent", "sequence"}
  <2>1. StageOf(agent, s, i) = BranchStage(s, i) /\ StageOf(agent, t, i) = BranchStage(t, i)
    BY <1>3 DEF StageOf
  <2>2. CASE i = 1
    BY <1>3, <2>1, <2>2 DEF StateContinues, BranchStage
  <2>3. CASE i # 1 /\ TargetIndex(s.selection) = i /\ s.downstream # NoStage
    <3>1. BranchStage(s, i) = s.downstream /\ BranchStage(t, i) = t.downstream
      BY <1>3, <2>3 DEF StateContinues, BranchStage
    <3> QED BY <1>3, <2>1, <3>1 DEF StateContinues
  <2>4. CASE i # 1 /\ ~ (TargetIndex(s.selection) = i /\ s.downstream # NoStage)
    <3>1. BranchStage(s, i) = NoStage
      BY <2>4 DEF BranchStage
    <3> QED BY <2>1, <3>1 DEF LongerStage
  <2> QED BY <2>2, <2>3, <2>4
<1> QED BY <1>1, <1>2, <1>3

--------------------------------------------------------------------------------
(* The inductive invariant.                                                      *)

(* Checkpoints are of the graph of some agent of the fleet.                          *)
Checkpoint ==
  UNION {[version : {Version(a)}, state : StatesOf(a), node : NodesOf(a),
          request : Requests] : a \in fleet}

CallTyped(k) ==
  /\ k = [pc |-> k.pc, op |-> k.op, agent |-> k.agent, line |-> k.line,
          policy |-> k.policy, state |-> k.state, node |-> k.node, value |-> k.value,
          request |-> k.request, steps |-> k.steps, parent |-> k.parent]
  /\ k.agent \in fleet /\ k.line \in Lines
  /\ k.state \in StatesOf(k.agent) /\ k.node \in NodesOf(k.agent)
  /\ k.request \in Requests
  /\ k.parent \in 0..Len(lines[k.line])

(* An approval a call still carries was granted for the batch it would run.            *)
Backed(k) ==
  k.value.decision = "Approve" /\ StageOf(k.agent, k.state, k.value.stage) # NoStage =>
    [stage |-> k.value.stage,
     messages |-> StageOf(k.agent, k.state, k.value.stage).messages] \in granted

(* A call's state continues the checkpoint it would be saved on top of.                *)
Continues(k) ==
  k.parent # 0 =>
    /\ lines[k.line][k.parent].version = Version(k.agent)
    /\ StateContinues(k.agent, lines[k.line][k.parent].state, k.state)

GoodCall(k) == k.pc = "idle" \/ (CallTyped(k) /\ Backed(k) /\ Continues(k))

Follows(p, q) ==
  /\ q.version = p.version
  /\ \A a \in fleet : Version(a) = p.version => StateContinues(a, p.state, q.state)

OneConversation(line) == \A n \in 2..Len(line) : Follows(line[n - 1], line[n])

Inv ==
  /\ lines \in [Lines -> Seq(Checkpoint)]
  /\ calls = [c \in Call |-> calls[c]]
  /\ \A c \in Call : GoodCall(calls[c])
  /\ \A l \in Lines : OneConversation(lines[l])
  /\ effects \subseteq granted

--------------------------------------------------------------------------------
(* Steps.                                                                       *)

(* Lineages keep what they have.                                                  *)
LinesGrow ==
  \A l \in Lines : /\ Len(lines[l]) <= Len(lines'[l])
                   /\ \A n \in 1..Len(lines[l]) : lines'[l][n] = lines[l][n]

LEMMA LinesSame ==
  ASSUME Inv, UNCHANGED <<fleet, lines>>
  PROVE  /\ LinesGrow /\ lines' \in [Lines -> Seq(Checkpoint')]
         /\ \A l \in Lines : OneConversation(lines[l])'
<1>1. Checkpoint' = Checkpoint
  BY DEF Checkpoint
<1>2. lines' \in [Lines -> Seq(Checkpoint')]
  BY <1>1 DEF Inv
<1>3. \A l \in Lines : Len(lines[l]) \in Nat
  BY DEF Inv
<1>4. LinesGrow
  BY <1>3 DEF LinesGrow
<1>5. \A l \in Lines : OneConversation(lines[l])'
  BY DEF Inv, OneConversation, Follows
<1> QED BY <1>2, <1>4, <1>5

(* What is true of a call stays true while lineages and grants grow.                    *)
LEMMA GoodCallStays ==
  ASSUME Inv, UNCHANGED fleet, granted \subseteq granted', LinesGrow,
         lines' \in [Lines -> Seq(Checkpoint')], NEW k, GoodCall(k)
  PROVE  GoodCall(k)'
<1>1. CASE k.pc = "idle"
  BY <1>1 DEF GoodCall
<1>2. CASE k.pc # "idle"
  <2>1. CallTyped(k) /\ Backed(k) /\ Continues(k)
    BY <1>2 DEF GoodCall
  <2>2. PICK l \in Lines : l = k.line
    BY <2>1 DEF CallTyped
  <2>3. PICK n : n = k.parent
    OBVIOUS
  <2>4. n \in 0..Len(lines[l]) /\ Len(lines[l]) \in Nat /\ Len(lines'[l]) \in Nat
        /\ Len(lines[l]) <= Len(lines'[l])
    BY <2>1, <2>2, <2>3 DEF CallTyped, Inv, LinesGrow
  <2>5. n \in 0..Len(lines'[l]) /\ (n # 0 => n \in 1..Len(lines[l]))
    BY <2>4
  <2>6. CallTyped(k)'
    BY <2>1, <2>2, <2>3, <2>5 DEF CallTyped
  <2>7. Backed(k)'
    BY <2>1 DEF Backed
  <2>8. n # 0 => lines'[l][n] = lines[l][n]
    BY <2>5 DEF LinesGrow
  <2>9. Continues(k)'
    BY <2>1, <2>2, <2>3, <2>8 DEF Continues
  <2> QED BY <2>6, <2>7, <2>9 DEF GoodCall
<1> QED BY <1>1, <1>2

(* A step of one call.                                                            *)
LEMMA CallStep ==
  ASSUME Inv, UNCHANGED fleet, granted \subseteq granted', LinesGrow,
         lines' \in [Lines -> Seq(Checkpoint')],
         \A l \in Lines : OneConversation(lines[l])',
         effects' \subseteq granted',
         NEW c \in Call, NEW k, calls' = [calls EXCEPT ![c] = k], GoodCall(k)'
  PROVE  Inv'
<1>1. calls' = [d \in Call |-> IF d = c THEN k ELSE calls[d]]
  BY DEF Inv
<1>2. calls' = [d \in Call |-> calls'[d]]
  BY <1>1
<1>3. ASSUME NEW d \in Call PROVE GoodCall(calls[d])'
  <2>1. CASE d = c
    <3>1. calls'[d] = k
      BY <1>1, <2>1
    <3> QED BY <3>1 DEF GoodCall, CallTyped, Backed, Continues
  <2>2. CASE d # c
    <3>1. calls'[d] = calls[d]
      BY <1>1, <2>2
    <3>2. PICK x : x = calls[d]
      OBVIOUS
    <3>3. GoodCall(x)'
      BY <3>2, GoodCallStays DEF Inv
    <3> QED BY <3>1, <3>2, <3>3 DEF GoodCall, CallTyped, Backed, Continues
  <2> QED BY <2>1, <2>2
<1> QED BY <1>2, <1>3 DEF Inv

(* A call ends, or a step is taken, with the lineages as they are.                     *)
LEMMA QuietStep ==
  ASSUME Inv, UNCHANGED <<fleet, lines>>, granted \subseteq granted', effects' \subseteq granted',
         NEW c \in Call, NEW k, calls' = [calls EXCEPT ![c] = k], GoodCall(k)'
  PROVE  Inv'
BY LinesSame, CallStep

LEMMA EndStep ==
  ASSUME Inv, UNCHANGED <<fleet, lines, effects>>, granted \subseteq granted',
         NEW c \in Call, NEW result, End(c, result)
  PROVE  Inv'
<1>1. PICK k : k = Ended(result)
  OBVIOUS
<1>2. GoodCall(k)'
  BY <1>1 DEF GoodCall, Ended, Idle
<1>3. calls' = [calls EXCEPT ![c] = k]
  BY <1>1 DEF End
<1>4. effects' \subseteq granted'
  BY DEF Inv
<1> QED BY <1>2, <1>3, <1>4, QuietStep

LEMMA RequestTyped == NoRequest \in Requests
BY DEF NoRequest, Requests

LEMMA NewStateTyped ==
  ASSUME NEW agent, NEW m \in Openings
  PROVE  NewState(agent, m) \in StatesOf(agent) /\ Entry \in NodesOf(agent)
<1>1. m \in Seq(Message)
  BY OpeningsAssumption
<1>2. PICK new \in Stage : new = NewAgentState(m)
  BY <1>1 DEF NewAgentState, Stage, NoStop
<1>3. NewSequence(m) \in SequenceStates
  BY <1>2 DEF NewSequence, SequenceStates
<1>4. NewBranch(m) \in BranchStates
  BY <1>2 DEF NewBranch, BranchStates, NoSelection
<1>5. NewState(agent, m) \in StatesOf(agent)
  BY <1>2, <1>3, <1>4 DEF NewState, StatesOf
<1>6. Entry \in NodesOf(agent)
  BY DEF Entry, NodesOf
<1> QED BY <1>5, <1>6

LEMMA InvokeStep ==
  ASSUME Inv, NEW c \in Call, NEW agent \in fleet, NEW op, NEW m \in Openings, NEW policy,
         Invoke(c, agent, op, m, policy)
  PROVE  Inv'
<1>1. UNCHANGED <<fleet, store, lines, granted, effects>>
  BY DEF Invoke
<1>2. CASE End(c, "refused")
  BY <1>1, <1>2, EndStep
<1>3. CASE ~ End(c, "refused")
  <2>1. PICK k : /\ calls' = [calls EXCEPT ![c] = k]
                 /\ k = Running(op, agent, "main", policy, NewState(agent, m), Entry, NoValue, 0)
    BY <1>3 DEF Invoke
  <2>2. PICK s \in StatesOf(agent), node \in NodesOf(agent) : s = NewState(agent, m) /\ node = Entry
    BY NewStateTyped
  <2>3. k = [pc |-> "run", op |-> op, agent |-> agent, line |-> "main", policy |-> policy,
             state |-> s, node |-> node, value |-> NoValue, request |-> NoRequest,
             steps |-> Steps(agent), parent |-> 0]
    BY <2>1, <2>2 DEF Running
  <2>4. /\ k.agent = agent /\ k.line = "main" /\ k.state = s /\ k.node = node
        /\ k.value = NoValue /\ k.request = NoRequest /\ k.parent = 0
    BY <2>3
  <2>5. Len(lines'["main"]) \in Nat /\ "main" \in Lines
    BY <1>1 DEF Inv, Lines
  <2>6. CallTyped(k)'
    <3>1. k = [pc |-> k.pc, op |-> k.op, agent |-> k.agent, line |-> k.line,
               policy |-> k.policy, state |-> k.state, node |-> k.node, value |-> k.value,
               request |-> k.request, steps |-> k.steps, parent |-> k.parent]
      BY <2>3
    <3>2. 0 \in 0..Len(lines'["main"])
      BY <2>5
    <3> QED BY <1>1, <2>2, <2>4, <2>5, <3>1, <3>2, RequestTyped, Zenon DEF CallTyped
  <2>7. Backed(k)'
    BY <2>4 DEF Backed, NoValue
  <2>8. Continues(k)'
    BY <2>4 DEF Continues
  <2>9. GoodCall(k)'
    BY <2>6, <2>7, <2>8 DEF GoodCall
  <2> QED BY <1>1, <2>1, <2>9, QuietStep DEF Inv
<1> QED BY <1>2, <1>3

(* A checkpoint a call loads is of its agent's graph.                                 *)
LEMMA LoadedTyped ==
  ASSUME NEW cp \in Checkpoint, NEW agent, cp.version = Version(agent)
  PROVE  cp.state \in StatesOf(agent) /\ cp.node \in NodesOf(agent)
<1>1. PICK a \in fleet : cp \in [version : {Version(a)}, state : StatesOf(a),
                                 node : NodesOf(a), request : Requests]
  BY DEF Checkpoint
<1>2. Version(a) = Version(agent) /\ cp.state \in StatesOf(a) /\ cp.node \in NodesOf(a)
  BY <1>1
<1> QED BY <1>2, VersionDecides

(* The call a load starts.                                                          *)
LEMMA LoadedGood ==
  ASSUME UNCHANGED fleet, NEW cp \in Checkpoint, NEW agent \in fleet, cp.version = Version(agent),
         NEW line \in Lines, lines'[line] \in Seq(Checkpoint), NEW at \in 1..Len(lines'[line]),
         lines'[line][at] = cp, NEW value, Grant(agent, cp, value), NEW op, NEW policy,
         NEW k, k = Running(op, agent, line, policy, cp.state, cp.node, value, at)
  PROVE  GoodCall(k)'
<1>1. PICK s \in StatesOf(agent), node \in NodesOf(agent) : s = cp.state /\ node = cp.node
  BY LoadedTyped
<1>2. k = [pc |-> "run", op |-> op, agent |-> agent, line |-> line, policy |-> policy,
           state |-> s, node |-> node, value |-> value, request |-> NoRequest,
           steps |-> Steps(agent), parent |-> at]
  BY <1>1 DEF Running
<1>3. /\ k.agent = agent /\ k.line = line /\ k.state = s /\ k.node = node
      /\ k.value = value /\ k.request = NoRequest /\ k.parent = at
  BY <1>2
<1>4. at \in 0..Len(lines'[line])
  OBVIOUS
<1>5. CallTyped(k)'
  <2>1. k = [pc |-> k.pc, op |-> k.op, agent |-> k.agent, line |-> k.line,
             policy |-> k.policy, state |-> k.state, node |-> k.node, value |-> k.value,
             request |-> k.request, steps |-> k.steps, parent |-> k.parent]
    BY <1>2
  <2> QED BY <1>1, <1>3, <1>4, <2>1, RequestTyped, Zenon DEF CallTyped
<1>6. Backed(k)'
  BY <1>1, <1>3 DEF Backed, Grant
<1>7. Continues(k)'
  <2>1. StateContinues(agent, s, s)
    BY <1>1, ContinuesSelf
  <2> QED BY <1>1, <1>3, <2>1, Zenon DEF Continues
<1> QED BY <1>5, <1>6, <1>7 DEF GoodCall

LEMMA GrantGrows ==
  ASSUME NEW agent, NEW cp, NEW value, Grant(agent, cp, value)
  PROVE  granted \subseteq granted'
BY DEF Grant

LEMMA LoadStep ==
  ASSUME Inv, UNCHANGED <<fleet, effects>>, LinesGrow,
         lines' \in [Lines -> Seq(Checkpoint')],
         \A l \in Lines : OneConversation(lines[l])',
         NEW c \in Call, NEW cp \in Checkpoint, NEW agent \in fleet,
         cp.version = Version(agent), NEW line \in Lines, NEW at \in 1..Len(lines'[line]),
         lines'[line][at] = cp, NEW value, Grant(agent, cp, value), NEW op, NEW policy,
         Continue(c, op, agent, line, policy, cp, value, at)
  PROVE  Inv'
<1>1. granted \subseteq granted' /\ effects' \subseteq granted'
  BY GrantGrows DEF Inv
<1>2. PICK k : GoodCall(k)' /\ calls' = [calls EXCEPT ![c] = k]
  <2>1. CASE cp.node = END
    <3>1. PICK result : End(c, result)
      BY <2>1 DEF Continue, Finish
    <3>2. PICK k : k = Ended(result)
      OBVIOUS
    <3>3. GoodCall(k)'
      BY <3>2 DEF GoodCall, Ended, Idle
    <3> QED BY <3>1, <3>2, <3>3 DEF End
  <2>2. CASE cp.node # END
    <3>1. PICK k : k = Running(op, agent, line, policy, cp.state, cp.node, value, at)
      OBVIOUS
    <3>2. calls' = [calls EXCEPT ![c] = k]
      BY <2>2, <3>1 DEF Continue
    <3>3. Checkpoint' = Checkpoint
      BY DEF Checkpoint
    <3>4. lines'[line] \in Seq(Checkpoint)
      BY <3>3
    <3>5. GoodCall(k)'
      BY <3>1, <3>4, LoadedGood
    <3> QED BY <3>2, <3>5
  <2> QED BY <2>1, <2>2
<1> QED BY <1>1, <1>2, CallStep

LEMMA ResumeStep ==
  ASSUME Inv, NEW c \in Call, NEW agent \in fleet, NEW line \in Lines,
         NEW pin \in 0..Len(lines[line]), NEW policy, NEW value,
         Resume(c, agent, line, pin, policy, value)
  PROVE  Inv'
<1>1. UNCHANGED <<fleet, store, lines, effects>>
  BY DEF Resume
<1>2. CASE Refuse(c)
  BY <1>1, <1>2, EndStep DEF Refuse
<1>3. CASE ~ Refuse(c)
  <2>1. PICK at, cp :
          /\ at = IF pin = 0 THEN Len(lines[line]) ELSE pin
          /\ cp = lines[line][at]
    OBVIOUS
  <2>2. /\ lines[line] # <<>> /\ Loadable(agent, cp, value)
        /\ Continue(c, "resume", agent, line, policy, cp, value, at)
        /\ Grant(agent, cp, value)
    BY <1>3, <2>1 DEF Resume
  <2>3. lines[line] \in Seq(Checkpoint)
    BY DEF Inv
  <2>4. at \in 1..Len(lines[line])
    BY <2>1, <2>2, <2>3
  <2>5. cp \in Checkpoint
    BY <2>1, <2>3, <2>4
  <2>6. cp.version = Version(agent)
    BY <2>2 DEF Loadable
  <2>7. /\ LinesGrow /\ lines' \in [Lines -> Seq(Checkpoint')]
        /\ \A l \in Lines : OneConversation(lines[l])'
    BY <1>1, LinesSame
  <2>8. at \in 1..Len(lines'[line]) /\ lines'[line][at] = cp
    BY <1>1, <2>1, <2>4
  <2> QED BY <1>1, <2>2, <2>5, <2>6, <2>7, <2>8, LoadStep
<1> QED BY <1>2, <1>3

LEMMA ReplayStep ==
  ASSUME Inv, NEW c \in Call, NEW agent \in fleet, NEW line \in Lines,
         NEW at \in 1..Len(lines[line]), NEW value, Replay(c, agent, line, at, value)
  PROVE  Inv'
<1>1. UNCHANGED <<fleet, store, lines, effects>>
  BY DEF Replay
<1>2. CASE Refuse(c)
  BY <1>1, <1>2, EndStep DEF Refuse
<1>3. CASE ~ Refuse(c)
  <2>1. PICK cp : cp = lines[line][at]
    OBVIOUS
  <2>2. /\ Loadable(agent, cp, value)
        /\ Continue(c, "replay", agent, line, "FinalOnly", cp, value, at)
        /\ Grant(agent, cp, value)
    BY <1>3, <2>1 DEF Replay
  <2>3. lines[line] \in Seq(Checkpoint)
    BY DEF Inv
  <2>4. cp \in Checkpoint
    BY <2>1, <2>3
  <2>5. cp.version = Version(agent)
    BY <2>2 DEF Loadable
  <2>6. /\ LinesGrow /\ lines' \in [Lines -> Seq(Checkpoint')]
        /\ \A l \in Lines : OneConversation(lines[l])'
    BY <1>1, LinesSame
  <2>7. at \in 1..Len(lines'[line]) /\ lines'[line][at] = cp
    BY <1>1, <2>1
  <2> QED BY <1>1, <2>2, <2>4, <2>5, <2>6, <2>7, LoadStep
<1> QED BY <1>2, <1>3

(* A fork copies the lineage up to its checkpoint.                                    *)
LEMMA ForkStep ==
  ASSUME Inv, NEW c \in Call, NEW agent \in fleet, NEW at \in 1..Len(lines["main"]),
         NEW policy, NEW value, Fork(c, agent, at, policy, value)
  PROVE  Inv'
<1>1. UNCHANGED <<fleet, store, effects>>
  BY DEF Fork
<1>2. CASE Refuse(c) /\ UNCHANGED lines
  BY <1>1, <1>2, EndStep DEF Refuse
<1>3. CASE ~ (Refuse(c) /\ UNCHANGED lines)
  <2>1. PICK cp : cp = lines["main"][at]
    OBVIOUS
  <2>2. PICK new : new = SubSeq(lines["main"], 1, at)
    OBVIOUS
  <2>3. /\ Loadable(agent, cp, value) /\ lines["fork"] = <<>>
        /\ lines' = [lines EXCEPT !["fork"] = new]
        /\ Continue(c, "fork", agent, "fork", policy, cp, value, at)
        /\ Grant(agent, cp, value)
    BY <1>3, <2>1, <2>2 DEF Fork
  <2>4. /\ "main" \in Lines /\ "fork" \in Lines /\ lines \in [Lines -> Seq(Checkpoint)]
        /\ lines["main"] \in Seq(Checkpoint)
    BY DEF Lines, Inv
  <2>5. Len(lines["main"]) \in Nat /\ at \in Nat /\ at <= Len(lines["main"])
    BY <2>4
  <2>6. /\ new \in Seq(Checkpoint) /\ Len(new) = at
        /\ \A n \in 1..at : new[n] = lines["main"][n]
    BY <2>2, <2>4, <2>5
  <2>7. cp \in Checkpoint /\ cp.version = Version(agent)
    BY <2>1, <2>3, <2>4 DEF Loadable
  <2>8. Checkpoint' = Checkpoint
    BY <1>1 DEF Checkpoint
  <2>9. lines' \in [Lines -> Seq(Checkpoint')]
    BY <2>3, <2>4, <2>6, <2>8
  <2>10. \A l \in Lines : lines'[l] = IF l = "fork" THEN new ELSE lines[l]
    BY <2>3, <2>4
  <2>11. LinesGrow
    <3>1. ASSUME NEW l \in Lines
          PROVE  /\ Len(lines[l]) <= Len(lines'[l])
                 /\ \A n \in 1..Len(lines[l]) : lines'[l][n] = lines[l][n]
      <4>1. CASE l = "fork"
        <5>1. Len(lines[l]) = 0 /\ Len(lines'[l]) = at
          BY <2>3, <2>6, <2>10, <4>1
        <5> QED BY <5>1
      <4>2. CASE l # "fork"
        <5>1. lines'[l] = lines[l] /\ Len(lines[l]) \in Nat
          BY <2>4, <2>10, <4>2
        <5> QED BY <5>1
      <4> QED BY <4>1, <4>2
    <3> QED BY <3>1 DEF LinesGrow
  <2>12. ASSUME NEW l \in Lines PROVE OneConversation(lines[l])'
    <3>1. CASE l = "fork"
      <4>1. lines'[l] = new
        BY <2>10, <3>1
      <4>2. ASSUME NEW n \in 2..Len(new)
            PROVE  /\ new[n - 1] = lines["main"][n - 1] /\ new[n] = lines["main"][n]
                   /\ n \in 2..Len(lines["main"])
        <5>1. n \in 1..at /\ n - 1 \in 1..at /\ n \in 2..Len(lines["main"])
          BY <2>5, <2>6
        <5> QED BY <2>6, <5>1
      <4>3. \A n \in 2..Len(lines["main"]) : Follows(lines["main"][n - 1], lines["main"][n])
        BY <2>4 DEF Inv, OneConversation
      <4>4. \A n \in 2..Len(new) : Follows(new[n - 1], new[n])
        BY <4>2, <4>3
      <4> QED BY <1>1, <4>1, <4>4 DEF OneConversation, Follows
    <3>2. CASE l # "fork"
      <4>1. lines'[l] = lines[l]
        BY <2>10, <3>2
      <4> QED BY <1>1, <4>1 DEF Inv, OneConversation, Follows
    <3> QED BY <3>1, <3>2
  <2>13. at \in 1..Len(lines'["fork"]) /\ lines'["fork"][at] = cp
    BY <2>1, <2>4, <2>6, <2>10
  <2> QED BY <1>1, <2>3, <2>4, <2>7, <2>9, <2>11, <2>12, <2>13, LoadStep
<1> QED BY <1>2, <1>3

(* What a superstep may yield, the exhausted step budget included.                      *)
LEMMA OutcomesFacts ==
  ASSUME NEW k, k.state \in StatesOf(k.agent), k.node \in NodesOf(k.agent), k.node # END,
         NEW o \in Outcomes(k)
  PROVE  NodeOutcome(k.agent, k.state, k.node, k.value, o)
<1>1. CASE k.steps = 0
  BY <1>1 DEF Outcomes, Failed, NodeOutcome
<1>2. CASE k.steps # 0
  <2>1. PICK agent, s, node, value :
          agent = k.agent /\ s = k.state /\ node = k.node /\ value = k.value
    OBVIOUS
  <2>2. o \in NodeOutcomes(agent, s, node, value)
    BY <1>2, <2>1 DEF Outcomes
  <2>3. s \in StatesOf(agent) /\ node \in NodesOf(agent) \ {END}
    BY <2>1
  <2>4. NodeOutcome(agent, s, node, value, o)
    BY <2>2, <2>3, NodeFacts
  <2> QED BY <2>1, <2>4
<1> QED BY <1>1, <1>2

(* A call that waits for its request to be saved.                                      *)
LEMMA InterruptGood ==
  ASSUME NEW k, CallTyped(k), Backed(k), Continues(k), NEW request \in Requests
  PROVE  GoodCall(AfterInterrupt(k, request))
<1>1. CASE k.op \in {"plain", "replay"}
  BY <1>1 DEF AfterInterrupt, GoodCall, Ended, Idle
<1>2. CASE k.op \notin {"plain", "replay"}
  <2>1. PICK j : j = AfterInterrupt(k, request)
    OBVIOUS
  <2>2. j = [k EXCEPT !.pc = "save", !.request = request]
    BY <1>2, <2>1 DEF AfterInterrupt
  <2>3. j = [pc |-> "save", op |-> k.op, agent |-> k.agent, line |-> k.line,
             policy |-> k.policy, state |-> k.state, node |-> k.node, value |-> k.value,
             request |-> request, steps |-> k.steps, parent |-> k.parent]
    BY <2>2 DEF CallTyped
  <2>4. /\ j.agent = k.agent /\ j.line = k.line /\ j.state = k.state /\ j.node = k.node
        /\ j.value = k.value /\ j.request = request /\ j.parent = k.parent
    BY <2>3
  <2>5. j = [pc |-> j.pc, op |-> j.op, agent |-> j.agent, line |-> j.line,
             policy |-> j.policy, state |-> j.state, node |-> j.node, value |-> j.value,
             request |-> j.request, steps |-> j.steps, parent |-> j.parent]
    BY <2>3
  <2>6. CallTyped(j)
    BY <2>4, <2>5, Zenon DEF CallTyped
  <2>7. Backed(j)
    BY <2>4, Zenon DEF Backed
  <2>8. Continues(j)
    BY <2>4, Zenon DEF Continues
  <2> QED BY <2>1, <2>6, <2>7, <2>8 DEF GoodCall
<1> QED BY <1>1, <1>2

(* A call whose node's update was applied: the decision it carried is gone.              *)
LEMMA UpdateGood ==
  ASSUME NEW k, CallTyped(k), Continues(k), k.node # END, NEW u,
         StateCanApply(k.agent, k.state, u) =>
           /\ StateApply(k.agent, k.state, u) \in StatesOf(k.agent)
           /\ StateContinues(k.agent, k.state, StateApply(k.agent, k.state, u))
  PROVE  GoodCall(AfterUpdate(k, u))
<1>1. PICK j : j = AfterUpdate(k, u)
  OBVIOUS
<1>2. CASE j = Ended("internal")
  BY <1>1, <1>2 DEF GoodCall, Ended, Idle
<1>3. CASE j # Ended("internal")
  <2>1. PICK agent, s, t, node : /\ agent = k.agent /\ s = k.state
                                 /\ t = StateApply(agent, s, u)
                                 /\ node = RouteOf(agent, k.node, t)
    OBVIOUS
  <2>2. StateCanApply(agent, s, u) /\ node # NoRoute /\ j = AfterNode(k, t, node)
    BY <1>1, <1>3, <2>1 DEF AfterUpdate
  <2>3. t \in StatesOf(agent) /\ StateContinues(agent, s, t)
    BY <2>1, <2>2
  <2>4. node \in NodesOf(agent)
    <3>1. k.node \in NodesOf(agent) \ {END}
      BY <2>1 DEF CallTyped
    <3> QED BY <2>1, <2>2, <2>3, <3>1, RouteTyped
  <2>5. PICK pc : j = [k EXCEPT !.state = t, !.node = node, !.steps = @ - 1,
                                !.value = NoValue, !.pc = pc]
    BY <2>2 DEF AfterNode
  <2>6. PICK steps : j = [k EXCEPT !.state = t, !.node = node, !.steps = steps,
                                   !.value = NoValue, !.pc = pc]
    BY <2>5
  <2>7. j = [pc |-> pc, op |-> k.op, agent |-> agent, line |-> k.line,
             policy |-> k.policy, state |-> t, node |-> node, value |-> NoValue,
             request |-> k.request, steps |-> steps, parent |-> k.parent]
    BY <2>1, <2>6 DEF CallTyped
  <2>8. /\ j.agent = agent /\ j.line = k.line /\ j.state = t /\ j.node = node
        /\ j.value = NoValue /\ j.request = k.request /\ j.parent = k.parent
    BY <2>7
  <2>9. j = [pc |-> j.pc, op |-> j.op, agent |-> j.agent, line |-> j.line,
             policy |-> j.policy, state |-> j.state, node |-> j.node, value |-> j.value,
             request |-> j.request, steps |-> j.steps, parent |-> j.parent]
    BY <2>7
  <2>10. CallTyped(j)
    BY <2>1, <2>3, <2>4, <2>8, <2>9, Zenon DEF CallTyped
  <2>11. Backed(j)
    BY <2>8 DEF Backed, NoValue
  <2>12. Continues(j)
    <3>1. PICK r : r = lines[k.line][k.parent].state
      OBVIOUS
    <3>2. k.parent # 0 => StateContinues(agent, r, t)
      BY <2>1, <2>3, <3>1, ContinuesTrans DEF Continues
    <3> QED BY <2>1, <2>8, <3>1, <3>2, Zenon DEF Continues
  <2> QED BY <1>1, <2>10, <2>11, <2>12 DEF GoodCall
<1> QED BY <1>2, <1>3

LEMMA RunNodeStep ==
  ASSUME Inv, NEW c \in Call, calls[c].pc = "run", calls[c].node # END,
         NEW o \in Outcomes(calls[c]), RunNode(c, o)
  PROVE  Inv'
<1>1. PICK k : k = calls[c]
  OBVIOUS
<1>2. CallTyped(k) /\ Backed(k) /\ Continues(k)
  BY <1>1 DEF Inv, GoodCall
<1>3. NodeOutcome(k.agent, k.state, k.node, k.value, o)
  BY <1>1, <1>2, OutcomesFacts DEF CallTyped
<1>4. UNCHANGED <<fleet, store, left, lines, granted>>
  BY DEF RunNode
<1>5. PICK j : /\ calls' = [calls EXCEPT ![c] = j]
               /\ j = CASE o.tag = "fail" -> Ended(o.why)
                        [] o.tag = "interrupt" -> AfterInterrupt(k, o.request)
                        [] OTHER -> AfterUpdate(k, o.update)
  BY <1>1 DEF RunNode
<1>6. GoodCall(j)
  <2>1. CASE o.tag = "fail"
    BY <1>5, <2>1 DEF GoodCall, Ended, Idle
  <2>2. CASE o.tag = "interrupt"
    <3>1. PICK request \in Requests : request = o.request
      BY <1>3, <2>2 DEF NodeOutcome
    <3>2. j = AfterInterrupt(k, request)
      BY <1>5, <2>2, <3>1
    <3> QED BY <1>2, <3>1, <3>2, InterruptGood
  <2>3. CASE o.tag = "update"
    <3>1. PICK u : u = o.update
      OBVIOUS
    <3>2. j = AfterUpdate(k, u)
      BY <1>5, <2>3, <3>1
    <3>3. StateCanApply(k.agent, k.state, u) =>
            /\ StateApply(k.agent, k.state, u) \in StatesOf(k.agent)
            /\ StateContinues(k.agent, k.state, StateApply(k.agent, k.state, u))
      BY <1>3, <2>3, <3>1 DEF NodeOutcome
    <3> QED BY <1>1, <1>2, <3>2, <3>3, UpdateGood
  <2> QED BY <1>3, <2>1, <2>2, <2>3 DEF NodeOutcome
<1>7. GoodCall(j)'
  BY <1>4, <1>6 DEF GoodCall, CallTyped, Backed, Continues
<1>8. effects' \subseteq granted'
  <2>1. PICK stage : stage = k.node[2]
    OBVIOUS
  <2>2. CASE o.ran # <<>> /\ k.agent.approval[stage]
    <3>1. /\ k.value.decision = "Approve" /\ k.value.stage = stage
          /\ StageOf(k.agent, k.state, stage) # NoStage
      BY <1>3, <2>1, <2>2 DEF NodeOutcome
    <3>2. [stage |-> stage, messages |-> StageOf(k.agent, k.state, stage).messages] \in granted
      BY <1>2, <3>1 DEF Backed
    <3>3. effects' = effects \cup
            {[stage |-> stage, messages |-> StageOf(k.agent, k.state, stage).messages]}
      BY <1>1, <2>1, <2>2, Zenon DEF RunNode
    <3> QED BY <1>4, <3>2, <3>3 DEF Inv
  <2>3. CASE ~ (o.ran # <<>> /\ k.agent.approval[stage])
    <3>1. effects' = effects
      BY <1>1, <2>1, <2>3, Zenon DEF RunNode
    <3> QED BY <1>4, <3>1 DEF Inv
  <2> QED BY <2>2, <2>3
<1> QED BY <1>4, <1>5, <1>7, <1>8, QuietStep

(* What a save appends is a checkpoint of the agent's graph.                           *)
LEMMA CheckpointOfTyped ==
  ASSUME NEW k, CallTyped(k)
  PROVE  CheckpointOf(k) \in Checkpoint
<1>1. PICK agent, s, node, request :
        /\ agent = k.agent /\ s = k.state /\ node = k.node /\ request = k.request
        /\ agent \in fleet /\ s \in StatesOf(agent) /\ node \in NodesOf(agent)
        /\ request \in Requests
  BY DEF CallTyped
<1>2. [version |-> Version(agent), state |-> s, node |-> node, request |-> request]
        \in [version : {Version(agent)}, state : StatesOf(agent), node : NodesOf(agent),
             request : Requests]
  BY <1>1
<1>3. CheckpointOf(k) = [version |-> Version(agent), state |-> s, node |-> node,
                         request |-> request]
  BY <1>1 DEF CheckpointOf
<1> QED BY <1>1, <1>2, <1>3, Zenon DEF Checkpoint

(* A save that extends the head extends the conversation.                              *)
LEMMA SaveFollows ==
  ASSUME NEW k, CallTyped(k), Continues(k), k.parent # 0, NEW p, p = lines[k.line][k.parent],
         NEW q, q = CheckpointOf(k)
  PROVE  Follows(p, q)
<1>1. p.version = Version(k.agent) /\ StateContinues(k.agent, p.state, k.state)
  BY DEF Continues
<1>2. q.version = Version(k.agent) /\ q.state = k.state
  BY DEF CheckpointOf
<1>3. ASSUME NEW a \in fleet, Version(a) = p.version
      PROVE  StateContinues(a, p.state, q.state)
  <2>1. PICK b : b = k.agent
    OBVIOUS
  <2>2. Version(b) = Version(a) /\ StateContinues(b, p.state, q.state)
    BY <1>1, <1>2, <1>3, <2>1
  <2> QED BY <2>2, VersionDecides
<1> QED BY <1>1, <1>2, <1>3 DEF Follows

LEMMA SaveLines ==
  ASSUME Inv, UNCHANGED fleet, NEW k, CallTyped(k), Continues(k),
         NEW l0 \in Lines, l0 = k.line, Len(lines[l0]) = k.parent,
         NEW q, q = CheckpointOf(k), lines' = [lines EXCEPT ![l0] = Append(@, q)]
  PROVE  /\ LinesGrow /\ lines' \in [Lines -> Seq(Checkpoint')]
         /\ \A l \in Lines : OneConversation(lines[l])'
<1>1. q \in Checkpoint /\ lines[l0] \in Seq(Checkpoint) /\ lines \in [Lines -> Seq(Checkpoint)]
  BY CheckpointOfTyped DEF Inv
<1>2. PICK new \in Seq(Checkpoint) : new = Append(lines[l0], q)
  BY <1>1, AppendProperties
<1>3. PICK len \in Nat : len = Len(lines[l0])
  BY <1>1
<1>4. /\ Len(new) = len + 1 /\ new[len + 1] = q
      /\ \A n \in 1..len : new[n] = lines[l0][n]
  BY <1>1, <1>2, <1>3
<1>5. \A l \in Lines : lines'[l] = IF l = l0 THEN new ELSE lines[l]
  BY <1>1, <1>2
<1>6. Checkpoint' = Checkpoint
  BY DEF Checkpoint
<1>7. lines' \in [Lines -> Seq(Checkpoint')]
  BY <1>1, <1>2, <1>6
<1>8. LinesGrow
  <2>1. ASSUME NEW l \in Lines
        PROVE  /\ Len(lines[l]) <= Len(lines'[l])
               /\ \A n \in 1..Len(lines[l]) : lines'[l][n] = lines[l][n]
    <3>1. CASE l = l0
      <4>1. Len(lines[l]) = len /\ Len(lines'[l]) = len + 1 /\ lines'[l] = new
        BY <1>3, <1>4, <1>5, <3>1
      <4> QED BY <1>3, <1>4, <3>1, <4>1
    <3>2. CASE l # l0
      <4>1. lines'[l] = lines[l] /\ Len(lines[l]) \in Nat
        BY <1>1, <1>5, <3>2
      <4> QED BY <4>1
    <3> QED BY <3>1, <3>2
  <2> QED BY <2>1 DEF LinesGrow
<1>9. ASSUME NEW l \in Lines PROVE OneConversation(lines[l])'
  <2>1. CASE l = l0
    <3>1. ASSUME NEW n \in 2..Len(new) PROVE Follows(new[n - 1], new[n])
      <4>1. PICK m \in 1..len : m = n - 1
        BY <1>3, <1>4
      <4>2. new[m] = lines[l0][m]
        BY <1>4
      <4>3. CASE n = len + 1
        <5>1. m = len /\ len # 0
          BY <1>3, <4>1, <4>3
        <5>2. new[m] = lines[k.line][k.parent] /\ k.parent # 0 /\ new[n] = q
          BY <1>3, <1>4, <4>2, <4>3, <5>1
        <5>3. Follows(new[m], new[n])
          BY <5>2, SaveFollows
        <5> QED BY <4>1, <5>3
      <4>4. CASE n # len + 1
        <5>1. n \in 1..len /\ n \in 2..len
          BY <1>3, <1>4, <4>4
        <5>2. new[n] = lines[l0][n]
          BY <1>4, <5>1
        <5>3. Follows(lines[l0][n - 1], lines[l0][n])
          BY <1>3, <5>1 DEF Inv, OneConversation
        <5> QED BY <4>1, <4>2, <5>2, <5>3
      <4> QED BY <4>3, <4>4
    <3>2. lines'[l] = new
      BY <1>5, <2>1
    <3> QED BY <3>1, <3>2 DEF OneConversation, Follows
  <2>2. CASE l # l0
    <3>1. lines'[l] = lines[l]
      BY <1>5, <2>2
    <3> QED BY <3>1 DEF Inv, OneConversation, Follows
  <2> QED BY <2>1, <2>2
<1> QED BY <1>7, <1>8, <1>9

(* The call j is k after its save, on top of checkpoint n.                               *)
SavedCall(k, j, n) ==
  /\ j.agent = k.agent /\ j.line = k.line /\ j.state = k.state /\ j.node = k.node
  /\ j.value = k.value /\ j.request = k.request /\ j.parent = n
  /\ j = [pc |-> j.pc, op |-> j.op, agent |-> j.agent, line |-> j.line,
          policy |-> j.policy, state |-> j.state, node |-> j.node, value |-> j.value,
          request |-> j.request, steps |-> j.steps, parent |-> j.parent]

LEMMA SavedFields ==
  ASSUME NEW k, CallTyped(k), NEW n, NEW j, j = [k EXCEPT !.pc = "run", !.parent = n]
  PROVE  SavedCall(k, j, n)
<1>1. j = [pc |-> "run", op |-> k.op, agent |-> k.agent, line |-> k.line,
           policy |-> k.policy, state |-> k.state, node |-> k.node, value |-> k.value,
           request |-> k.request, steps |-> k.steps, parent |-> n]
  BY DEF CallTyped
<1> QED BY <1>1 DEF SavedCall

(* After its save a call continues the checkpoint it saved.                             *)
LEMMA SavedGood ==
  ASSUME Inv, UNCHANGED <<fleet, granted>>, NEW k, CallTyped(k), Backed(k), Continues(k),
         NEW l0 \in Lines, l0 = k.line, Len(lines[l0]) = k.parent,
         NEW q, q = CheckpointOf(k), lines' = [lines EXCEPT ![l0] = Append(@, q)],
         NEW n, n = k.parent + 1, NEW j, SavedCall(k, j, n)
  PROVE  GoodCall(j)'
<1>1. q \in Checkpoint /\ lines[l0] \in Seq(Checkpoint) /\ lines \in [Lines -> Seq(Checkpoint)]
  BY CheckpointOfTyped DEF Inv
<1>2. k.parent \in Nat /\ n \in Nat /\ n # 0
  BY <1>1
<1>3. lines'[l0] = Append(lines[l0], q)
  BY <1>1
<1>4. Len(lines'[l0]) = n /\ lines'[l0][n] = q
  BY <1>1, <1>3
<1>5. n \in 0..Len(lines'[l0])
  BY <1>2, <1>4
<1>6. CallTyped(j)'
  BY <1>5, Zenon DEF CallTyped, SavedCall
<1>7. Backed(j)'
  BY Zenon DEF Backed, SavedCall
<1>8. Continues(j)'
  <2>1. PICK agent, s : agent = k.agent /\ s = k.state /\ s \in StatesOf(agent)
    BY DEF CallTyped
  <2>2. StateContinues(agent, s, s)
    BY <2>1, ContinuesSelf
  <2>3. q.version = Version(agent) /\ q.state = s
    BY <2>1 DEF CheckpointOf
  <2>4. lines'[j.line][j.parent] = q /\ j.agent = agent /\ j.state = s
    BY <1>4, <2>1, Zenon DEF SavedCall
  <2> QED BY <2>2, <2>3, <2>4, Zenon DEF Continues
<1> QED BY <1>6, <1>7, <1>8 DEF GoodCall

LEMMA SaveStep ==
  ASSUME Inv, NEW c \in Call, Save(c)
  PROVE  Inv'
<1>1. PICK k : k = calls[c]
  OBVIOUS
<1>2. UNCHANGED <<fleet, store, left, granted, effects>> /\ k.pc = "save"
  BY <1>1 DEF Save
<1>3. CallTyped(k) /\ Backed(k) /\ Continues(k)
  BY <1>1, <1>2 DEF Inv, GoodCall
<1>4. CASE Encodes(k) /\ ExtendsHead(k)
  <2>1. PICK l0, q : l0 \in Lines /\ l0 = k.line /\ q = CheckpointOf(k)
    BY <1>3 DEF CallTyped
  <2>2. lines' = [lines EXCEPT ![l0] = Append(@, q)] /\ Len(lines[l0]) = k.parent
    BY <1>1, <1>4, <2>1 DEF Save, ExtendsHead
  <2>3. /\ LinesGrow /\ lines' \in [Lines -> Seq(Checkpoint')]
        /\ \A l \in Lines : OneConversation(lines[l])'
    BY <1>2, <1>3, <2>1, <2>2, SaveLines
  <2>4. PICK j : GoodCall(j)' /\ calls' = [calls EXCEPT ![c] = j]
    <3>1. CASE \E result : End(c, result)
      <4>1. PICK result : End(c, result)
        BY <3>1
      <4>2. PICK j : j = Ended(result)
        OBVIOUS
      <4>3. GoodCall(j)'
        BY <4>2 DEF GoodCall, Ended, Idle
      <4> QED BY <4>1, <4>2, <4>3 DEF End
    <3>2. CASE ~ \E result : End(c, result)
      <4>1. calls' = [calls EXCEPT ![c].pc = "run", ![c].parent = @ + 1]
        BY <1>1, <1>4, <3>2 DEF Save, Finish
      <4>2. PICK n : n = k.parent + 1
        OBVIOUS
      <4>3. PICK j : j = [k EXCEPT !.pc = "run", !.parent = n]
        OBVIOUS
      <4>4. calls' = [calls EXCEPT ![c] = j]
        BY <1>1, <4>1, <4>2, <4>3 DEF Inv
      <4>5. SavedCall(k, j, n)
        BY <1>3, <4>3, SavedFields
      <4>6. GoodCall(j)'
        BY <1>2, <1>3, <2>1, <2>2, <4>2, <4>5, SavedGood
      <4> QED BY <4>4, <4>6
    <3> QED BY <3>1, <3>2
  <2>5. granted \subseteq granted' /\ effects' \subseteq granted'
    BY <1>2 DEF Inv
  <2> QED BY <1>2, <2>3, <2>4, <2>5, CallStep
<1>5. CASE ~ (Encodes(k) /\ ExtendsHead(k))
  <2>1. PICK result : End(c, result) /\ UNCHANGED lines
    BY <1>1, <1>5 DEF Save
  <2> QED BY <1>2, <2>1, EndStep
<1> QED BY <1>4, <1>5

--------------------------------------------------------------------------------
(* Theorems.                                                                    *)

LEMMA InitInv == Init => Inv
<1> SUFFICES ASSUME Init PROVE Inv
  OBVIOUS
<1>1. lines \in [Lines -> Seq(Checkpoint)] /\ \A l \in Lines : lines[l] = <<>>
  BY DEF Init
<1>2. \A l \in Lines : OneConversation(lines[l])
  BY <1>1 DEF OneConversation
<1>3. calls = [c \in Call |-> calls[c]] /\ \A c \in Call : calls[c].pc = "idle"
  BY DEF Init, Idle
<1>4. \A c \in Call : GoodCall(calls[c])
  BY <1>3 DEF GoodCall
<1> QED BY <1>1, <1>2, <1>3, <1>4 DEF Init, Inv

LEMMA StepInv == Inv /\ [Next]_vars => Inv'
<1> SUFFICES ASSUME Inv, [Next]_vars PROVE Inv'
  OBVIOUS
<1>1. CASE UNCHANGED vars
  BY <1>1 DEF vars, Inv, GoodCall, CallTyped, Backed, Continues, OneConversation, Follows,
              Checkpoint
<1>2. ASSUME NEW c \in Call, NEW agent \in fleet, NEW op \in {"invoke", "plain"},
             NEW m \in Openings, NEW p \in Policies, Invoke(c, agent, op, m, p)
      PROVE  Inv'
  BY <1>2, InvokeStep
<1>3. ASSUME NEW c \in Call, NEW agent \in fleet, NEW l \in Lines, NEW p \in PoliciesOf(agent),
             NEW v \in ValuesOf(agent), NEW pin \in 0..Len(lines[l]),
             Resume(c, agent, l, pin, p, v)
      PROVE  Inv'
  BY <1>3, ResumeStep
<1>4. ASSUME NEW c \in Call, NEW agent \in fleet, NEW l \in Lines, NEW v \in ValuesOf(agent),
             NEW at \in 1..Len(lines[l]), Replay(c, agent, l, at, v)
      PROVE  Inv'
  BY <1>4, ReplayStep
<1>5. ASSUME NEW c \in Call, NEW agent \in fleet, NEW p \in PoliciesOf(agent),
             NEW v \in ValuesOf(agent), NEW at \in 1..Len(lines["main"]),
             Fork(c, agent, at, p, v)
      PROVE  Inv'
  BY <1>5, ForkStep
<1>6. ASSUME NEW c \in Call, calls[c].pc = "run", calls[c].node # END,
             NEW o \in Outcomes(calls[c]), RunNode(c, o)
      PROVE  Inv'
  BY <1>6, RunNodeStep
<1>7. ASSUME NEW c \in Call, Complete(c) PROVE Inv'
  <2>1. PICK result : End(c, result)
    BY <1>7 DEF Complete, Finish
  <2> QED BY <1>7, <2>1, EndStep DEF Complete
<1>8. ASSUME NEW c \in Call, Save(c) PROVE Inv'
  BY <1>8, SaveStep
<1>9. ASSUME NEW c \in Call, Abandon(c) PROVE Inv'
  BY <1>9, EndStep DEF Abandon
<1> QED BY <1>1, <1>2, <1>3, <1>4, <1>5, <1>6, <1>7, <1>8, <1>9 DEF Next

(* The inductive invariant of the durable agents' runs.                                *)
THEOREM Invariance == Spec => []Inv
BY InitInv, StepInv, PTL DEF Spec

(* However calls race, are replayed, forked or dropped, tools that wait for approval run *)
(* only for a batch an application approved: ApprovalToolNode's check of the decision's  *)
(* stage, and the one use of the resume value, suffice for every fleet.                 *)
THEOREM EffectsApprovedHolds == Spec => []EffectsApproved
<1>1. Inv => EffectsApproved
  BY DEF Inv, EffectsApproved
<1> QED BY <1>1, Invariance, PTL

LEMMA InvConversation ==
  ASSUME Inv PROVE ConversationContinues
<1> SUFFICES ASSUME NEW l \in Lines, Len(lines[l]) > 1,
                    NEW agent \in fleet, Version(agent) = Last(lines[l]).version
             PROVE  LET previous == lines[l][Len(lines[l]) - 1] IN
                    /\ previous.version = Version(agent)
                    /\ \A i \in DOMAIN agent.limits :
                         LET before == StageOf(agent, previous.state, i)
                             after == StageOf(agent, Last(lines[l]).state, i)
                         IN before # NoStage => /\ after # NoStage
                                                /\ IsPrefix(before.messages, after.messages)
  BY DEF ConversationContinues
<1>1. PICK len \in Nat : len = Len(lines[l])
  BY DEF Inv
<1>2. PICK p, q : p = lines[l][len - 1] /\ q = lines[l][len]
  OBVIOUS
<1>3. Last(lines[l]) = q
  BY <1>1, <1>2 DEF Last
<1>4. Follows(p, q)
  BY <1>1, <1>2 DEF Inv, OneConversation
<1>5. p.version = Version(agent) /\ StateContinues(agent, p.state, q.state)
  BY <1>3, <1>4 DEF Follows
<1>6. ASSUME NEW i, NEW x, NEW y, x = StageOf(agent, p.state, i),
             y = StageOf(agent, q.state, i), x # NoStage
      PROVE  y # NoStage /\ IsPrefix(x.messages, y.messages)
  <2>1. LongerStage(x, y)
    BY <1>5, <1>6, ContinuesStages
  <2>2. y # NoStage /\ Longer(x.messages, y.messages)
    BY <1>6, <2>1 DEF LongerStage
  <2> QED BY <2>2, LongerIsPrefix
<1> QED BY <1>1, <1>2, <1>3, <1>5, <1>6

(* A lineage is one conversation: every checkpoint continues the transcripts of the one   *)
(* before it, of the same graph version, since a save is accepted only on the head its    *)
(* call continues.                                                               *)
THEOREM ConversationContinuesHolds == Spec => []ConversationContinues
<1>1. Inv => ConversationContinues
  BY InvConversation
<1> QED BY <1>1, Invariance, PTL

--------------------------------------------------------------------------------
(* Transcripts that can be restored.                                             *)

LEMMA CallsBeforeHas ==
  ASSUME NEW m, NEW i, NEW x
  PROVE  x \in CallsBefore(m, i) <=> \E j \in 1..(i - 1) : x \in CallsOf(m[j])
BY DEF CallsBefore

LEMMA OpenBeforeHas ==
  ASSUME NEW m, NEW i, NEW x
  PROVE  x \in OpenBefore(m, i) <=>
           /\ \E j \in 1..(i - 1) : x \in CallsOf(m[j])
           /\ \A j \in 1..(i - 1) : IsTool(m[j]) => m[j].id # x
BY CallsBeforeHas DEF OpenBefore

(* What is known of the messages before i does not depend on what follows.            *)
LEMMA SameBefore ==
  ASSUME NEW m, NEW n, Longer(m, n), NEW i \in 1..(Len(m) + 1)
  PROVE  CallsBefore(n, i) = CallsBefore(m, i) /\ OpenBefore(n, i) = OpenBefore(m, i)
<1>1. PICK len \in Nat : len = Len(m)
  BY DEF Longer
<1>2. \A j \in 1..(i - 1) : j \in 1..len
  BY <1>1
<1>3. \A j \in 1..(i - 1) : n[j] = m[j]
  BY <1>1, <1>2 DEF Longer
<1>4. \A x : x \in CallsBefore(n, i) <=> x \in CallsBefore(m, i)
  BY <1>3, CallsBeforeHas
<1>5. \A x : x \in OpenBefore(n, i) <=> x \in OpenBefore(m, i)
  BY <1>3, OpenBeforeHas
<1> QED BY <1>4, <1>5

(* The checks a request's messages must pass, one message at a time.                   *)
RequestAt(m, i) ==
  /\ IsAssistant(m[i]) =>
       /\ IsInjective(m[i].calls)
       /\ CallsOf(m[i]) \cap CallsBefore(m, i) = {}
  /\ IsTool(m[i]) =>
       /\ m[i].id \in CallsBefore(m, i)
       /\ \A j \in 1..(i - 1) : IsTool(m[j]) => m[j].id # m[i].id

TranscriptAt(m, i) == RequestAt(m, i) /\ (~ IsTool(m[i]) => OpenBefore(m, i) = {})

LEMMA TranscriptParts ==
  ASSUME NEW m \in Seq(Message), NEW pending
  PROVE  ValidTranscript(m, pending) <=>
           /\ m # <<>> /\ \A i \in 1..Len(m) : TranscriptAt(m, i)
           /\ OpenBefore(m, Len(m) + 1) # {} => pending /\ IsAssistant(Last(m))
<1>1. DOMAIN m = 1..Len(m)
  OBVIOUS
<1> QED BY <1>1, Zenon DEF ValidTranscript, ValidRequest, TranscriptAt, RequestAt

LEMMA TranscriptPrefix ==
  ASSUME NEW m, NEW n, Longer(m, n), NEW i \in 1..Len(m), TranscriptAt(m, i)
  PROVE  TranscriptAt(n, i)
<1>1. PICK len \in Nat : len = Len(m)
  BY DEF Longer
<1>2. i \in 1..(Len(m) + 1) /\ \A j \in 1..(i - 1) : j \in 1..len
  BY <1>1
<1>3. n[i] = m[i] /\ \A j \in 1..(i - 1) : n[j] = m[j]
  BY <1>1, <1>2 DEF Longer
<1>4. CallsBefore(n, i) = CallsBefore(m, i) /\ OpenBefore(n, i) = OpenBefore(m, i)
  BY <1>2, SameBefore
<1> QED BY <1>3, <1>4 DEF TranscriptAt, RequestAt

(* No result of an earlier turn answers a call of the last one.                         *)
LEMMA LastTurnOpen ==
  ASSUME NEW m \in Seq(Message), m # <<>>, \A i \in 1..Len(m) : TranscriptAt(m, i),
         IsAssistant(Last(m)), NEW x \in CallsOf(Last(m))
  PROVE  x \in OpenBefore(m, Len(m) + 1)
<1>1. PICK len \in Nat \ {0} : len = Len(m)
  OBVIOUS
<1>2. Last(m) = m[len]
  BY <1>1 DEF Last
<1>3. x \notin CallsBefore(m, len)
  BY <1>1, <1>2 DEF TranscriptAt, RequestAt
<1>4. ASSUME NEW j \in 1..len, IsTool(m[j]) PROVE m[j].id # x
  <2>1. j # len
    BY <1>2, <1>4 DEF IsTool, IsAssistant
  <2>2. m[j].id \in CallsBefore(m, j)
    BY <1>1, <1>4 DEF TranscriptAt, RequestAt
  <2>3. m[j].id \in CallsBefore(m, len)
    <3>1. PICK h \in 1..(j - 1) : m[j].id \in CallsOf(m[h])
      BY <2>2, CallsBeforeHas
    <3>2. h \in 1..(len - 1)
      BY <2>1
    <3> QED BY <3>1, <3>2, CallsBeforeHas
  <2> QED BY <1>3, <2>3
<1>5. len \in 1..((len + 1) - 1) /\ ((len + 1) - 1) = len
  BY <1>1
<1> QED BY <1>1, <1>2, <1>4, <1>5, OpenBeforeHas

(* A transcript that may not wait for results has no pending turn.                      *)
LEMMA AdmittedAnswered ==
  ASSUME NEW m \in Seq(Message), Admit(m), NEW s, s.messages = m
  PROVE  PendingCalls(s) = <<>>
<1>1. /\ m # <<>> /\ \A i \in 1..Len(m) : TranscriptAt(m, i)
      /\ OpenBefore(m, Len(m) + 1) = {}
  BY TranscriptParts DEF Admit
<1>2. CASE HasTurn(s)
  <2>1. CallsOf(Last(m)) = {}
    BY <1>1, <1>2, LastTurnOpen DEF HasTurn
  <2>2. Last(m) \in Message /\ Last(m).role = "assistant"
    BY <1>1, <1>2 DEF HasTurn, IsAssistant, Last
  <2>3. PICK batch \in Seq(CallId) : batch = Last(m).calls
    BY <2>2 DEF Message, User
  <2>4. batch = <<>>
    <3>1. ToSet(batch) = {}
      BY <2>1, <2>2, <2>3 DEF CallsOf, IsAssistant
    <3>2. \A i \in 1..Len(batch) : batch[i] \in ToSet(batch)
      BY DEF ToSet
    <3> QED BY <3>1, <3>2
  <2> QED BY <1>2, <2>3, <2>4 DEF PendingCalls
<1>3. CASE ~ HasTurn(s)
  BY <1>3 DEF PendingCalls
<1> QED BY <1>2, <1>3

(* A turn without repeated identifiers may follow an answered transcript.               *)
LEMMA TurnTranscript ==
  ASSUME NEW m \in Seq(Message), ValidTranscript(m, TRUE), OpenBefore(m, Len(m) + 1) = {},
         NEW batch \in Seq(CallId), IsInjective(batch),
         ToSet(batch) \cap CallsBefore(m, Len(m) + 1) = {},
         NEW n \in Seq(Message), n = Append(m, Assistant(batch))
  PROVE  ValidTranscript(n, TRUE)
<1>1. PICK len \in Nat : len = Len(m)
  OBVIOUS
<1>2. PICK turn : turn = Assistant(batch)
  OBVIOUS
<1>3. turn.role = "assistant" /\ turn.calls = batch /\ turn \in Message
  BY <1>2 DEF Assistant, Message
<1>4. Len(n) = len + 1 /\ n[len + 1] = turn /\ Longer(m, n)
  BY <1>1, <1>2, <1>3 DEF Longer
<1>5. CallsBefore(n, len + 1) = CallsBefore(m, len + 1) /\ OpenBefore(n, len + 1) = {}
  <2>1. len + 1 \in 1..(Len(m) + 1)
    BY <1>1
  <2> QED BY <1>1, <1>4, <2>1, SameBefore
<1>6. TranscriptAt(n, len + 1)
  <2>1. IsAssistant(turn) /\ ~ IsTool(turn) /\ CallsOf(turn) = ToSet(batch)
    BY <1>3 DEF IsAssistant, IsTool, CallsOf
  <2> QED BY <1>1, <1>3, <1>4, <1>5, <2>1 DEF TranscriptAt, RequestAt
<1>7. ASSUME NEW i \in 1..Len(n) PROVE TranscriptAt(n, i)
  <2>1. CASE i = len + 1
    BY <1>6, <2>1
  <2>2. CASE i # len + 1
    <3>1. i \in 1..Len(m)
      BY <1>1, <1>4, <2>2
    <3>2. TranscriptAt(m, i)
      BY <3>1, TranscriptParts
    <3> QED BY <1>4, <3>1, <3>2, TranscriptPrefix
  <2> QED BY <2>1, <2>2
<1>8. n # <<>> /\ Last(n) = turn
  BY <1>1, <1>4 DEF Last
<1> QED BY <1>3, <1>7, <1>8, TranscriptParts DEF IsAssistant

LEMMA Appended ==
  ASSUME NEW m \in Seq(Message), NEW r \in Seq(Message)
  PROVE  /\ Len(m \o r) = Len(m) + Len(r)
         /\ \A i \in 1..Len(r) : (m \o r)[Len(m) + i] = r[i]
<1>1. Len(m) \in Nat /\ Len(r) \in Nat
  OBVIOUS
<1>2. Len(m \o r) = Len(m) + Len(r)
  OBVIOUS
<1>3. ASSUME NEW i \in 1..Len(r) PROVE (m \o r)[Len(m) + i] = r[i]
  BY <1>1
<1> QED BY <1>2, <1>3

(* The results of the last turn's calls answer everything that was open.                *)
LEMMA ResultsTranscript ==
  ASSUME NEW m \in Seq(Message), ValidTranscript(m, TRUE), IsAssistant(Last(m)),
         NEW batch \in Seq(CallId), batch = Last(m).calls, NEW how \in {"ran", "rejected"},
         NEW n \in Seq(Message), n = m \o Results(batch, how)
  PROVE  ValidTranscript(n, TRUE)
<1>1. m # <<>> /\ \A i \in 1..Len(m) : TranscriptAt(m, i)
  BY TranscriptParts
<1>2. PICK len \in Nat \ {0}, size \in Nat : len = Len(m) /\ size = Len(batch)
  BY <1>1
<1>3. PICK r \in Seq(Message) : r = Results(batch, how)
  BY ResultsTyped
<1>4. /\ Len(r) = size
      /\ \A i \in 1..size : r[i].role = "tool" /\ r[i].id = batch[i]
  BY <1>2, <1>3 DEF Results, ToolMessage
<1>5. Longer(m, n) /\ Len(n) = len + size /\ \A i \in 1..size : n[len + i] = r[i]
  <2>1. n = m \o r
    BY <1>3
  <2>2. Longer(m, n)
    BY <2>1, LongerAppended
  <2>3. Len(n) = len + size /\ \A i \in 1..size : n[len + i] = r[i]
    <3>1. /\ Len(m \o r) = Len(m) + Len(r)
          /\ \A i \in 1..Len(r) : (m \o r)[Len(m) + i] = r[i]
      BY Appended
    <3>2. Len(m) = len /\ Len(r) = size
      BY <1>2, <1>4
    <3> QED BY <2>1, <3>1, <3>2, Zenon
  <2> QED BY <2>2, <2>3
<1>6. Last(m) = m[len] /\ n[len] = m[len] /\ CallsOf(n[len]) = ToSet(batch)
  BY <1>2, <1>5 DEF Last, CallsOf, Longer
<1>7. IsInjective(batch)
  BY <1>1, <1>2, <1>6 DEF TranscriptAt, RequestAt
<1>8. \A x : x \in ToSet(batch) <=> \E i \in 1..size : x = batch[i]
  BY <1>2 DEF ToSet
<1>9. ASSUME NEW j \in 1..len, IsTool(m[j]) PROVE m[j].id \notin ToSet(batch)
  <2>1. ASSUME m[j].id \in ToSet(batch) PROVE FALSE
    <3>1. m[j].id \in OpenBefore(m, Len(m) + 1)
      BY <1>1, <1>6, <2>1, <1>5, LastTurnOpen
    <3>2. j \in 1..((Len(m) + 1) - 1)
      BY <1>2
    <3> QED BY <1>9, <3>1, <3>2, OpenBeforeHas
  <2> QED BY <2>1
<1>10. ASSUME NEW i \in 1..size PROVE TranscriptAt(n, len + i)
  <2>1. n[len + i].role = "tool" /\ n[len + i].id = batch[i]
    BY <1>4, <1>5
  <2>2. n[len + i].id \in CallsBefore(n, len + i)
    <3>1. len \in 1..((len + i) - 1)
      BY <1>2
    <3>2. batch[i] \in CallsOf(n[len])
      BY <1>6, <1>8
    <3> QED BY <2>1, <3>1, <3>2, CallsBeforeHas
  <2>3. ASSUME NEW j \in 1..((len + i) - 1), IsTool(n[j]) PROVE n[j].id # batch[i]
    <3>1. CASE j \in 1..len
      <4>1. n[j] = m[j]
        BY <1>2, <1>5, <3>1 DEF Longer
      <4> QED BY <1>8, <1>9, <2>3, <3>1, <4>1
    <3>2. CASE j \notin 1..len
      <4>1. PICK h \in 1..size : j = len + h /\ h # i
        <5>1. j - len \in 1..size /\ j = len + (j - len) /\ j - len # i
          BY <1>2, <3>2
        <5> QED BY <5>1
      <4>2. n[j].id = batch[h]
        BY <1>4, <1>5, <4>1
      <4>3. DOMAIN batch = 1..size
        BY <1>2
      <4> QED BY <1>7, <4>1, <4>2, <4>3 DEF IsInjective
    <3> QED BY <3>1, <3>2
  <2>4. IsTool(n[len + i]) /\ ~ IsAssistant(n[len + i])
    BY <2>1 DEF IsTool, IsAssistant
  <2> QED BY <2>1, <2>2, <2>3, <2>4 DEF TranscriptAt, RequestAt
<1>11. ASSUME NEW i \in 1..Len(n) PROVE TranscriptAt(n, i)
  <2>1. CASE i \in 1..len
    BY <1>1, <1>2, <1>5, <2>1, TranscriptPrefix
  <2>2. CASE i \notin 1..len
    <3>1. i - len \in 1..size /\ i = len + (i - len)
      BY <1>2, <1>5, <2>2
    <3> QED BY <1>10, <3>1
  <2> QED BY <2>1, <2>2
<1>12. OpenBefore(n, Len(n) + 1) = {}
  <2>1. ASSUME NEW x \in OpenBefore(n, Len(n) + 1) PROVE FALSE
    <3>1. PICK end : end = Len(n) + 1
      OBVIOUS
    <3>2. /\ \E j \in 1..(len + size) : x \in CallsOf(n[j])
          /\ \A j \in 1..(len + size) : IsTool(n[j]) => n[j].id # x
      <4>1. end - 1 = len + size
        BY <1>2, <1>5, <3>1
      <4>2. x \in OpenBefore(n, end)
        BY <2>1, <3>1
      <4> QED BY <4>1, <4>2, OpenBeforeHas
    <3>3. PICK j \in 1..(len + size) : x \in CallsOf(n[j])
      BY <3>2
    <3>4. x \notin ToSet(batch)
      <4>1. ASSUME NEW i \in 1..size PROVE x # batch[i]
        <5>1. len + i \in 1..(len + size)
          BY <1>2
        <5>2. IsTool(n[len + i]) /\ n[len + i].id = batch[i]
          BY <1>4, <1>5 DEF IsTool
        <5> QED BY <3>2, <5>1, <5>2
      <4> QED BY <1>8, <4>1
    <3>5. j \in 1..(len - 1)
      <4>1. j # len
        BY <1>6, <3>3, <3>4
      <4>2. j \in 1..len
        <5>1. ASSUME j \notin 1..len PROVE FALSE
          <6>1. j - len \in 1..size /\ j = len + (j - len)
            BY <1>2, <5>1
          <6>2. n[j].role = "tool"
            BY <1>4, <1>5, <6>1
          <6> QED BY <3>3, <6>2 DEF CallsOf, IsAssistant
        <5> QED BY <5>1
      <4> QED BY <1>2, <4>1, <4>2
    <3>6. OpenBefore(m, len) = {}
      <4>1. len \in 1..Len(m) /\ ~ IsTool(m[len])
        BY <1>2, <1>6 DEF IsTool, IsAssistant
      <4> QED BY <1>1, <4>1 DEF TranscriptAt
    <3>7. \A h \in 1..(len - 1) : n[h] = m[h] /\ h \in 1..(len + size)
      BY <1>2, <1>5 DEF Longer
    <3>8. x \in OpenBefore(m, len)
      BY <3>2, <3>3, <3>5, <3>7, OpenBeforeHas
    <3> QED BY <3>6, <3>8
  <2> QED BY <2>1
<1>13. n # <<>>
  BY <1>2, <1>5
<1> QED BY <1>11, <1>12, <1>13, TranscriptParts

--------------------------------------------------------------------------------
(* States and nodes agree.                                                       *)

(* At its model node a stage waits for no results; at its tool node it does; at the   *)
(* end it has stopped.                                                           *)
AgentFits(agent, s, node) ==
  /\ UsageIsAligned(s)
  /\ node = ModelOf(1) => s.stop = NoStop
  /\ node = ToolsOf(1) => s.stop = NoStop /\ s.rounds # 0 /\ PendingCalls(s) # <<>>
  /\ node = END => AgentOutcome(s)
  /\ ~ MixedLimits => /\ node = ModelOf(1) => s.rounds < agent.limits[1]
                      /\ node = ToolsOf(1) => s.rounds <= agent.limits[1]

SequenceFits(agent, s, node) ==
  /\ SequenceGuard(agent, s)
  /\ \A i \in 1..2 : /\ node = ModelOf(i) => SequenceActive(agent, s, i, FALSE)
                     /\ node = ToolsOf(i) => SequenceActive(agent, s, i, TRUE)
  /\ node = HandoffNode =>
       ~ s.stopped /\ s.second = NoStage /\ s.first.stop = "FinalAnswer"
  /\ node = END =>
       /\ SequenceOutcome(agent, s)
       /\ s.first.stop = IF s.second = NoStage THEN "MaxRounds" ELSE "FinalAnswer"

BranchFits(agent, s, node) ==
  /\ BranchGuard(agent, s)
  /\ (s.downstream # NoStage) = (s.selection \in {"B", "C"})
  /\ \A i \in 1..3 : /\ node = ModelOf(i) => BranchActive(agent, s, i, FALSE)
                     /\ node = ToolsOf(i) => BranchActive(agent, s, i, TRUE)
  /\ node = SelectNode =>
       ~ s.stopped /\ s.selection = NoSelection /\ s.first.stop = "FinalAnswer"
  /\ node = END =>
       /\ BranchOutcome(agent, s)
       /\ s.first.stop = IF s.selection = NoSelection THEN "MaxRounds" ELSE "FinalAnswer"

Fits(agent, s, node) ==
  CASE agent.kind = "agent" -> AgentFits(agent, s, node)
    [] agent.kind = "sequence" -> SequenceFits(agent, s, node)
    [] OTHER -> BranchFits(agent, s, node)

(* The n steps that are left suffice from here to the end, or to the round beyond the   *)
(* limit.                                                                        *)
AgentBudget(agent, s, node, n) ==
  LET limit == agent.limits[1] IN
  /\ node = ModelOf(1) => n >= 2 /\ n >= 2 * (limit - s.rounds)
  /\ node = ToolsOf(1) => n >= 1 /\ n >= 2 * (limit - s.rounds) + 1

SequenceBudget(agent, s, node, n) ==
  LET first == agent.limits[1]
      second == agent.limits[2]
  IN
  /\ node = ModelOf(1) => n >= 2 * (first - s.first.rounds) + 2 * second + 1
  /\ node = ToolsOf(1) => n >= 2 * (first - s.first.rounds) + 2 * second + 2
  /\ node = HandoffNode => n >= 2 * second + 1
  /\ node = ModelOf(2) => n >= 2 * (second - s.second.rounds)
  /\ node = ToolsOf(2) => n >= 2 * (second - s.second.rounds) + 1

BranchBudget(agent, s, node, n) ==
  LET first == agent.limits[1] IN
  \A i \in 2..3 :
    /\ node = ModelOf(1) => n >= 2 * (first - s.first.rounds) + 2 * agent.limits[i] + 1
    /\ node = ToolsOf(1) => n >= 2 * (first - s.first.rounds) + 2 * agent.limits[i] + 2
    /\ node = SelectNode => n >= 2 * agent.limits[i] + 1
    /\ node = ModelOf(i) => n >= 2 * (agent.limits[i] - s.downstream.rounds)
    /\ node = ToolsOf(i) => n >= 2 * (agent.limits[i] - s.downstream.rounds) + 1

Budget(agent, s, node, n) ==
  CASE agent.kind = "agent" -> AgentBudget(agent, s, node, n)
    [] agent.kind = "sequence" -> SequenceBudget(agent, s, node, n)
    [] OTHER -> BranchBudget(agent, s, node, n)

(* A stage's transcript can be restored, unless the model used an identifier twice.     *)
SoundStage(x) == x # NoStage => ValidStage(x) \/ RepeatsCall(x.messages)

Sound(agent, s) ==
  CASE agent.kind = "agent" -> TRUE
    [] agent.kind = "sequence" -> SoundStage(s.first) /\ SoundStage(s.second)
    [] OTHER -> SoundStage(s.first) /\ SoundStage(s.downstream)

CallUsable(k) ==
  IF k.pc = "idle" THEN k.result # "internal" /\ (k.result = "overrun" => MixedLimits)
  ELSE /\ k.steps \in Nat
       /\ Fits(k.agent, k.state, k.node) /\ Sound(k.agent, k.state)
       /\ Budget(k.agent, k.state, k.node, k.steps)

SavedUsable(cp) ==
  \A g \in fleet : cp.version = Version(g) =>
    /\ Fits(g, cp.state, cp.node)
    /\ \/ Restorable(g, cp.state)
       \/ StagesRepeatCall(g, cp.state) /\ (Staged(g) => store = "memory")

(* An agent as AgentConfig::new and the builders of the plans make it.                 *)
Configured(g) ==
  /\ g.kind \in {"agent", "sequence", "branch"}
  /\ g.limits \in Seq(Nat \ {0})
  /\ Len(g.limits) = CASE g.kind = "agent" -> 1
                       [] g.kind = "sequence" -> 2
                       [] OTHER -> 3

Deployed == store \in {"record", "memory"} /\ \A g \in fleet : Configured(g)

Usable ==
  /\ Deployed
  /\ \A c \in Call : CallUsable(calls[c])
  /\ \A l \in Lines : \A n \in 1..Len(lines[l]) : SavedUsable(lines[l][n])

--------------------------------------------------------------------------------
(* What one turn of a stage leaves.                                                *)

Turned(s, limit, tools, t) ==
  /\ t \in Stage /\ UsageIsAligned(t)
  /\ t.rounds = IF tools THEN s.rounds ELSE s.rounds + 1
  /\ ~ tools =>
       /\ HasTurn(t)
       /\ t.stop = IF PendingCalls(t) = <<>> THEN "FinalAnswer" ELSE "None"
  /\ tools =>
       /\ t.messages # <<>> /\ IsTool(Last(t.messages)) /\ PendingCalls(t) = <<>>
       /\ t.stop = IF s.rounds = limit THEN "MaxRounds" ELSE "None"

LEMMA ModelTurned ==
  ASSUME NEW s \in Stage, s.stop = "None", UsageIsAligned(s), NEW batch \in Seq(CallId),
         NEW limit, NEW u, u = ModelCompleted(batch), NEW t, t = Apply(s, u)
  PROVE  /\ CanApply(s, u) /\ Turned(s, limit, FALSE, t)
         /\ t.messages = Append(s.messages, Assistant(batch)) /\ PendingCalls(t) = batch
<1>1. s.messages \in Seq(Message) /\ s.rounds \in Nat /\ s.usage = s.rounds
  BY DEF Stage, UsageIsAligned
<1>2. u.kind = "model" /\ u.calls = batch /\ u \in StageUpdates
  BY DEF ModelCompleted, StageUpdates
<1>3. CanApply(s, u)
  BY <1>2 DEF CanApply, CanApplyModel, NoStop
<1>4. PICK turn : turn = Assistant(batch)
  OBVIOUS
<1>5. turn \in Message /\ turn.role = "assistant" /\ turn.calls = batch
  BY <1>4 DEF Assistant, Message
<1>6. PICK m : m = Append(s.messages, turn)
  OBVIOUS
<1>7. m \in Seq(Message) /\ m # <<>> /\ Last(m) = turn
  BY <1>1, <1>5, <1>6 DEF Last
<1>8. t = [messages |-> m, rounds |-> s.rounds + 1, usage |-> s.usage + 1,
           stop |-> IF batch = <<>> THEN "FinalAnswer" ELSE "None"]
  BY <1>2, <1>4, <1>6 DEF Apply, ApplyModel, NoStop
<1>9. t \in Stage
  BY <1>2, ApplyTyped
<1>10. /\ t.messages = m /\ t.rounds = s.rounds + 1 /\ t.usage = s.usage + 1
       /\ t.stop = IF batch = <<>> THEN "FinalAnswer" ELSE "None"
  BY <1>8
<1>11. HasTurn(t) /\ PendingCalls(t) = batch
  BY <1>5, <1>7, <1>10 DEF HasTurn, PendingCalls, IsAssistant
<1>12. Turned(s, limit, FALSE, t)
  BY <1>1, <1>9, <1>10, <1>11 DEF Turned, UsageIsAligned
<1> QED BY <1>3, <1>4, <1>6, <1>10, <1>11, <1>12

LEMMA ToolsTurned ==
  ASSUME NEW s \in Stage, s.stop = "None", UsageIsAligned(s), s.rounds # 0,
         PendingCalls(s) # <<>>, NEW how \in {"ran", "rejected"}, NEW limit, NEW u,
         u = ToolsCompleted(Results(PendingCalls(s), how), ReachedMaxRounds(s, limit)),
         NEW t, t = Apply(s, u)
  PROVE  /\ CanApply(s, u) /\ Turned(s, limit, TRUE, t)
         /\ t.messages = s.messages \o Results(PendingCalls(s), how)
<1>1. s.messages \in Seq(Message) /\ s.rounds \in Nat /\ s.usage = s.rounds
  BY DEF Stage, UsageIsAligned
<1>2. PICK batch \in Seq(CallId) : batch = PendingCalls(s)
  BY PendingTyped
<1>3. PICK r \in Seq(Message) : r = Results(batch, how)
  BY ResultsTyped
<1>4. PICK size \in Nat \ {0} : size = Len(batch)
  BY <1>2
<1>5. /\ DOMAIN r = 1..size /\ Len(r) = size
      /\ \A i \in 1..size : r[i].role = "tool" /\ r[i].id = batch[i]
  BY <1>3, <1>4 DEF Results, ToolMessage
<1>6. u.kind = "tools" /\ u.results = r /\ u.reached = (s.rounds = limit)
  BY <1>2, <1>3 DEF ToolsCompleted, ReachedMaxRounds
<1>7. u \in StageUpdates
  BY ToolsUpdateTyped
<1>8. CanApply(s, u)
  <2>1. [i \in DOMAIN r |-> r[i].id] = batch
    <3>1. [i \in DOMAIN r |-> r[i].id] = [i \in 1..size |-> batch[i]]
      BY <1>5
    <3>2. batch = [i \in 1..size |-> batch[i]]
      BY <1>4
    <3> QED BY <3>1, <3>2
  <2> QED BY <1>1, <1>2, <1>6, <2>1 DEF CanApply, CanApplyTools, UsageIsAligned, NoStop
<1>9. PICK m : m = s.messages \o r
  OBVIOUS
<1>10. /\ Len(s.messages \o r) = Len(s.messages) + size
       /\ \A i \in 1..size : (s.messages \o r)[Len(s.messages) + i] = r[i]
  BY <1>1, <1>5, Appended
<1>11. /\ m \in Seq(Message) /\ m # <<>> /\ Last(m) = r[size]
  <2>1. m \in Seq(Message) /\ Len(m) = Len(s.messages) + size
    BY <1>1, <1>9, <1>10
  <2>2. m[Len(s.messages) + size] = r[size]
    BY <1>9, <1>10
  <2> QED BY <1>1, <2>1, <2>2 DEF Last
<1>12. /\ t.messages = m
       /\ t = [messages |-> m, rounds |-> s.rounds, usage |-> s.usage,
               stop |-> IF s.rounds = limit THEN "MaxRounds" ELSE "None"]
  BY <1>6, <1>9 DEF Apply, ApplyTools, Stage
<1>13. t \in Stage
  BY <1>7, ApplyTyped
<1>14. t.rounds = s.rounds /\ t.usage = s.usage
       /\ t.stop = IF s.rounds = limit THEN "MaxRounds" ELSE "None"
  BY <1>12
<1>15. IsTool(Last(t.messages)) /\ ~ IsAssistant(Last(t.messages))
  BY <1>5, <1>11, <1>12 DEF IsTool, IsAssistant
<1>16. PendingCalls(t) = <<>>
  BY <1>15 DEF PendingCalls, HasTurn
<1>17. Turned(s, limit, TRUE, t)
  BY <1>1, <1>11, <1>12, <1>13, <1>14, <1>15, <1>16 DEF Turned, UsageIsAligned
<1> QED BY <1>2, <1>3, <1>8, <1>9, <1>12, <1>17

(* An identifier used twice stays in the transcript.                                 *)
LEMMA RepeatsStay ==
  ASSUME NEW m, NEW n, Longer(m, n), RepeatsCall(m)
  PROVE  RepeatsCall(n)
<1>1. PICK len \in Nat, size \in Nat : len = Len(m) /\ size = Len(n) /\ len <= size
  BY DEF Longer
<1>2. DOMAIN m = 1..len /\ DOMAIN n = 1..size /\ \A i \in 1..len : m[i] = n[i] /\ i \in 1..size
  BY <1>1 DEF Longer
<1> QED BY <1>2, Zenon DEF RepeatsCall

LEMMA NewSound ==
  ASSUME NEW m \in Seq(Message), Admit(m), NEW s, s = NewAgentState(m)
  PROVE  ValidStage(s) /\ PendingCalls(s) = <<>>
<1>1. s.messages = m /\ s.rounds = 0 /\ s.usage = 0 /\ s.stop = NoStop
  BY DEF NewAgentState
<1>2. ValidTranscript(m, TRUE)
  BY TranscriptParts DEF Admit
<1>3. ValidStage(s)
  BY <1>1, <1>2 DEF ValidStage, UsageIsAligned
<1> QED BY <1>1, <1>3, AdmittedAnswered

LEMMA ModelSound ==
  ASSUME NEW s \in Stage, s.stop = "None", UsageIsAligned(s), PendingCalls(s) = <<>>,
         SoundStage(s), NEW batch \in Seq(CallId), NEW t, t = Apply(s, ModelCompleted(batch))
  PROVE  SoundStage(t)
<1>1. PICK m \in Seq(Message) : m = s.messages
  BY DEF Stage
<1>2. PICK n : n = t.messages
  OBVIOUS
<1>3. /\ Turned(s, 0, FALSE, t) /\ PendingCalls(t) = batch
      /\ n = Append(m, Assistant(batch))
  BY <1>1, <1>2, ModelTurned, Zenon
<1>4. n \in Seq(Message) /\ Longer(m, n)
  <2>1. ModelCompleted(batch) \in StageUpdates
    BY DEF ModelCompleted, StageUpdates
  <2>2. Apply(s, ModelCompleted(batch)) \in Stage
        /\ Longer(s.messages, Apply(s, ModelCompleted(batch)).messages)
    BY <2>1, ApplyTyped, Zenon
  <2>3. Longer(m, n)
    BY <1>1, <1>2, <2>2, Zenon
  <2> QED BY <2>3 DEF Longer
<1>5. PICK len \in Nat : len = Len(m)
  OBVIOUS
<1>6. /\ Len(n) = len + 1 /\ n[len + 1] = Assistant(batch)
      /\ \A i \in 1..len : n[i] = m[i]
  BY <1>3, <1>5
<1>7. CASE RepeatsCall(m)
  BY <1>2, <1>4, <1>7, RepeatsStay DEF SoundStage
<1>8. CASE ~ RepeatsCall(m) /\ IsInjective(batch)
           /\ ToSet(batch) \cap CallsBefore(m, Len(m) + 1) = {}
  <2>1. ValidTranscript(m, TRUE)
    <3>1. s # NoStage
      BY NoStageIsNone
    <3> QED BY <1>1, <1>8, <3>1 DEF SoundStage, ValidStage
  <2>2. m # <<>> /\ \A i \in 1..Len(m) : TranscriptAt(m, i)
    BY <2>1, TranscriptParts
  <2>3. OpenBefore(m, Len(m) + 1) = {}
    <3>1. ASSUME NEW x \in OpenBefore(m, Len(m) + 1) PROVE FALSE
      <4>1. IsAssistant(Last(m))
        BY <2>1, <3>1, TranscriptParts
      <4>2. Last(m) = m[len] /\ len \in 1..len
        BY <1>5, <2>2 DEF Last
      <4>3. CallsOf(m[len]) = {}
        <5>1. m[len].calls = <<>>
          BY <1>1, <2>2, <4>1, <4>2 DEF PendingCalls, HasTurn
        <5> QED BY <5>1 DEF CallsOf, ToSet
      <4>4. OpenBefore(m, len) = {}
        <5>1. ~ IsTool(m[len])
          BY <4>1, <4>2 DEF IsTool, IsAssistant
        <5> QED BY <1>5, <2>2, <4>2, <5>1 DEF TranscriptAt
      <4>5. PICK end : end = len + 1
        OBVIOUS
      <4>6. end - 1 = len
        BY <4>5
      <4>7. /\ \E j \in 1..len : x \in CallsOf(m[j])
            /\ \A j \in 1..len : IsTool(m[j]) => m[j].id # x
        <5>1. x \in OpenBefore(m, end)
          BY <1>5, <3>1, <4>5
        <5> QED BY <4>6, <5>1, OpenBeforeHas
      <4>8. PICK j \in 1..(len - 1) : x \in CallsOf(m[j])
        BY <4>3, <4>7
      <4>9. \A h \in 1..(len - 1) : IsTool(m[h]) => m[h].id # x
        BY <4>7
      <4>10. x \in OpenBefore(m, len)
        BY <4>8, <4>9, OpenBeforeHas
      <4> QED BY <4>4, <4>10
    <3> QED BY <3>1
  <2>4. ValidTranscript(n, TRUE)
    BY <1>3, <1>4, <1>8, <2>1, <2>3, TurnTranscript
  <2>5. /\ UsageIsAligned(t) /\ t.rounds = s.rounds + 1 /\ s.rounds \in Nat /\ HasTurn(t)
        /\ t.stop = IF PendingCalls(t) = <<>> THEN "FinalAnswer" ELSE "None"
    BY <1>3 DEF Turned, Stage
  <2>6. t.rounds # 0
    BY <2>5
  <2>7. ValidStage(t)
    BY <1>2, <2>4, <2>5, <2>6 DEF ValidStage
  <2> QED BY <2>7 DEF SoundStage
<1>9. CASE ~ IsInjective(batch)
  <2>1. Assistant(batch).role = "assistant" /\ Assistant(batch).calls = batch
    BY DEF Assistant
  <2>2. len + 1 \in DOMAIN n
    BY <1>4, <1>5, <1>6
  <2>3. IsAssistant(n[len + 1]) /\ n[len + 1].calls = batch
    BY <1>6, <2>1 DEF IsAssistant
  <2>4. RepeatsCall(n)
    BY <1>9, <2>2, <2>3, Zenon DEF RepeatsCall
  <2> QED BY <1>2, <2>4 DEF SoundStage
<1>10. CASE ToSet(batch) \cap CallsBefore(m, Len(m) + 1) # {}
  <2>1. PICK x : x \in ToSet(batch) /\ x \in CallsBefore(m, Len(m) + 1)
    BY <1>10
  <2>2. PICK j \in 1..((Len(m) + 1) - 1) : x \in CallsOf(m[j])
    BY <2>1, CallsBeforeHas
  <2>3. j \in 1..len /\ j < len + 1 /\ j \in DOMAIN n /\ len + 1 \in DOMAIN n
    BY <1>4, <1>5, <1>6
  <2>4. CallsOf(n[len + 1]) = ToSet(batch)
    BY <1>6 DEF CallsOf, Assistant, IsAssistant
  <2>5. x \in CallsOf(n[j]) \cap CallsOf(n[len + 1])
    BY <1>6, <2>1, <2>2, <2>3, <2>4
  <2>6. RepeatsCall(n)
    BY <2>3, <2>5 DEF RepeatsCall
  <2> QED BY <1>2, <2>6 DEF SoundStage
<1> QED BY <1>7, <1>8, <1>9, <1>10

LEMMA ToolsSound ==
  ASSUME NEW s \in Stage, s.stop = "None", UsageIsAligned(s), s.rounds # 0,
         PendingCalls(s) # <<>>, SoundStage(s), NEW how \in {"ran", "rejected"}, NEW limit,
         NEW u, u = ToolsCompleted(Results(PendingCalls(s), how), ReachedMaxRounds(s, limit)),
         NEW t, t = Apply(s, u)
  PROVE  SoundStage(t)
<1>1. PICK m \in Seq(Message) : m = s.messages
  BY DEF Stage
<1>2. PICK n : n = t.messages
  OBVIOUS
<1>3. PICK batch \in Seq(CallId) : batch = PendingCalls(s)
  BY PendingTyped
<1>4. Turned(s, limit, TRUE, t) /\ n = m \o Results(batch, how)
  BY <1>1, <1>2, <1>3, ToolsTurned, Zenon
<1>5. n \in Seq(Message) /\ Longer(m, n)
  <2>1. u \in StageUpdates
    BY ToolsUpdateTyped
  <2>2. Longer(m, n)
    BY <1>1, <1>2, <2>1, ApplyTyped
  <2> QED BY <2>2 DEF Longer
<1>6. CASE RepeatsCall(m)
  BY <1>2, <1>5, <1>6, RepeatsStay DEF SoundStage
<1>7. CASE ~ RepeatsCall(m)
  <2>1. ValidTranscript(m, TRUE)
    <3>1. s # NoStage
      BY NoStageIsNone
    <3> QED BY <1>1, <1>7, <3>1 DEF SoundStage, ValidStage
  <2>2. IsAssistant(Last(m)) /\ batch = Last(m).calls
    BY <1>1, <1>3 DEF PendingCalls, HasTurn
  <2>3. ValidTranscript(n, TRUE)
    BY <1>4, <1>5, <2>1, <2>2, ResultsTranscript
  <2>4. /\ UsageIsAligned(t) /\ t.rounds # 0 /\ IsTool(Last(t.messages))
        /\ t.stop \in {"MaxRounds", "None"}
    BY <1>4 DEF Turned
  <2>5. ValidStage(t)
    BY <1>2, <2>3, <2>4 DEF ValidStage
  <2> QED BY <2>5 DEF SoundStage
<1> QED BY <1>6, <1>7

(* What a stage's node yields where its state fits: an error the application is meant    *)
(* to see, a request, or an update that applies.                                     *)
Plays(s, limit, tools, p) ==
  /\ p.tag = "fail" => p.why # "internal" /\ (p.why = "overrun" => s.rounds > limit)
  /\ p.tag = "update" =>
       /\ tools => s.rounds <= limit
       /\ CanApply(s, p.update) /\ Turned(s, limit, tools, Apply(s, p.update))
       /\ SoundStage(s) /\ (tools \/ PendingCalls(s) = <<>>) =>
            SoundStage(Apply(s, p.update))

LEMMA ModelPlays ==
  ASSUME NEW s \in Stage, s.stop = "None", UsageIsAligned(s), NEW limit,
         NEW p \in ModelNode(s)
  PROVE  Plays(s, limit, FALSE, p)
<1>1. CASE p = Failed("external", <<>>)
  BY <1>1 DEF Failed, Plays
<1>2. CASE p # Failed("external", <<>>)
  <2>1. PICK batch \in CallLists \cup {<<>>} : p = Committed(ModelCompleted(batch), <<>>)
    BY <1>2 DEF ModelNode
  <2>2. batch \in Seq(CallId)
    <3>1. <<>> \in Seq(CallId)
      OBVIOUS
    <3> QED BY <3>1, CallListsAssumption, Zenon
  <2>3. PICK u : u = ModelCompleted(batch)
    OBVIOUS
  <2>4. p.tag = "update" /\ p.update = u
    BY <2>1, <2>3 DEF Committed
  <2>5. CanApply(s, u) /\ Turned(s, limit, FALSE, Apply(s, u))
    BY <2>2, <2>3, ModelTurned
  <2>6. SoundStage(s) /\ PendingCalls(s) = <<>> => SoundStage(Apply(s, u))
    BY <2>2, <2>3, ModelSound
  <2> QED BY <2>4, <2>5, <2>6, Zenon DEF Plays
<1> QED BY <1>1, <1>2

LEMMA ResultsPlay ==
  ASSUME NEW s \in Stage, s.stop = "None", UsageIsAligned(s), s.rounds # 0,
         PendingCalls(s) # <<>>, NEW limit, s.rounds <= limit,
         NEW how \in {"ran", "rejected"}, NEW ran, NEW p,
         p = Committed(ToolsCompleted(Results(PendingCalls(s), how),
                                      ReachedMaxRounds(s, limit)), ran)
  PROVE  Plays(s, limit, TRUE, p)
<1>1. PICK u : u = ToolsCompleted(Results(PendingCalls(s), how), ReachedMaxRounds(s, limit))
  OBVIOUS
<1>2. p.tag = "update" /\ p.update = u
  BY <1>1 DEF Committed
<1>3. CanApply(s, u) /\ Turned(s, limit, TRUE, Apply(s, u))
  BY <1>1, ToolsTurned
<1>4. SoundStage(s) => SoundStage(Apply(s, u))
  BY <1>1, ToolsSound
<1> QED BY <1>2, <1>3, <1>4, Zenon DEF Plays

LEMMA ToolsPlay ==
  ASSUME NEW s \in Stage, s.stop = "None", UsageIsAligned(s), s.rounds # 0,
         PendingCalls(s) # <<>>, NEW limit \in Nat, NEW stage, NEW value,
         NEW p \in ApprovalToolNode(s, limit, stage, value) \cup ToolNode(s, limit)
  PROVE  Plays(s, limit, TRUE, p)
<1>1. s.rounds \in Nat
  BY DEF Stage
<1>2. CASE s.rounds > limit
  <2>1. p = Failed("overrun", <<>>)
    BY <1>2 DEF ApprovalToolNode, ToolNode, ToolNodeFault
  <2> QED BY <1>2, <2>1 DEF Failed, Plays
<1>3. CASE ~ (s.rounds > limit)
  <2>1. s.rounds <= limit
    BY <1>1, <1>3
  <2>2. CASE \E why \in {"external", "decision"} : \E ran : p = Failed(why, ran)
    BY <2>2 DEF Failed, Plays
  <2>3. CASE \E stop, batch : p = Interrupted(stop, batch)
    BY <2>3 DEF Interrupted, Plays
  <2>4. CASE \E how \in {"ran", "rejected"} : \E ran :
               p = Committed(ToolsCompleted(Results(PendingCalls(s), how),
                                            ReachedMaxRounds(s, limit)), ran)
    BY <2>1, <2>4, ResultsPlay
  <2>5. \/ p \in ExecutePending(s, limit) \/ p = Interrupted(stage, PendingCalls(s))
        \/ p = Failed("decision", <<>>) \/ p \in RejectedUpdate(s, limit)
    BY <1>3 DEF ApprovalToolNode, ToolNode, ToolNodeFault, Decide
  <2>6. CASE p \in ExecutePending(s, limit)
    <3>1. \/ \E ran : p = Failed("external", ran)
          \/ p = Committed(ToolsCompleted(Results(PendingCalls(s), "ran"),
                                          ReachedMaxRounds(s, limit)), PendingCalls(s))
      BY <2>6, Zenon DEF ExecutePending
    <3> QED BY <2>2, <2>4, <3>1, Zenon
  <2>7. CASE p \in RejectedUpdate(s, limit)
    <3>1. p = Committed(ToolsCompleted(Results(PendingCalls(s), "rejected"),
                                       ReachedMaxRounds(s, limit)), <<>>)
      BY <2>7, Zenon DEF RejectedUpdate
    <3> QED BY <2>4, <3>1, Zenon
  <2>8. CASE p = Interrupted(stage, PendingCalls(s))
    BY <2>3, <2>8, Zenon
  <2>9. CASE p = Failed("decision", <<>>)
    BY <2>2, <2>9, Zenon
  <2> QED BY <2>5, <2>6, <2>7, <2>8, <2>9
<1> QED BY <1>2, <1>3

--------------------------------------------------------------------------------
(* Where the state fits the node, no step ends in an internal error, and the next state   *)
(* fits the node the router selects.                                               *)

LEMMA ConfiguredLimits ==
  ASSUME NEW g, Configured(g)
  PROVE  /\ g.limits[1] \in Nat \ {0}
         /\ g.kind = "sequence" => g.limits[2] \in Nat \ {0}
         /\ g.kind \notin {"agent", "sequence"} =>
              g.limits[2] \in Nat \ {0} /\ g.limits[3] \in Nat \ {0}
<1>1. CASE g.kind = "agent"
  <2>1. Len(g.limits) = 1
    BY <1>1, Zenon DEF Configured
  <2> QED BY <1>1, <2>1 DEF Configured
<1>2. CASE g.kind = "sequence"
  <2>1. Len(g.limits) = 2
    BY <1>2 DEF Configured
  <2> QED BY <1>2, <2>1 DEF Configured
<1>3. CASE g.kind \notin {"agent", "sequence"}
  <2>1. Len(g.limits) = 3
    BY <1>3 DEF Configured
  <2> QED BY <1>3, <2>1 DEF Configured
<1> QED BY <1>1, <1>2, <1>3

NodePlays(agent, s, node, n, o) ==
  /\ o.tag = "fail" => o.why # "internal" /\ (o.why = "overrun" => MixedLimits)
  /\ o.tag = "update" =>
       /\ StateCanApply(agent, s, o.update)
       /\ \E t, next :
            /\ t = StateApply(agent, s, o.update) /\ next = RouteOf(agent, node, t)
            /\ next # NoRoute /\ Fits(agent, t, next) /\ Sound(agent, t)
            /\ Budget(agent, t, next, n - 1)

LEMMA AgentPlays ==
  ASSUME NEW agent, agent.kind = "agent", Configured(agent), NEW s \in StatesOf(agent),
         NEW node \in NodesOf(agent) \ {END}, NEW value, NEW n \in Nat,
         Fits(agent, s, node), Budget(agent, s, node, n),
         NEW o \in NodeOutcomes(agent, s, node, value)
  PROVE  NodePlays(agent, s, node, n, o)
<1>1. PICK limit \in Nat \ {0} : limit = agent.limits[1]
  BY ConfiguredLimits
<1>2. /\ s \in Stage /\ node \in {ModelOf(1), ToolsOf(1)} /\ AgentFits(agent, s, node)
      /\ AgentBudget(agent, s, node, n) /\ o \in AgentNode(agent, s, node, value)
  BY DEF StatesOf, NodesOf, Fits, Budget, NodeOutcomes
<1>3. s.rounds \in Nat /\ UsageIsAligned(s) /\ s.stop = "None"
  BY <1>2 DEF Stage, AgentFits, NoStop
<1>4. PICK tools \in BOOLEAN : tools = (node = ToolsOf(1))
  OBVIOUS
<1>5. node = IF tools THEN ToolsOf(1) ELSE ModelOf(1)
  BY <1>2, <1>4
<1>6. ModelOf(1) # ToolsOf(1) /\ ModelOf(1) # END /\ ToolsOf(1) # END
      /\ NoRoute \notin {ModelOf(1), ToolsOf(1), END}
  BY DEF ModelOf, ToolsOf, END, NoRoute
<1>7. Plays(s, limit, tools, o)
  <2>1. CASE ~ tools
    <3>1. o \in ModelNode(s)
      BY <1>2, <1>5, <2>1 DEF AgentNode
    <3>2. Plays(s, limit, FALSE, o)
      BY <1>2, <1>3, <3>1, ModelPlays
    <3> QED BY <2>1, <3>2
  <2>2. CASE tools
    <3>1. o \in ApprovalToolNode(s, limit, 1, value) \cup ToolNode(s, limit)
      BY <1>1, <1>2, <1>5, <1>6, <2>2 DEF AgentNode
    <3>2. s.rounds # 0 /\ PendingCalls(s) # <<>>
      BY <1>2, <1>5, <2>2 DEF AgentFits
    <3>3. limit \in Nat
      OBVIOUS
    <3>4. Plays(s, limit, TRUE, o)
      BY <1>2, <1>3, <3>1, <3>2, <3>3, ToolsPlay
    <3> QED BY <2>2, <3>4
  <2> QED BY <2>1, <2>2
<1>8. ASSUME o.tag = "fail", o.why = "overrun" PROVE MixedLimits
  <2>1. s.rounds > limit
    BY <1>7, <1>8 DEF Plays
  <2>2. ASSUME ~ MixedLimits PROVE s.rounds <= limit
    BY <1>1, <1>2, <1>3, <1>5, <2>2 DEF AgentFits
  <2> QED BY <1>3, <2>1, <2>2
<1>9. ASSUME o.tag = "update"
      PROVE  /\ StateCanApply(agent, s, o.update)
             /\ \E t, next :
                  /\ t = StateApply(agent, s, o.update) /\ next = RouteOf(agent, node, t)
                  /\ next # NoRoute /\ Fits(agent, t, next) /\ Sound(agent, t)
                  /\ Budget(agent, t, next, n - 1)
  <2>1. PICK u : u = o.update
    OBVIOUS
  <2>2. PICK t : t = Apply(s, u)
    OBVIOUS
  <2>3. PICK next : next = AgentRoute(agent, node, t)
    OBVIOUS
  <2>4. /\ StateCanApply(agent, s, u) = CanApply(s, u) /\ t = StateApply(agent, s, u)
        /\ next = RouteOf(agent, node, t)
    BY <2>2, <2>3 DEF StateCanApply, StateApply, RouteOf
  <2>5. /\ CanApply(s, u) /\ Turned(s, limit, tools, t) /\ (tools => s.rounds <= limit)
    BY <1>7, <1>9, <2>1, <2>2 DEF Plays
  <2>6. next \in {ModelOf(1), ToolsOf(1), END} /\ AgentFits(agent, t, next)
        /\ AgentBudget(agent, t, next, n - 1)
    <3>1. CASE ~ tools /\ PendingCalls(t) = <<>>
      <4>1. next = END
        BY <1>5, <2>3, <2>5, <3>1 DEF AgentRoute, RouteAfterModel, Turned
      <4> QED BY <1>6, <2>5, <3>1, <4>1 DEF Turned, AgentFits, AgentBudget, AgentOutcome, NoStop
    <3>2. CASE ~ tools /\ PendingCalls(t) # <<>>
      <4>1. next = ToolsOf(1)
        BY <1>5, <2>3, <2>5, <3>2 DEF AgentRoute, RouteAfterModel, Turned
      <4>2. t.rounds = s.rounds + 1 /\ t.rounds # 0 /\ UsageIsAligned(t) /\ t.stop = "None"
        BY <1>3, <2>5, <3>2 DEF Turned
      <4>3. n >= 2 /\ n >= 2 * (limit - s.rounds)
        BY <1>1, <1>2, <1>5, <3>2 DEF AgentBudget
      <4>4. n - 1 >= 1 /\ n - 1 >= 2 * (limit - t.rounds) + 1
        BY <1>3, <4>2, <4>3
      <4>5. AgentBudget(agent, t, next, n - 1)
        BY <1>1, <1>6, <4>1, <4>4 DEF AgentBudget
      <4>6. ~ MixedLimits => t.rounds <= limit
        BY <1>1, <1>2, <1>3, <1>5, <3>2, <4>2 DEF AgentFits
      <4> QED BY <1>1, <1>6, <3>2, <4>1, <4>2, <4>5, <4>6 DEF AgentFits, NoStop
    <3>3. CASE tools /\ s.rounds = limit
      <4>1. t.stop = "MaxRounds" /\ t.rounds = limit
        BY <2>5, <3>3 DEF Turned
      <4>2. next = END
        BY <1>1, <1>5, <1>6, <2>3, <2>5, <3>3, <4>1 DEF AgentRoute, RouteAfterTools, Turned
      <4> QED BY <1>6, <2>5, <4>1, <4>2 DEF Turned, AgentFits, AgentBudget, AgentOutcome, NoStop
    <3>4. CASE tools /\ s.rounds # limit
      <4>1. t.stop = "None" /\ t.rounds = s.rounds /\ s.rounds < limit /\ s.rounds # 0
        BY <1>2, <1>3, <1>5, <2>5, <3>4 DEF Turned, AgentFits
      <4>2. next = ModelOf(1)
        BY <1>1, <1>5, <1>6, <2>3, <2>5, <3>4, <4>1
           DEF AgentRoute, RouteAfterTools, Turned, NoStop
      <4>3. n >= 2 * (limit - s.rounds) + 1
        BY <1>1, <1>2, <1>5, <3>4 DEF AgentBudget
      <4>4. n - 1 >= 2 /\ n - 1 >= 2 * (limit - t.rounds)
        BY <1>3, <4>1, <4>3
      <4>5. AgentBudget(agent, t, next, n - 1)
        BY <1>1, <1>6, <4>2, <4>4 DEF AgentBudget
      <4> QED BY <1>1, <1>6, <2>5, <4>1, <4>2, <4>5 DEF AgentFits, NoStop, Turned
    <3> QED BY <3>1, <3>2, <3>3, <3>4
  <2>7. Fits(agent, t, next) /\ Sound(agent, t) /\ Budget(agent, t, next, n - 1)
    BY <2>6 DEF Fits, Sound, Budget
  <2>8. next # NoRoute
    BY <1>6, <2>6
  <2> QED BY <2>1, <2>4, <2>5, <2>7, <2>8
<1> QED BY <1>7, <1>8, <1>9 DEF NodePlays, Plays

(* One turn of a stage of a sequence or a branch.                                    *)
StageMoved(s, limit, tools, t) ==
  /\ t \in Stage /\ StageWithinLimit(t, limit) /\ SoundStage(t)
  /\ t.rounds = IF tools THEN s.rounds ELSE s.rounds + 1
  /\ ~ tools => t.stop = "FinalAnswer" \/ StageTurn(t, limit, TRUE)
  /\ tools => t.stop = "MaxRounds" \/ StageTurn(t, limit, FALSE)

StageMoves(i, s, limit, tools, o) ==
  /\ o.tag = "fail" => o.why \notin {"internal", "overrun"}
  /\ o.tag = "update" =>
       \E u, t : /\ o.update = [kind |-> "stage", index |-> i, update |-> u]
                 /\ CanApply(s, u) /\ t = Apply(s, u) /\ StageMoved(s, limit, tools, t)

LEMMA TurnedMoved ==
  ASSUME NEW s \in Stage, NEW limit \in Nat, NEW tools \in BOOLEAN,
         StageTurn(s, limit, tools), NEW t, Turned(s, limit, tools, t), SoundStage(t),
         tools => s.rounds <= limit
  PROVE  StageMoved(s, limit, tools, t)
<1>1. s.rounds \in Nat /\ t \in Stage /\ t.rounds \in Nat
  BY DEF Stage, Turned
<1>2. CASE ~ tools
  <2>1. t.rounds = s.rounds + 1 /\ s.rounds < limit /\ UsageIsAligned(t)
        /\ t.stop = IF PendingCalls(t) = <<>> THEN "FinalAnswer" ELSE "None"
    BY <1>2 DEF Turned, StageTurn
  <2>2. t.rounds <= limit /\ t.rounds # 0
    BY <1>1, <2>1
  <2>3. StageWithinLimit(t, limit)
    BY <2>1, <2>2 DEF StageWithinLimit
  <2>4. t.stop = "FinalAnswer" \/ StageTurn(t, limit, TRUE)
    BY <2>1, <2>2 DEF StageTurn, NoStop
  <2> QED BY <1>1, <1>2, <2>1, <2>3, <2>4 DEF StageMoved
<1>3. CASE tools
  <2>1. t.rounds = s.rounds /\ UsageIsAligned(t) /\ PendingCalls(t) = <<>>
        /\ t.stop = IF s.rounds = limit THEN "MaxRounds" ELSE "None"
    BY <1>3 DEF Turned
  <2>2. StageWithinLimit(t, limit)
    BY <1>3, <2>1 DEF StageWithinLimit
  <2>3. t.stop = "MaxRounds" \/ StageTurn(t, limit, FALSE)
    BY <1>1, <1>3, <2>1 DEF StageTurn, NoStop
  <2> QED BY <1>1, <1>3, <2>1, <2>2, <2>3 DEF StageMoved
<1> QED BY <1>2, <1>3

LEMMA StagePlays ==
  ASSUME NEW s \in Stage, NEW limit \in Nat, NEW tools \in BOOLEAN,
         StageTurn(s, limit, tools), StageWithinLimit(s, limit), SoundStage(s),
         NEW i \in {1, 2, 3}, NEW approval, NEW value,
         NEW p \in StageNode(s, i, tools, approval, limit, value),
         NEW o, o = StageUpdate(i, p)
  PROVE  StageMoves(i, s, limit, tools, o)
<1>1. s.stop = "None" /\ UsageIsAligned(s) /\ s.rounds \in Nat /\ s.rounds <= limit
  BY DEF StageTurn, StageWithinLimit, NoStop, Stage
<1>2. Plays(s, limit, tools, p) /\ Outcome(p)
  <2>1. CASE ~ tools
    <3>1. p \in ModelNode(s)
      BY <2>1 DEF StageNode
    <3>2. Plays(s, limit, FALSE, p)
      BY <1>1, <3>1, ModelPlays
    <3> QED BY <2>1, <3>1, <3>2, ModelNodeFacts
  <2>2. CASE tools
    <3>1. p \in ApprovalToolNode(s, limit, i, value) \cup ToolNode(s, limit)
      BY <2>2 DEF StageNode
    <3>2. s.rounds # 0 /\ PendingCalls(s) # <<>>
      BY <2>2 DEF StageTurn
    <3>3. Plays(s, limit, TRUE, p)
      BY <1>1, <3>1, <3>2, ToolsPlay
    <3>4. Outcome(p)
      BY <3>1, ApprovalFacts, ToolNodeFacts
    <3> QED BY <2>2, <3>3, <3>4
  <2> QED BY <2>1, <2>2
<1>3. CASE p.tag # "update"
  <2>1. o = p
    BY <1>3, Zenon DEF StageUpdate
  <2> QED BY <1>1, <1>2, <1>3, <2>1 DEF Plays, StageMoves
<1>4. CASE p.tag = "update"
  <2>1. PICK u, ran : u = p.update /\ p = [tag |-> "update", update |-> u, ran |-> ran]
    BY <1>2, <1>4 DEF Outcome
  <2>2. o = [tag |-> "update", update |-> [kind |-> "stage", index |-> i, update |-> u],
             ran |-> ran]
    BY <2>1 DEF StageUpdate
  <2>3. PICK t : t = Apply(s, u)
    OBVIOUS
  <2>4. tools \/ PendingCalls(s) = <<>>
    BY DEF StageTurn
  <2>5. CanApply(s, u) /\ Turned(s, limit, tools, t) /\ SoundStage(t)
    BY <1>2, <1>4, <2>1, <2>3, <2>4, Zenon DEF Plays
  <2>6. StageMoved(s, limit, tools, t)
    BY <1>1, <2>5, TurnedMoved
  <2>7. o.tag = "update" /\ o.update = [kind |-> "stage", index |-> i, update |-> u]
    BY <2>2
  <2> QED BY <2>3, <2>5, <2>6, <2>7 DEF StageMoves
<1> QED BY <1>3, <1>4

LEMMA NodesDistinct ==
  /\ END # HandoffNode /\ END # SelectNode
  /\ \A i : /\ ModelOf(i) \notin {END, HandoffNode, SelectNode, NoRoute}
            /\ ToolsOf(i) \notin {END, HandoffNode, SelectNode, NoRoute}
            /\ \A j : /\ ModelOf(i) # ToolsOf(j)
                      /\ i # j => ModelOf(i) # ModelOf(j) /\ ToolsOf(i) # ToolsOf(j)
  /\ NoRoute \notin {END, HandoffNode, SelectNode}
BY DEF END, HandoffNode, SelectNode, NoRoute, ModelOf, ToolsOf

LEMMA SequenceRoutes ==
  ASSUME NEW t, NEW i \in {1, 2}
  PROVE  /\ SequenceRoute(HandoffNode, t) = ModelOf(2)
         /\ SequenceRoute(ToolsOf(i), t) = IF t.stopped THEN END ELSE ModelOf(i)
         /\ SequenceStage(t, i) # NoStage =>
              SequenceRoute(ModelOf(i), t) =
                IF SequenceStage(t, i).stop # "FinalAnswer" THEN ToolsOf(i)
                ELSE IF i = 1 THEN HandoffNode ELSE END
<1>1. SequenceRoute(HandoffNode, t) = ModelOf(2)
  BY DEF SequenceRoute, HandoffNode, ModelOf
<1>2. SequenceRoute(ToolsOf(i), t) = IF t.stopped THEN END ELSE ModelOf(i)
  BY DEF SequenceRoute, HandoffNode, ModelOf, ToolsOf
<1>3. ASSUME SequenceStage(t, i) # NoStage
      PROVE  SequenceRoute(ModelOf(i), t) =
               IF SequenceStage(t, i).stop # "FinalAnswer" THEN ToolsOf(i)
               ELSE IF i = 1 THEN HandoffNode ELSE END
  <2>1. ModelOf(i)[2] = i /\ ModelOf(i) # HandoffNode
    BY DEF ModelOf, HandoffNode
  <2> QED BY <1>3, <2>1 DEF SequenceRoute
<1> QED BY <1>1, <1>2, <1>3

LEMMA SequenceActs ==
  ASSUME NEW agent, NEW s, NEW node, SequenceFits(agent, s, node), NEW tools \in BOOLEAN,
         NEW i \in {1, 2}, node = IF tools THEN ToolsOf(i) ELSE ModelOf(i)
  PROVE  SequenceActive(agent, s, i, tools)
<1>1. i \in 1..2
  OBVIOUS
<1>2. CASE tools = TRUE
  BY <1>1, <1>2, Zenon DEF SequenceFits
<1>3. CASE tools = FALSE
  BY <1>1, <1>3, Zenon DEF SequenceFits
<1> QED BY <1>2, <1>3

(* What a step of a sequence leaves.                                                *)
SequenceMoved(agent, node, n, t) ==
  \E next : /\ next = SequenceRoute(node, t) /\ next # NoRoute
            /\ SequenceFits(agent, t, next) /\ SequenceBudget(agent, t, next, n - 1)
            /\ SoundStage(t.first) /\ SoundStage(t.second)

LEMMA SequenceFirstMoved ==
  ASSUME NEW agent, NEW first \in Nat \ {0}, NEW second \in Nat \ {0},
         first = agent.limits[1], second = agent.limits[2],
         NEW s \in SequenceStates, NEW tools \in BOOLEAN, NEW node, NEW n \in Nat,
         node = IF tools THEN ToolsOf(1) ELSE ModelOf(1),
         SequenceFits(agent, s, node), SequenceBudget(agent, s, node, n),
         NEW after, StageMoved(s.first, first, tools, after), NEW t,
         t = [first |-> after, second |-> s.second, stopped |-> StageStops(after, FALSE)]
  PROVE  SequenceMoved(agent, node, n, t)
<1>1. SequenceActive(agent, s, 1, tools)
  BY SequenceActs, Zenon
<1>2. s.second = NoStage /\ ~ s.stopped
  BY <1>1 DEF SequenceActive
<1>3. /\ after \in Stage /\ StageWithinLimit(after, first) /\ SoundStage(after)
      /\ after # NoStage /\ after.rounds \in Nat /\ s.first.rounds \in Nat
      /\ after.rounds = IF tools THEN s.first.rounds ELSE s.first.rounds + 1
      /\ after.stop \in {"None", "FinalAnswer", "MaxRounds"}
  BY NoStageIsNone DEF StageMoved, Stage, SequenceStates
<1>4. /\ t.first = after /\ t.second = NoStage
      /\ t.stopped = (after.stop = "MaxRounds")
      /\ SequenceStage(t, 1) = after /\ SequenceStage(t, 2) = NoStage
  BY <1>2 DEF StageStops, SequenceStage
<1>5. SequenceGuard(agent, t)
  <2>1. \A i \in 1..2 : i = 1 \/ i = 2
    OBVIOUS
  <2> QED BY <1>3, <1>4, <2>1 DEF SequenceGuard
<1>6. SoundStage(t.first) /\ SoundStage(t.second)
  BY <1>3, <1>4 DEF SoundStage
<1>7. CASE ~ tools /\ after.stop = "FinalAnswer"
  <2>1. SequenceRoute(node, t) = HandoffNode
    BY <1>3, <1>4, <1>7, SequenceRoutes
  <2>2. SequenceFits(agent, t, HandoffNode)
    BY <1>4, <1>5, <1>7, NodesDistinct DEF SequenceFits
  <2>3. n >= 2 * (first - s.first.rounds) + 2 * second + 1 /\ s.first.rounds < first
    BY <1>1, <1>7 DEF SequenceBudget, SequenceActive, StageTurn, SequenceStage
  <2>4. n - 1 >= 2 * second + 1
    BY <1>3, <2>3
  <2>5. SequenceBudget(agent, t, HandoffNode, n - 1)
    BY <2>4, NodesDistinct DEF SequenceBudget
  <2> QED BY <1>6, <2>1, <2>2, <2>5, NodesDistinct DEF SequenceMoved
<1>8. CASE ~ tools /\ after.stop # "FinalAnswer"
  <2>1. SequenceRoute(node, t) = ToolsOf(1)
    BY <1>3, <1>4, <1>8, SequenceRoutes
  <2>2. StageTurn(after, first, TRUE)
    BY <1>8 DEF StageMoved
  <2>3. SequenceActive(agent, t, 1, TRUE)
    <3>1. ~ t.stopped
      BY <1>4, <2>2 DEF StageTurn, NoStop
    <3>2. 1 # 2
      OBVIOUS
    <3> QED BY <1>4, <1>5, <2>2, <3>1, <3>2, Zenon DEF SequenceActive
  <2>4. SequenceFits(agent, t, ToolsOf(1))
    BY <1>5, <2>3, NodesDistinct DEF SequenceFits
  <2>5. n >= 2 * (first - s.first.rounds) + 2 * second + 1
    BY <1>8 DEF SequenceBudget
  <2>6. n - 1 >= 2 * (first - after.rounds) + 2 * second + 2
    BY <1>3, <1>8, <2>5
  <2>7. SequenceBudget(agent, t, ToolsOf(1), n - 1)
    BY <1>4, <2>6, NodesDistinct DEF SequenceBudget
  <2> QED BY <1>6, <2>1, <2>4, <2>7, NodesDistinct DEF SequenceMoved
<1>9. CASE tools /\ after.stop = "MaxRounds"
  <2>1. SequenceRoute(node, t) = END
    BY <1>4, <1>9, SequenceRoutes
  <2>2. SequenceOutcome(agent, t)
    BY <1>4, <1>5, <1>9 DEF SequenceOutcome, AgentOutcome, NoStop
  <2>3. SequenceFits(agent, t, END)
    BY <1>4, <1>5, <1>9, <2>2, NodesDistinct DEF SequenceFits
  <2>4. SequenceBudget(agent, t, END, n - 1)
    BY NodesDistinct DEF SequenceBudget
  <2> QED BY <1>6, <2>1, <2>3, <2>4, NodesDistinct DEF SequenceMoved
<1>10. CASE tools /\ after.stop # "MaxRounds"
  <2>1. SequenceRoute(node, t) = ModelOf(1)
    BY <1>4, <1>10, SequenceRoutes
  <2>2. StageTurn(after, first, FALSE)
    BY <1>10 DEF StageMoved
  <2>3. SequenceActive(agent, t, 1, FALSE)
    <3>1. ~ t.stopped
      BY <1>4, <1>10, Zenon
    <3>2. 1 # 2
      OBVIOUS
    <3> QED BY <1>4, <1>5, <2>2, <3>1, <3>2, Zenon DEF SequenceActive
  <2>4. SequenceFits(agent, t, ModelOf(1))
    BY <1>5, <2>3, NodesDistinct DEF SequenceFits
  <2>5. n >= 2 * (first - s.first.rounds) + 2 * second + 2
    BY <1>10 DEF SequenceBudget
  <2>6. n - 1 >= 2 * (first - after.rounds) + 2 * second + 1
    BY <1>3, <1>10, <2>5
  <2>7. SequenceBudget(agent, t, ModelOf(1), n - 1)
    BY <1>4, <2>6, NodesDistinct DEF SequenceBudget
  <2> QED BY <1>6, <2>1, <2>4, <2>7, NodesDistinct DEF SequenceMoved
<1> QED BY <1>7, <1>8, <1>9, <1>10

LEMMA SequenceSecondMoved ==
  ASSUME NEW agent, NEW first \in Nat \ {0}, NEW second \in Nat \ {0},
         first = agent.limits[1], second = agent.limits[2],
         NEW s \in SequenceStates, NEW tools \in BOOLEAN, NEW node, NEW n \in Nat,
         node = IF tools THEN ToolsOf(2) ELSE ModelOf(2),
         SequenceFits(agent, s, node), SequenceBudget(agent, s, node, n),
         SoundStage(s.first), s.second \in Stage,
         NEW after, StageMoved(s.second, second, tools, after), NEW t,
         t = [first |-> s.first, second |-> after, stopped |-> StageStops(after, TRUE)]
  PROVE  SequenceMoved(agent, node, n, t)
<1>1. SequenceActive(agent, s, 2, tools)
  BY SequenceActs, Zenon
<1>2. s.first.stop = "FinalAnswer" /\ ~ s.stopped /\ SequenceGuard(agent, s) /\ s.first \in Stage
  BY <1>1 DEF SequenceActive, SequenceStates
<1>3. /\ after \in Stage /\ StageWithinLimit(after, second) /\ SoundStage(after)
      /\ after # NoStage /\ after.rounds \in Nat /\ s.second.rounds \in Nat
      /\ after.rounds = IF tools THEN s.second.rounds ELSE s.second.rounds + 1
      /\ after.stop \in {"None", "FinalAnswer", "MaxRounds"}
  BY NoStageIsNone DEF StageMoved, Stage
<1>4. /\ t.first = s.first /\ t.second = after
      /\ t.stopped = (after.stop \in {"MaxRounds", "FinalAnswer"})
      /\ SequenceStage(t, 1) = s.first /\ SequenceStage(t, 2) = after
  BY DEF StageStops, SequenceStage
<1>5. SequenceGuard(agent, t)
  <2>1. \A i \in 1..2 : i = 1 \/ i = 2
    OBVIOUS
  <2>2. SequenceStage(s, 1) = s.first /\ s.first # NoStage /\ 1 \in 1..2
    BY <1>2, NoStageIsNone DEF SequenceStage
  <2>3. StageWithinLimit(s.first, agent.limits[1])
    BY <1>2, <2>2, Zenon DEF SequenceGuard
  <2> QED BY <1>3, <1>4, <2>1, <2>3 DEF SequenceGuard
<1>6. SoundStage(t.first) /\ SoundStage(t.second)
  BY <1>3, <1>4, Zenon
<1>7. ASSUME after.stop \in {"MaxRounds", "FinalAnswer"}, SequenceRoute(node, t) = END
      PROVE  SequenceMoved(agent, node, n, t)
  <2>1. t.stopped
    BY <1>4, <1>7, Zenon
  <2>2. SequenceOutcome(agent, t)
    BY <1>2, <1>4, <1>5, <1>7, <2>1 DEF SequenceOutcome, AgentOutcome, NoStop
  <2>3. SequenceFits(agent, t, END)
    BY <1>2, <1>3, <1>4, <1>5, <2>2, NodesDistinct DEF SequenceFits
  <2>4. SequenceBudget(agent, t, END, n - 1)
    BY NodesDistinct DEF SequenceBudget
  <2> QED BY <1>6, <1>7, <2>3, <2>4, NodesDistinct DEF SequenceMoved
<1>8. CASE ~ tools /\ after.stop = "FinalAnswer"
  <2>1. SequenceRoute(node, t) = END
    BY <1>3, <1>4, <1>8, SequenceRoutes
  <2> QED BY <1>7, <1>8, <2>1
<1>9. CASE ~ tools /\ after.stop # "FinalAnswer"
  <2>1. SequenceRoute(node, t) = ToolsOf(2)
    BY <1>3, <1>4, <1>9, SequenceRoutes
  <2>2. StageTurn(after, second, TRUE)
    BY <1>9 DEF StageMoved
  <2>3. SequenceActive(agent, t, 2, TRUE)
    <3>1. after.stop \notin {"MaxRounds", "FinalAnswer"}
      BY <2>2 DEF StageTurn, NoStop
    <3>2. ~ t.stopped
      BY <1>4, <3>1, Zenon
    <3>3. 1 # 2
      OBVIOUS
    <3> QED BY <1>2, <1>3, <1>4, <1>5, <2>2, <3>2, <3>3, Zenon DEF SequenceActive
  <2>4. SequenceFits(agent, t, ToolsOf(2))
    BY <1>5, <2>3, NodesDistinct DEF SequenceFits
  <2>5. n >= 2 * (second - s.second.rounds)
    BY <1>9 DEF SequenceBudget
  <2>6. n - 1 >= 2 * (second - after.rounds) + 1
    BY <1>3, <1>9, <2>5
  <2>7. SequenceBudget(agent, t, ToolsOf(2), n - 1)
    BY <1>4, <2>6, NodesDistinct DEF SequenceBudget
  <2> QED BY <1>6, <2>1, <2>4, <2>7, NodesDistinct DEF SequenceMoved
<1>10. CASE tools /\ after.stop = "MaxRounds"
  <2>1. t.stopped
    BY <1>4, <1>10
  <2>2. SequenceRoute(node, t) = END
    BY <1>10, <2>1, SequenceRoutes
  <2> QED BY <1>7, <1>10, <2>2
<1>11. CASE tools /\ after.stop # "MaxRounds"
  <2>1. StageTurn(after, second, FALSE)
    BY <1>11 DEF StageMoved
  <2>2. after.stop \notin {"MaxRounds", "FinalAnswer"}
    BY <2>1 DEF StageTurn, NoStop
  <2>3. ~ t.stopped
    BY <1>4, <2>2, Zenon
  <2>4. SequenceRoute(node, t) = ModelOf(2)
    BY <1>11, <2>3, SequenceRoutes
  <2>5. SequenceActive(agent, t, 2, FALSE)
    <3>1. 1 # 2
      OBVIOUS
    <3> QED BY <1>2, <1>3, <1>4, <1>5, <2>1, <2>3, <3>1, Zenon DEF SequenceActive
  <2>6. SequenceFits(agent, t, ModelOf(2))
    BY <1>5, <2>5, NodesDistinct DEF SequenceFits
  <2>7. n >= 2 * (second - s.second.rounds) + 1
    BY <1>11 DEF SequenceBudget
  <2>8. n - 1 >= 2 * (second - after.rounds)
    BY <1>3, <1>11, <2>7
  <2>9. SequenceBudget(agent, t, ModelOf(2), n - 1)
    BY <1>4, <2>8, NodesDistinct DEF SequenceBudget
  <2> QED BY <1>6, <2>4, <2>6, <2>9, NodesDistinct DEF SequenceMoved
<1> QED BY <1>8, <1>9, <1>10, <1>11

LEMMA NewStageFits ==
  ASSUME NEW m \in Seq(Message), Admit(m), NEW new, new = NewAgentState(m),
         NEW limit \in Nat \ {0}
  PROVE  /\ new \in Stage /\ new # NoStage /\ new.rounds = 0 /\ new.stop = "None"
         /\ StageWithinLimit(new, limit) /\ StageTurn(new, limit, FALSE) /\ SoundStage(new)
<1>1. new.rounds = 0 /\ new.usage = 0 /\ new.stop = "None"
  BY DEF NewAgentState, NoStop
<1>2. new \in Stage
  BY DEF NewAgentState, Stage, NoStop
<1>3. ValidStage(new) /\ PendingCalls(new) = <<>>
  BY NewSound
<1>4. new # NoStage
  BY <1>2, NoStageIsNone
<1>5. StageWithinLimit(new, limit)
  BY <1>1 DEF StageWithinLimit, UsageIsAligned
<1>6. StageTurn(new, limit, FALSE)
  BY <1>1, <1>3 DEF StageTurn, NoStop
<1>7. SoundStage(new)
  BY <1>3 DEF SoundStage
<1> QED BY <1>1, <1>2, <1>4, <1>5, <1>6, <1>7

LEMMA HandoffMoved ==
  ASSUME NEW agent, NEW first \in Nat \ {0}, NEW second \in Nat \ {0},
         first = agent.limits[1], second = agent.limits[2],
         NEW s \in SequenceStates, NEW n \in Nat, SequenceFits(agent, s, HandoffNode),
         SequenceBudget(agent, s, HandoffNode, n), SoundStage(s.first),
         NEW m \in Seq(Message), Admit(m), NEW t,
         t = [first |-> s.first, second |-> NewAgentState(m), stopped |-> s.stopped]
  PROVE  SequenceMoved(agent, HandoffNode, n, t)
<1>1. PICK new : new = NewAgentState(m)
  OBVIOUS
<1>2. /\ new \in Stage /\ new # NoStage /\ new.rounds = 0 /\ new.stop = "None"
      /\ StageWithinLimit(new, second) /\ StageTurn(new, second, FALSE) /\ SoundStage(new)
  BY <1>1, NewStageFits
<1>3. /\ ~ s.stopped /\ s.first.stop = "FinalAnswer" /\ SequenceGuard(agent, s)
      /\ s.first \in Stage
  BY DEF SequenceFits, SequenceStates
<1>4. /\ t.first = s.first /\ t.second = new /\ t.stopped = s.stopped
      /\ SequenceStage(t, 1) = s.first /\ SequenceStage(t, 2) = new
  BY <1>1 DEF SequenceStage
<1>5. SequenceGuard(agent, t)
  <2>1. \A i \in 1..2 : i = 1 \/ i = 2
    OBVIOUS
  <2>2. SequenceStage(s, 1) = s.first /\ s.first # NoStage /\ 1 \in 1..2
    BY <1>3, NoStageIsNone DEF SequenceStage
  <2>3. StageWithinLimit(s.first, agent.limits[1])
    BY <1>3, <2>2, Zenon DEF SequenceGuard
  <2> QED BY <1>2, <1>4, <2>1, <2>3 DEF SequenceGuard
<1>6. SequenceRoute(HandoffNode, t) = ModelOf(2)
  <2>1. 1 \in {1, 2}
    OBVIOUS
  <2> QED BY <2>1, SequenceRoutes
<1>7. SequenceActive(agent, t, 2, FALSE)
  <2>1. 1 # 2
    OBVIOUS
  <2> QED BY <1>2, <1>3, <1>4, <1>5, <2>1, Zenon DEF SequenceActive
<1>8. SequenceFits(agent, t, ModelOf(2))
  BY <1>5, <1>7, NodesDistinct DEF SequenceFits
<1>9. n >= 2 * second + 1
  BY DEF SequenceBudget
<1>10. n - 1 >= 2 * (second - new.rounds)
  BY <1>2, <1>9
<1>11. SequenceBudget(agent, t, ModelOf(2), n - 1)
  BY <1>4, <1>10, NodesDistinct DEF SequenceBudget
<1> QED BY <1>2, <1>4, <1>6, <1>8, <1>11, NodesDistinct DEF SequenceMoved

(* What is known of the outcome of a sequence's node.                               *)
SequencePlay(agent, s, node, n, o) ==
  /\ o.tag = "fail" => o.why \notin {"internal", "overrun"}
  /\ o.tag = "update" =>
       SequenceCanApply(s, o.update) /\ SequenceMoved(agent, node, n, SequenceApply(s, o.update))

LEMMA HandoffPlays ==
  ASSUME NEW agent, NEW first \in Nat \ {0}, NEW second \in Nat \ {0},
         first = agent.limits[1], second = agent.limits[2],
         NEW s \in SequenceStates, NEW n \in Nat, SequenceFits(agent, s, HandoffNode),
         SequenceBudget(agent, s, HandoffNode, n), SoundStage(s.first),
         NEW o \in HandoffRun(agent, s)
  PROVE  SequencePlay(agent, s, HandoffNode, n, o)
<1>1. /\ ~ s.stopped /\ s.second = NoStage /\ s.first.stop = "FinalAnswer"
      /\ SequenceGuard(agent, s)
  BY DEF SequenceFits
<1>2. CASE o = Failed("external", <<>>)
  BY <1>2 DEF Failed, SequencePlay
<1>3. CASE o # Failed("external", <<>>)
  <2>1. PICK m \in {h \in Handoffs : Admit(h)} :
          o = Committed([kind |-> "handoff", messages |-> m], <<>>)
    BY <1>1, <1>3 DEF HandoffRun
  <2>2. m \in Seq(Message) /\ Admit(m)
    BY <2>1, HandoffsAssumption
  <2>3. PICK u : u = [kind |-> "handoff", messages |-> m]
    OBVIOUS
  <2>4. o.tag = "update" /\ o.update = u
    BY <2>1, <2>3 DEF Committed
  <2>5. SequenceCanApply(s, u)
    BY <1>1, <2>3 DEF SequenceCanApply
  <2>6. SequenceApply(s, u) =
          [first |-> s.first, second |-> NewAgentState(m), stopped |-> s.stopped]
    BY <2>3 DEF SequenceApply, SequenceStates
  <2>7. SequenceMoved(agent, HandoffNode, n, SequenceApply(s, u))
    BY <2>2, <2>6, HandoffMoved
  <2> QED BY <2>4, <2>5, <2>7 DEF SequencePlay
<1> QED BY <1>2, <1>3

(* The node of an active stage.                                                      *)
LEMMA SequenceActiveNode ==
  ASSUME NEW agent, NEW s, NEW node, NEW value, NEW i, i = node[2], node # HandoffNode,
         NEW tools, tools = (node = ToolsOf(i)), SequenceActive(agent, s, i, tools),
         NEW saved, saved = SequenceStage(s, i), NEW limit, limit = agent.limits[i],
         NEW approval, approval = agent.approval[i],
         NEW o \in SequenceNode(agent, s, node, value)
  PROVE  \E p \in StageNode(saved, i, tools, approval, limit, value) : o = StageUpdate(i, p)
BY DEF SequenceNode, StageNode

LEMMA SequenceStagePlays ==
  ASSUME NEW agent, NEW first \in Nat \ {0}, NEW second \in Nat \ {0},
         first = agent.limits[1], second = agent.limits[2],
         NEW s \in SequenceStates, NEW n \in Nat, NEW i \in {1, 2}, NEW tools \in BOOLEAN,
         NEW node, node = IF tools THEN ToolsOf(i) ELSE ModelOf(i),
         SequenceFits(agent, s, node), SequenceBudget(agent, s, node, n),
         SoundStage(s.first), SoundStage(s.second), NEW value,
         NEW o \in SequenceNode(agent, s, node, value)
  PROVE  SequencePlay(agent, s, node, n, o)
<1>1. SequenceActive(agent, s, i, tools)
  BY SequenceActs, Zenon
<1>2. PICK saved, limit : saved = SequenceStage(s, i) /\ limit = agent.limits[i]
  OBVIOUS
<1>3. /\ s.first \in Stage /\ s.second \in Stage \cup {NoStage} /\ ~ s.stopped
      /\ (i = 1 => saved = s.first /\ s.second = NoStage /\ limit = first)
      /\ (i = 2 => saved = s.second /\ s.second # NoStage /\ limit = second)
  BY <1>1, <1>2 DEF SequenceActive, SequenceStage, SequenceStates
<1>4. saved \in Stage /\ SoundStage(saved) /\ limit \in Nat
  BY <1>3
<1>5. StageTurn(saved, limit, tools)
  BY <1>1, <1>2, Zenon DEF SequenceActive
<1>6. StageWithinLimit(saved, limit)
  <2>1. i \in 1..2 /\ saved # NoStage
    BY <1>4, NoStageIsNone
  <2>2. SequenceGuard(agent, s)
    BY <1>1 DEF SequenceActive
  <2> QED BY <1>2, <2>1, <2>2, Zenon DEF SequenceGuard
<1>7. PICK approval : approval = agent.approval[i]
  OBVIOUS
<1>8. PICK p \in StageNode(saved, i, tools, approval, limit, value) : o = StageUpdate(i, p)
  <2>1. node # HandoffNode /\ i = node[2] /\ tools = (node = ToolsOf(i))
    BY NodesDistinct DEF ModelOf, ToolsOf
  <2> QED BY <1>1, <1>2, <1>7, <2>1, SequenceActiveNode
<1>9. StageMoves(i, saved, limit, tools, o)
  <2>1. i \in {1, 2, 3}
    OBVIOUS
  <2> QED BY <1>4, <1>5, <1>6, <1>8, <2>1, StagePlays, Zenon
<1>10. ASSUME o.tag = "update"
       PROVE  /\ SequenceCanApply(s, o.update)
              /\ SequenceMoved(agent, node, n, SequenceApply(s, o.update))
  <2>1. PICK v, after :
          /\ o.update = [kind |-> "stage", index |-> i, update |-> v]
          /\ CanApply(saved, v) /\ after = Apply(saved, v)
          /\ StageMoved(saved, limit, tools, after)
    BY <1>9, <1>10, Zenon DEF StageMoves
  <2>2. PICK u : u = o.update
    OBVIOUS
  <2>3. u.kind = "stage" /\ u.kind # "handoff" /\ u.index = i /\ u.update = v
    BY <2>1, <2>2
  <2>4. SequenceCanApply(s, u)
    BY <1>2, <1>3, <2>1, <2>3 DEF SequenceCanApply
  <2>5. PICK t : t = SequenceApply(s, u)
    OBVIOUS
  <2>6. CASE i = 1
    <3>1. PICK stopped : stopped = StageStops(after, FALSE)
      OBVIOUS
    <3>2. t = [s EXCEPT !.first = after, !.stopped = stopped]
      <4>1. (u.index = 2) = FALSE /\ u.index = 1
        BY <2>3, <2>6
      <4> QED BY <1>2, <2>1, <2>3, <2>5, <2>6, <3>1, <4>1, Zenon DEF SequenceApply
    <3>3. t = [first |-> after, second |-> s.second, stopped |-> stopped]
      BY <3>2 DEF SequenceStates
    <3>4. StageMoved(s.first, first, tools, after) /\ node = IF tools THEN ToolsOf(1) ELSE ModelOf(1)
      BY <1>3, <2>1, <2>6
    <3>5. SequenceMoved(agent, node, n, t)
      BY <3>1, <3>3, <3>4, SequenceFirstMoved, Zenon
    <3> QED BY <2>2, <2>4, <2>5, <3>5
  <2>7. CASE i = 2
    <3>1. PICK stopped : stopped = StageStops(after, TRUE)
      OBVIOUS
    <3>2. t = [s EXCEPT !.second = after, !.stopped = stopped]
      <4>1. (u.index = 2) = TRUE /\ u.index # 1
        BY <2>3, <2>7
      <4> QED BY <1>2, <2>1, <2>3, <2>5, <2>7, <3>1, <4>1, Zenon DEF SequenceApply
    <3>3. t = [first |-> s.first, second |-> after, stopped |-> stopped]
      BY <3>2 DEF SequenceStates
    <3>4. /\ StageMoved(s.second, second, tools, after) /\ s.second \in Stage
          /\ node = IF tools THEN ToolsOf(2) ELSE ModelOf(2)
      BY <1>3, <2>1, <2>7
    <3>5. SequenceMoved(agent, node, n, t)
      BY <3>1, <3>3, <3>4, SequenceSecondMoved, Zenon
    <3> QED BY <2>2, <2>4, <2>5, <3>5
  <2> QED BY <2>6, <2>7
<1> QED BY <1>9, <1>10 DEF SequencePlay, StageMoves

LEMMA SequencePlays ==
  ASSUME NEW agent, agent.kind = "sequence", Configured(agent), NEW s \in StatesOf(agent),
         NEW node \in NodesOf(agent) \ {END}, NEW value, NEW n \in Nat,
         Fits(agent, s, node), Budget(agent, s, node, n), Sound(agent, s),
         NEW o \in NodeOutcomes(agent, s, node, value)
  PROVE  NodePlays(agent, s, node, n, o)
<1>1. PICK first \in Nat \ {0}, second \in Nat \ {0} :
        first = agent.limits[1] /\ second = agent.limits[2]
  BY ConfiguredLimits
<1>2. /\ s \in SequenceStates /\ SequenceFits(agent, s, node)
      /\ SequenceBudget(agent, s, node, n) /\ SoundStage(s.first) /\ SoundStage(s.second)
      /\ o \in SequenceNode(agent, s, node, value)
      /\ node \in {ModelOf(1), ToolsOf(1), ModelOf(2), ToolsOf(2), HandoffNode}
  BY DEF StatesOf, NodesOf, Fits, Budget, Sound, NodeOutcomes
<1>3. SequencePlay(agent, s, node, n, o)
  <2>1. CASE node = HandoffNode
    <3>1. o \in HandoffRun(agent, s)
      BY <1>2, <2>1 DEF SequenceNode
    <3> QED BY <1>1, <1>2, <2>1, <3>1, HandoffPlays
  <2>2. CASE node # HandoffNode
    <3>1. PICK i \in {1, 2}, tools \in BOOLEAN : node = IF tools THEN ToolsOf(i) ELSE ModelOf(i)
      <4>1. \/ node = IF TRUE THEN ToolsOf(1) ELSE ModelOf(1)
            \/ node = IF FALSE THEN ToolsOf(1) ELSE ModelOf(1)
            \/ node = IF TRUE THEN ToolsOf(2) ELSE ModelOf(2)
            \/ node = IF FALSE THEN ToolsOf(2) ELSE ModelOf(2)
        BY <1>2, <2>2
      <4> QED BY <4>1, Zenon
    <3> QED BY <1>1, <1>2, <3>1, SequenceStagePlays
  <2> QED BY <2>1, <2>2
<1>4. /\ \A u : /\ StateCanApply(agent, s, u) = SequenceCanApply(s, u)
                /\ StateApply(agent, s, u) = SequenceApply(s, u)
      /\ \A t, next : /\ Fits(agent, t, next) = SequenceFits(agent, t, next)
                      /\ Budget(agent, t, next, n - 1) = SequenceBudget(agent, t, next, n - 1)
                      /\ Sound(agent, t) = (SoundStage(t.first) /\ SoundStage(t.second))
                      /\ RouteOf(agent, node, t) = SequenceRoute(node, t)
  BY DEF StateCanApply, StateApply, Fits, Budget, Sound, RouteOf
<1> QED BY <1>3, <1>4 DEF NodePlays, SequencePlay, SequenceMoved

(* The stages of a branch.                                                           *)
LEMMA Targets ==
  /\ TargetIndex("B") = 2 /\ TargetIndex("C") = 3
  /\ TargetIndex("none") = 0 /\ TargetIndex("Complete") = 0
BY DEF TargetIndex

LEMMA BranchStageAt ==
  ASSUME NEW s \in BranchStates
  PROVE  /\ BranchStage(s, 1) = s.first
         /\ \A i \in {2, 3} :
              BranchStage(s, i) = IF TargetIndex(s.selection) = i THEN s.downstream ELSE NoStage
<1>1. BranchStage(s, 1) = s.first
  BY DEF BranchStage
<1>2. ASSUME NEW i \in {2, 3}
      PROVE  BranchStage(s, i) = IF TargetIndex(s.selection) = i THEN s.downstream ELSE NoStage
  <2>1. i # 1
    OBVIOUS
  <2> QED BY <2>1 DEF BranchStage
<1> QED BY <1>1, <1>2

LEMMA BranchGuarded ==
  ASSUME NEW agent, NEW s \in BranchStates
  PROVE  BranchGuard(agent, s) <=>
           /\ StageWithinLimit(s.first, agent.limits[1])
           /\ \A i \in {2, 3} : TargetIndex(s.selection) = i /\ s.downstream # NoStage =>
                StageWithinLimit(s.downstream, agent.limits[i])
<1>1. s.first # NoStage
  BY NoStageIsNone DEF BranchStates
<1>2. 1..3 = {1, 2, 3}
  OBVIOUS
<1>3. BranchGuard(agent, s) <=>
        \A i \in {1, 2, 3} : BranchStage(s, i) # NoStage =>
          StageWithinLimit(BranchStage(s, i), agent.limits[i])
  BY <1>2, Zenon DEF BranchGuard
<1>4. \A i \in {2, 3} : i \in {1, 2, 3}
  OBVIOUS
<1> QED BY <1>1, <1>3, <1>4, BranchStageAt

LEMMA BranchActs ==
  ASSUME NEW agent, NEW s, NEW node, BranchFits(agent, s, node), NEW tools \in BOOLEAN,
         NEW i \in {1, 2, 3}, node = IF tools THEN ToolsOf(i) ELSE ModelOf(i)
  PROVE  BranchActive(agent, s, i, tools)
<1>1. i \in 1..3
  OBVIOUS
<1>2. CASE tools = TRUE
  BY <1>1, <1>2, Zenon DEF BranchFits
<1>3. CASE tools = FALSE
  BY <1>1, <1>3, Zenon DEF BranchFits
<1> QED BY <1>2, <1>3

LEMMA BranchRoutes ==
  ASSUME NEW t \in BranchStates, NEW i \in {1, 2, 3}
  PROVE  /\ BranchRoute(SelectNode, t) =
              IF t.selection \in {"B", "C"} THEN ModelOf(TargetIndex(t.selection))
              ELSE IF t.selection = "Complete" THEN END ELSE NoRoute
         /\ BranchRoute(ToolsOf(i), t) = IF t.stopped THEN END ELSE ModelOf(i)
         /\ BranchStage(t, i) # NoStage =>
              BranchRoute(ModelOf(i), t) =
                IF BranchStage(t, i).stop # "FinalAnswer" THEN ToolsOf(i)
                ELSE IF i = 1 THEN SelectNode ELSE END
<1>1. BranchRoute(SelectNode, t) =
        IF t.selection \in {"B", "C"} THEN ModelOf(TargetIndex(t.selection))
        ELSE IF t.selection = "Complete" THEN END ELSE NoRoute
  <2>1. SelectNode # ModelOf(SelectNode[2])
    BY DEF SelectNode, ModelOf
  <2> QED BY <2>1 DEF BranchRoute
<1>2. BranchRoute(ToolsOf(i), t) = IF t.stopped THEN END ELSE ModelOf(i)
  <2>1. ToolsOf(i)[2] = i /\ ToolsOf(i) # SelectNode /\ ToolsOf(i) # ModelOf(i)
    BY DEF ModelOf, ToolsOf, SelectNode
  <2> QED BY <2>1 DEF BranchRoute
<1>3. ASSUME BranchStage(t, i) # NoStage
      PROVE  BranchRoute(ModelOf(i), t) =
               IF BranchStage(t, i).stop # "FinalAnswer" THEN ToolsOf(i)
               ELSE IF i = 1 THEN SelectNode ELSE END
  <2>1. ModelOf(i)[2] = i /\ ModelOf(i) # SelectNode
    BY DEF ModelOf, SelectNode
  <2> QED BY <1>3, <2>1 DEF BranchRoute
<1> QED BY <1>1, <1>2, <1>3

(* What a step of a branch leaves.                                                    *)
BranchMoved(agent, node, n, t) ==
  \E next : /\ next = BranchRoute(node, t) /\ next # NoRoute
            /\ BranchFits(agent, t, next) /\ BranchBudget(agent, t, next, n - 1)
            /\ SoundStage(t.first) /\ SoundStage(t.downstream)

LEMMA BranchFirstMoved ==
  ASSUME NEW agent, NEW limit \in [{1, 2, 3} -> Nat \ {0}],
         \A i \in {1, 2, 3} : limit[i] = agent.limits[i],
         NEW s \in BranchStates, NEW tools \in BOOLEAN, NEW node, NEW n \in Nat,
         node = IF tools THEN ToolsOf(1) ELSE ModelOf(1),
         BranchFits(agent, s, node), BranchBudget(agent, s, node, n),
         NEW after, StageMoved(s.first, limit[1], tools, after), NEW stopped \in BOOLEAN,
         after.stop = "MaxRounds" => stopped = TRUE,
         after.stop # "MaxRounds" => stopped = FALSE, NEW t,
         t = [first |-> after, downstream |-> s.downstream, stopped |-> stopped,
              selection |-> s.selection]
  PROVE  BranchMoved(agent, node, n, t)
<1>1. BranchActive(agent, s, 1, tools)
  BY BranchActs, Zenon
<1>2. s.selection = "none" /\ s.downstream = NoStage /\ s.first \in Stage
  BY <1>1 DEF BranchActive, BranchFits, BranchStates, NoSelection
<1>3. /\ after \in Stage /\ StageWithinLimit(after, limit[1]) /\ SoundStage(after)
      /\ after # NoStage /\ after.rounds \in Nat /\ s.first.rounds \in Nat
      /\ after.rounds = IF tools THEN s.first.rounds ELSE s.first.rounds + 1
      /\ after.stop \in {"None", "FinalAnswer", "MaxRounds"}
  BY <1>2, NoStageIsNone DEF StageMoved, Stage
<1>4. /\ t.first = after /\ t.downstream = NoStage /\ t.selection = "none"
      /\ t.stopped = stopped
  BY <1>2
<1>5. t \in BranchStates
  <2>1. s.selection \in {"none", "B", "C", "Complete"} /\ s.downstream \in Stage \cup {NoStage}
    BY DEF BranchStates
  <2> QED BY <1>3, <2>1, BranchTyped
<1>6. BranchStage(t, 1) = after
  BY <1>4, <1>5, BranchStageAt
<1>7. limit[1] = agent.limits[1] /\ limit[1] \in Nat \ {0}
      /\ limit[2] = agent.limits[2] /\ limit[2] \in Nat \ {0}
      /\ limit[3] = agent.limits[3] /\ limit[3] \in Nat \ {0}
  OBVIOUS
<1>8. BranchGuard(agent, t)
  BY <1>3, <1>4, <1>5, <1>7, BranchGuarded, Zenon
<1>9. SoundStage(t.first) /\ SoundStage(t.downstream)
  BY <1>3, <1>4, Zenon DEF SoundStage
<1>10. (t.downstream # NoStage) = (t.selection \in {"B", "C"})
  BY <1>4
<1>11. 2..3 = {2, 3}
  OBVIOUS
<1>12. CASE ~ tools /\ after.stop = "FinalAnswer"
  <2>1. BranchRoute(node, t) = SelectNode
    BY <1>3, <1>5, <1>6, <1>12, BranchRoutes
  <2>2. ~ t.stopped
    BY <1>4, <1>12
  <2>3. BranchFits(agent, t, SelectNode)
    BY <1>4, <1>8, <1>10, <1>12, <2>2, NodesDistinct DEF BranchFits, NoSelection
  <2>4. s.first.rounds < limit[1]
    <3>1. StageTurn(s.first, limit[1], FALSE)
      BY <1>1, <1>7, <1>12, BranchStageAt DEF BranchActive
    <3> QED BY <3>1 DEF StageTurn
  <2>5. ASSUME NEW i \in {2, 3} PROVE n - 1 >= 2 * limit[i] + 1
    <3>1. n >= 2 * (limit[1] - s.first.rounds) + 2 * limit[i] + 1
      BY <1>7, <1>11, <1>12 DEF BranchBudget
    <3> QED BY <1>3, <1>7, <2>4, <3>1
  <2>6. BranchBudget(agent, t, SelectNode, n - 1)
    BY <1>7, <1>11, <2>5, NodesDistinct DEF BranchBudget
  <2> QED BY <1>9, <2>1, <2>3, <2>6, NodesDistinct DEF BranchMoved
<1>13. CASE ~ tools /\ after.stop # "FinalAnswer"
  <2>1. BranchRoute(node, t) = ToolsOf(1)
    BY <1>3, <1>5, <1>6, <1>13, BranchRoutes
  <2>2. StageTurn(after, limit[1], TRUE)
    BY <1>13 DEF StageMoved
  <2>3. ~ t.stopped
    BY <1>4, <2>2 DEF StageTurn, NoStop
  <2>4. BranchActive(agent, t, 1, TRUE)
    BY <1>4, <1>6, <1>7, <1>8, <2>2, <2>3, Zenon DEF BranchActive, NoSelection
  <2>5. BranchFits(agent, t, ToolsOf(1))
    BY <1>8, <1>10, <2>4, NodesDistinct DEF BranchFits
  <2>6. ASSUME NEW i \in {2, 3}
        PROVE  n - 1 >= 2 * (limit[1] - after.rounds) + 2 * limit[i] + 2
    <3>1. n >= 2 * (limit[1] - s.first.rounds) + 2 * limit[i] + 1
      BY <1>7, <1>11, <1>13 DEF BranchBudget
    <3> QED BY <1>3, <1>7, <1>13, <3>1
  <2>7. BranchBudget(agent, t, ToolsOf(1), n - 1)
    BY <1>4, <1>7, <1>11, <2>6, NodesDistinct DEF BranchBudget
  <2> QED BY <1>9, <2>1, <2>5, <2>7, NodesDistinct DEF BranchMoved
<1>14. CASE tools /\ after.stop = "MaxRounds"
  <2>1. t.stopped
    BY <1>4, <1>14
  <2>2. BranchRoute(node, t) = END
    BY <1>5, <1>14, <2>1, BranchRoutes
  <2>3. BranchOutcome(agent, t)
    BY <1>4, <1>8, <1>14, <2>1 DEF BranchOutcome, AgentOutcome, NoStop
  <2>4. BranchFits(agent, t, END)
    BY <1>4, <1>8, <1>10, <1>14, <2>3, NodesDistinct DEF BranchFits, NoSelection
  <2>5. BranchBudget(agent, t, END, n - 1)
    BY NodesDistinct DEF BranchBudget
  <2> QED BY <1>9, <2>2, <2>4, <2>5, NodesDistinct DEF BranchMoved
<1>15. CASE tools /\ after.stop # "MaxRounds"
  <2>1. ~ t.stopped
    BY <1>4, <1>15
  <2>2. BranchRoute(node, t) = ModelOf(1)
    BY <1>5, <1>15, <2>1, BranchRoutes
  <2>3. StageTurn(after, limit[1], FALSE)
    BY <1>15 DEF StageMoved
  <2>4. BranchActive(agent, t, 1, FALSE)
    BY <1>4, <1>6, <1>7, <1>8, <2>1, <2>3, Zenon DEF BranchActive, NoSelection
  <2>5. BranchFits(agent, t, ModelOf(1))
    BY <1>8, <1>10, <2>4, NodesDistinct DEF BranchFits
  <2>6. ASSUME NEW i \in {2, 3}
        PROVE  n - 1 >= 2 * (limit[1] - after.rounds) + 2 * limit[i] + 1
    <3>1. n >= 2 * (limit[1] - s.first.rounds) + 2 * limit[i] + 2
      BY <1>7, <1>11, <1>15 DEF BranchBudget
    <3> QED BY <1>3, <1>7, <1>15, <3>1
  <2>7. BranchBudget(agent, t, ModelOf(1), n - 1)
    BY <1>4, <1>7, <1>11, <2>6, NodesDistinct DEF BranchBudget
  <2> QED BY <1>9, <2>2, <2>5, <2>7, NodesDistinct DEF BranchMoved
<1> QED BY <1>12, <1>13, <1>14, <1>15

(* The last stage of a branch stops the plan with either of its stop reasons.          *)
StopsLast(after, stopped) ==
  /\ after.stop \in {"MaxRounds", "FinalAnswer"} => stopped = TRUE
  /\ after.stop \notin {"MaxRounds", "FinalAnswer"} => stopped = FALSE

LEMMA BranchDownMoved ==
  ASSUME NEW agent, NEW limit \in [{1, 2, 3} -> Nat \ {0}],
         \A j \in {1, 2, 3} : limit[j] = agent.limits[j],
         NEW s \in BranchStates, NEW tools \in BOOLEAN, NEW node, NEW n \in Nat,
         NEW i \in {2, 3}, node = IF tools THEN ToolsOf(i) ELSE ModelOf(i),
         BranchFits(agent, s, node), BranchBudget(agent, s, node, n),
         SoundStage(s.first), s.downstream \in Stage,
         NEW after, StageMoved(s.downstream, limit[i], tools, after), NEW stopped \in BOOLEAN,
         StopsLast(after, stopped), NEW t,
         t = [first |-> s.first, downstream |-> after, stopped |-> stopped,
              selection |-> s.selection]
  PROVE  BranchMoved(agent, node, n, t)
<1>0. i \in {1, 2, 3} /\ i # 1 /\ 1 \in {1, 2, 3}
  OBVIOUS
<1>1. BranchActive(agent, s, i, tools)
  BY <1>0, BranchActs, Zenon
<1>2. /\ TargetIndex(s.selection) = i /\ s.first.stop = "FinalAnswer"
      /\ BranchGuard(agent, s)
  BY <1>0, <1>1, Zenon DEF BranchActive
<1>3. s.first \in Stage /\ s.selection \in {"B", "C"}
  BY <1>2, Targets DEF BranchStates
<1>4. /\ after \in Stage /\ StageWithinLimit(after, limit[i]) /\ SoundStage(after)
      /\ after # NoStage /\ after.rounds \in Nat /\ s.downstream.rounds \in Nat
      /\ after.rounds = IF tools THEN s.downstream.rounds ELSE s.downstream.rounds + 1
      /\ after.stop \in {"None", "FinalAnswer", "MaxRounds"}
  BY NoStageIsNone DEF StageMoved, Stage
<1>5. /\ t.first = s.first /\ t.downstream = after /\ t.selection = s.selection
      /\ t.stopped = stopped
      /\ after.stop \in {"MaxRounds", "FinalAnswer"} => stopped = TRUE
      /\ after.stop \notin {"MaxRounds", "FinalAnswer"} => stopped = FALSE
  BY DEF StopsLast
<1>6. t \in BranchStates
  <2>1. s.selection \in {"none", "B", "C", "Complete"} /\ after \in Stage \cup {NoStage}
    BY <1>3, <1>4
  <2> QED BY <1>3, <2>1, BranchTyped
<1>7. BranchStage(t, i) = after
  BY <1>2, <1>5, <1>6, BranchStageAt
<1>8. limit[i] = agent.limits[i] /\ limit[i] \in Nat \ {0}
  BY <1>0
<1>9. BranchGuard(agent, t)
  <2>1. StageWithinLimit(s.first, agent.limits[1])
    BY <1>2, BranchGuarded
  <2>2. ASSUME NEW j \in {2, 3}, TargetIndex(t.selection) = j
        PROVE  StageWithinLimit(after, agent.limits[j])
    <3>1. j = i
      BY <1>2, <1>5, <2>2
    <3> QED BY <1>4, <1>8, <3>1
  <2> QED BY <1>5, <1>6, <2>1, <2>2, BranchGuarded, Zenon
<1>10. SoundStage(t.first) /\ SoundStage(t.downstream)
  BY <1>4, <1>5, Zenon
<1>11. (t.downstream # NoStage) = (t.selection \in {"B", "C"})
  BY <1>3, <1>4, <1>5
<1>12. 2..3 = {2, 3}
  OBVIOUS
<1>13. t.first.stop = "FinalAnswer" /\ t.downstream # NoStage /\ TargetIndex(t.selection) = i
  BY <1>2, <1>4, <1>5, Zenon
<1>14. ASSUME after.stop \in {"MaxRounds", "FinalAnswer"}, BranchRoute(node, t) = END
       PROVE  BranchMoved(agent, node, n, t)
  <2>1. t.stopped
    BY <1>5, <1>14, Zenon
  <2>2. BranchOutcome(agent, t)
    BY <1>5, <1>9, <1>13, <1>14, <2>1 DEF BranchOutcome, AgentOutcome, NoStop
  <2>3. BranchFits(agent, t, END)
    BY <1>3, <1>5, <1>9, <1>11, <1>13, <2>2, NodesDistinct DEF BranchFits, NoSelection
  <2>4. BranchBudget(agent, t, END, n - 1)
    BY NodesDistinct DEF BranchBudget
  <2> QED BY <1>10, <1>14, <2>3, <2>4, NodesDistinct DEF BranchMoved
<1>15. CASE ~ tools /\ after.stop = "FinalAnswer"
  <2>1. BranchRoute(node, t) = END
    BY <1>0, <1>4, <1>6, <1>7, <1>15, BranchRoutes
  <2> QED BY <1>14, <1>15, <2>1
<1>16. CASE ~ tools /\ after.stop # "FinalAnswer"
  <2>1. BranchRoute(node, t) = ToolsOf(i)
    BY <1>0, <1>4, <1>6, <1>7, <1>16, BranchRoutes
  <2>2. StageTurn(after, limit[i], TRUE)
    BY <1>16 DEF StageMoved
  <2>3. after.stop \notin {"MaxRounds", "FinalAnswer"}
    BY <2>2 DEF StageTurn, NoStop
  <2>4. ~ t.stopped
    BY <1>5, <2>3, Zenon
  <2>5. BranchActive(agent, t, i, TRUE)
    BY <1>0, <1>7, <1>8, <1>9, <1>13, <2>2, <2>4, Zenon DEF BranchActive
  <2>6. BranchFits(agent, t, ToolsOf(i))
    BY <1>9, <1>11, <2>5, NodesDistinct DEF BranchFits
  <2>7. n >= 2 * (limit[i] - s.downstream.rounds)
    BY <1>8, <1>12, <1>16 DEF BranchBudget
  <2>8. n - 1 >= 2 * (limit[i] - after.rounds) + 1
    BY <1>4, <1>8, <1>16, <2>7
  <2>9. BranchBudget(agent, t, ToolsOf(i), n - 1)
    BY <1>5, <1>8, <1>12, <2>8, NodesDistinct DEF BranchBudget
  <2> QED BY <1>10, <2>1, <2>6, <2>9, NodesDistinct DEF BranchMoved
<1>17. CASE tools /\ after.stop = "MaxRounds"
  <2>1. t.stopped
    BY <1>5, <1>17
  <2>2. BranchRoute(node, t) = END
    BY <1>0, <1>6, <1>17, <2>1, BranchRoutes
  <2> QED BY <1>14, <1>17, <2>2
<1>18. CASE tools /\ after.stop # "MaxRounds"
  <2>1. StageTurn(after, limit[i], FALSE)
    BY <1>18 DEF StageMoved
  <2>2. after.stop \notin {"MaxRounds", "FinalAnswer"}
    BY <2>1 DEF StageTurn, NoStop
  <2>3. ~ t.stopped
    BY <1>5, <2>2, Zenon
  <2>4. BranchRoute(node, t) = ModelOf(i)
    BY <1>0, <1>6, <1>18, <2>3, BranchRoutes
  <2>5. BranchActive(agent, t, i, FALSE)
    BY <1>0, <1>7, <1>8, <1>9, <1>13, <2>1, <2>3, Zenon DEF BranchActive
  <2>6. BranchFits(agent, t, ModelOf(i))
    BY <1>9, <1>11, <2>5, NodesDistinct DEF BranchFits
  <2>7. n >= 2 * (limit[i] - s.downstream.rounds) + 1
    BY <1>8, <1>12, <1>18 DEF BranchBudget
  <2>8. n - 1 >= 2 * (limit[i] - after.rounds)
    BY <1>4, <1>8, <1>18, <2>7
  <2>9. BranchBudget(agent, t, ModelOf(i), n - 1)
    BY <1>5, <1>8, <1>12, <2>8, NodesDistinct DEF BranchBudget
  <2> QED BY <1>10, <2>4, <2>6, <2>9, NodesDistinct DEF BranchMoved
<1> QED BY <1>15, <1>16, <1>17, <1>18

LEMMA SelectMoved ==
  ASSUME NEW agent, NEW limit \in [{1, 2, 3} -> Nat \ {0}],
         \A j \in {1, 2, 3} : limit[j] = agent.limits[j],
         NEW s \in BranchStates, NEW n \in Nat, BranchFits(agent, s, SelectNode),
         BranchBudget(agent, s, SelectNode, n), SoundStage(s.first),
         NEW target \in {"B", "C"}, NEW m \in Seq(Message), Admit(m), NEW t,
         t = [first |-> s.first, downstream |-> NewAgentState(m), stopped |-> FALSE,
              selection |-> target]
  PROVE  BranchMoved(agent, SelectNode, n, t)
<1>1. PICK i \in {2, 3} : i = TargetIndex(target)
  BY Targets
<1>2. limit[i] = agent.limits[i] /\ limit[i] \in Nat \ {0} /\ i # 1 /\ i \in {1, 2, 3}
  OBVIOUS
<1>3. PICK new : new = NewAgentState(m)
  OBVIOUS
<1>4. /\ new \in Stage /\ new # NoStage /\ new.rounds = 0 /\ new.stop = "None"
      /\ StageWithinLimit(new, limit[i]) /\ StageTurn(new, limit[i], FALSE) /\ SoundStage(new)
  BY <1>2, <1>3, NewStageFits
<1>5. s.first.stop = "FinalAnswer" /\ BranchGuard(agent, s) /\ s.first \in Stage
  BY DEF BranchFits, BranchStates
<1>6. /\ t.first = s.first /\ t.downstream = new /\ t.stopped = FALSE
      /\ t.selection = target
  BY <1>3
<1>7. t \in BranchStates
  <2>1. target \in {"none", "B", "C", "Complete"} /\ new \in Stage \cup {NoStage}
        /\ FALSE \in BOOLEAN
    BY <1>4
  <2> QED BY <1>3, <1>5, <2>1, BranchTyped, Zenon
<1>8. BranchStage(t, i) = new
  BY <1>1, <1>6, <1>7, BranchStageAt
<1>9. BranchGuard(agent, t)
  <2>1. StageWithinLimit(s.first, agent.limits[1])
    BY <1>5, BranchGuarded
  <2>2. ASSUME NEW j \in {2, 3}, TargetIndex(t.selection) = j
        PROVE  StageWithinLimit(new, agent.limits[j])
    <3>1. j = i
      BY <1>1, <1>6, <2>2
    <3> QED BY <1>2, <1>4, <3>1
  <2> QED BY <1>6, <1>7, <2>1, <2>2, BranchGuarded, Zenon
<1>10. (t.downstream # NoStage) = (t.selection \in {"B", "C"})
  BY <1>4, <1>6
<1>11. BranchRoute(SelectNode, t) = ModelOf(i)
  BY <1>1, <1>2, <1>6, <1>7, BranchRoutes
<1>12. BranchActive(agent, t, i, FALSE)
  BY <1>1, <1>2, <1>4, <1>5, <1>6, <1>8, <1>9, Zenon DEF BranchActive
<1>13. BranchFits(agent, t, ModelOf(i))
  BY <1>9, <1>10, <1>12, NodesDistinct DEF BranchFits
<1>14. 2..3 = {2, 3}
  OBVIOUS
<1>15. n >= 2 * limit[i] + 1
  BY <1>2, <1>14 DEF BranchBudget
<1>16. n - 1 >= 2 * (limit[i] - new.rounds)
  BY <1>2, <1>4, <1>15
<1>17. BranchBudget(agent, t, ModelOf(i), n - 1)
  BY <1>2, <1>6, <1>14, <1>16, NodesDistinct DEF BranchBudget
<1>18. SoundStage(t.first) /\ SoundStage(t.downstream)
  BY <1>4, <1>6, Zenon
<1> QED BY <1>11, <1>13, <1>17, <1>18, NodesDistinct DEF BranchMoved

LEMMA CompleteMoved ==
  ASSUME NEW agent, NEW s \in BranchStates, NEW n \in Nat,
         BranchFits(agent, s, SelectNode), s.downstream = NoStage, SoundStage(s.first), NEW t,
         t = [first |-> s.first, downstream |-> s.downstream, stopped |-> TRUE,
              selection |-> "Complete"]
  PROVE  BranchMoved(agent, SelectNode, n, t)
<1>1. s.first.stop = "FinalAnswer" /\ BranchGuard(agent, s) /\ s.first \in Stage
  BY DEF BranchFits, BranchStates
<1>2. /\ t.first = s.first /\ t.downstream = NoStage /\ t.stopped = TRUE
      /\ t.selection = "Complete"
  OBVIOUS
<1>3. t \in BranchStates
  <2>1. "Complete" \in {"none", "B", "C", "Complete"} /\ NoStage \in Stage \cup {NoStage}
        /\ TRUE \in BOOLEAN
    OBVIOUS
  <2> QED BY <1>1, <2>1, BranchTyped, Zenon
<1>4. BranchGuard(agent, t)
  BY <1>1, <1>2, <1>3, BranchGuarded, Zenon
<1>5. BranchRoute(SelectNode, t) = END
  <2>1. 1 \in {1, 2, 3}
    OBVIOUS
  <2> QED BY <1>2, <1>3, <2>1, BranchRoutes
<1>6. BranchOutcome(agent, t)
  BY <1>1, <1>2, <1>4 DEF BranchOutcome, AgentOutcome, NoStop
<1>7. BranchFits(agent, t, END)
  <2>1. (t.downstream # NoStage) = (t.selection \in {"B", "C"})
    BY <1>2
  <2>2. t.first.stop = IF t.selection = NoSelection THEN "MaxRounds" ELSE "FinalAnswer"
    BY <1>1, <1>2 DEF NoSelection
  <2> QED BY <1>4, <1>6, <2>1, <2>2, NodesDistinct, Zenon DEF BranchFits
<1>8. BranchBudget(agent, t, END, n - 1)
  BY NodesDistinct DEF BranchBudget
<1>9. SoundStage(t.first) /\ SoundStage(t.downstream)
  BY <1>2, Zenon DEF SoundStage
<1> QED BY <1>5, <1>7, <1>8, <1>9, NodesDistinct DEF BranchMoved

(* What is known of the outcome of a branch's node.                                 *)
BranchPlay(agent, s, node, n, o) ==
  /\ o.tag = "fail" => o.why \notin {"internal", "overrun"}
  /\ o.tag = "update" =>
       BranchCanApply(s, o.update) /\ BranchMoved(agent, node, n, BranchApply(s, o.update))

LEMMA SelectPlays ==
  ASSUME NEW agent, NEW limit \in [{1, 2, 3} -> Nat \ {0}],
         \A j \in {1, 2, 3} : limit[j] = agent.limits[j],
         NEW s \in BranchStates, NEW n \in Nat, BranchFits(agent, s, SelectNode),
         BranchBudget(agent, s, SelectNode, n), SoundStage(s.first),
         NEW o \in SelectRun(agent, s)
  PROVE  BranchPlay(agent, s, SelectNode, n, o)
<1>1. /\ ~ s.stopped /\ s.selection = NoSelection /\ s.first.stop = "FinalAnswer"
      /\ BranchGuard(agent, s)
  BY DEF BranchFits
<1>2. s.downstream = NoStage
  BY <1>1 DEF BranchFits, NoSelection
<1>3. CASE o = Failed("external", <<>>)
  BY <1>3 DEF Failed, BranchPlay
<1>4. CASE o = Committed([kind |-> "select", target |-> "Complete", messages |-> <<>>], <<>>)
  <2>1. PICK u : u = [kind |-> "select", target |-> "Complete", messages |-> <<>>]
    OBVIOUS
  <2>2. o.tag = "update" /\ o.update = u /\ u.kind = "select" /\ u.target = "Complete"
    BY <1>4, <2>1 DEF Committed
  <2>3. BranchCanApply(s, u)
    BY <1>1, <1>2, <2>2, Zenon DEF BranchCanApply
  <2>4. BranchApply(s, u) =
          [s EXCEPT !.selection = "Complete", !.downstream = s.downstream, !.stopped = TRUE]
    <3>1. PICK stopped : stopped = (u.target = "Complete")
      OBVIOUS
    <3>2. stopped = TRUE
      BY <2>2, <3>1
    <3> QED BY <2>2, <3>1, <3>2, Zenon DEF BranchApply
  <2>5. BranchApply(s, u) =
          [first |-> s.first, downstream |-> s.downstream, stopped |-> TRUE,
           selection |-> "Complete"]
    BY <2>4 DEF BranchStates
  <2>6. BranchMoved(agent, SelectNode, n, BranchApply(s, u))
    BY <1>2, <2>5, CompleteMoved
  <2> QED BY <2>2, <2>3, <2>6, Zenon DEF BranchPlay
<1>5. CASE \E u \in [kind : {"select"}, target : {"B", "C"},
                     messages : {h \in Handoffs : Admit(h)}] : o = Committed(u, <<>>)
  <2>1. PICK u \in [kind : {"select"}, target : {"B", "C"},
                    messages : {h \in Handoffs : Admit(h)}] : o = Committed(u, <<>>)
    BY <1>5
  <2>2. PICK target \in {"B", "C"}, m \in {h \in Handoffs : Admit(h)} :
          u.target = target /\ u.messages = m /\ u.kind = "select"
    OBVIOUS
  <2>3. m \in Seq(Message) /\ Admit(m) /\ target # "Complete"
    BY HandoffsAssumption
  <2>4. o.tag = "update" /\ o.update = u
    BY <2>1 DEF Committed
  <2>5. BranchCanApply(s, u)
    BY <1>1, <1>2, <2>2, <2>3, Zenon DEF BranchCanApply
  <2>6. PICK new : new = NewAgentState(m)
    OBVIOUS
  <2>7. BranchApply(s, u) =
          [s EXCEPT !.selection = target, !.downstream = new, !.stopped = FALSE]
    <3>1. PICK stopped : stopped = (u.target = "Complete")
      OBVIOUS
    <3>2. stopped = FALSE
      BY <2>2, <2>3, <3>1
    <3> QED BY <2>2, <2>3, <2>6, <3>1, <3>2, Zenon DEF BranchApply
  <2>8. BranchApply(s, u) =
          [first |-> s.first, downstream |-> new, stopped |-> FALSE, selection |-> target]
    BY <2>7 DEF BranchStates
  <2>9. BranchMoved(agent, SelectNode, n, BranchApply(s, u))
    BY <2>3, <2>6, <2>8, SelectMoved
  <2> QED BY <2>4, <2>5, <2>9, Zenon DEF BranchPlay
<1> QED BY <1>1, <1>2, <1>3, <1>4, <1>5 DEF SelectRun

(* The node of an active stage.                                                      *)
LEMMA BranchActiveNode ==
  ASSUME NEW agent, NEW s, NEW node, NEW value, NEW i, i = node[2], node # SelectNode,
         NEW tools, tools = (node = ToolsOf(i)), BranchActive(agent, s, i, tools),
         NEW saved, saved = BranchStage(s, i), NEW limit, limit = agent.limits[i],
         NEW approval, approval = agent.approval[i],
         NEW o \in BranchNode(agent, s, node, value)
  PROVE  \E p \in StageNode(saved, i, tools, approval, limit, value) : o = StageUpdate(i, p)
BY DEF BranchNode, StageNode

LEMMA BranchStagePlays ==
  ASSUME NEW agent, NEW limit \in [{1, 2, 3} -> Nat \ {0}],
         \A j \in {1, 2, 3} : limit[j] = agent.limits[j],
         NEW s \in BranchStates, NEW n \in Nat, NEW i \in {1, 2, 3}, NEW tools \in BOOLEAN,
         NEW node, node = IF tools THEN ToolsOf(i) ELSE ModelOf(i),
         BranchFits(agent, s, node), BranchBudget(agent, s, node, n),
         SoundStage(s.first), SoundStage(s.downstream), NEW value,
         NEW o \in BranchNode(agent, s, node, value)
  PROVE  BranchPlay(agent, s, node, n, o)
<1>1. BranchActive(agent, s, i, tools)
  BY BranchActs, Zenon
<1>2. PICK saved, bound : saved = BranchStage(s, i) /\ bound = agent.limits[i]
  OBVIOUS
<1>3. /\ s.first \in Stage /\ s.downstream \in Stage \cup {NoStage}
      /\ bound = limit[i] /\ bound \in Nat
  BY <1>2 DEF BranchStates
<1>4. /\ ~ s.stopped /\ BranchGuard(agent, s) /\ (i = 1 => s.selection = NoSelection)
      /\ i # 1 => TargetIndex(s.selection) = i /\ s.downstream # NoStage
  BY <1>1, Zenon DEF BranchActive
<1>5. /\ (i = 1 => saved = s.first)
      /\ i # 1 => saved = s.downstream
  BY <1>2, <1>4, BranchStageAt
<1>6. saved \in Stage /\ SoundStage(saved)
  BY <1>3, <1>4, <1>5
<1>7. StageTurn(saved, bound, tools)
  BY <1>1, <1>2, Zenon DEF BranchActive
<1>8. StageWithinLimit(saved, bound)
  <2>1. i \in 1..3 /\ saved # NoStage
    BY <1>6, NoStageIsNone
  <2> QED BY <1>2, <1>4, <2>1, Zenon DEF BranchGuard
<1>9. PICK approval : approval = agent.approval[i]
  OBVIOUS
<1>10. PICK p \in StageNode(saved, i, tools, approval, bound, value) : o = StageUpdate(i, p)
  <2>1. node # SelectNode /\ i = node[2] /\ tools = (node = ToolsOf(i))
    BY NodesDistinct DEF ModelOf, ToolsOf
  <2> QED BY <1>1, <1>2, <1>9, <2>1, BranchActiveNode
<1>11. StageMoves(i, saved, bound, tools, o)
  BY <1>3, <1>6, <1>7, <1>8, <1>10, StagePlays
<1>12. ASSUME o.tag = "update"
       PROVE  /\ BranchCanApply(s, o.update)
              /\ BranchMoved(agent, node, n, BranchApply(s, o.update))
  <2>1. PICK v, after :
          /\ o.update = [kind |-> "stage", index |-> i, update |-> v]
          /\ CanApply(saved, v) /\ after = Apply(saved, v)
          /\ StageMoved(saved, bound, tools, after)
    BY <1>11, <1>12, Zenon DEF StageMoves
  <2>2. PICK u : u = o.update
    OBVIOUS
  <2>3. u.kind = "stage" /\ u.kind # "select" /\ u.index = i /\ u.update = v
    BY <2>1, <2>2
  <2>4. BranchCanApply(s, u)
    BY <1>2, <1>4, <2>1, <2>3 DEF BranchCanApply
  <2>5. PICK t : t = BranchApply(s, u)
    OBVIOUS
  <2>6. CASE i = 1
    <3>1. PICK stopped \in BOOLEAN : stopped = StageStops(after, i # 1)
      BY DEF StageStops
    <3>2. /\ after.stop = "MaxRounds" => stopped = TRUE
          /\ after.stop # "MaxRounds" => stopped = FALSE
      BY <2>6, <3>1 DEF StageStops
    <3>3. t = [s EXCEPT !.first = after, !.stopped = stopped]
      BY <1>2, <2>1, <2>3, <2>5, <2>6, <3>1, Zenon DEF BranchApply
    <3>4. t = [first |-> after, downstream |-> s.downstream, stopped |-> stopped,
               selection |-> s.selection]
      BY <3>3 DEF BranchStates
    <3>5. /\ StageMoved(s.first, limit[1], tools, after)
          /\ node = IF tools THEN ToolsOf(1) ELSE ModelOf(1)
      BY <1>3, <1>5, <2>1, <2>6
    <3>6. BranchMoved(agent, node, n, t)
      BY <3>2, <3>4, <3>5, BranchFirstMoved
    <3> QED BY <2>2, <2>4, <2>5, <3>6
  <2>7. CASE i # 1
    <3>1. PICK stopped \in BOOLEAN : stopped = StageStops(after, i # 1)
      BY DEF StageStops
    <3>2. StopsLast(after, stopped)
      BY <2>7, <3>1 DEF StageStops, StopsLast
    <3>3. t = [s EXCEPT !.downstream = after, !.stopped = stopped]
      BY <1>2, <2>1, <2>3, <2>5, <2>7, <3>1, Zenon DEF BranchApply
    <3>4. t = [first |-> s.first, downstream |-> after, stopped |-> stopped,
               selection |-> s.selection]
      BY <3>3 DEF BranchStates
    <3>5. PICK j \in {2, 3} : j = i
      BY <2>7
    <3>6. /\ StageMoved(s.downstream, limit[j], tools, after) /\ s.downstream \in Stage
          /\ node = IF tools THEN ToolsOf(j) ELSE ModelOf(j)
      BY <1>3, <1>4, <1>5, <2>1, <2>7, <3>5
    <3>7. BranchMoved(agent, node, n, t)
      BY <3>2, <3>4, <3>6, BranchDownMoved
    <3> QED BY <2>2, <2>4, <2>5, <3>7
  <2> QED BY <2>6, <2>7
<1> QED BY <1>11, <1>12 DEF BranchPlay, StageMoves

(* The limits of a branch as a function.                                            *)
LEMMA BranchLimits ==
  ASSUME NEW agent, Configured(agent), agent.kind \notin {"agent", "sequence"}
  PROVE  \E limit \in [{1, 2, 3} -> Nat \ {0}] :
           \A j \in {1, 2, 3} : limit[j] = agent.limits[j]
<1>1. \A j \in {1, 2, 3} : agent.limits[j] \in Nat \ {0}
  BY ConfiguredLimits
<1>2. [j \in {1, 2, 3} |-> agent.limits[j]] \in [{1, 2, 3} -> Nat \ {0}]
  BY <1>1
<1> QED BY <1>2

LEMMA BranchPlays ==
  ASSUME NEW agent, agent.kind \notin {"agent", "sequence"}, Configured(agent),
         NEW s \in StatesOf(agent), NEW node \in NodesOf(agent) \ {END}, NEW value,
         NEW n \in Nat, Fits(agent, s, node), Budget(agent, s, node, n), Sound(agent, s),
         NEW o \in NodeOutcomes(agent, s, node, value)
  PROVE  NodePlays(agent, s, node, n, o)
<1>1. PICK limit \in [{1, 2, 3} -> Nat \ {0}] : \A j \in {1, 2, 3} : limit[j] = agent.limits[j]
  BY BranchLimits
<1>2. /\ s \in BranchStates /\ BranchFits(agent, s, node)
      /\ BranchBudget(agent, s, node, n) /\ SoundStage(s.first) /\ SoundStage(s.downstream)
      /\ o \in BranchNode(agent, s, node, value)
      /\ node \in {ModelOf(1), ToolsOf(1), ModelOf(2), ToolsOf(2), ModelOf(3), ToolsOf(3),
                   SelectNode}
  BY DEF StatesOf, NodesOf, Fits, Budget, Sound, NodeOutcomes
<1>3. BranchPlay(agent, s, node, n, o)
  <2>1. CASE node = SelectNode
    <3>1. o \in SelectRun(agent, s)
      BY <1>2, <2>1 DEF BranchNode
    <3> QED BY <1>1, <1>2, <2>1, <3>1, SelectPlays
  <2>2. CASE node # SelectNode
    <3>1. PICK i \in {1, 2, 3}, tools \in BOOLEAN :
            node = IF tools THEN ToolsOf(i) ELSE ModelOf(i)
      <4>1. \/ node = IF TRUE THEN ToolsOf(1) ELSE ModelOf(1)
            \/ node = IF FALSE THEN ToolsOf(1) ELSE ModelOf(1)
            \/ node = IF TRUE THEN ToolsOf(2) ELSE ModelOf(2)
            \/ node = IF FALSE THEN ToolsOf(2) ELSE ModelOf(2)
            \/ node = IF TRUE THEN ToolsOf(3) ELSE ModelOf(3)
            \/ node = IF FALSE THEN ToolsOf(3) ELSE ModelOf(3)
        BY <1>2, <2>2
      <4> QED BY <4>1, Zenon
    <3> QED BY <1>1, <1>2, <3>1, BranchStagePlays
  <2> QED BY <2>1, <2>2
<1>4. /\ \A u : /\ StateCanApply(agent, s, u) = BranchCanApply(s, u)
                /\ StateApply(agent, s, u) = BranchApply(s, u)
      /\ \A t, next : /\ Fits(agent, t, next) = BranchFits(agent, t, next)
                      /\ Budget(agent, t, next, n - 1) = BranchBudget(agent, t, next, n - 1)
                      /\ Sound(agent, t) = (SoundStage(t.first) /\ SoundStage(t.downstream))
                      /\ RouteOf(agent, node, t) = BranchRoute(node, t)
  BY DEF StateCanApply, StateApply, Fits, Budget, Sound, RouteOf
<1> QED BY <1>3, <1>4 DEF NodePlays, BranchPlay, BranchMoved

(* No node of an agent whose state fits it ends in an internal error, and the next state *)
(* fits the node the router selects.                                             *)
LEMMA EveryNodePlays ==
  ASSUME NEW agent, Configured(agent), NEW s \in StatesOf(agent),
         NEW node \in NodesOf(agent) \ {END}, NEW value, NEW n \in Nat,
         Fits(agent, s, node), Budget(agent, s, node, n), Sound(agent, s),
         NEW o \in NodeOutcomes(agent, s, node, value)
  PROVE  NodePlays(agent, s, node, n, o)
BY AgentPlays, SequencePlays, BranchPlays

--------------------------------------------------------------------------------
(* States and nodes at the start of a call and at its end.                           *)

LEMMA AgentStepsSuffice ==
  ASSUME NEW agent, NEW limit \in Nat \ {0}, limit = agent.limits[1], NEW s \in Stage,
         NEW node, AgentFits(agent, s, node), NEW n, n = AgentSteps(agent)
  PROVE  n \in Nat /\ AgentBudget(agent, s, node, n)
<1>1. n = 2 * limit /\ s.rounds \in Nat
  BY DEF AgentSteps, Stage
<1>2. node = ToolsOf(1) => s.rounds # 0
  BY DEF AgentFits
<1>3. n \in Nat /\ n >= 2 /\ n >= 2 * (limit - s.rounds)
  BY <1>1
<1>4. node = ToolsOf(1) => n >= 1 /\ n >= 2 * (limit - s.rounds) + 1
  BY <1>1, <1>2
<1> QED BY <1>3, <1>4 DEF AgentBudget

LEMMA SequenceStepsSuffice ==
  ASSUME NEW agent, NEW first \in Nat \ {0}, NEW second \in Nat \ {0},
         first = agent.limits[1], second = agent.limits[2], NEW s \in SequenceStates,
         NEW node, SequenceFits(agent, s, node), NEW n, n = SequenceSteps(agent)
  PROVE  n \in Nat /\ SequenceBudget(agent, s, node, n)
<1>1. n = 2 * (first + second) + 1 /\ n \in Nat
  BY DEF SequenceSteps
<1>2. s.first \in Stage /\ s.second \in Stage \cup {NoStage} /\ s.first.rounds \in Nat
  BY DEF SequenceStates, Stage
<1>3. node = ToolsOf(1) => s.first.rounds # 0
  <2>1. ASSUME node = ToolsOf(1) PROVE StageTurn(s.first, first, TRUE)
    <3>1. SequenceActive(agent, s, 1, TRUE)
      <4>1. 1 \in 1..2
        OBVIOUS
      <4> QED BY <2>1, <4>1, Zenon DEF SequenceFits
    <3>2. SequenceStage(s, 1) = s.first
      BY DEF SequenceStage
    <3> QED BY <3>1, <3>2, Zenon DEF SequenceActive
  <2> QED BY <2>1 DEF StageTurn
<1>4. ASSUME node \in {ModelOf(2), ToolsOf(2)} PROVE s.second.rounds \in Nat
  <2>1. PICK tools \in BOOLEAN : node = IF tools THEN ToolsOf(2) ELSE ModelOf(2)
    <3>1. \/ node = IF TRUE THEN ToolsOf(2) ELSE ModelOf(2)
          \/ node = IF FALSE THEN ToolsOf(2) ELSE ModelOf(2)
      BY <1>4
    <3> QED BY <3>1, Zenon
  <2>2. SequenceActive(agent, s, 2, tools)
    <3>1. 2 \in {1, 2}
      OBVIOUS
    <3> QED BY <2>1, <3>1, SequenceActs, Zenon
  <2>3. s.second \in Stage
    BY <1>2, <2>2 DEF SequenceActive
  <2> QED BY <2>3 DEF Stage
<1>5. n >= 2 * (first - s.first.rounds) + 2 * second + 1
  BY <1>1, <1>2
<1>6. node = ToolsOf(1) => n >= 2 * (first - s.first.rounds) + 2 * second + 2
  BY <1>1, <1>2, <1>3
<1>7. n >= 2 * second + 1
  BY <1>1
<1>8. node \in {ModelOf(2), ToolsOf(2)} =>
        n >= 2 * (second - s.second.rounds) /\ n >= 2 * (second - s.second.rounds) + 1
  BY <1>1, <1>4
<1> QED BY <1>1, <1>5, <1>6, <1>7, <1>8 DEF SequenceBudget

LEMMA BranchStepsSuffice ==
  ASSUME NEW agent, NEW limit \in [{1, 2, 3} -> Nat \ {0}],
         \A j \in {1, 2, 3} : limit[j] = agent.limits[j], NEW s \in BranchStates,
         NEW node, BranchFits(agent, s, node), NEW n, n = BranchSteps(agent)
  PROVE  n \in Nat /\ BranchBudget(agent, s, node, n)
<1>1. /\ limit[1] = agent.limits[1] /\ limit[2] = agent.limits[2] /\ limit[3] = agent.limits[3]
      /\ limit[1] \in Nat \ {0} /\ limit[2] \in Nat \ {0} /\ limit[3] \in Nat \ {0}
  OBVIOUS
<1>2. n \in Nat /\ \A i \in {2, 3} : n >= 2 * (limit[1] + limit[i]) + 1
  BY <1>1 DEF BranchSteps
<1>3. s.first \in Stage /\ s.downstream \in Stage \cup {NoStage} /\ s.first.rounds \in Nat
  BY DEF BranchStates, Stage
<1>4. node = ToolsOf(1) => s.first.rounds # 0
  <2>1. ASSUME node = ToolsOf(1) PROVE StageTurn(s.first, agent.limits[1], TRUE)
    <3>1. BranchActive(agent, s, 1, TRUE)
      <4>1. 1 \in 1..3
        OBVIOUS
      <4> QED BY <2>1, <4>1, Zenon DEF BranchFits
    <3> QED BY <3>1, BranchStageAt, Zenon DEF BranchActive
  <2> QED BY <2>1 DEF StageTurn
<1>5. ASSUME NEW i \in {2, 3}, node \in {ModelOf(i), ToolsOf(i)}
      PROVE  s.downstream.rounds \in Nat
  <2>1. PICK tools \in BOOLEAN : node = IF tools THEN ToolsOf(i) ELSE ModelOf(i)
    <3>1. \/ node = IF TRUE THEN ToolsOf(i) ELSE ModelOf(i)
          \/ node = IF FALSE THEN ToolsOf(i) ELSE ModelOf(i)
      BY <1>5
    <3> QED BY <3>1, Zenon
  <2>2. BranchActive(agent, s, i, tools)
    <3>1. i \in {1, 2, 3}
      OBVIOUS
    <3> QED BY <2>1, <3>1, BranchActs, Zenon
  <2>3. i # 1
    OBVIOUS
  <2>4. s.downstream # NoStage
    BY <2>2, <2>3, Zenon DEF BranchActive
  <2> QED BY <1>3, <2>4 DEF Stage
<1>6. ASSUME NEW i \in {2, 3}
      PROVE  /\ n >= 2 * (limit[1] - s.first.rounds) + 2 * limit[i] + 1
             /\ node = ToolsOf(1) => n >= 2 * (limit[1] - s.first.rounds) + 2 * limit[i] + 2
             /\ n >= 2 * limit[i] + 1
             /\ node \in {ModelOf(i), ToolsOf(i)} =>
                  /\ n >= 2 * (limit[i] - s.downstream.rounds)
                  /\ n >= 2 * (limit[i] - s.downstream.rounds) + 1
  <2>1. n >= 2 * (limit[1] + limit[i]) + 1 /\ limit[i] \in Nat \ {0}
    BY <1>1, <1>2
  <2>2. n >= 2 * (limit[1] - s.first.rounds) + 2 * limit[i] + 1 /\ n >= 2 * limit[i] + 1
    BY <1>1, <1>2, <1>3, <2>1
  <2>3. node = ToolsOf(1) => n >= 2 * (limit[1] - s.first.rounds) + 2 * limit[i] + 2
    BY <1>1, <1>2, <1>3, <1>4, <2>1
  <2>4. ASSUME node \in {ModelOf(i), ToolsOf(i)}
        PROVE  /\ n >= 2 * (limit[i] - s.downstream.rounds)
               /\ n >= 2 * (limit[i] - s.downstream.rounds) + 1
    BY <1>1, <1>2, <1>5, <2>1, <2>4
  <2> QED BY <2>2, <2>3, <2>4
<1>7. 2..3 = {2, 3} /\ \A i \in {2, 3} : limit[i] = agent.limits[i]
  BY <1>1
<1> QED BY <1>1, <1>2, <1>6, <1>7 DEF BranchBudget

(* The step budget of a call suffices from wherever it starts.                         *)
LEMMA StepsSuffice ==
  ASSUME NEW agent, Configured(agent), NEW s \in StatesOf(agent), NEW node,
         Fits(agent, s, node), NEW n, n = Steps(agent)
  PROVE  n \in Nat /\ Budget(agent, s, node, n)
<1>1. CASE agent.kind = "agent"
  <2>1. PICK limit \in Nat \ {0} : limit = agent.limits[1]
    BY ConfiguredLimits
  <2>2. s \in Stage /\ AgentFits(agent, s, node) /\ n = AgentSteps(agent)
    BY <1>1 DEF StatesOf, Fits, Steps
  <2> QED BY <1>1, <2>1, <2>2, AgentStepsSuffice DEF Budget
<1>2. CASE agent.kind = "sequence"
  <2>1. PICK first \in Nat \ {0}, second \in Nat \ {0} :
          first = agent.limits[1] /\ second = agent.limits[2]
    BY <1>2, ConfiguredLimits
  <2>2. s \in SequenceStates /\ SequenceFits(agent, s, node) /\ n = SequenceSteps(agent)
    BY <1>2 DEF StatesOf, Fits, Steps
  <2> QED BY <1>2, <2>1, <2>2, SequenceStepsSuffice DEF Budget
<1>3. CASE agent.kind \notin {"agent", "sequence"}
  <2>1. PICK limit \in [{1, 2, 3} -> Nat \ {0}] :
          \A j \in {1, 2, 3} : limit[j] = agent.limits[j]
    BY <1>3, BranchLimits
  <2>2. s \in BranchStates /\ BranchFits(agent, s, node) /\ n = BranchSteps(agent)
    BY <1>3 DEF StatesOf, Fits, Steps
  <2> QED BY <1>3, <2>1, <2>2, BranchStepsSuffice DEF Budget
<1> QED BY <1>1, <1>2, <1>3

(* While there is a node to run there is a step left.                                  *)
LEMMA StepLeft ==
  ASSUME NEW agent, Configured(agent), NEW s \in StatesOf(agent),
         NEW node \in NodesOf(agent) \ {END}, NEW n \in Nat, Fits(agent, s, node),
         Budget(agent, s, node, n)
  PROVE  n # 0
<1>1. CASE agent.kind = "agent"
  <2>1. node \in {ModelOf(1), ToolsOf(1)} /\ AgentBudget(agent, s, node, n)
    BY <1>1 DEF NodesOf, Budget
  <2> QED BY <2>1 DEF AgentBudget
<1>2. CASE agent.kind = "sequence"
  <2>1. PICK first \in Nat \ {0}, second \in Nat \ {0} :
          first = agent.limits[1] /\ second = agent.limits[2]
    BY <1>2, ConfiguredLimits
  <2>2. /\ s \in SequenceStates /\ SequenceFits(agent, s, node)
        /\ SequenceBudget(agent, s, node, n)
        /\ node \in {ModelOf(1), ToolsOf(1), ModelOf(2), ToolsOf(2), HandoffNode}
    BY <1>2 DEF StatesOf, NodesOf, Fits, Budget
  <2>3. /\ s.first \in Stage /\ s.first.rounds \in Nat /\ SequenceGuard(agent, s)
        /\ s.second \in Stage \cup {NoStage}
    BY <2>2 DEF SequenceStates, SequenceFits, Stage
  <2>4. /\ s.first.rounds <= first
        /\ s.second # NoStage => s.second.rounds <= second /\ s.second.rounds \in Nat
    <3>1. 1 \in 1..2 /\ 2 \in 1..2
      OBVIOUS
    <3>2. SequenceStage(s, 1) = s.first /\ SequenceStage(s, 2) = s.second /\ s.first # NoStage
      BY <2>3, NoStageIsNone DEF SequenceStage
    <3>3. /\ StageWithinLimit(s.first, agent.limits[1])
          /\ s.second # NoStage => StageWithinLimit(s.second, agent.limits[2])
      BY <2>3, <3>1, <3>2, Zenon DEF SequenceGuard
    <3> QED BY <2>1, <2>3, <3>3 DEF StageWithinLimit, Stage
  <2>5. CASE node = HandoffNode
    BY <2>1, <2>2, <2>5 DEF SequenceBudget
  <2>6. CASE node \in {ModelOf(1), ToolsOf(1)}
    BY <2>1, <2>2, <2>3, <2>4, <2>6 DEF SequenceBudget
  <2>7. CASE node = ModelOf(2)
    <3>1. SequenceActive(agent, s, 2, FALSE)
      <4>1. 2 \in 1..2
        OBVIOUS
      <4> QED BY <2>2, <2>7, <4>1, Zenon DEF SequenceFits
    <3>2. s.second # NoStage /\ SequenceStage(s, 2) = s.second
      BY <3>1 DEF SequenceActive, SequenceStage
    <3>3. StageTurn(s.second, agent.limits[2], FALSE)
      BY <3>1, <3>2, Zenon DEF SequenceActive
    <3>4. s.second.rounds < second
      BY <2>1, <3>3 DEF StageTurn
    <3>5. n >= 2 * (second - s.second.rounds)
      BY <2>1, <2>2, <2>7 DEF SequenceBudget
    <3> QED BY <2>4, <3>2, <3>4, <3>5
  <2>8. CASE node = ToolsOf(2)
    <3>1. SequenceActive(agent, s, 2, TRUE)
      <4>1. 2 \in 1..2
        OBVIOUS
      <4> QED BY <2>2, <2>8, <4>1, Zenon DEF SequenceFits
    <3>2. s.second # NoStage
      BY <3>1 DEF SequenceActive
    <3>3. n >= 2 * (second - s.second.rounds) + 1
      BY <2>1, <2>2, <2>8 DEF SequenceBudget
    <3> QED BY <2>4, <3>2, <3>3
  <2> QED BY <2>2, <2>5, <2>6, <2>7, <2>8
<1>3. CASE agent.kind \notin {"agent", "sequence"}
  <2>1. PICK limit \in [{1, 2, 3} -> Nat \ {0}] :
          \A j \in {1, 2, 3} : limit[j] = agent.limits[j]
    BY <1>3, BranchLimits
  <2>2. /\ s \in BranchStates /\ BranchFits(agent, s, node)
        /\ BranchBudget(agent, s, node, n)
        /\ node \in {ModelOf(1), ToolsOf(1), ModelOf(2), ToolsOf(2), ModelOf(3), ToolsOf(3),
                     SelectNode}
    BY <1>3 DEF StatesOf, NodesOf, Fits, Budget
  <2>3. /\ s.first \in Stage /\ s.first.rounds \in Nat /\ BranchGuard(agent, s)
        /\ s.downstream \in Stage \cup {NoStage}
    BY <2>2 DEF BranchStates, BranchFits, Stage
  <2>4. /\ limit[1] \in Nat \ {0} /\ limit[1] = agent.limits[1]
        /\ \A i \in {2, 3} : limit[i] \in Nat \ {0} /\ limit[i] = agent.limits[i]
        /\ 2 \in 2..3 /\ 2..3 = {2, 3}
    BY <2>1
  <2>5. s.first.rounds <= limit[1]
    BY <2>2, <2>3, <2>4, BranchGuarded DEF StageWithinLimit
  <2>6. CASE node = SelectNode
    <3>1. n >= 2 * limit[2] + 1
      BY <2>2, <2>4, <2>6 DEF BranchBudget
    <3> QED BY <2>4, <3>1
  <2>7. CASE node \in {ModelOf(1), ToolsOf(1)}
    <3>1. n >= 2 * (limit[1] - s.first.rounds) + 2 * limit[2] + 1
      BY <2>2, <2>3, <2>4, <2>7 DEF BranchBudget
    <3> QED BY <2>3, <2>4, <2>5, <3>1
  <2>8. ASSUME NEW i \in {2, 3}, node \in {ModelOf(i), ToolsOf(i)} PROVE n # 0
    <3>1. i \in {1, 2, 3} /\ i # 1
      OBVIOUS
    <3>2. PICK tools \in BOOLEAN : node = IF tools THEN ToolsOf(i) ELSE ModelOf(i)
      <4>1. \/ node = IF TRUE THEN ToolsOf(i) ELSE ModelOf(i)
            \/ node = IF FALSE THEN ToolsOf(i) ELSE ModelOf(i)
        BY <2>8
      <4> QED BY <4>1, Zenon
    <3>3. BranchActive(agent, s, i, tools)
      BY <2>2, <3>1, <3>2, BranchActs, Zenon
    <3>4. s.downstream # NoStage /\ TargetIndex(s.selection) = i
      BY <3>1, <3>3, Zenon DEF BranchActive
    <3>5. s.downstream.rounds \in Nat /\ s.downstream.rounds <= limit[i]
      BY <2>2, <2>3, <2>4, <3>4, BranchGuarded DEF StageWithinLimit, Stage
    <3>6. CASE tools
      <4>1. n >= 2 * (limit[i] - s.downstream.rounds) + 1
        BY <2>2, <2>4, <3>2, <3>6 DEF BranchBudget
      <4> QED BY <2>4, <3>5, <4>1
    <3>7. CASE ~ tools
      <4>1. n >= 2 * (limit[i] - s.downstream.rounds)
        BY <2>2, <2>4, <3>2, <3>7 DEF BranchBudget
      <4>2. StageTurn(s.downstream, agent.limits[i], tools)
        BY <2>2, <3>1, <3>3, <3>4, BranchStageAt DEF BranchActive
      <4>3. s.downstream.rounds < limit[i]
        BY <2>4, <3>7, <4>2 DEF StageTurn
      <4> QED BY <2>4, <3>5, <4>1, <4>3
    <3> QED BY <3>6, <3>7
  <2> QED BY <2>2, <2>6, <2>7, <2>8
<1> QED BY <1>1, <1>2, <1>3

(* The state a new thread starts from.                                                *)
LEMMA NewFits ==
  ASSUME NEW agent, Configured(agent), NEW m \in Seq(Message), Staged(agent) => Admit(m),
         NEW s, s = NewState(agent, m)
  PROVE  Fits(agent, s, Entry) /\ Sound(agent, s)
<1>1. PICK limit \in Nat \ {0} : limit = agent.limits[1]
  BY ConfiguredLimits
<1>2. PICK new : new = NewAgentState(m)
  OBVIOUS
<1>3. new.rounds = 0 /\ new.usage = 0 /\ new.stop = "None" /\ new \in Stage
  BY <1>2 DEF NewAgentState, NoStop, Stage
<1>4. CASE agent.kind = "agent"
  <2>1. s = new
    BY <1>2, <1>4 DEF NewState
  <2>2. AgentFits(agent, s, Entry)
    BY <1>1, <1>3, <2>1, NodesDistinct DEF AgentFits, Entry, UsageIsAligned, NoStop
  <2> QED BY <1>4, <2>2 DEF Fits, Sound
<1>5. CASE agent.kind # "agent"
  <2>1. /\ new # NoStage /\ StageWithinLimit(new, limit) /\ StageTurn(new, limit, FALSE)
        /\ SoundStage(new)
    BY <1>2, <1>5, NewStageFits DEF Staged
  <2>2. CASE agent.kind = "sequence"
    <3>1. s = [first |-> new, second |-> NoStage, stopped |-> FALSE]
      BY <1>2, <2>2 DEF NewState, NewSequence
    <3>2. s.first = new /\ s.second = NoStage /\ ~ s.stopped
      BY <3>1
    <3>3. SequenceStage(s, 1) = new /\ SequenceStage(s, 2) = NoStage
      BY <3>2 DEF SequenceStage
    <3>4. SequenceGuard(agent, s)
      <4>1. \A i \in 1..2 : i = 1 \/ i = 2
        OBVIOUS
      <4> QED BY <1>1, <2>1, <3>3, <4>1 DEF SequenceGuard
    <3>5. SequenceActive(agent, s, 1, FALSE)
      <4>1. 1 # 2
        OBVIOUS
      <4> QED BY <1>1, <2>1, <3>2, <3>3, <3>4, <4>1, Zenon DEF SequenceActive
    <3>6. SequenceFits(agent, s, Entry)
      BY <3>4, <3>5, NodesDistinct DEF SequenceFits, Entry
    <3>7. SoundStage(s.first) /\ SoundStage(s.second)
      BY <2>1, <3>2 DEF SoundStage
    <3> QED BY <2>2, <3>6, <3>7 DEF Fits, Sound
  <2>3. CASE agent.kind # "sequence"
    <3>1. s = [first |-> new, downstream |-> NoStage, stopped |-> FALSE, selection |-> "none"]
      BY <1>2, <1>5, <2>3 DEF NewState, NewBranch, NoSelection
    <3>2. s.first = new /\ s.downstream = NoStage /\ ~ s.stopped /\ s.selection = "none"
      BY <3>1
    <3>3. s \in BranchStates
      <4>1. "none" \in {"none", "B", "C", "Complete"} /\ NoStage \in Stage \cup {NoStage}
            /\ FALSE \in BOOLEAN
        OBVIOUS
      <4> QED BY <1>3, <3>1, <4>1, BranchTyped, Zenon
    <3>4. BranchGuard(agent, s)
      BY <1>1, <2>1, <3>2, <3>3, BranchGuarded, Zenon
    <3>5. BranchStage(s, 1) = new
      BY <3>2, <3>3, BranchStageAt
    <3>6. BranchActive(agent, s, 1, FALSE)
      BY <1>1, <2>1, <3>2, <3>4, <3>5, Zenon DEF BranchActive, NoSelection
    <3>7. (s.downstream # NoStage) = (s.selection \in {"B", "C"})
      BY <3>2
    <3>8. BranchFits(agent, s, Entry)
      BY <3>4, <3>6, <3>7, NodesDistinct DEF BranchFits, Entry
    <3>9. SoundStage(s.first) /\ SoundStage(s.downstream)
      BY <2>1, <3>2 DEF SoundStage
    <3> QED BY <1>5, <2>3, <3>8, <3>9 DEF Fits, Sound
  <2> QED BY <2>2, <2>3
<1> QED BY <1>4, <1>5

(* What one agent of a fleet leaves fits every other of the same graph version: a staged  *)
(* plan's version names the limits, a tool-calling agent's does not.                   *)
LEMMA VersionDecidesLimits ==
  ASSUME NEW a, NEW b, Version(a) = Version(b), a.kind # "agent"
  PROVE  a.limits = b.limits
<1>1. /\ (a.kind = "agent") = (b.kind = "agent")
      /\ (a.kind = "sequence") = (b.kind = "sequence")
  BY VersionDecidesKind
<1>2. CASE a.kind = "sequence"
  BY <1>1, <1>2 DEF Version, SequenceVersion
<1>3. CASE a.kind # "sequence"
  BY <1>1, <1>3 DEF Version, BranchVersion
<1> QED BY <1>2, <1>3

LEMMA SequenceFitsOther ==
  ASSUME NEW a, NEW b, a.limits = b.limits, NEW s, NEW node, SequenceFits(a, s, node)
  PROVE  SequenceFits(b, s, node)
<1>1. SequenceGuard(a, s) => SequenceGuard(b, s)
  BY Zenon DEF SequenceGuard
<1>2. ASSUME NEW i, NEW tools, SequenceActive(a, s, i, tools)
      PROVE  SequenceActive(b, s, i, tools)
  BY <1>1, <1>2, Zenon DEF SequenceActive
<1>3. SequenceOutcome(a, s) => SequenceOutcome(b, s)
  BY <1>1, Zenon DEF SequenceOutcome
<1> QED BY <1>1, <1>2, <1>3, Zenon DEF SequenceFits

LEMMA BranchFitsOther ==
  ASSUME NEW a, NEW b, a.limits = b.limits, NEW s, NEW node, BranchFits(a, s, node)
  PROVE  BranchFits(b, s, node)
<1>1. BranchGuard(a, s) => BranchGuard(b, s)
  BY Zenon DEF BranchGuard
<1>2. ASSUME NEW i, NEW tools, BranchActive(a, s, i, tools)
      PROVE  BranchActive(b, s, i, tools)
  BY <1>1, <1>2, Zenon DEF BranchActive
<1>3. BranchOutcome(a, s) => BranchOutcome(b, s)
  BY <1>1, Zenon DEF BranchOutcome
<1> QED BY <1>1, <1>2, <1>3, Zenon DEF BranchFits

LEMMA FitsOther ==
  ASSUME NEW a \in fleet, NEW b \in fleet, Version(a) = Version(b), NEW s, NEW node,
         Fits(a, s, node)
  PROVE  Fits(b, s, node)
<1>1. /\ (a.kind = "agent") = (b.kind = "agent")
      /\ (a.kind = "sequence") = (b.kind = "sequence")
  BY VersionDecidesKind
<1>2. CASE a.kind = "agent"
  <2>1. AgentFits(a, s, node)
    BY <1>2 DEF Fits
  <2>2. ~ MixedLimits => a.limits = b.limits
    BY DEF MixedLimits
  <2>3. AgentFits(b, s, node)
    BY <2>1, <2>2 DEF AgentFits
  <2> QED BY <1>1, <1>2, <2>3 DEF Fits
<1>3. CASE a.kind = "sequence"
  <2>1. SequenceFits(a, s, node) /\ a.limits = b.limits
    BY <1>3, VersionDecidesLimits DEF Fits
  <2>2. SequenceFits(b, s, node)
    BY <2>1, SequenceFitsOther
  <2> QED BY <1>1, <1>3, <2>2 DEF Fits
<1>4. CASE a.kind \notin {"agent", "sequence"}
  <2>1. BranchFits(a, s, node) /\ a.limits = b.limits
    BY <1>4, VersionDecidesLimits DEF Fits
  <2>2. BranchFits(b, s, node)
    BY <2>1, BranchFitsOther
  <2> QED BY <1>1, <1>4, <2>2 DEF Fits
<1> QED BY <1>2, <1>3, <1>4

LEMMA RestorableOther ==
  ASSUME NEW a, NEW b, Version(a) = Version(b), Configured(a), Configured(b), NEW s
  PROVE  /\ Restorable(a, s) => Restorable(b, s)
         /\ StagesRepeatCall(a, s) => StagesRepeatCall(b, s)
         /\ Staged(a) = Staged(b)
<1>1. /\ (a.kind = "agent") = (b.kind = "agent")
      /\ (a.kind = "sequence") = (b.kind = "sequence")
  BY VersionDecidesKind
<1>2. Restorable(a, s) => Restorable(b, s)
  BY <1>1 DEF Restorable
<1>3. \A i : StageOf(a, s, i) = StageOf(b, s, i)
  BY <1>1 DEF StageOf
<1>4. DOMAIN a.limits = DOMAIN b.limits
  <2>1. CASE a.kind = "agent"
    <3>1. Len(a.limits) = 1 /\ Len(b.limits) = 1
      BY <1>1, <2>1, Zenon DEF Configured
    <3> QED BY <3>1 DEF Configured
  <2>2. CASE a.kind # "agent"
    BY <2>2, VersionDecidesLimits
  <2> QED BY <2>1, <2>2
<1>5. StagesRepeatCall(a, s) => StagesRepeatCall(b, s)
  BY <1>3, <1>4, Zenon DEF StagesRepeatCall
<1>6. Staged(a) = Staged(b)
  BY <1>1 DEF Staged
<1> QED BY <1>2, <1>5, <1>6

LEMMA RestorableSound ==
  ASSUME NEW agent, NEW s, Restorable(agent, s)
  PROVE  Sound(agent, s)
<1>1. CASE agent.kind = "agent"
  BY <1>1 DEF Sound
<1>2. CASE agent.kind = "sequence"
  BY <1>2 DEF Sound, Restorable, SequenceRestorable, SoundStage
<1>3. CASE agent.kind \notin {"agent", "sequence"}
  BY <1>3 DEF Sound, Restorable, BranchRestorable, SoundStage
<1> QED BY <1>1, <1>2, <1>3

LEMMA OutcomeFits ==
  ASSUME NEW agent, NEW s, Fits(agent, s, END)
  PROVE  OutcomeExists(agent, s)
<1>1. CASE agent.kind = "agent"
  BY <1>1 DEF Fits, AgentFits, OutcomeExists
<1>2. CASE agent.kind = "sequence"
  BY <1>2 DEF Fits, SequenceFits, OutcomeExists
<1>3. CASE agent.kind \notin {"agent", "sequence"}
  BY <1>3 DEF Fits, BranchFits, OutcomeExists
<1> QED BY <1>1, <1>2, <1>3

(* A state that fits its node is in a phase restore accepts.                           *)
LEMMA SequenceFitsRestorable ==
  ASSUME NEW agent, NEW s \in SequenceStates,
         NEW node \in {ModelOf(1), ToolsOf(1), ModelOf(2), ToolsOf(2), HandoffNode, END},
         SequenceFits(agent, s, node), ValidStage(s.first),
         s.second # NoStage => ValidStage(s.second)
  PROVE  SequenceRestorable(s)
<1>1. 1 \in 1..2 /\ 2 \in 1..2
  OBVIOUS
<1>2. CASE node \in {ModelOf(1), ToolsOf(1)}
  <2>1. PICK tools : SequenceActive(agent, s, 1, tools)
    BY <1>1, <1>2 DEF SequenceFits
  <2>2. ~ s.stopped /\ s.second = NoStage /\ s.first.stop = "None"
    BY <2>1 DEF SequenceActive, SequenceStage, StageTurn, NoStop
  <2> QED BY <2>2 DEF SequenceRestorable, SequencePhase
<1>3. CASE node \in {ModelOf(2), ToolsOf(2)}
  <2>1. PICK tools : SequenceActive(agent, s, 2, tools)
    BY <1>1, <1>3 DEF SequenceFits
  <2>2. /\ ~ s.stopped /\ s.second # NoStage /\ s.second.stop = NoStop
        /\ s.first.stop = "FinalAnswer"
    BY <2>1 DEF SequenceActive, SequenceStage, StageTurn
  <2> QED BY <2>2 DEF SequenceRestorable, SequencePhase
<1>4. CASE node = HandoffNode
  <2>1. ~ s.stopped /\ s.second = NoStage /\ s.first.stop = "FinalAnswer"
    BY <1>4 DEF SequenceFits
  <2> QED BY <2>1 DEF SequenceRestorable, SequencePhase
<1>5. CASE node = END
  <2>1. /\ s.stopped /\ (s.second # NoStage => s.second.stop # NoStop)
        /\ s.first.stop = IF s.second = NoStage THEN "MaxRounds" ELSE "FinalAnswer"
    BY <1>5 DEF SequenceFits, SequenceOutcome, AgentOutcome
  <2> QED BY <2>1 DEF SequenceRestorable, SequencePhase
<1> QED BY <1>2, <1>3, <1>4, <1>5

LEMMA BranchFitsRestorable ==
  ASSUME NEW agent, NEW s \in BranchStates,
         NEW node \in {ModelOf(1), ToolsOf(1), ModelOf(2), ToolsOf(2), ModelOf(3), ToolsOf(3),
                       SelectNode, END},
         BranchFits(agent, s, node), ValidStage(s.first),
         s.downstream # NoStage => ValidStage(s.downstream)
  PROVE  BranchRestorable(s)
<1>1. 1 \in 1..3 /\ 2 \in 1..3 /\ 3 \in 1..3
  OBVIOUS
<1>2. /\ s.selection \in {"none", "B", "C", "Complete"}
      /\ (s.downstream # NoStage) = (s.selection \in {"B", "C"})
  BY DEF BranchStates, BranchFits
<1>3. CASE node \in {ModelOf(1), ToolsOf(1)}
  <2>1. PICK tools : BranchActive(agent, s, 1, tools)
    BY <1>1, <1>3 DEF BranchFits
  <2>2. ~ s.stopped /\ s.selection = NoSelection /\ s.first.stop = "None"
    BY <2>1 DEF BranchActive, BranchStage, StageTurn, NoStop
  <2> QED BY <1>2, <2>2 DEF BranchRestorable, BranchPhase, NoSelection
<1>4. ASSUME NEW i \in {2, 3}, node \in {ModelOf(i), ToolsOf(i)} PROVE BranchRestorable(s)
  <2>1. PICK tools : BranchActive(agent, s, i, tools)
    BY <1>1, <1>4 DEF BranchFits
  <2>2. i # 1
    OBVIOUS
  <2>3. /\ ~ s.stopped /\ s.downstream # NoStage /\ TargetIndex(s.selection) = i
        /\ s.first.stop = "FinalAnswer" /\ StageTurn(BranchStage(s, i), agent.limits[i], tools)
    BY <2>1, <2>2, Zenon DEF BranchActive
  <2>4. s.downstream.stop = NoStop
    BY <2>3, BranchStageAt DEF StageTurn
  <2> QED BY <1>2, <2>3, <2>4 DEF BranchRestorable, BranchPhase
<1>5. CASE node = SelectNode
  <2>1. ~ s.stopped /\ s.selection = NoSelection /\ s.first.stop = "FinalAnswer"
    BY <1>5 DEF BranchFits
  <2> QED BY <1>2, <2>1 DEF BranchRestorable, BranchPhase, NoSelection
<1>6. CASE node = END
  <2>1. /\ s.stopped /\ (s.downstream # NoStage => s.downstream.stop # NoStop)
        /\ s.first.stop = IF s.selection = NoSelection THEN "MaxRounds" ELSE "FinalAnswer"
    BY <1>6 DEF BranchFits, BranchOutcome, AgentOutcome
  <2> QED BY <1>2, <2>1 DEF BranchRestorable, BranchPhase, NoSelection
<1> QED BY <1>3, <1>4, <1>5, <1>6

(* A state that fits its node can be restored, unless the model used an identifier twice.  *)
LEMMA FitsRestorable ==
  ASSUME NEW agent, Configured(agent), NEW s \in StatesOf(agent), NEW node \in NodesOf(agent),
         Fits(agent, s, node), Sound(agent, s)
  PROVE  Restorable(agent, s) \/ StagesRepeatCall(agent, s)
<1>1. CASE agent.kind = "agent"
  BY <1>1 DEF Restorable
<1>2. CASE agent.kind = "sequence"
  <2>1. /\ s \in SequenceStates /\ SequenceFits(agent, s, node)
        /\ SoundStage(s.first) /\ SoundStage(s.second)
        /\ node \in {ModelOf(1), ToolsOf(1), ModelOf(2), ToolsOf(2), HandoffNode, END}
    BY <1>2 DEF StatesOf, NodesOf, Fits, Sound
  <2>2. Len(agent.limits) = 2
    BY <1>2 DEF Configured
  <2>3. 1 \in DOMAIN agent.limits /\ 2 \in DOMAIN agent.limits
    BY <2>2 DEF Configured
  <2>4. /\ StageOf(agent, s, 1) = s.first /\ StageOf(agent, s, 2) = s.second
        /\ s.first # NoStage
    BY <1>2, <2>1, NoStageIsNone DEF StageOf, SequenceStage, SequenceStates
  <2>5. CASE ValidStage(s.first) /\ (s.second # NoStage => ValidStage(s.second))
    <3>1. SequenceRestorable(s)
      BY <2>1, <2>5, SequenceFitsRestorable
    <3> QED BY <1>2, <3>1 DEF Restorable
  <2>6. CASE ~ (ValidStage(s.first) /\ (s.second # NoStage => ValidStage(s.second)))
    <3>1. RepeatsCall(s.first.messages) \/ (s.second # NoStage /\ RepeatsCall(s.second.messages))
      BY <2>1, <2>4, <2>6 DEF SoundStage
    <3> QED BY <2>3, <2>4, <3>1, Zenon DEF StagesRepeatCall
  <2> QED BY <2>5, <2>6
<1>3. CASE agent.kind \notin {"agent", "sequence"}
  <2>1. /\ s \in BranchStates /\ BranchFits(agent, s, node)
        /\ SoundStage(s.first) /\ SoundStage(s.downstream)
        /\ node \in {ModelOf(1), ToolsOf(1), ModelOf(2), ToolsOf(2), ModelOf(3), ToolsOf(3),
                     SelectNode, END}
    BY <1>3 DEF StatesOf, NodesOf, Fits, Sound
  <2>2. Len(agent.limits) = 3
    BY <1>3 DEF Configured
  <2>3. /\ 1 \in DOMAIN agent.limits
        /\ \A i \in {2, 3} : i \in DOMAIN agent.limits
    BY <2>2 DEF Configured
  <2>4. \A i : StageOf(agent, s, i) = BranchStage(s, i)
    BY <1>3 DEF StageOf
  <2>5. StageOf(agent, s, 1) = s.first /\ s.first # NoStage
    BY <2>1, <2>4, BranchStageAt, NoStageIsNone DEF BranchStates
  <2>6. CASE ValidStage(s.first) /\ (s.downstream # NoStage => ValidStage(s.downstream))
    <3>1. BranchRestorable(s)
      BY <2>1, <2>6, BranchFitsRestorable
    <3> QED BY <1>3, <3>1 DEF Restorable
  <2>7. CASE ~ ValidStage(s.first)
    <3>1. RepeatsCall(s.first.messages)
      BY <2>1, <2>5, <2>7 DEF SoundStage
    <3> QED BY <2>3, <2>5, <3>1, Zenon DEF StagesRepeatCall
  <2>8. CASE s.downstream # NoStage /\ ~ ValidStage(s.downstream)
    <3>1. RepeatsCall(s.downstream.messages)
      BY <2>1, <2>8 DEF SoundStage
    <3>2. s.selection \in {"B", "C"}
      BY <2>1, <2>8 DEF BranchFits
    <3>3. PICK i \in {2, 3} : i = TargetIndex(s.selection)
      BY <3>2, Targets
    <3>4. StageOf(agent, s, i) = s.downstream
      BY <2>1, <2>4, <3>3, BranchStageAt
    <3> QED BY <2>3, <2>8, <3>1, <3>4, Zenon DEF StagesRepeatCall
  <2> QED BY <2>6, <2>7, <2>8
<1> QED BY <1>1, <1>2, <1>3

--------------------------------------------------------------------------------
(* Every step keeps the states usable.                                               *)

LEMMA UsableSame ==
  ASSUME UNCHANGED <<fleet, store>>
  PROVE  /\ Deployed => Deployed'
         /\ \A k : CallUsable(k) => CallUsable(k)'
         /\ \A cp : SavedUsable(cp) => SavedUsable(cp)'
<1>1. MixedLimits' = MixedLimits
  BY DEF MixedLimits
<1>2. \A a, s, n : Fits(a, s, n)' = Fits(a, s, n)
  BY <1>1 DEF Fits, AgentFits
<1>3. Deployed => Deployed'
  BY DEF Deployed
<1>4. \A k : CallUsable(k) => CallUsable(k)'
  BY <1>1, <1>2 DEF CallUsable
<1>5. \A cp : SavedUsable(cp) => SavedUsable(cp)'
  BY <1>2 DEF SavedUsable
<1> QED BY <1>3, <1>4, <1>5

(* A step of one call.                                                                *)
LEMMA UsableStep ==
  ASSUME Inv, Usable, UNCHANGED <<fleet, store>>, NEW c \in Call, NEW k,
         calls' = [calls EXCEPT ![c] = k], CallUsable(k),
         \A l \in Lines : \A n \in 1..Len(lines'[l]) : SavedUsable(lines'[l][n])
  PROVE  Usable'
<1>1. calls' = [d \in Call |-> IF d = c THEN k ELSE calls[d]]
  BY DEF Inv
<1>2. ASSUME NEW d \in Call PROVE CallUsable(calls[d])'
  <2>1. PICK x : x = calls'[d]
    OBVIOUS
  <2>2. CallUsable(x)
    BY <1>1, <2>1 DEF Usable
  <2>3. CallUsable(x)'
    BY <2>2, UsableSame
  <2> QED BY <2>1, <2>3
<1>3. ASSUME NEW l \in Lines, NEW n \in 1..Len(lines'[l]) PROVE SavedUsable(lines[l][n])'
  <2>1. PICK x : x = lines'[l][n]
    OBVIOUS
  <2>2. SavedUsable(x)'
    BY <2>1, UsableSame
  <2> QED BY <2>1, <2>2
<1>4. Deployed'
  BY UsableSame DEF Usable
<1> QED BY <1>2, <1>3, <1>4 DEF Usable

LEMMA EndedUsable ==
  ASSUME NEW result, result # "internal", result = "overrun" => MixedLimits,
         NEW k, k = Ended(result)
  PROVE  CallUsable(k)
<1>1. k.pc = "idle" /\ k.result = IF result \in {"internal", "overrun"} THEN result ELSE "returned"
  BY DEF Ended, Idle
<1> QED BY <1>1 DEF CallUsable

(* A call ends with the lineages as they are.                                          *)
LEMMA EndUsable ==
  ASSUME Inv, Usable, UNCHANGED <<fleet, store, lines>>, NEW c \in Call,
         NEW result, result \notin {"internal", "overrun"}, End(c, result)
  PROVE  Usable'
<1>1. PICK k : k = Ended(result)
  OBVIOUS
<1>2. CallUsable(k)
  BY <1>1, EndedUsable
<1>3. calls' = [calls EXCEPT ![c] = k]
  BY <1>1 DEF End
<1>4. \A l \in Lines : \A n \in 1..Len(lines'[l]) : SavedUsable(lines'[l][n])
  BY DEF Usable
<1> QED BY <1>2, <1>3, <1>4, UsableStep

LEMMA InvokeUsable ==
  ASSUME Inv, Usable, NEW c \in Call, NEW agent \in fleet, NEW op, NEW m \in Openings,
         NEW policy, Invoke(c, agent, op, m, policy)
  PROVE  Usable'
<1>1. UNCHANGED <<fleet, store, lines, granted, effects>>
  BY DEF Invoke
<1>2. CASE End(c, "refused")
  BY <1>1, <1>2, EndUsable
<1>3. CASE ~ End(c, "refused")
  <2>1. /\ Staged(agent) => Admit(m)
        /\ calls' = [calls EXCEPT ![c] =
             Running(op, agent, "main", policy, NewState(agent, m), Entry, NoValue, 0)]
    BY <1>3 DEF Invoke
  <2>2. PICK s : s = NewState(agent, m)
    OBVIOUS
  <2>3. PICK k : k = Running(op, agent, "main", policy, s, Entry, NoValue, 0)
    OBVIOUS
  <2>4. PICK steps : steps = Steps(agent)
    OBVIOUS
  <2>5. m \in Seq(Message) /\ Configured(agent)
    BY OpeningsAssumption DEF Usable, Deployed
  <2>6. s \in StatesOf(agent)
    BY <2>2, NewStateTyped
  <2>7. Fits(agent, s, Entry) /\ Sound(agent, s)
    BY <2>1, <2>2, <2>5, NewFits
  <2>8. steps \in Nat /\ Budget(agent, s, Entry, steps)
    BY <2>4, <2>5, <2>6, <2>7, StepsSuffice
  <2>9. k.pc = "run" /\ k.agent = agent /\ k.state = s /\ k.node = Entry /\ k.steps = steps
    BY <2>3, <2>4 DEF Running
  <2>10. CallUsable(k)
    BY <2>7, <2>8, <2>9 DEF CallUsable
  <2>11. \A l \in Lines : \A n \in 1..Len(lines'[l]) : SavedUsable(lines'[l][n])
    BY <1>1 DEF Usable
  <2> QED BY <1>1, <2>1, <2>2, <2>3, <2>10, <2>11, UsableStep
<1> QED BY <1>2, <1>3

(* The call a load starts, or the outcome of a completed checkpoint.                    *)
LEMMA LoadUsable ==
  ASSUME Inv, Usable, NEW c \in Call, NEW cp \in Checkpoint, SavedUsable(cp),
         NEW agent \in fleet, NEW value, Loadable(agent, cp, value), NEW op, NEW line,
         NEW policy, NEW at, Continue(c, op, agent, line, policy, cp, value, at)
  PROVE  \E k : calls' = [calls EXCEPT ![c] = k] /\ CallUsable(k)
<1>1. cp.version = Version(agent) /\ Restorable(agent, cp.state) /\ Configured(agent)
  BY DEF Loadable, Usable, Deployed
<1>2. PICK s, node : s = cp.state /\ node = cp.node
  OBVIOUS
<1>3. Fits(agent, s, node) /\ s \in StatesOf(agent)
  BY <1>1, <1>2, LoadedTyped DEF SavedUsable
<1>4. CASE node = END
  <2>1. OutcomeExists(agent, s)
    BY <1>3, <1>4, OutcomeFits
  <2>2. End(c, "Completed")
    BY <1>2, <1>4, <2>1 DEF Continue, Finish
  <2>3. PICK k : k = Ended("Completed")
    OBVIOUS
  <2>4. CallUsable(k)
    BY <2>3, EndedUsable
  <2> QED BY <2>2, <2>3, <2>4 DEF End
<1>5. CASE node # END
  <2>1. PICK k : k = Running(op, agent, line, policy, s, node, value, at)
    OBVIOUS
  <2>2. PICK steps : steps = Steps(agent)
    OBVIOUS
  <2>3. Sound(agent, s)
    BY <1>1, <1>2, RestorableSound
  <2>4. steps \in Nat /\ Budget(agent, s, node, steps)
    BY <1>1, <1>3, <2>2, StepsSuffice
  <2>5. k.pc = "run" /\ k.agent = agent /\ k.state = s /\ k.node = node /\ k.steps = steps
    BY <2>1, <2>2 DEF Running
  <2>6. CallUsable(k)
    BY <1>3, <2>3, <2>4, <2>5 DEF CallUsable
  <2>7. calls' = [calls EXCEPT ![c] = k]
    BY <1>2, <1>5, <2>1 DEF Continue
  <2> QED BY <2>6, <2>7
<1> QED BY <1>4, <1>5

LEMMA ResumeUsable ==
  ASSUME Inv, Usable, NEW c \in Call, NEW agent \in fleet, NEW line \in Lines,
         NEW pin \in 0..Len(lines[line]), NEW policy, NEW value,
         Resume(c, agent, line, pin, policy, value)
  PROVE  Usable'
<1>1. UNCHANGED <<fleet, store, lines, effects>>
  BY DEF Resume
<1>2. CASE Refuse(c)
  BY <1>1, <1>2, EndUsable DEF Refuse
<1>3. CASE ~ Refuse(c)
  <2>1. PICK at, cp :
          /\ at = IF pin = 0 THEN Len(lines[line]) ELSE pin
          /\ cp = lines[line][at]
    OBVIOUS
  <2>2. /\ lines[line] # <<>> /\ Loadable(agent, cp, value)
        /\ Continue(c, "resume", agent, line, policy, cp, value, at)
    BY <1>3, <2>1 DEF Resume
  <2>3. lines[line] \in Seq(Checkpoint)
    BY DEF Inv
  <2>4. at \in 1..Len(lines[line])
    BY <2>1, <2>2, <2>3
  <2>5. cp \in Checkpoint /\ SavedUsable(cp)
    BY <2>1, <2>3, <2>4 DEF Usable
  <2>6. PICK k : calls' = [calls EXCEPT ![c] = k] /\ CallUsable(k)
    BY <2>2, <2>5, LoadUsable
  <2>7. \A l \in Lines : \A n \in 1..Len(lines'[l]) : SavedUsable(lines'[l][n])
    BY <1>1 DEF Usable
  <2> QED BY <1>1, <2>6, <2>7, UsableStep
<1> QED BY <1>2, <1>3

LEMMA ReplayUsable ==
  ASSUME Inv, Usable, NEW c \in Call, NEW agent \in fleet, NEW line \in Lines,
         NEW at \in 1..Len(lines[line]), NEW value, Replay(c, agent, line, at, value)
  PROVE  Usable'
<1>1. UNCHANGED <<fleet, store, lines, effects>>
  BY DEF Replay
<1>2. CASE Refuse(c)
  BY <1>1, <1>2, EndUsable DEF Refuse
<1>3. CASE ~ Refuse(c)
  <2>1. PICK cp : cp = lines[line][at]
    OBVIOUS
  <2>2. /\ Loadable(agent, cp, value)
        /\ Continue(c, "replay", agent, line, "FinalOnly", cp, value, at)
    BY <1>3, <2>1 DEF Replay
  <2>3. cp \in Checkpoint /\ SavedUsable(cp)
    BY <2>1 DEF Inv, Usable
  <2>4. PICK k : calls' = [calls EXCEPT ![c] = k] /\ CallUsable(k)
    BY <2>2, <2>3, LoadUsable
  <2>5. \A l \in Lines : \A n \in 1..Len(lines'[l]) : SavedUsable(lines'[l][n])
    BY <1>1 DEF Usable
  <2> QED BY <1>1, <2>4, <2>5, UsableStep
<1> QED BY <1>2, <1>3

LEMMA ForkUsable ==
  ASSUME Inv, Usable, NEW c \in Call, NEW agent \in fleet, NEW at \in 1..Len(lines["main"]),
         NEW policy, NEW value, Fork(c, agent, at, policy, value)
  PROVE  Usable'
<1>1. UNCHANGED <<fleet, store, effects>>
  BY DEF Fork
<1>2. CASE Refuse(c) /\ UNCHANGED lines
  BY <1>1, <1>2, EndUsable DEF Refuse
<1>3. CASE ~ (Refuse(c) /\ UNCHANGED lines)
  <2>1. PICK cp, new : cp = lines["main"][at] /\ new = SubSeq(lines["main"], 1, at)
    OBVIOUS
  <2>2. /\ Loadable(agent, cp, value) /\ lines' = [lines EXCEPT !["fork"] = new]
        /\ Continue(c, "fork", agent, "fork", policy, cp, value, at)
    BY <1>3, <2>1 DEF Fork
  <2>3. /\ "main" \in Lines /\ "fork" \in Lines /\ lines \in [Lines -> Seq(Checkpoint)]
        /\ lines["main"] \in Seq(Checkpoint)
    BY DEF Lines, Inv
  <2>4. Len(lines["main"]) \in Nat /\ at \in Nat /\ at <= Len(lines["main"])
    BY <2>3
  <2>5. Len(new) = at /\ \A n \in 1..at : new[n] = lines["main"][n] /\ n \in 1..Len(lines["main"])
    BY <2>1, <2>3, <2>4
  <2>6. \A l \in Lines : lines'[l] = IF l = "fork" THEN new ELSE lines[l]
    BY <2>2, <2>3
  <2>7. ASSUME NEW l \in Lines, NEW n \in 1..Len(lines'[l]) PROVE SavedUsable(lines'[l][n])
    <3>1. CASE l = "fork"
      <4>1. n \in 1..at /\ lines'[l][n] = lines["main"][n]
        BY <2>5, <2>6, <2>7, <3>1
      <4>2. n \in 1..Len(lines["main"])
        BY <2>5, <4>1
      <4> QED BY <2>3, <4>1, <4>2 DEF Usable
    <3>2. CASE l # "fork"
      BY <2>6, <3>2 DEF Usable
    <3> QED BY <3>1, <3>2
  <2>8. cp \in Checkpoint /\ SavedUsable(cp)
    BY <2>1, <2>3 DEF Usable
  <2>9. PICK k : calls' = [calls EXCEPT ![c] = k] /\ CallUsable(k)
    BY <2>2, <2>8, LoadUsable
  <2> QED BY <1>1, <2>7, <2>9, UsableStep
<1> QED BY <1>2, <1>3

(* A call whose node's update was applied.                                             *)
LEMMA UpdateUsable ==
  ASSUME NEW k, CallTyped(k), k.steps \in Nat \ {0}, NEW u, NEW t, NEW next,
         StateCanApply(k.agent, k.state, u), t = StateApply(k.agent, k.state, u),
         next = RouteOf(k.agent, k.node, t), next # NoRoute, Fits(k.agent, t, next),
         Sound(k.agent, t), Budget(k.agent, t, next, k.steps - 1), NEW j, j = AfterUpdate(k, u)
  PROVE  CallUsable(j)
<1>1. j = AfterNode(k, t, next)
  BY Zenon DEF AfterUpdate
<1>2. PICK pc \in {"save", "run"} :
        j = [k EXCEPT !.state = t, !.node = next, !.steps = @ - 1, !.value = NoValue, !.pc = pc]
  BY <1>1 DEF AfterNode
<1>3. PICK steps : steps = k.steps - 1
  OBVIOUS
<1>4. j = [pc |-> pc, op |-> k.op, agent |-> k.agent, line |-> k.line,
           policy |-> k.policy, state |-> t, node |-> next, value |-> NoValue,
           request |-> k.request, steps |-> steps, parent |-> k.parent]
  BY <1>2, <1>3 DEF CallTyped
<1>5. /\ j.pc = pc /\ pc # "idle" /\ j.agent = k.agent /\ j.state = t /\ j.node = next
      /\ j.steps = steps
  BY <1>4
<1>6. steps \in Nat
  BY <1>3
<1> QED BY <1>3, <1>5, <1>6, Zenon DEF CallUsable

LEMMA InterruptUsable ==
  ASSUME NEW k, CallTyped(k), k.pc # "idle", CallUsable(k), NEW request, NEW j,
         j = AfterInterrupt(k, request)
  PROVE  CallUsable(j)
<1>1. CASE k.op \in {"plain", "replay"}
  <2>1. j = Ended("refused")
    BY <1>1 DEF AfterInterrupt
  <2> QED BY <2>1, EndedUsable
<1>2. CASE k.op \notin {"plain", "replay"}
  <2>1. j = [k EXCEPT !.pc = "save", !.request = request]
    BY <1>2 DEF AfterInterrupt
  <2>2. j = [pc |-> "save", op |-> k.op, agent |-> k.agent, line |-> k.line,
             policy |-> k.policy, state |-> k.state, node |-> k.node, value |-> k.value,
             request |-> request, steps |-> k.steps, parent |-> k.parent]
    BY <2>1 DEF CallTyped
  <2>3. /\ j.pc # "idle" /\ j.agent = k.agent /\ j.state = k.state /\ j.node = k.node
        /\ j.steps = k.steps
    BY <2>2
  <2> QED BY <2>3, Zenon DEF CallUsable
<1> QED BY <1>1, <1>2

LEMMA RunNodeUsable ==
  ASSUME Inv, Usable, NEW c \in Call, calls[c].pc = "run", calls[c].node # END,
         NEW o \in Outcomes(calls[c]), RunNode(c, o)
  PROVE  Usable'
<1>1. PICK k : k = calls[c]
  OBVIOUS
<1>2. CallTyped(k) /\ k.pc # "idle" /\ CallUsable(k)
  BY <1>1 DEF Inv, GoodCall, Usable
<1>3. PICK agent, s, node, value, steps :
        agent = k.agent /\ s = k.state /\ node = k.node /\ value = k.value /\ steps = k.steps
  OBVIOUS
<1>4. /\ agent \in fleet /\ Configured(agent) /\ s \in StatesOf(agent)
      /\ node \in NodesOf(agent) \ {END}
  BY <1>1, <1>2, <1>3 DEF CallTyped, Usable, Deployed
<1>5. /\ steps \in Nat /\ Fits(agent, s, node) /\ Sound(agent, s)
      /\ Budget(agent, s, node, steps)
  BY <1>2, <1>3 DEF CallUsable
<1>6. steps # 0
  BY <1>4, <1>5, StepLeft
<1>7. o \in NodeOutcomes(agent, s, node, value)
  BY <1>1, <1>3, <1>6 DEF Outcomes
<1>8. NodePlays(agent, s, node, steps, o)
  BY <1>4, <1>5, <1>7, EveryNodePlays
<1>9. o.tag \in {"update", "interrupt", "fail"}
  BY <1>4, <1>7, NodeFacts DEF NodeOutcome
<1>10. PICK j : /\ calls' = [calls EXCEPT ![c] = j]
                /\ j = CASE o.tag = "fail" -> Ended(o.why)
                         [] o.tag = "interrupt" -> AfterInterrupt(k, o.request)
                         [] OTHER -> AfterUpdate(k, o.update)
  BY <1>1 DEF RunNode
<1>11. CallUsable(j)
  <2>1. CASE o.tag = "fail"
    <3>1. PICK why : why = o.why
      OBVIOUS
    <3>2. why # "internal" /\ (why = "overrun" => MixedLimits)
      BY <1>8, <2>1, <3>1 DEF NodePlays
    <3>3. j = Ended(why)
      BY <1>10, <2>1, <3>1
    <3> QED BY <3>2, <3>3, EndedUsable
  <2>2. CASE o.tag = "interrupt"
    <3>1. j = AfterInterrupt(k, o.request)
      BY <1>10, <2>2
    <3> QED BY <1>2, <3>1, InterruptUsable
  <2>3. CASE o.tag = "update"
    <3>1. PICK u : u = o.update
      OBVIOUS
    <3>2. j = AfterUpdate(k, u)
      BY <1>10, <2>3, <3>1
    <3>3. PICK t, next :
            /\ StateCanApply(agent, s, u) /\ t = StateApply(agent, s, u)
            /\ next = RouteOf(agent, node, t) /\ next # NoRoute /\ Fits(agent, t, next)
            /\ Sound(agent, t) /\ Budget(agent, t, next, steps - 1)
      BY <1>8, <2>3, <3>1 DEF NodePlays
    <3>4. k.steps \in Nat \ {0}
      BY <1>3, <1>5, <1>6
    <3> QED BY <1>2, <1>3, <3>2, <3>3, <3>4, UpdateUsable
  <2> QED BY <1>9, <2>1, <2>2, <2>3
<1>12. UNCHANGED <<fleet, store, lines>>
  BY DEF RunNode
<1>13. \A l \in Lines : \A n \in 1..Len(lines'[l]) : SavedUsable(lines'[l][n])
  BY <1>12 DEF Usable
<1> QED BY <1>10, <1>11, <1>12, <1>13, UsableStep

LEMMA CompleteUsable ==
  ASSUME Inv, Usable, NEW c \in Call, Complete(c)
  PROVE  Usable'
<1>1. PICK k : k = calls[c]
  OBVIOUS
<1>2. k.pc = "run" /\ k.node = END /\ UNCHANGED <<fleet, store, lines>>
  BY <1>1 DEF Complete
<1>3. Fits(k.agent, k.state, END)
  BY <1>1, <1>2 DEF Usable, CallUsable
<1>4. OutcomeExists(k.agent, k.state)
  BY <1>3, OutcomeFits
<1>5. End(c, "Completed")
  BY <1>1, <1>4 DEF Complete, Finish
<1> QED BY <1>2, <1>5, EndUsable

(* What a save appends can be restored and continued by every agent that can load it.     *)
LEMMA SavedIsUsable ==
  ASSUME Usable, NEW k, CallTyped(k), k.pc # "idle", CallUsable(k), Encodes(k), NEW q,
         q = CheckpointOf(k)
  PROVE  SavedUsable(q)
<1>1. PICK agent, s, node : agent = k.agent /\ s = k.state /\ node = k.node
  OBVIOUS
<1>2. q.version = Version(agent) /\ q.state = s /\ q.node = node
  BY <1>1 DEF CheckpointOf
<1>3. /\ agent \in fleet /\ Configured(agent) /\ s \in StatesOf(agent)
      /\ node \in NodesOf(agent) /\ Fits(agent, s, node) /\ Sound(agent, s)
  BY <1>1 DEF CallTyped, CallUsable, Usable, Deployed
<1>4. store \in {"record", "memory"} /\ (store = "record" => Restorable(agent, s))
  BY <1>1 DEF Usable, Deployed, Encodes
<1>5. Restorable(agent, s) \/ StagesRepeatCall(agent, s)
  BY <1>3, FitsRestorable
<1>6. ASSUME NEW g \in fleet, Version(agent) = Version(g)
      PROVE  /\ Fits(g, s, node)
             /\ \/ Restorable(g, s)
                \/ StagesRepeatCall(g, s) /\ (Staged(g) => store = "memory")
  <2>1. Fits(g, s, node)
    BY <1>3, <1>6, FitsOther
  <2>2. Configured(g)
    BY DEF Usable, Deployed
  <2>3. /\ Restorable(agent, s) => Restorable(g, s)
        /\ StagesRepeatCall(agent, s) => StagesRepeatCall(g, s)
    BY <1>3, <1>6, <2>2, RestorableOther
  <2> QED BY <1>4, <1>5, <2>1, <2>3
<1> QED BY <1>2, <1>6, Zenon DEF SavedUsable

LEMMA SaveUsable ==
  ASSUME Inv, Usable, NEW c \in Call, Save(c)
  PROVE  Usable'
<1>1. PICK k : k = calls[c]
  OBVIOUS
<1>2. UNCHANGED <<fleet, store, left, granted, effects>> /\ k.pc = "save"
  BY <1>1 DEF Save
<1>3. CallTyped(k) /\ CallUsable(k) /\ k.pc # "idle"
  BY <1>1, <1>2 DEF Inv, GoodCall, Usable
<1>4. CASE Encodes(k) /\ ExtendsHead(k)
  <2>1. PICK l0, q : l0 \in Lines /\ l0 = k.line /\ q = CheckpointOf(k)
    BY <1>3 DEF CallTyped
  <2>2. lines' = [lines EXCEPT ![l0] = Append(@, q)]
    BY <1>1, <1>4, <2>1 DEF Save
  <2>3. SavedUsable(q)
    BY <1>3, <1>4, <2>1, SavedIsUsable
  <2>4. lines \in [Lines -> Seq(Checkpoint)] /\ lines[l0] \in Seq(Checkpoint) /\ q \in Checkpoint
    BY <1>3, <2>1, CheckpointOfTyped DEF Inv
  <2>5. PICK len \in Nat : len = Len(lines[l0])
    BY <2>4
  <2>6. PICK new : new = Append(lines[l0], q)
    OBVIOUS
  <2>7. /\ Len(new) = len + 1 /\ new[len + 1] = q
        /\ \A n \in 1..len : new[n] = lines[l0][n]
    BY <2>4, <2>5, <2>6
  <2>8. \A l \in Lines : lines'[l] = IF l = l0 THEN new ELSE lines[l]
    BY <2>2, <2>4, <2>6
  <2>9. ASSUME NEW l \in Lines, NEW n \in 1..Len(lines'[l]) PROVE SavedUsable(lines'[l][n])
    <3>1. CASE l = l0
      <4>1. lines'[l] = new /\ n \in 1..(len + 1)
        BY <2>7, <2>8, <2>9, <3>1
      <4>2. CASE n = len + 1
        BY <2>3, <2>7, <4>1, <4>2
      <4>3. CASE n # len + 1
        <5>1. n \in 1..len
          BY <2>5, <4>1, <4>3
        <5>2. SavedUsable(lines[l0][n])
          BY <2>1, <2>5, <5>1 DEF Usable
        <5> QED BY <2>7, <4>1, <5>1, <5>2
      <4> QED BY <4>2, <4>3
    <3>2. CASE l # l0
      BY <2>8, <3>2 DEF Usable
    <3> QED BY <3>1, <3>2
  <2>10. PICK j : calls' = [calls EXCEPT ![c] = j] /\ CallUsable(j)
    <3>1. CASE k.request # NoRequest \/ k.node = END
      <4>1. k.node = END => OutcomeExists(k.agent, k.state)
        BY <1>3, OutcomeFits DEF CallUsable
      <4>2. PICK result : result \in {"Interrupted", "Completed"} /\ End(c, result)
        BY <1>1, <1>4, <3>1, <4>1 DEF Save, Finish
      <4>3. PICK j : j = Ended(result)
        OBVIOUS
      <4>4. CallUsable(j)
        BY <4>2, <4>3, EndedUsable
      <4> QED BY <4>2, <4>3, <4>4 DEF End
    <3>2. CASE ~ (k.request # NoRequest \/ k.node = END)
      <4>1. calls' = [calls EXCEPT ![c].pc = "run", ![c].parent = @ + 1]
        BY <1>1, <1>4, <3>2 DEF Save
      <4>2. PICK n : n = k.parent + 1
        OBVIOUS
      <4>3. PICK j : j = [k EXCEPT !.pc = "run", !.parent = n]
        OBVIOUS
      <4>4. calls' = [calls EXCEPT ![c] = j]
        BY <1>1, <4>1, <4>2, <4>3 DEF Inv
      <4>5. j = [pc |-> "run", op |-> k.op, agent |-> k.agent, line |-> k.line,
                 policy |-> k.policy, state |-> k.state, node |-> k.node, value |-> k.value,
                 request |-> k.request, steps |-> k.steps, parent |-> n]
        BY <1>3, <4>3 DEF CallTyped
      <4>6. /\ j.pc # "idle" /\ j.agent = k.agent /\ j.state = k.state /\ j.node = k.node
            /\ j.steps = k.steps
        BY <4>5
      <4>7. CallUsable(j)
        BY <1>3, <4>6, Zenon DEF CallUsable
      <4> QED BY <4>4, <4>7
    <3> QED BY <3>1, <3>2
  <2> QED BY <1>2, <2>9, <2>10, UsableStep
<1>5. CASE ~ (Encodes(k) /\ ExtendsHead(k))
  <2>1. PICK result : result \in {"conflict", "codec"} /\ End(c, result) /\ UNCHANGED lines
    BY <1>1, <1>5 DEF Save
  <2> QED BY <1>2, <2>1, EndUsable
<1> QED BY <1>4, <1>5

--------------------------------------------------------------------------------
(* Theorems about what the agents save and how their calls end.                       *)

LEMMA InitUsable == Init => Usable
<1> SUFFICES ASSUME Init PROVE Usable
  OBVIOUS
<1>1. Deployed
  <2>1. PICK d \in Deployments : fleet = d.fleet /\ store = d.store
    BY DEF Init
  <2>2. /\ d.store \in {"record", "memory"}
        /\ \A g \in d.fleet : Configured(g)
    BY DeploymentsAssumption, Zenon DEF Configured
  <2> QED BY <2>1, <2>2, Zenon DEF Deployed
<1>2. \A l \in Lines : \A n \in 1..Len(lines[l]) : SavedUsable(lines[l][n])
  <2>1. \A l \in Lines : Len(lines[l]) = 0
    BY DEF Init
  <2> QED BY <2>1
<1>3. \A c \in Call : CallUsable(calls[c])
  <2>1. \A c \in Call : calls[c].pc = "idle" /\ calls[c].result = "none"
    BY DEF Init, Idle
  <2> QED BY <2>1 DEF CallUsable
<1> QED BY <1>1, <1>2, <1>3 DEF Usable

LEMMA StepUsable == Inv /\ Usable /\ [Next]_vars => Usable'
<1> SUFFICES ASSUME Inv, Usable, [Next]_vars PROVE Usable'
  OBVIOUS
<1>1. CASE UNCHANGED vars
  <2>1. UNCHANGED <<fleet, store, lines, calls>>
    BY <1>1 DEF vars
  <2>2. ASSUME NEW d \in Call PROVE CallUsable(calls[d])'
    <3>1. PICK x : x = calls[d]
      OBVIOUS
    <3>2. CallUsable(x)'
      BY <2>1, <3>1, UsableSame DEF Usable
    <3> QED BY <2>1, <3>1, <3>2
  <2>3. ASSUME NEW l \in Lines, NEW n \in 1..Len(lines'[l]) PROVE SavedUsable(lines[l][n])'
    <3>1. PICK x : x = lines[l][n]
      OBVIOUS
    <3>2. SavedUsable(x)'
      BY <2>1, <3>1, UsableSame DEF Usable
    <3> QED BY <2>1, <3>1, <3>2
  <2>4. Deployed'
    BY <2>1, UsableSame DEF Usable
  <2> QED BY <2>2, <2>3, <2>4 DEF Usable
<1>2. ASSUME NEW c \in Call, NEW agent \in fleet, NEW op \in {"invoke", "plain"},
             NEW m \in Openings, NEW p \in Policies, Invoke(c, agent, op, m, p)
      PROVE  Usable'
  BY <1>2, InvokeUsable
<1>3. ASSUME NEW c \in Call, NEW agent \in fleet, NEW l \in Lines, NEW p \in PoliciesOf(agent),
             NEW v \in ValuesOf(agent), NEW pin \in 0..Len(lines[l]),
             Resume(c, agent, l, pin, p, v)
      PROVE  Usable'
  BY <1>3, ResumeUsable
<1>4. ASSUME NEW c \in Call, NEW agent \in fleet, NEW l \in Lines, NEW v \in ValuesOf(agent),
             NEW at \in 1..Len(lines[l]), Replay(c, agent, l, at, v)
      PROVE  Usable'
  BY <1>4, ReplayUsable
<1>5. ASSUME NEW c \in Call, NEW agent \in fleet, NEW p \in PoliciesOf(agent),
             NEW v \in ValuesOf(agent), NEW at \in 1..Len(lines["main"]),
             Fork(c, agent, at, p, v)
      PROVE  Usable'
  BY <1>5, ForkUsable
<1>6. ASSUME NEW c \in Call, calls[c].pc = "run", calls[c].node # END,
             NEW o \in Outcomes(calls[c]), RunNode(c, o)
      PROVE  Usable'
  BY <1>6, RunNodeUsable
<1>7. ASSUME NEW c \in Call, Complete(c) PROVE Usable'
  BY <1>7, CompleteUsable
<1>8. ASSUME NEW c \in Call, Save(c) PROVE Usable'
  BY <1>8, SaveUsable
<1>9. ASSUME NEW c \in Call, Abandon(c) PROVE Usable'
  BY <1>9, EndUsable DEF Abandon
<1> QED BY <1>1, <1>2, <1>3, <1>4, <1>5, <1>6, <1>7, <1>8, <1>9 DEF Next

(* States and nodes agree: whatever a call holds or a lineage keeps is a state its node    *)
(* expects, a call has the steps it needs, and a transcript can be restored unless the     *)
(* model used an identifier twice.                                                *)
THEOREM UsableHolds == Spec => []Usable
BY InitUsable, StepUsable, Invariance, PTL DEF Spec

(* No call ends in an internal error of a router, of apply, of active and guard, of the    *)
(* step budget or of the conversion of its result, for every fleet, every choice of the    *)
(* models and tools and every interleaving of calls; a tool node meets rounds beyond its   *)
(* limit only where agents of different limits share the thread.                       *)
THEOREM InternalErrorsNeverFireHolds == Spec => []InternalErrorsNeverFire
<1>1. Usable => InternalErrorsNeverFire
  BY DEF Usable, CallUsable, InternalErrorsNeverFire
<1> QED BY <1>1, UsableHolds, PTL

LEMMA UsableSaved ==
  ASSUME Inv, Usable PROVE SavedStatesUsable
<1> SUFFICES ASSUME NEW l \in Lines, lines[l] # <<>>, NEW agent \in fleet, NEW cp,
                    cp = Last(lines[l]), cp.version = Version(agent)
             PROVE  \/ /\ Restorable(agent, cp.state)
                       /\ IF cp.node = END THEN OutcomeExists(agent, cp.state)
                          ELSE \A o \in NodeOutcomes(agent, cp.state, cp.node, NoValue) :
                                 ~ (o.tag = "fail" /\ o.why = "internal")
                    \/ StagesRepeatCall(agent, cp.state) /\ (Staged(agent) => store = "memory")
  BY DEF SavedStatesUsable
<1>1. lines[l] \in Seq(Checkpoint)
  BY DEF Inv
<1>2. PICK len \in 1..Len(lines[l]) : cp = lines[l][len]
  BY <1>1 DEF Last
<1>3. cp \in Checkpoint /\ SavedUsable(cp)
  BY <1>1, <1>2 DEF Usable
<1>4. PICK s, node : s = cp.state /\ node = cp.node
  OBVIOUS
<1>5. /\ s \in StatesOf(agent) /\ node \in NodesOf(agent) /\ Configured(agent)
      /\ Fits(agent, s, node)
  BY <1>3, <1>4, LoadedTyped DEF SavedUsable, Usable, Deployed
<1>6. \/ Restorable(agent, s)
      \/ StagesRepeatCall(agent, s) /\ (Staged(agent) => store = "memory")
  BY <1>3, <1>4 DEF SavedUsable
<1>7. node = END => OutcomeExists(agent, s)
  BY <1>5, OutcomeFits
<1>8. ASSUME Restorable(agent, s), node # END,
             NEW o \in NodeOutcomes(agent, s, node, NoValue)
      PROVE  ~ (o.tag = "fail" /\ o.why = "internal")
  <2>1. PICK steps : steps = Steps(agent)
    OBVIOUS
  <2>2. steps \in Nat /\ Budget(agent, s, node, steps)
    BY <1>5, <2>1, StepsSuffice
  <2>3. Sound(agent, s) /\ node \in NodesOf(agent) \ {END}
    BY <1>5, <1>8, RestorableSound
  <2>4. PICK value : value = NoValue
    OBVIOUS
  <2>5. NodePlays(agent, s, node, steps, o)
    BY <1>5, <1>8, <2>2, <2>3, <2>4, EveryNodePlays
  <2> QED BY <2>5 DEF NodePlays
<1> QED BY <1>4, <1>6, <1>7, <1>8

(* Whatever is saved can be continued by every agent that accepts its graph version: it is *)
(* restored, its node finds the state it expects, and a completed one has an outcome.  The *)
(* exception is a model that used a call identifier twice: the staged codecs refuse to     *)
(* save that.                                                                    *)
THEOREM SavedStatesUsableHolds == Spec => []SavedStatesUsable
<1>1. Inv /\ Usable => SavedStatesUsable
  BY UsableSaved
<1> QED BY <1>1, Invariance, UsableHolds, PTL
================================================================================
