---------------------------- MODULE GenaiStream ----------------------------
(***************************************************************************)
(* The text-only stream over genai's own chat stream                       *)
(* (crates/group-agent-genai, GenaiEventStream): genai's events are mapped *)
(* one by one, tool calls and thought signatures are refused, and the end  *)
(* event queues what closes the response.                                  *)
(*                                                                         *)
(* External: genai's stream, whose events are Start, Chunk,                *)
(* ReasoningChunk, ThoughtSignatureChunk, ToolCallChunk and End.           *)
(***************************************************************************)
EXTENDS ModelStream

CONSTANTS RetainReasoning, \* retain_reasoning_content
          MaxReasoning,    \* max_reasoning_bytes
          MaxSignature,    \* max_thought_signature_bytes
          ResolvedModel    \* resolved_model

NewGenaiStream ==
    [pending |-> <<>>, saw_start |-> FALSE, saw_end |-> FALSE, terminal |-> FALSE,
     reasoning |-> <<>>]

Yields(s, item) == [stream |-> s, item |-> item]

\* fail: the stream is over, and what was queued is lost.
FailGenai(s) ==
    Yields([s EXCEPT !.terminal = TRUE, !.pending = <<>>], Fault("stream"))

ReasoningFits(s, text) == ~RetainReasoning \/ Len(s.reasoning) + Len(text) <= MaxReasoning
PushReasoning(s, text) == IF RetainReasoning THEN [s EXCEPT !.reasoning = @ \o text] ELSE s

\* handle_end: the captured content may add reasoning, and the reasoning
\* captured apart must then repeat it all.
ReasoningAgrees(s, end) ==
    LET full == PushReasoning(s, end.content_reasoning)
    IN  /\ ReasoningFits(s, end.content_reasoning)
        /\ \/ ~RetainReasoning \/ end.reasoning = None
           \/ IF full.reasoning = <<>> THEN ReasoningFits(full, end.reasoning)
              ELSE full.reasoning = end.reasoning

\* The captured content is text, reasoning and `signature` bytes of thought
\* signatures, and an identifier is not blank.
EndFits(s, end) ==
    /\ end.parts \subseteq {"text"}
    /\ end.signature <= MaxSignature
    /\ end.id # ""
    /\ ReasoningAgrees(s, end)
    /\ Consistent(end.usage)

\* A usage that reports anything, be it a detail that is not retained.
Reports(usage) == \E f \in UsageFields : usage[f] # None

\* handle_end: ResponseStarted, the usage if it reports anything, Finished.
ClosingEvents(end) ==
    <<Started(end.id, ResolvedModel)>>
    \o (IF Reports(end.usage) THEN <<Usage(Retained(end.usage))>> ELSE <<>>)
    \o <<Finished(end.reason)>>

\* The event at the head of the queue; the last one ends the stream.
PopGenai(s) ==
    Yields([s EXCEPT !.pending = Tail(@), !.terminal = s.saw_end /\ Tail(s.pending) = <<>>],
           Head(s.pending))

\* poll_next when genai's stream is over.
InnerEnd(s) ==
    IF s.saw_end THEN Yields([s EXCEPT !.terminal = TRUE], End) ELSE FailGenai(s)

\* poll_next when genai's stream fails.
InnerFault(s) == Yields([s EXCEPT !.terminal = TRUE], Fault("stream"))

\* poll_next with genai's next event.
MapGenaiEvent(s, event) ==
    CASE event.kind = "start" ->
           IF s.saw_start THEN FailGenai(s) ELSE Yields([s EXCEPT !.saw_start = TRUE], Nothing)
      [] event.kind = "chunk" -> Yields(s, TextDelta(event.text))
      [] event.kind = "reasoning" ->
           IF ReasoningFits(s, event.text) THEN Yields(PushReasoning(s, event.text), Nothing)
           ELSE FailGenai(s)
      [] event.kind = "end" ->
           IF s.saw_end \/ ~EndFits(s, event) THEN FailGenai(s)
           ELSE PopGenai([s EXCEPT !.pending = ClosingEvents(event), !.saw_end = TRUE,
                                   !.reasoning = <<>>])
      [] OTHER -> FailGenai(s)
=============================================================================
