----------------------------- MODULE OpenAiChat -----------------------------
(***************************************************************************)
(* The strict OpenAI Chat stream (crates/group-agent-genai, openai_chat):  *)
(* server-sent events are framed byte by byte, the frames are decoded into *)
(* chat events, and the connection is released at [DONE].                  *)
(*                                                                         *)
(* A byte of the wire is CR, LF or one letter that stands for the text of  *)
(* a whole line: a comment, an event type, or a line of data. Data is a    *)
(* chunk, or one half of a chunk sent on two lines.                        *)
(***************************************************************************)
EXTENDS ModelStream

CONSTANTS MaxSseEvent,  \* max_sse_event_bytes
          MaxToolCalls, \* max_tool_calls
          MaxArguments  \* max_tool_argument_bytes, of all calls

CR == [line |-> "CR"]
LF == [line |-> "LF"]
Comment == [line |-> "comment"]
EventType(type) == [line |-> "event", type |-> type]
DataLine(data, part) == [line |-> "data", data |-> data, part |-> part]
DONE == [done |-> TRUE]

\* serde_json::from_str of the lines of one event, joined by newlines.
Garbled == [garbled |-> TRUE]
Joined(lines) ==
    IF Len(lines) = 1 /\ lines[1].part = "whole" THEN lines[1].data
    ELSE IF Len(lines) = 2 /\ lines[1].part = "first" /\ lines[2].part = "second"
            /\ lines[1].data = lines[2].data
    THEN lines[1].data ELSE Garbled

-----------------------------------------------------------------------------
(* Framer.                                                                 *)

NewFramer == [line |-> <<>>, data |-> <<>>, event |-> "", after_cr |-> FALSE, size |-> 0]

Framed(f) == [framer |-> f, data |-> None, ok |-> TRUE]
Unframed(f) == [framer |-> f, data |-> None, ok |-> FALSE]

\* A blank line dispatches the event, if it has data.
DispatchEvent(f) ==
    LET cleared == [f EXCEPT !.size = 0, !.event = "", !.data = <<>>]
    IN  IF f.event \notin {"", "message"} THEN Unframed(f)
        ELSE IF f.data = <<>> THEN Framed(cleared)
        ELSE [framer |-> cleared, data |-> Joined(f.data), ok |-> TRUE]

\* The end of a line that is not blank.
FieldOf(f) ==
    LET text == f.line[1]
        read == [f EXCEPT !.line = <<>>]
    IN  CASE text.line = "data" -> [read EXCEPT !.data = Append(@, text)]
          [] text.line = "event" -> [read EXCEPT !.event = text.type]
          [] OTHER -> read

\* Framer::push after the check of CRLF.
PushCounted(f, byte) ==
    LET g == [f EXCEPT !.after_cr = (byte = CR), !.size = @ + 1]
    IN  IF g.size > MaxSseEvent THEN Unframed(g)
        ELSE IF byte \notin {CR, LF} THEN Framed([g EXCEPT !.line = Append(@, byte)])
        ELSE IF g.line = <<>> THEN DispatchEvent(g) ELSE Framed(FieldOf(g))

\* Mutant: the line feed of a CRLF ends a line of its own.
PushByteEachEol(f, byte) == PushCounted(f, byte)

\* Framer::push.
PushByte(f, byte) ==
    IF f.after_cr /\ byte = LF THEN Framed([f EXCEPT !.after_cr = FALSE])
    ELSE PushCounted(f, byte)

-----------------------------------------------------------------------------
(* Decoder. A chunk is what its JSON object says; a chunk with `error` is  *)
(* a provider's error, another kind of object or has a blank identifier; a *)
(* choice that is not `plain` has a wrong index, role, identifier or type  *)
(* of call, or unsupported content.                                        *)

NewDecoder ==
    [calls |-> <<>>, argument_bytes |-> 0, response_id |-> None, model |-> None,
     finish |-> None, pending |-> <<>>, done |-> FALSE, ok |-> TRUE]

Invalid(d) == [d EXCEPT !.ok = FALSE]
Emit(d, event) == [d EXCEPT !.pending = Append(@, event)]

\* identity: what is given must be what was given before.
Changed(known, given) == given # None /\ known # None /\ given # known
Learned(known, given) == IF given # None THEN given ELSE known

Identity(d, chunk) ==
    IF Changed(d.response_id, chunk.id) \/ Changed(d.model, chunk.model) THEN Invalid(d)
    ELSE [d EXCEPT !.response_id = Learned(@, chunk.id), !.model = Learned(@, chunk.model)]

Ids(d) == {d.calls[i].id : i \in DOMAIN d.calls}

\* A fragment of a call already opened must agree with it; one that opens a
\* call needs a name and an id no other call has.
FragmentFits(d, tool) ==
    /\ tool.index < MaxToolCalls
    /\ IF tool.index \in DOMAIN d.calls
       THEN /\ ~Changed(d.calls[tool.index].id, tool.id)
            /\ ~Changed(d.calls[tool.index].name, tool.name)
       ELSE tool.id # None /\ tool.name # None /\ tool.id \notin Ids(d)
    /\ d.argument_bytes + Len(tool.args) <= MaxArguments

\* The delta of a fragment: id and name only when it opens the call.
FragmentDelta(d, tool) ==
    IF tool.index \in DOMAIN d.calls THEN ToolDelta(tool.index, None, None, tool.args)
    ELSE ToolDelta(tool.index, tool.id, tool.name, tool.args)

\* Decoder::tool.
Tool(d, tool) ==
    IF ~d.ok \/ ~FragmentFits(d, tool) THEN Invalid(d)
    ELSE LET call == IF tool.index \in DOMAIN d.calls THEN d.calls[tool.index]
                     ELSE [id |-> tool.id, name |-> tool.name, args |-> <<>>]
             grown == [call EXCEPT !.args = @ \o tool.args]
         IN  [Emit(d, FragmentDelta(d, tool)) EXCEPT
                 !.argument_bytes = @ + Len(tool.args),
                 !.calls = [i \in DOMAIN d.calls \cup {tool.index} |->
                                IF i = tool.index THEN grown ELSE d.calls[i]]]

\* The finish reason must say whether there are calls.
ReasonFits(d, reason) ==
    IF d.calls = <<>> THEN reason \in {"stop", "length", "content_filter"}
    ELSE reason = "tool_calls"

\* push_value, the one choice.
Choice(d, choice) ==
    IF d.finish # None \/ ~choice.plain \/ d.response_id = None \/ d.model = None
    THEN Invalid(d)
    ELSE LET spoken == IF choice.text = <<>> THEN d ELSE Emit(d, TextDelta(choice.text))
             after[n \in 0..Len(choice.tools)] ==
                 IF n = 0 THEN spoken ELSE Tool(after[n - 1], choice.tools[n])
             called == IF Len(choice.tools) > MaxToolCalls THEN Invalid(spoken)
                       ELSE after[Len(choice.tools)]
         IN  IF choice.finish = None \/ ~called.ok THEN called
             ELSE IF ReasonFits(called, choice.finish)
             THEN [called EXCEPT !.finish = choice.finish] ELSE Invalid(called)

\* push_value. A chunk without a choice is the usage tail.
PushValue(d, chunk) ==
    LET known == Identity(d, chunk)
        chosen == IF chunk.choices # <<>> THEN Choice(known, chunk.choices[1]) ELSE known
        usable == IF chunk.choices = <<>> THEN d.finish # None /\ chunk.usage # None
                  ELSE Len(chunk.choices) = 1
    IN  IF chunk.error \/ ~known.ok \/ ~usable \/ ~chosen.ok THEN Invalid(d)
        ELSE IF chunk.usage = None THEN chosen
        ELSE IF Consistent(chunk.usage) THEN Emit(chosen, Usage(Retained(chunk.usage)))
        ELSE Invalid(d)

\* Decoder::finish, at [DONE].
FinishDecoding(d) ==
    IF d.finish = None \/ \E i \in DOMAIN d.calls : d.calls[i].args \notin JsonArgs
    THEN Invalid(d)
    ELSE [Emit(Emit(d, Started(d.response_id, d.model)), Finished(d.finish)) EXCEPT
             !.finish = None, !.response_id = None, !.model = None, !.calls = <<>>,
             !.done = TRUE]

\* Decoder::push.
PushData(d, data) ==
    CASE data = DONE -> FinishDecoding(d)
      [] data = Garbled -> Invalid(d)
      [] OTHER -> PushValue(d, data)

-----------------------------------------------------------------------------
(* StreamState.                                                            *)

NewStreamState ==
    [request |-> TRUE, response |-> FALSE, bytes |-> <<>>, framer |-> NewFramer,
     decoder |-> NewDecoder]

\* next may read a byte it has.
HasByte(s) == s.bytes # <<>> /\ s.decoder.pending = <<>> /\ ~s.decoder.done

\* The decoder after a byte: it is given the event the byte ends, if any.
DecodedWith(s, framed) ==
    IF framed.data = None THEN s.decoder ELSE PushData(s.decoder, framed.data)

\* One byte through the framer and, when it ends an event, the decoder. At
\* [DONE] the connection and what it still holds are let go.
ReadByte(s, framed, decoder) ==
    LET read == [s EXCEPT !.bytes = IF decoder.done THEN <<>> ELSE Tail(@),
                          !.response = @ /\ ~decoder.done,
                          !.framer = framed.framer, !.decoder = decoder]
    IN  [stream |-> read,
         item |-> IF framed.ok /\ decoder.ok THEN Nothing ELSE Fault("stream")]

\* The oldest event decoded.
HasPending(s) == s.decoder.pending # <<>>
PopPending(s) ==
    [stream |-> [s EXCEPT !.decoder.pending = Tail(@)], item |-> Head(s.decoder.pending)]

\* Waiting for the next bytes of the response.
AwaitsChunk(s) == ~s.request /\ s.response /\ s.bytes = <<>> /\ ~HasPending(s)
=============================================================================
