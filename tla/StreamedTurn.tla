---------------------------- MODULE StreamedTurn ----------------------------
(***************************************************************************)
(* One streamed model round, end to end: the provider's bytes (or genai's  *)
(* events) arrive in pieces, are decoded, pass the structured-output       *)
(* wrapper, reach the collector of the model node, and their deltas leave  *)
(* through the agent's event stream, while subscribers follow the graph's  *)
(* events. The invocation is one model round long.                         *)
(*                                                                         *)
(* A step here is finer than a poll: a poll of the invocation goes on from *)
(* step to step until it waits for the network or yields after a delta.    *)
(***************************************************************************)
EXTENDS EventStreams, OpenAiChat, GenaiStream

CONSTANTS Scripts,      \* what the provider may send, and how it was asked
          MaxChunk,     \* bound: symbols one read of the network returns
          GraphOpening, \* graph events before the model node runs
          GraphClosing  \* graph events after it

ASSUME GraphEventsAssumption == GraphOpening \in Nat /\ GraphClosing \in Nat

\* Text is letters one after the other.
IsText(x) == x \in Seq({x[k] : k \in DOMAIN x})

IsChunk(data) ==
    /\ IsText(data.choices)
    /\ \A k \in DOMAIN data.choices : LET c == data.choices[k] IN
         /\ IsText(c.text) /\ IsText(c.tools)
         /\ \A j \in DOMAIN c.tools : IsText(c.tools[j].args)

\* A frame of the strict path, and an event of genai's.
IsFrame(f) ==
    /\ f.lines \in {"comment", "whole", "halves"}
    /\ f.lines # "comment" => f.data = DONE \/ IsChunk(f.data)
IsGenaiEvent(e) == e.kind = "chunk" => IsText(e.text)

ASSUME ScriptsAssumption ==
    \A s \in Scripts :
        /\ IsText(s.sends) /\ s.structured \in BOOLEAN
        /\ IF s.policy = "OpenAiChat"
           THEN s.eol \in {<<CR, LF>>, <<CR>>, <<LF>>} /\ \A k \in DOMAIN s.sends : IsFrame(s.sends[k])
           ELSE \A k \in DOMAIN s.sends : IsGenaiEvent(s.sends[k])

VARIABLES script,   \* the exchange of this turn
          wire,     \* what the provider has not delivered yet
          faulted,  \* the network failed or the stream was cut
          raw,      \* StreamState or GenaiEventStream
          wrapper,  \* the structured-output wrapper
          node      \* ModelNode: its phase, collector and result

turn == <<script, wire, faulted, raw, wrapper, node>>
vars == <<turn, watching>>

-----------------------------------------------------------------------------
(* A script of the strict path is a sequence of frames, sent as lines with *)
(* one kind of line end; a script of the text-only path is the sequence of *)
(* genai's events.                                                         *)

Native == script.policy = "OpenAiChat"

LinesOf(frame) ==
    (IF frame.type = "" THEN <<>> ELSE <<EventType(frame.type)>>)
    \o CASE frame.lines = "comment" -> <<Comment>>
         [] frame.lines = "whole" -> <<DataLine(frame.data, "whole")>>
         [] frame.lines = "halves" -> <<DataLine(frame.data, "first"), DataLine(frame.data, "second")>>

Rendered(frame, eol) ==
    LET lines == LinesOf(frame)
    IN  FlattenSeq([k \in DOMAIN lines |-> <<lines[k]>> \o eol]) \o eol

WireOf(s) ==
    IF s.policy = "OpenAiChat"
    THEN FlattenSeq([k \in DOMAIN s.sends |-> Rendered(s.sends[k], s.eol)])
    ELSE s.sends

Init ==
    /\ WatchInit
    /\ script \in Scripts
    /\ wire = WireOf(script) /\ faulted = FALSE
    /\ raw = IF Native THEN NewStreamState ELSE NewGenaiStream
    /\ wrapper = NewWrapper(script.structured)
    /\ node = [phase |-> "idle", collector |-> NewCollector, failure |-> None, response |-> None]

-----------------------------------------------------------------------------
(* ModelNode.                                                              *)

ModelStarted == [kind |-> "model_started"]
ModelCompleted == [kind |-> "model_completed"]
Outcome == [kind |-> "outcome"]

Failing(by) ==
    [node |-> [node EXCEPT !.phase = "failed", !.failure = by],
     emits |-> <<>>, graph |-> GraphClosing, result |-> "failed"]

Going(collector, emits) ==
    [node |-> [node EXCEPT !.collector = collector],
     emits |-> emits, graph |-> 0, result |-> "running"]

Completing ==
    [node |-> [node EXCEPT !.phase = "completed", !.response = Response(node.collector)],
     emits |-> <<ModelCompleted, Outcome>>, graph |-> GraphClosing, result |-> "ok"]

\* The loop over the stream: an event is collected before its delta is shown,
\* and a response is made when the stream ends.
NodeTakes(item) ==
    CASE item = Nothing -> Going(node.collector, <<>>)
      [] item.kind = "fault" -> Failing(item.by)
      [] item = End -> IF node.collector.state = "finished" THEN Completing
                       ELSE Failing("collector")
      [] OTHER -> IF ~Collects(node.collector, item) THEN Failing("collector")
                  ELSE Going(Collect(node.collector, item),
                             IF item.kind \in {"text", "tool"} THEN <<item>> ELSE <<>>)

\* The invocation goes on with what the model node makes of an item, and
\* yields after a delta (YieldNow).
Proceed(taken) ==
    \E n \in {taken} : node' = n.node /\ PollDrives(n.emits, n.graph, n.result, n.emits # <<>>)

\* validate_stream_request: the policy allows what the request may produce.
Streams == script.policy # "Disabled" /\ (script.tools => Native)

\* The model node starts: ChatModel::stream, then ModelStarted. genai may
\* fail to open its stream (exec_chat_stream).
StartRound ==
    /\ Driven /\ node.phase = "idle"
    /\ \/ /\ Streams
          /\ node' = [node EXCEPT !.phase = "streaming"]
          /\ PollDrives(<<ModelStarted>>, GraphOpening, "running", FALSE)
          /\ UNCHANGED faulted
       \/ /\ Streams => ~Native
          /\ faulted' = Streams
          /\ node' = Failing("request").node
          /\ PollDrives(<<>>, GraphOpening + GraphClosing, "failed", FALSE)
    /\ UNCHANGED <<script, wire, raw, wrapper>>

-----------------------------------------------------------------------------
(* The stream the node reads: the raw stream, through the wrapper.         *)

Reading == Driven /\ node.phase = "streaming" /\ wrapper.open

\* The raw stream gave this result.
Passes(result) ==
    \E got \in {result} : \E wrapped \in {Wrap(wrapper, got.item)} :
        /\ raw' = got.stream
        /\ wrapper' = wrapped.wrapper
        /\ Proceed(NodeTakes(wrapped.item))

\* The wrapper has given Finished and is asked again.
EndOfValidated ==
    /\ Driven /\ node.phase = "streaming" /\ ~wrapper.open
    /\ Proceed(NodeTakes(End))
    /\ UNCHANGED <<script, wire, faulted, raw, wrapper>>

\* StreamState::next sends the request: a response of the right kind, or a
\* transport failure, a bad status or content type.
SendRequest ==
    /\ Reading /\ Native /\ raw.request
    /\ \E ok \in BOOLEAN :
         /\ faulted' = ~ok
         /\ Passes([stream |-> [raw EXCEPT !.request = FALSE, !.response = ok],
                    item |-> IF ok THEN Nothing ELSE Fault("stream")])
    /\ UNCHANGED <<script, wire>>

\* The network delivers some of what is left.
ReceiveChunk ==
    /\ Reading /\ Native /\ AwaitsChunk(raw)
    /\ \E n \in 1..MaxChunk :
         /\ n <= Len(wire)
         /\ Passes([stream |-> [raw EXCEPT !.bytes = SubSeq(wire, 1, n)], item |-> Nothing])
         /\ wire' = SubSeq(wire, n + 1, Len(wire))
    /\ UNCHANGED <<script, faulted>>

\* MissingStreamEnd.
CutResult == [stream |-> raw, item |-> Fault("stream")]

\* The connection is closed or breaks, perhaps before everything was sent.
LoseConnection ==
    /\ Reading /\ Native /\ AwaitsChunk(raw)
    /\ faulted' = (faulted \/ wire # <<>>)
    /\ Passes(CutResult)
    /\ UNCHANGED <<script, wire>>

DecodeByte ==
    /\ Reading /\ Native /\ HasByte(raw)
    /\ \E framed \in {PushByte(raw.framer, Head(raw.bytes))} :
         \E decoder \in {DecodedWith(raw, framed)} : Passes(ReadByte(raw, framed, decoder))
    /\ UNCHANGED <<script, wire, faulted>>

TakePending ==
    /\ Reading /\ Native /\ HasPending(raw)
    /\ Passes(PopPending(raw))
    /\ UNCHANGED <<script, wire, faulted>>

\* Everything decoded has been taken after [DONE].
EndOfDecoded ==
    /\ Reading /\ Native /\ raw.decoder.done /\ ~HasPending(raw)
    /\ Passes([stream |-> raw, item |-> End])
    /\ UNCHANGED <<script, wire, faulted>>

\* GenaiEventStream::poll_next.
GenaiQueued ==
    /\ Reading /\ ~Native /\ raw.pending # <<>>
    /\ Passes(PopGenai(raw))
    /\ UNCHANGED <<script, wire, faulted>>

GenaiPolls ==
    /\ Reading /\ ~Native /\ ~raw.terminal /\ raw.pending = <<>>
    /\ \/ /\ wire # <<>>
          /\ Passes(MapGenaiEvent(raw, Head(wire)))
          /\ wire' = Tail(wire) /\ UNCHANGED faulted
       \/ /\ Passes(InnerEnd(raw))
          /\ faulted' = (faulted \/ wire # <<>>) /\ UNCHANGED wire
       \/ /\ Passes(InnerFault(raw))
          /\ faulted' = TRUE /\ UNCHANGED wire
    /\ UNCHANGED script

GenaiOver ==
    /\ Reading /\ ~Native /\ raw.terminal
    /\ Passes([stream |-> raw, item |-> End])
    /\ UNCHANGED <<script, wire, faulted>>

Drive ==
    \/ StartRound \/ EndOfValidated
    \/ SendRequest \/ ReceiveChunk \/ LoseConnection \/ DecodeByte \/ TakePending \/ EndOfDecoded
    \/ GenaiQueued \/ GenaiPolls \/ GenaiOver

Next == Drive \/ (Watch /\ UNCHANGED turn)

Spec == Init /\ [][Next]_vars

\* A provider delivers, closes or fails; the rest is WatchFairly.
FairSpec == Spec /\ WatchFairly /\ WF_vars(Drive)

-----------------------------------------------------------------------------
(* What the provider sent, told from the script as a whole.                *)

IsDone(k) == script.sends[k].data = DONE
Ends == {k \in DOMAIN script.sends :
            IF Native THEN IsDone(k) ELSE script.sends[k].kind = "end"}
EndAt == CHOOSE k \in Ends : \A j \in Ends : k <= j
Before == SubSeq(script.sends, 1, EndAt - 1)

\* What each element of a sequence brings, one after the other.
Gathered(seq, Brings(_)) == FlattenSeq([k \in DOMAIN seq |-> Brings(seq[k])])

\* The chunks before [DONE], and their one choice each.
Chunks == Gathered(Before, LAMBDA f : IF f.lines = "comment" THEN <<>> ELSE <<f.data>>)
Turns == Gathered(Chunks, LAMBDA c : c.choices)
Fragments == Gathered(Turns, LAMBDA t : t.tools)
Snapshots == Gathered(Chunks, LAMBDA c : IF c.usage = None THEN <<>> ELSE <<Retained(c.usage)>>)

SentText ==
    IF Native THEN Gathered(Turns, LAMBDA t : t.text)
    ELSE Gathered(Before, LAMBDA e : IF e.kind = "chunk" THEN e.text ELSE <<>>)

SentCall(fragments, index) ==
    LET mine == SelectSeq(fragments, LAMBDA t : t.index = index)
    IN  [id |-> mine[1].id, name |-> mine[1].name, args |-> Gathered(mine, LAMBDA t : t.args)]

SentCalls ==
    IF ~Native THEN <<>>
    ELSE LET fragments == Fragments
             order == SetToSortSeq({fragments[k].index : k \in DOMAIN fragments}, <)
         IN  [k \in DOMAIN order |-> SentCall(fragments, order[k])]

\* The last value each field was given.
LastTold(usages) ==
    [f \in UsageFields |->
        LET told == SelectSeq(usages, LAMBDA u : u[f] # None)
        IN  IF told = <<>> THEN None ELSE Last(told)[f]]

SentUsage ==
    IF Native THEN LET told == Snapshots IN IF told = <<>> THEN None ELSE LastTold(told)
    ELSE LET usage == script.sends[EndAt].usage
         IN  IF \E f \in DOMAIN usage : usage[f] # None THEN Retained(usage) ELSE None

SentReason ==
    IF Native THEN Last(SelectSeq(Turns, LAMBDA t : t.finish # None)).finish
    ELSE script.sends[EndAt].reason

Sent == [text |-> SentText, calls |-> SentCalls, usage |-> SentUsage, reason |-> SentReason]
Heard(r) == [text |-> r.text, calls |-> r.calls, usage |-> r.usage, reason |-> r.reason]

\* What of the wire comes after the end of the response. (The CR of a CRLF
\* already ends the line.)
AfterEnd == LET rest == SubSeq(script.sends, EndAt + 1, Len(script.sends))
            IN  Len(WireOf([script EXCEPT !.sends = rest]))
                + (IF Native THEN Len(script.eol) - 1 ELSE 0)

(* A completed round is what the provider sent up to its end marker, no    *)
(* more and no less, wherever the network cut the bytes; and a stream cut  *)
(* before the marker never completes.                                      *)
(* (StreamState::next, ChatStreamCollector)                                *)
ResponseIsWhatWasSent ==
    node.phase = "completed" => Ends # {} /\ Len(wire) <= AfterEnd /\ Heard(node.response) = Sent

\* The deltas the caller of the agent's stream is shown.
ShownText == Gathered(emitted, LAMBDA e : IF e.kind = "text" THEN e.text ELSE <<>>)
ShownArgs(index) ==
    Gathered(emitted, LAMBDA e :
        IF e.kind = "tool" /\ e.index = index THEN e.args ELSE <<>>)

(* The deltas already shown add up to what has been collected, whether the *)
(* round goes on, fails or completes; and the response of a structured     *)
(* round is the one that was validated, although the wrapper and the node  *)
(* each collect it and every event but the last goes past the wrapper      *)
(* before the validation (structured_output::stream, ModelNode).           *)
DeltasAddUp ==
    /\ ShownText = node.collector.text
    /\ \A i \in DOMAIN node.collector.calls : ShownArgs(i) = node.collector.calls[i].args
    /\ node.phase = "completed" =>
         /\ node.collector.state = "finished" /\ node.response = Response(node.collector)
         /\ script.structured => ValidResponse(node.response)

-----------------------------------------------------------------------------
\* The frames decoded one after the other, with no framing and no network.
Decoded ==
    LET typed(f) == f.type \in {"", "message"} /\ 2 * Len(LinesOf(f)) + 1 <= MaxSseEvent
        step(d, f) == IF ~d.ok \/ d.done THEN d
                      ELSE IF ~typed(f) THEN Invalid(d)
                      ELSE IF f.lines = "comment" THEN d
                      ELSE PushData(d, f.data)
    IN  FoldLeft(step, NewDecoder, script.sends)

\* Snapshots of one growing usage: counters never decrease, details never
\* change, and every total covers the counters told so far.
Cumulative(usages) ==
    /\ \A i, j \in DOMAIN usages : i < j =>
         /\ \A c \in Counters :
               None \in {usages[i][c], usages[j][c]} \/ usages[i][c] <= usages[j][c]
         /\ \A d \in Details : None \in {usages[i][d], usages[j][d]} \/ usages[i][d] = usages[j][d]
    /\ \A n \in DOMAIN usages : Consistent(LastTold(SubSeq(usages, 1, n)))

SentReasoning ==
    Gathered(Before, LAMBDA e : IF e.kind = "reasoning" THEN e.text ELSE <<>>)

\* What the collector asks of a response beyond the decoder: its own limits,
\* and snapshots it can merge.
FitsCollector ==
    /\ Len(SentText) <= MaxText
    /\ \A fragment \in ToSet(Fragments) : fragment.index <= MaxIndex
    /\ \A call \in ToSet(SentCalls) : Len(call.args) <= MaxCallArgs
    /\ Cumulative(Snapshots)

\* The script is one a faultless network turns into a response.
Deserves ==
    /\ Streams /\ Ends # {}
    /\ IF Native THEN Decoded.done /\ Decoded.ok /\ FitsCollector
       ELSE /\ Cardinality({k \in 1..EndAt : script.sends[k].kind = "start"}) <= 1
            /\ \A k \in 1..(EndAt - 1) : script.sends[k].kind \in {"start", "chunk", "reasoning"}
            /\ ReasoningFits(NewGenaiStream, SentReasoning)
            /\ EndFits(PushReasoning(NewGenaiStream, SentReasoning), script.sends[EndAt])
            /\ Len(SentText) <= MaxText
    /\ script.structured => ValidResponse(Sent)

(* A round fails only when the network failed or cut the stream, or for    *)
(* what the whole script says of it: the provider's frames, read one by    *)
(* one, are not a response, or the response read from them is one a layer  *)
(* refuses. How the network cut the bytes, the line ends, the queue of     *)
(* decoded events and the order in which the layers meet the events never  *)
(* cost a response. The layers do refuse what another lets pass: the       *)
(* collector refuses snapshots the decoder lets pass when a counter        *)
(* decreases, a total falls behind or the token details change (which the  *)
(* adapter attaches by default), and calls over its own limits; the        *)
(* wrapper refuses a text the schema does. Such scripts are told apart     *)
(* here (FitsCollector, ValidResponse), not lost to the property.          *)
FailureIsDeserved == node.phase = "failed" => faulted \/ ~Deserves
=============================================================================
