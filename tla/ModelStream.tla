---------------------------- MODULE ModelStream ----------------------------
(***************************************************************************)
(* The model facade's side of a streamed response                          *)
(* (crates/group-agent-model): the events of a chat stream, the collector  *)
(* that turns them into a response, and the wrapper that holds back the    *)
(* end of a structured response until it is known to be valid. Everything  *)
(* here is a function of a record; StreamedTurn keeps the records.         *)
(*                                                                         *)
(* Text and arguments are sequences of letters, and what serde_json and    *)
(* the schema accept of them is a constant.                                *)
(***************************************************************************)
EXTENDS Naturals, Sequences, FiniteSets, SequencesExt

CONSTANTS MaxIndex,    \* DEFAULT_MAX_TOOL_CALL_INDEX
          MaxText,     \* DEFAULT_MAX_TEXT_BYTES
          MaxCallArgs, \* DEFAULT_MAX_TOOL_ARGUMENT_BYTES, of one call
          MaxOutput,   \* MAX_TEXT of a structured response
          JsonArgs,    \* arguments serde_json accepts
          ValidOutput, \* texts the response schema accepts
          RetainDetails, \* retain_usage_details of the adapter's configuration
          None

\* What a usage tells: counters, and details that are extensions of it.
Counters == {"input", "output", "total"}
Details == {"prompt", "completion"}
UsageFields == Counters \cup Details

-----------------------------------------------------------------------------
(* ChatStreamEvent.                                                        *)

Started(id, model) == [kind |-> "started", id |-> id, model |-> model]
TextDelta(text) == [kind |-> "text", text |-> text]
ToolDelta(index, id, name, args) ==
    [kind |-> "tool", index |-> index, id |-> id, name |-> name, args |-> args]
Usage(usage) == [kind |-> "usage", usage |-> usage]
Finished(reason) == [kind |-> "finished", reason |-> reason]

-----------------------------------------------------------------------------
(* TokenUsage: counters that may be missing and must not decrease, and     *)
(* details that must not change. A provider's usage tells the same fields. *)

Known(usage) == {c \in Counters : usage[c] # None}

\* A provider's usage as the adapters pass it on.
Retained(usage) ==
    [f \in UsageFields |-> IF f \in Details /\ ~RetainDetails THEN None ELSE usage[f]]

\* TokenUsage::validate: a total covers the counters that are known.
Consistent(usage) ==
    "total" \in Known(usage) =>
        LET parts == Known(usage) \ {"total"}
        IN  IF parts = {"input", "output"}
            THEN usage["total"] >= usage["input"] + usage["output"]
            ELSE \A c \in parts : usage["total"] >= usage[c]

\* Mutant: what the snapshot leaves out is forgotten.
SnapshotReplacing(usage, snapshot) == snapshot

\* The usage after a snapshot: what it leaves out is kept.
Snapshot(usage, snapshot) ==
    [f \in UsageFields |-> IF snapshot[f] # None THEN snapshot[f] ELSE usage[f]]

\* A value already known is told again (validate_idempotent_merge).
Repeats(usage, snapshot, detail) ==
    usage[detail] # None /\ snapshot[detail] # None => snapshot[detail] = usage[detail]

\* merge_snapshot accepts it.
Mergeable(usage, snapshot) ==
    /\ \A c \in Known(usage) \cap Known(snapshot) : snapshot[c] >= usage[c]
    /\ Consistent(Snapshot(usage, snapshot))
    /\ \A d \in Details : Repeats(usage, snapshot, d)

-----------------------------------------------------------------------------
(* ChatStreamCollector.                                                    *)

NewCollector ==
    [state |-> "active", started |-> FALSE, id |-> None, model |-> None, text |-> <<>>,
     calls |-> <<>>, usage |-> None, reason |-> None]

\* PendingToolCall of an index.
CallAt(c, index) ==
    IF index \in DOMAIN c.calls THEN c.calls[index]
    ELSE [id |-> None, name |-> None, args |-> <<>>]

\* push_tool_delta: an index in range, an id and a name given once. (Neither
\* path puts extensions on a delta, so merging them cannot be refused.)
ToolDeltaFits(c, e) ==
    LET call == CallAt(c, e.index)
    IN  /\ e.index <= MaxIndex
        /\ e.id = None \/ call.id = None
        /\ e.name = None \/ call.name = None
        /\ Len(call.args) + Len(e.args) <= MaxCallArgs

\* validate_finished.
CallsComplete(c) ==
    \A i \in DOMAIN c.calls :
        c.calls[i].id # None /\ c.calls[i].name # None /\ c.calls[i].args \in JsonArgs

\* push takes this event.
Collects(c, e) ==
    /\ c.state = "active"
    /\ CASE e.kind = "started" -> ~c.started
         [] e.kind = "text" -> Len(c.text) + Len(e.text) <= MaxText
         [] e.kind = "tool" -> ToolDeltaFits(c, e)
         [] e.kind = "usage" -> c.usage = None \/ Mergeable(c.usage, e.usage)
         [] e.kind = "finished" -> CallsComplete(c)

WithToolDelta(c, e) ==
    LET call == CallAt(c, e.index)
        grown == [id |-> IF e.id # None THEN e.id ELSE call.id,
                  name |-> IF e.name # None THEN e.name ELSE call.name,
                  args |-> call.args \o e.args]
    IN  [c EXCEPT !.calls = [i \in DOMAIN c.calls \cup {e.index} |->
                                 IF i = e.index THEN grown ELSE c.calls[i]]]

\* push_active, of an event it takes.
Collect(c, e) ==
    CASE e.kind = "started" -> [c EXCEPT !.started = TRUE, !.id = e.id, !.model = e.model]
      [] e.kind = "text" -> [c EXCEPT !.text = @ \o e.text]
      [] e.kind = "tool" -> WithToolDelta(c, e)
      [] e.kind = "usage" -> [c EXCEPT !.usage = IF @ = None THEN e.usage
                                                 ELSE Snapshot(@, e.usage)]
      [] e.kind = "finished" -> [c EXCEPT !.reason = e.reason, !.state = "finished"]

\* finish: the response of a collector that has seen Finished.
Response(c) ==
    [text |-> c.text, usage |-> c.usage, id |-> c.id, model |-> c.model, reason |-> c.reason,
     calls |-> LET order == SetToSortSeq(DOMAIN c.calls, <)
               IN  [k \in DOMAIN order |-> c.calls[order[k]]]]

-----------------------------------------------------------------------------
(* Structured output.                                                      *)

\* validate_response: an intermediate tool round with distinct calls, or a
\* stopped response whose text the schema accepts.
ValidResponse(r) ==
    /\ Len(r.text) <= MaxOutput
    /\ IF r.calls # <<>>
       THEN /\ r.reason = "tool_calls"
            /\ \A i, j \in DOMAIN r.calls : r.calls[i].id = r.calls[j].id => i = j
       ELSE r.reason = "stop" /\ r.text \in ValidOutput

\* What a stream gives for one call of next.
Nothing == [kind |-> "nothing"]
End == [kind |-> "end"]
Fault(by) == [kind |-> "fault", by |-> by]
IsEvent(item) == item.kind \notin {"nothing", "end", "fault"}

\* The wrapper of stream::validate, or None where no output was asked for.
NewWrapper(structured) == [on |-> structured, open |-> TRUE, collector |-> NewCollector]

Wrapping(w, collector, item) == [wrapper |-> [w EXCEPT !.collector = collector], item |-> item]
Closing(w, item) == [wrapper |-> [w EXCEPT !.open = FALSE], item |-> item]

\* Mutant: Finished is passed on as it comes.
WrapPassingFinished(w, item) ==
    IF ~w.on \/ ~IsEvent(item) THEN [wrapper |-> w, item |-> item]
    ELSE Wrapping(w, Collect(w.collector, item), item)

\* validate's unfold: the raw stream's item, and what the caller is given.
\* A closed wrapper is asked once more after Finished and has ended.
Wrap(w, item) ==
    IF ~w.on \/ item = Nothing THEN [wrapper |-> w, item |-> item]
    ELSE IF item.kind = "fault" THEN Closing(w, item)
    ELSE IF item = End
    THEN Closing(w, IF w.collector.state # "finished" THEN Fault("collector")
                    ELSE IF ValidResponse(Response(w.collector))
                    THEN Finished(w.collector.reason) ELSE Fault("output"))
    ELSE IF /\ item.kind = "text" /\ w.collector.state = "active"
            /\ Len(w.collector.text) + Len(item.text) > MaxOutput
    THEN Closing(w, Fault("output"))
    ELSE IF ~Collects(w.collector, item) THEN Closing(w, Fault("collector"))
    ELSE Wrapping(w, Collect(w.collector, item),
                  IF item.kind = "finished" THEN Nothing ELSE item)
=============================================================================
