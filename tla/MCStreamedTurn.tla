--------------------------- MODULE MCStreamedTurn ---------------------------
(* StreamedTurn for TLC: exchanges on either path, as they should be and as  *)
(* they should not, each limit of the configuration exceeded by one of them. *)
EXTENDS StreamedTurn

NoUsage == [f \in UsageFields |-> None]
Told(input, output, total) ==
    [NoUsage EXCEPT !["input"] = input, !["output"] = output, !["total"] = total]
Detailed(usage, prompt, completion) ==
    [usage EXCEPT !["prompt"] = prompt, !["completion"] = completion]

Chunk(choices, usage) ==
    [error |-> FALSE, id |-> "r", model |-> "m", choices |-> choices, usage |-> usage]
Says(text, tools, finish) ==
    <<[plain |-> TRUE, text |-> text, tools |-> tools, finish |-> finish]>>
Text(text) == Chunk(Says(text, <<>>, None), None)
Calls(tools) == Chunk(Says(<<>>, tools, None), None)
Stop(reason) == Chunk(Says(<<>>, <<>>, reason), None)
Tail0(usage) == [Chunk(<<>>, usage) EXCEPT !.id = None]
Part(index, id, name, args) == [index |-> index, id |-> id, name |-> name, args |-> args]

Frame(data) == [type |-> "", lines |-> "whole", data |-> data]
Halves(data) == [type |-> "", lines |-> "halves", data |-> data]
Message(data) == [type |-> "message", lines |-> "whole", data |-> data]
Ping == [type |-> "", lines |-> "comment", data |-> None]
Alarm == [type |-> "alarm", lines |-> "comment", data |-> None]
Exchange(structured, tools, eol, sends) ==
    [policy |-> "OpenAiChat", structured |-> structured, tools |-> tools, eol |-> eol,
     sends |-> sends]

Speech == <<Frame(Text(<<"a">>)), Ping, Halves(Text(<<"b">>)), Message(Stop("stop")),
            Frame(Tail0(Told(1, None, 2))), Frame(DONE), Frame(Text(<<"c">>))>>
TwoCalls == <<Frame(Calls(<<Part(1, "c1", "n", <<"x">>), Part(0, "c0", "n", <<"x">>)>>)),
              Frame(Calls(<<Part(0, "c0", "n", <<"y">>), Part(1, None, None, <<"y">>)>>)),
              Frame(Stop("tool_calls")), Frame(DONE)>>
Answer(text) == <<Frame(Text(text)), Frame(Stop("stop")), Frame(DONE)>>
Turncoat == <<Frame(Text(<<"a">>)), Frame([Stop("stop") EXCEPT !.id = "other"]), Frame(DONE)>>
Unfinished == <<Frame(Text(<<"a">>)), Frame(DONE)>>
Misled == <<Frame(Text(<<"a">>)), Frame(Stop("tool_calls")), Frame(DONE)>>
Alarmed == <<Alarm>> \o Unfinished

\* Usage told twice. The decoder lets all of these pass, the collector only the
\* first two: then a counter decreases, a total falls behind, a detail changes.
Counted(opening, closing) ==
    <<Frame(Chunk(Says(<<"a">>, <<>>, "length"), opening)), Frame(Tail0(closing)), Frame(DONE)>>
Countings ==
    {Counted(Told(2, None, None), Told(None, 2, 4)),
     Counted(Detailed(Told(2, 1, 3), "p", None), Detailed(Told(2, 2, 4), "p", "c")),
     Counted(Told(2, 2, 4), Told(1, 2, 4)), Counted(Told(2, None, None), Told(None, 1, 2)),
     Counted(Detailed(Told(2, 1, 3), "p", None), Detailed(Told(2, 2, 4), "q", None))}

\* Calls made in one chunk: complete, with one id, with open arguments, with
\* too many fragments, too high an index, too many arguments in all; and, for
\* the collector alone, too high an index and too many arguments of one call.
Calling(tools) == <<Frame(Calls(tools)), Frame(Stop("tool_calls")), Frame(DONE)>>
Call(index, id, args) == Part(index, id, "n", args)
Callings ==
    {Calling(<<Call(0, "c0", <<"x", "y">>), Call(1, "c1", <<"x", "y">>)>>),
     Calling(<<Call(0, "c0", <<"x", "y">>), Call(1, "c0", <<"x", "y">>)>>),
     Calling(<<Call(0, "c0", <<"x">>)>>),
     Calling(<<Call(0, "c0", <<"x">>), Call(0, None, <<"y">>), Call(0, None, <<>>), Call(0, None, <<>>)>>),
     Calling(<<Call(3, "c3", <<"x", "y">>)>>),
     Calling(<<Call(0, "c0", <<"x", "y">>), Call(1, "c1", <<"x", "y", "x">>)>>),
     Calling(<<Call(2, "c2", <<"x", "y">>)>>), Calling(<<Call(0, "c0", <<"x", "y", "x", "y">>)>>)}

\* An event of more lines than fit.
LongEvent == <<[Halves(Text(<<"a">>)) EXCEPT !.type = "message"]>> \o Answer(<<"b">>)

Ended0(reason, usage) ==
    [kind |-> "end", parts |-> {"text"}, signature |-> 0, content_reasoning |-> <<>>,
     reasoning |-> None, reason |-> reason, id |-> "r", usage |-> usage]
Genai(tools, sends) ==
    [policy |-> "TextOnly", structured |-> FALSE, tools |-> tools, sends |-> sends]
Start == [kind |-> "start"]
Spoken(text) == [kind |-> "chunk", text |-> text]
Thought(text) == [kind |-> "reasoning", text |-> text]
Signed(end, size) == [end EXCEPT !.signature = size]
Monologue == <<Start, Thought(<<"t">>), Spoken(<<"a">>), Spoken(<<>>),
               [Signed(Ended0("stop", Detailed(Told(1, 1, 2), "p", "c")), 1)
                   EXCEPT !.reasoning = <<"t">>], Start>>

TurnScripts ==
    {Exchange(FALSE, FALSE, <<CR, LF>>, Speech), Exchange(FALSE, FALSE, <<LF>>, Speech),
     Exchange(FALSE, TRUE, <<LF>>, TwoCalls), Exchange(TRUE, TRUE, <<LF>>, TwoCalls),
     Exchange(TRUE, FALSE, <<CR>>, Answer(<<"a">>)), Exchange(TRUE, FALSE, <<CR>>, Answer(<<"b">>)),
     Exchange(TRUE, FALSE, <<LF>>, Answer(<<"a", "b", "c">>)),
     Exchange(FALSE, FALSE, <<LF>>, Answer(<<"a", "b", "c", "d">>))}
    \cup {Exchange(FALSE, TRUE, <<LF>>, s) :
            s \in Countings \cup Callings
                  \cup {Turncoat, Unfinished, Misled, Alarmed, LongEvent}}
    \cup {Genai(FALSE, Monologue), Genai(TRUE, Monologue), Genai(FALSE, <<Start, Start>>),
          Genai(FALSE, <<Start, Thought(<<"t">>), Ended0("stop", NoUsage)>>),
          Genai(FALSE, <<Start, Signed(Ended0("stop", NoUsage), 2)>>),
          Genai(FALSE, <<Start, [Ended0("stop", NoUsage) EXCEPT !.id = ""]>>),
          Genai(FALSE, <<Start, Spoken(<<"a", "b">>), Spoken(<<"c", "d">>), Ended0("stop", NoUsage)>>),
          Genai(FALSE, <<Thought(<<"t">>), Thought(<<"u">>), Thought(<<"v">>)>>),
          Genai(FALSE, <<Start, [kind |-> "tool"]>>),
          [Genai(FALSE, Monologue) EXCEPT !.policy = "Disabled"]}

Arguments == {<<"x", "y">>, <<"x", "y", "x", "y">>}
Schema == {<<"a">>}
=============================================================================
