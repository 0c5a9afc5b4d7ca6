----------------------------- MODULE MCComponents -----------------------------
(* Each of the components on its small instance.                           *)
EXTENDS Components, ParsedStream

-----------------------------------------------------------------------------
(* Normalizers: what the frames of each protocol can say.                  *)

Choice(c, tools, legacy) ==
    [index |-> c, text |-> <<>>, finishes |-> FALSE, tools |-> tools, legacy |-> legacy,
     extra |-> FALSE]
Tool(t, text) == [index |-> t, id |-> Absent, text |-> text]
Chunk(choices) == [kind |-> "chunk", response |-> "response", usage |-> FALSE,
                   error |-> FALSE, choices |-> choices]

MCChatData ==
    {[kind |-> "unreadable"], [kind |-> "silent"],
     Chunk(<<>>), [Chunk(<<>>) EXCEPT !.error = TRUE], [Chunk(<<>>) EXCEPT !.usage = TRUE],
     Chunk(<<[Choice(0, <<>>, NoText) EXCEPT !.text = <<"hi">>, !.finishes = TRUE,
                                             !.extra = TRUE]>>),
     Chunk(<<Choice(0, <<Tool(0, <<"open">>), Tool(1, <<"close">>)>>, NoText)>>),
     Chunk(<<Choice(0, <<Tool(1, <<"open">>)>>, NoText),
             Choice(1, <<Tool(0, <<"close">>)>>, NoText)>>),
     Chunk(<<Choice(0, <<Tool(-1, <<"open">>)>>, <<"close">>)>>),
     Chunk(<<Choice(-1, <<>>, NoText)>>)}

Event(kind, item, call, text) == [kind |-> kind, item |-> item, call |-> call, text |-> text]

MCResponsesData ==
    {[kind |-> "unreadable"]} \cup
    {Event(k, "i", Absent, <<"open">>) : k \in {"text.delta", "text.done", "arguments.delta",
        "message", "created", "call.added", "item.other", "completed.usage", "error"}} \cup
    {Event(k, Absent, Absent, NoText) : k \in {"arguments.delta", "call.done", "other"}} \cup
    {Event("arguments.delta", "j", Absent, <<"close">>),
     Event("arguments.done", "i", Absent, <<"open", "close">>),
     Event("call.done", "j", "call", NoText)}

Block(kind, index, type, text) ==
    [kind |-> kind, index |-> index, type |-> type, text |-> text, usage |-> FALSE]

MCAnthropicData ==
    {[kind |-> "unreadable"]} \cup
    {Block(k, -1, Absent, <<>>) : k \in {"message_start", "content_block_delta",
        "message_stop", "error", "other"}} \cup
    {[Block("message_delta", -1, Absent, <<>>) EXCEPT !.usage = TRUE]} \cup
    {Block("content_block_start", i, "tool_use", <<>>) : i \in {0, 1}} \cup
    {Block("content_block_start", 0, "thinking", <<"hi">>)} \cup
    {Block("content_block_delta", i, "input_json_delta", <<"open">>) : i \in {0, 1}} \cup
    {Block("content_block_delta", 0, t, <<"close">>) :
        t \in {"input_json_delta", "text_delta", "other_delta"}}

Recording(request, outcome, complete, dropped) ==
    [request |-> request, outcome |-> outcome, complete |-> complete, dropped |-> dropped]

MCRecordings == {Recording("results", "completed", TRUE, FALSE),
               Recording("unreadable", "client_aborted", FALSE, TRUE)}

Item(kind) == [kind |-> kind, text |-> <<"open">>]
MCBodies == {[kind |-> k, items |-> <<>>, usage |-> FALSE] : k \in {"unreadable", "error"}}
    \cup {[kind |-> "object", items |-> <<Item(k), Item(l)>>, usage |-> u] :
             k, l \in {"text", "call", "scalar", "other"}, u \in BOOLEAN}
    \cup {[kind |-> "object", items |-> <<>>, usage |-> u] : u \in BOOLEAN}

-----------------------------------------------------------------------------
(* Sessionization.                                                         *)

Signal(analysis, explicit, adapter, ancestors, client) ==
    [analysis |-> analysis, explicit |-> explicit, adapter |-> adapter,
     ancestors |-> ancestors, client |-> client]
MCSignals ==
    {Signal(<<>>, <<>>, <<>>, <<>>, "c"), Signal(<<>>, <<>>, <<>>, <<>>, "d"),
     Signal(<<>>, <<>>, <<>>, <<"q", "r">>, "c"),
     Signal(<<"k">>, <<>>, <<>>, <<"r">>, "c"),
     Signal(<<>>, <<"analysis", "k">>, <<>>, <<>>, "c"),
     Signal(<<>>, <<>>, <<"a">>, <<>>, "d")}

-----------------------------------------------------------------------------
(* ContextReconstruction.                                                  *)

NoResponse == "none"
NotAString == "not a string"

Turned(kind, content, previousId, response, outcome) ==
    [protocol |-> kind, content |-> content, previous |-> previousId,
     conversation |-> FALSE, managed |-> FALSE, kept |-> TRUE,
     response |-> response, outcome |-> outcome]
Turn(p, r) == Turned("openai.responses", <<"text", "reasoning">>, p, r, "whole")
MCTurns ==
    {Turn(p, r) : p \in {NoResponse, "p", "q", "r"}, r \in {"p", "q", "r"}}
    \cup {[Turn(NoResponse, "p") EXCEPT !.outcome = o] : o \in {"cut", "withheld"}}
    \cup {[Turn("p", "q") EXCEPT !.kept = FALSE], [Turn("p", "q") EXCEPT !.conversation = TRUE],
          [Turn(NoResponse, "p") EXCEPT !.managed = TRUE], Turn(NotAString, "q"),
          Turned("openai.chat-completions", <<"text", "call", "result">>, NoResponse, "q", "whole"),
          Turned("anthropic.messages", <<"result", "text">>, NoResponse, "q", "whole"),
          Turned("unknown-openai-compatible", <<>>, NoResponse, NoResponse, "whole")}

-----------------------------------------------------------------------------
(* AnalysisService.                                                        *)

Plain == [type |-> "none", verb |-> "none", path |-> "none", names |-> "none", says |-> {},
          call |-> "none", parent |-> 0, source |-> "proxy", request |-> 0]
User(says) == [Plain EXCEPT !.type = "message.user", !.names = "file", !.says = says]
MCEvents ==
    {User({"imperative", "destroys"}),
     [Plain EXCEPT !.type = "tool.result", !.path = "file", !.names = "file",
                   !.says = {"strong", "destroys"}, !.parent = 1],
     [Plain EXCEPT !.type = "tool.call", !.verb = "delete", !.path = "file", !.parent = 1],
     [Plain EXCEPT !.type = "file.delete", !.verb = "delete", !.path = "file", !.parent = 2],
     [Plain EXCEPT !.type = "model.request"] @@
        [completeness |-> "exact-client-request", cites |-> {}, shows |-> {1}]}

-----------------------------------------------------------------------------
(* ArchiveTransfer, once for the way of an archive and once for deletion.  *)

MCBodyOf == [x \in {"x1", "x2"} |-> "body"]
MCHolderOf == [x \in {"x1", "x2"} |-> IF x = "x1" THEN "s1" ELSE "s2"]
MCHomeOf == [s \in {"s1", "s2", "a1"} |-> "home"]
MCTargetOf == [a \in {"a1"} |-> "s1"]

-----------------------------------------------------------------------------
(* SchemaMigration: no database, one of a later build, one with a forged    *)
(* ledger.                                                                 *)

MCDatabases ==
    LET none == [exists |-> FALSE, version |-> 0, ledger |-> {}, guards |-> {},
                 exchanges |-> {}, aborted |-> FALSE]
    IN  {none, [none EXCEPT !.exists = TRUE, !.version = 7, !.ledger = 1 .. 7],
         [none EXCEPT !.exists = TRUE, !.version = 3, !.ledger = {1, 3}]}

-----------------------------------------------------------------------------
(* BlobStore: a daemon with two exchanges at once and a ceiling, and a     *)
(* wrapper without one; x is recorded by both.                             *)

OwnContents == ("d1" :> {"x", "y1"}) @@ ("d2" :> {"y2", "y3"}) @@ ("w1" :> {"x"})
SharedContents == ("d1" :> {"x"}) @@ ("d2" :> {}) @@ ("w1" :> {"x"})
MCProcessOf == ("d1" :> "daemon") @@ ("d2" :> "daemon") @@ ("w1" :> "wrapper")
AllUses == {{}, {"cleaning", "failure"}}

-----------------------------------------------------------------------------
(* EvidenceJournal: two exchanges of a session without a wrapper, beside a  *)
(* wrapper with a session of its own.                                      *)

MCSessionOf == [x \in {"x1", "x2"} |-> "p"]
MCNormalized ==
    [x \in {"x1", "x2"} |-> IF x = "x1" THEN <<"model.event", "model.error">> ELSE <<>>]
=============================================================================
